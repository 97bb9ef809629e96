---------------------------- MODULE PacketChannel ----------------------------
(***************************************************************************)
(* What a connector between thread blocks promises, without its locks, its *)
(* condition variable and its polling: a fixed pool of packets circulates  *)
(* between the blocks on the input side, a first-in first-out queue and    *)
(* the blocks on the output side.  A packet is in exactly one place, it is *)
(* delivered in the order it was stored, and a Get comes back without a    *)
(* packet only when one side of the channel has no connected pin left, or  *)
(* when the caller's own output pin was disconnected.                      *)
(***************************************************************************)
EXTENDS Sequences

CONSTANTS
  InPins,   (* the pins (threads) that fill packets                          *)
  OutPins,  (* the pins (threads) that consume packets                       *)
  Packets   (* the pool                                                      *)

VARIABLES
  free,       (* packets ready to be filled                                  *)
  queue,      (* filled packets, in the order they were stored               *)
  held,       (* the packets each pin's thread has in its hands              *)
  calling,    (* the pins with a Get under way                               *)
  connected,  (* the pins that are connected                                 *)
  closed      (* a side has no connected pin, and this has been noticed      *)

vars == <<free, queue, held, calling, connected, closed>>

Pins == InPins \union OutPins

Init ==
  /\ free = Packets
  /\ queue = <<>>
  /\ held = [t \in Pins |-> {}]
  /\ calling = {}
  /\ connected = {}
  /\ closed = TRUE

OneSideEmpty(S) == S \intersect InPins = {} \/ S \intersect OutPins = {}

(* A pin is created; the channel opens with its first pin on each side. *)
Connect(t) ==
  /\ connected' = connected \union {t}
  /\ closed' = OneSideEmpty(connected')
  /\ UNCHANGED <<free, queue, held, calling>>

Cut(t) ==
  /\ connected' = connected \ {t}
  /\ UNCHANGED <<free, queue, held, calling, closed>>

Close ==
  /\ OneSideEmpty(connected)
  /\ closed' = TRUE
  /\ UNCHANGED <<free, queue, held, calling, connected>>

BeginGet(t) ==
  /\ t \notin calling
  /\ calling' = calling \union {t}
  /\ UNCHANGED <<free, queue, held, connected, closed>>

(* Get of an input pin: some free packet. *)
Take(p) ==
  /\ p \in calling
  /\ \E k \in free :
       /\ free' = free \ {k}
       /\ held' = [held EXCEPT ![p] = @ \union {k}]
  /\ calling' = calling \ {p}
  /\ UNCHANGED <<queue, connected, closed>>

(* Get of an output pin: the oldest filled packet. *)
Deliver(c) ==
  /\ c \in calling
  /\ queue # <<>>
  /\ queue' = Tail(queue)
  /\ held' = [held EXCEPT ![c] = @ \union {Head(queue)}]
  /\ calling' = calling \ {c}
  /\ UNCHANGED <<free, connected, closed>>

(* Get returns no packet. *)
Fail(t) ==
  /\ t \in calling
  /\ closed \/ t \in OutPins \ connected
  /\ calling' = calling \ {t}
  /\ UNCHANGED <<free, queue, held, connected, closed>>

(* Store of an input pin: the packet joins the queue. *)
Put(p) ==
  \E k \in held[p] :
    /\ queue' = Append(queue, k)
    /\ held' = [held EXCEPT ![p] = @ \ {k}]
    /\ UNCHANGED <<free, calling, connected, closed>>

(* Store of an output pin: the packet can be filled again. *)
GiveBack(c) ==
  \E k \in held[c] :
    /\ free' = free \union {k}
    /\ held' = [held EXCEPT ![c] = @ \ {k}]
    /\ UNCHANGED <<queue, calling, connected, closed>>

Next ==
  \/ Close
  \/ \E t \in Pins : Connect(t) \/ Cut(t) \/ BeginGet(t) \/ Fail(t)
  \/ \E p \in InPins : Take(p) \/ Put(p)
  \/ \E c \in OutPins : Deliver(c) \/ GiveBack(c)

Spec == Init /\ [][Next]_vars
=============================================================================
