----------------------------- MODULE ConnectorRR -----------------------------
(***************************************************************************)
(* VAConnectorRR with the part of VAConnector it inherits: a pool of       *)
(* VADataPackets that goes round between the blocks on the input pins and  *)
(* the blocks on the output pins.                                          *)
(*                                                                         *)
(* A pin belongs to one thread block, so a pin stands for the thread that  *)
(* calls Get and Store through it; one more thread, the application's main *)
(* thread, creates the pins before the blocks run and disconnects them in  *)
(* VAThreadBlock::StopAllThreads.  A step of the model is what a thread    *)
(* does between two points where another thread can see or change what it  *)
(* works on.  Only m_mutex protects the pipes; m_noInput, m_noOutput and   *)
(* the pin lists are read without the mutexes that protect their writers.  *)
(***************************************************************************)
EXTENDS Integers, Sequences, FiniteSets, Functions

CONSTANTS
  InPins,    (* the input pins: threads that fill packets                    *)
  OutPins,   (* the output pins: threads that consume packets                *)
  MaxIn,     (* m_maxIn, the number of input pins the connector may create   *)
  MaxOut,    (* m_maxOut                                                     *)
  BufferNum, (* packets per input, the constructor's bufferNum               *)
  NoPin      (* no thread: the mutex is free                                 *)

ASSUME PinsAssumption ==
  /\ InPins \intersect OutPins = {}
  /\ NoPin \notin InPins \union OutPins

ASSUME FinitePins == IsFiniteSet(InPins) /\ IsFiniteSet(OutPins)

ASSUME SizeAssumption == MaxIn \in Nat /\ MaxOut \in Nat /\ BufferNum \in Nat

Pins == InPins \union OutPins
Packets == 1 .. MaxIn * BufferNum

VARIABLES
  inPipe,            (* m_inPipe: the packets that can be filled             *)
  outPipe,           (* m_outPipe: the packets to consume                    *)
  mutex,             (* the owner of m_mutex                                 *)
  pins,              (* m_inputPins and m_outputPins                         *)
  disconnectedPins,  (* m_inputDisconnectedPins, m_outputDisconnectedPins    *)
  noInput,           (* m_noInput                                            *)
  noOutput,          (* m_noOutput                                           *)
  pc,                (* where each pin's thread is; "waiting" is in m_cond   *)
  held,              (* the packets each pin's thread has in its hands       *)
  main,              (* where the main thread is                             *)
  leaving            (* the pin the main thread is disconnecting             *)

pipes == <<inPipe, outPipe>>
wiring == <<pins, disconnectedPins, noInput, noOutput>>
vars == <<inPipe, outPipe, mutex, pins, disconnectedPins, noInput, noOutput,
          pc, held, main, leaving>>

Init ==
  /\ inPipe = [i \in Packets |-> i]
  /\ outPipe = <<>>
  /\ mutex = NoPin
  /\ pins = {}
  /\ disconnectedPins = {}
  /\ noInput = TRUE
  /\ noOutput = TRUE
  /\ pc = [t \in Pins |-> "idle"]
  /\ held = [t \in Pins |-> {}]
  /\ main = "wiring"
  /\ leaving = NoPin

-----------------------------------------------------------------------------
(* The condition variable. *)

Waiting == {c \in OutPins : pc[c] = "waiting"}

(* A thread that is woken has to take m_mutex again before it goes on. *)
Woken(S, at) == [t \in Pins |-> IF t \in S THEN "lock" ELSE at[t]]

(* notify_all, by a thread that leaves the other threads at "at". *)
NotifyAll(at) == pc' = Woken(Waiting, at)

(* notify_one wakes one waiter, whichever, if there is one. *)
NotifyOne(at) ==
  \/ Waiting = {} /\ pc' = at
  \/ \E c \in Waiting : pc' = Woken({c}, at)

At(t, label) == [pc EXCEPT ![t] = label]

Closed == noInput \/ noOutput

-----------------------------------------------------------------------------
(* The main thread. *)

NewInputPin(p) ==
  /\ main = "wiring"
  /\ p \in InPins \ pins
  /\ Cardinality(pins \intersect InPins) < MaxIn
  /\ pins' = pins \union {p}
  /\ noInput' = FALSE
  /\ UNCHANGED <<pipes, mutex, disconnectedPins, noOutput, pc, held, main, leaving>>

NewOutputPin(c) ==
  /\ main = "wiring"
  /\ c \in OutPins \ pins
  /\ Cardinality(pins \intersect OutPins) < MaxOut
  /\ pins' = pins \union {c}
  /\ noOutput' = FALSE
  /\ UNCHANGED <<pipes, mutex, disconnectedPins, noInput, pc, held, main, leaving>>

(* VAThreadBlock::RunAllThreads, once both sides have been connected. *)
RunAllThreads ==
  /\ main = "wiring"
  /\ ~Closed
  /\ main' = "steady"
  /\ UNCHANGED <<pipes, mutex, wiring, pc, held, leaving>>

(* DisconnectPin: the pin changes list ... *)
DisconnectPin(t) ==
  /\ main = "steady"
  /\ t \in pins
  /\ pins' = pins \ {t}
  /\ disconnectedPins' = disconnectedPins \union {t}
  /\ leaving' = t
  /\ main' = "moved"
  /\ UNCHANGED <<pipes, mutex, noInput, noOutput, pc, held>>

LastOfItsSide ==
  \/ leaving \in InPins /\ pins \intersect InPins = {}
  \/ leaving \in OutPins /\ pins \intersect OutPins = {}

(* ... the waiters are notified ... *)
TriggerMoved ==
  /\ main = "moved"
  /\ NotifyAll(pc)
  /\ main' = IF LastOfItsSide THEN "last" ELSE "steady"
  /\ UNCHANGED <<pipes, mutex, wiring, held, leaving>>

(* ... and when its list is empty the flag is set ... *)
SetFlag ==
  /\ main = "last"
  /\ noInput' = (noInput \/ leaving \in InPins)
  /\ noOutput' = (noOutput \/ leaving \in OutPins)
  /\ main' = "flagged"
  /\ UNCHANGED <<pipes, mutex, pins, disconnectedPins, pc, held, leaving>>

(* ... and they are notified again.  None of this takes m_mutex. *)
TriggerFlagged ==
  /\ main = "flagged"
  /\ NotifyAll(pc)
  /\ main' = "steady"
  /\ UNCHANGED <<pipes, mutex, wiring, held, leaving>>

-----------------------------------------------------------------------------
(* The thread of a pin.  It may start a call even after its pin was         *)
(* disconnected: VAThreadBlock reads its pin and then calls it, while Stop  *)
(* disconnects the pin and only then forgets it.                            *)

Running(t) == main # "wiring" /\ t \in pins \union disconnectedPins

GetInput(p) ==
  /\ Running(p) /\ pc[p] = "idle"
  /\ pc' = At(p, "in_flags")
  /\ UNCHANGED <<pipes, mutex, wiring, held, main, leaving>>

(* Mutant: GetInput tests m_noInput only. *)
InFlags_InputOnly(p) ==
  /\ pc[p] = "in_flags"
  /\ pc' = At(p, IF noInput THEN "in_trigger" ELSE "in_pop")
  /\ UNCHANGED <<pipes, mutex, wiring, held, main, leaving>>

InFlags(p) ==
  /\ pc[p] = "in_flags"
  /\ pc' = At(p, IF Closed THEN "in_trigger" ELSE "in_pop")
  /\ UNCHANGED <<pipes, mutex, wiring, held, main, leaving>>

(* Mutant: GetInput returns without waking the consumers. *)
InTrigger_Silent(p) ==
  /\ pc[p] = "in_trigger"
  /\ pc' = At(p, "idle")
  /\ UNCHANGED <<pipes, mutex, wiring, held, main, leaving>>

InTrigger(p) ==
  /\ pc[p] = "in_trigger"
  /\ NotifyAll(At(p, "idle"))
  /\ UNCHANGED <<pipes, mutex, wiring, held, main, leaving>>

(* Under m_mutex: take the first free packet, or sleep and look again. *)
InPop(p) ==
  /\ pc[p] = "in_pop" /\ mutex = NoPin
  /\ \/ /\ inPipe # <<>>
        /\ held' = [held EXCEPT ![p] = @ \union {Head(inPipe)}]
        /\ inPipe' = Tail(inPipe)
        /\ pc' = At(p, "idle")
     \/ /\ inPipe = <<>>
        /\ pc' = At(p, "in_flags")
        /\ UNCHANGED <<inPipe, held>>
  /\ UNCHANGED <<outPipe, mutex, wiring, main, leaving>>

(* Mutant: the filled packet is pushed to the front of the output pipe. *)
StoreInput_PushFront(p) ==
  /\ Running(p) /\ pc[p] = "idle" /\ mutex = NoPin
  /\ \E k \in held[p] :
       /\ outPipe' = <<k>> \o outPipe
       /\ held' = [held EXCEPT ![p] = @ \ {k}]
  /\ pc' = At(p, "in_notify")
  /\ UNCHANGED <<inPipe, mutex, wiring, main, leaving>>

(* Under m_mutex: the packet goes to the output pipe. *)
StoreInput(p) ==
  /\ Running(p) /\ pc[p] = "idle" /\ mutex = NoPin
  /\ \E k \in held[p] :
       /\ outPipe' = Append(outPipe, k)
       /\ held' = [held EXCEPT ![p] = @ \ {k}]
  /\ pc' = At(p, "in_notify")
  /\ UNCHANGED <<inPipe, mutex, wiring, main, leaving>>

(* Mutant: StoreInput does not notify. *)
InNotify_Dropped(p) ==
  /\ pc[p] = "in_notify"
  /\ pc' = At(p, "idle")
  /\ UNCHANGED <<pipes, mutex, wiring, held, main, leaving>>

(* Mutant: the consumers are notified only if the pipe was empty before. *)
InNotify_IfWasEmpty(p) ==
  /\ pc[p] = "in_notify"
  /\ IF Len(outPipe) > 1 THEN pc' = At(p, "idle") ELSE NotifyOne(At(p, "idle"))
  /\ UNCHANGED <<pipes, mutex, wiring, held, main, leaving>>

(* After m_mutex was released. *)
InNotify(p) ==
  /\ pc[p] = "in_notify"
  /\ NotifyOne(At(p, "idle"))
  /\ UNCHANGED <<pipes, mutex, wiring, held, main, leaving>>

GetOutput(c) ==
  /\ Running(c) /\ pc[c] = "idle"
  /\ pc' = At(c, "lock")
  /\ UNCHANGED <<pipes, mutex, wiring, held, main, leaving>>

(* Mutant: GetOutput looks at the pipe without m_mutex. *)
Lock_NoLock(c) ==
  /\ pc[c] = "lock" /\ mutex = NoPin
  /\ pc' = At(c, "flags")
  /\ UNCHANGED <<pipes, mutex, wiring, held, main, leaving>>

(* On entry, and on the way out of m_cond.wait. *)
Lock(c) ==
  /\ pc[c] = "lock" /\ mutex = NoPin
  /\ mutex' = c
  /\ pc' = At(c, "flags")
  /\ UNCHANGED <<pipes, wiring, held, main, leaving>>

OutFlags(c) ==
  /\ pc[c] = "flags"
  /\ pc' = At(c, IF Closed THEN "trigger" ELSE "pin")
  /\ UNCHANGED <<pipes, mutex, wiring, held, main, leaving>>

OutTrigger(c) ==
  /\ pc[c] = "trigger"
  /\ NotifyAll(At(c, "idle"))
  /\ mutex' = NoPin
  /\ UNCHANGED <<pipes, wiring, held, main, leaving>>

OutPin(c) ==
  /\ pc[c] = "pin"
  /\ \/ /\ c \in disconnectedPins
        /\ pc' = At(c, "idle")
        /\ mutex' = NoPin
     \/ /\ c \notin disconnectedPins
        /\ pc' = At(c, "pipe")
        /\ UNCHANGED mutex
  /\ UNCHANGED <<pipes, wiring, held, main, leaving>>

(* Mutant: front() without pop_front(). *)
OutPipe_NoPop(c) ==
  /\ pc[c] = "pipe"
  /\ outPipe # <<>>
  /\ held' = [held EXCEPT ![c] = @ \union {Head(outPipe)}]
  /\ pc' = At(c, "idle")
  /\ mutex' = NoPin
  /\ UNCHANGED <<pipes, wiring, main, leaving>>

(* Take the oldest packet, or wait, which releases m_mutex. *)
OutPipe(c) ==
  /\ pc[c] = "pipe"
  /\ \/ /\ outPipe # <<>>
        /\ held' = [held EXCEPT ![c] = @ \union {Head(outPipe)}]
        /\ outPipe' = Tail(outPipe)
        /\ pc' = At(c, "idle")
     \/ /\ outPipe = <<>>
        /\ pc' = At(c, "waiting")
        /\ UNCHANGED <<outPipe, held>>
  /\ mutex' = NoPin
  /\ UNCHANGED <<inPipe, wiring, main, leaving>>

(* A condition variable may wake a waiter that nobody notified. *)
SpuriousWakeup(c) ==
  /\ c \in Waiting
  /\ pc' = At(c, "lock")
  /\ UNCHANGED <<pipes, mutex, wiring, held, main, leaving>>

(* Under m_mutex: the packet goes to the FRONT of the input pipe. *)
StoreOutput(c) ==
  /\ Running(c) /\ pc[c] = "idle" /\ mutex = NoPin
  /\ \E k \in held[c] :
       /\ inPipe' = <<k>> \o inPipe
       /\ held' = [held EXCEPT ![c] = @ \ {k}]
  /\ UNCHANGED <<outPipe, mutex, wiring, pc, main, leaving>>

-----------------------------------------------------------------------------
MainNext ==
  \/ RunAllThreads \/ TriggerMoved \/ SetFlag \/ TriggerFlagged
  \/ \E p \in InPins : NewInputPin(p)
  \/ \E c \in OutPins : NewOutputPin(c)
  \/ \E t \in Pins : DisconnectPin(t)

ProducerNext(p) ==
  \/ GetInput(p) \/ InFlags(p) \/ InTrigger(p) \/ InPop(p)
  \/ StoreInput(p) \/ InNotify(p)

ConsumerNext(c) ==
  \/ GetOutput(c) \/ Lock(c) \/ OutFlags(c) \/ OutTrigger(c) \/ OutPin(c)
  \/ OutPipe(c) \/ SpuriousWakeup(c) \/ StoreOutput(c)

Next ==
  \/ MainNext
  \/ \E p \in InPins : ProducerNext(p)
  \/ \E c \in OutPins : ConsumerNext(c)

Spec == Init /\ [][Next]_vars

(***************************************************************************)
(* Fairness.  A thread that can run is scheduled, so a call that has begun *)
(* goes on, and a thread that asks for m_mutex gets it when it is free     *)
(* again and again (SF: the sections under it are a few instructions).     *)
(* Nothing obliges a thread to make a call or a condition variable to wake *)
(* a waiter nobody notified.                                               *)
(***************************************************************************)
CallsGoOn ==
  /\ WF_vars(TriggerMoved) /\ WF_vars(SetFlag) /\ WF_vars(TriggerFlagged)
  /\ \A p \in InPins :
       WF_vars(InFlags(p)) /\ WF_vars(InTrigger(p)) /\ WF_vars(InNotify(p))
         /\ SF_vars(InPop(p))
  /\ \A c \in OutPins :
       WF_vars(OutFlags(c)) /\ WF_vars(OutTrigger(c)) /\ WF_vars(OutPin(c))
         /\ WF_vars(OutPipe(c)) /\ SF_vars(Lock(c))

(* The Loop of a block on an output pin asks for the next packet. *)
ConsumersLoop == \A c \in OutPins : WF_vars(GetOutput(c))

FairSpec == Spec /\ CallsGoOn
LoopSpec == Spec /\ CallsGoOn /\ ConsumersLoop
-----------------------------------------------------------------------------
(* Where a thread is inside Get, and where a consumer owns m_mutex.         *)

InGetInput  == {"in_flags", "in_trigger", "in_pop"}
InSection   == {"flags", "trigger", "pin", "pipe"}
InGetOutput == InSection \union {"lock", "waiting"}

(***************************************************************************)
(* The types, and the lock discipline of GetOutput: exactly the consumer   *)
(* between the lock of m_mutex and its release owns it.                    *)
(***************************************************************************)
TypeOK ==
  /\ inPipe \in Seq(Packets)
  /\ outPipe \in Seq(Packets)
  /\ pins \subseteq Pins
  /\ disconnectedPins \subseteq Pins
  /\ noInput \in BOOLEAN
  /\ noOutput \in BOOLEAN
  /\ pc \in [Pins -> {"idle", "in_notify"} \union InGetInput \union InGetOutput]
  /\ \A p \in InPins : pc[p] \notin InGetOutput
  /\ held \in [Pins -> SUBSET Packets]
  /\ main \in {"wiring", "steady", "moved", "last", "flagged"}
  /\ leaving \in Pins \union {NoPin}
  /\ mutex \in OutPins \union {NoPin}
  /\ \A c \in OutPins : pc[c] \in InSection <=> mutex = c

(***************************************************************************)
(* Every packet of the pool is in exactly one place: once in one of the    *)
(* two pipes, or in the hands of one thread.  So no two blocks work on the *)
(* same packet, and none drops out of circulation, whatever the order in   *)
(* which GetInput, StoreInput, GetOutput, StoreOutput and DisconnectPin    *)
(* of all the threads interleave.                                          *)
(***************************************************************************)
InPipes == Range(inPipe) \union Range(outPipe)

PacketOwnership ==
  /\ IsInjective(inPipe)
  /\ IsInjective(outPipe)
  /\ Range(inPipe) \intersect Range(outPipe) = {}
  /\ \A t \in Pins : held[t] \intersect InPipes = {}
  /\ \A t, u \in Pins : t # u => held[t] \intersect held[u] = {}
  /\ \A k \in Packets : k \in InPipes \/ \E t \in Pins : k \in held[t]

(***************************************************************************)
(* While no pin has been disconnected, no wakeup for a packet is lost: if  *)
(* some consumer sleeps in m_cond.wait, each packet in m_outPipe has a     *)
(* StoreInput that has yet to notify or a consumer that is awake in        *)
(* GetOutput and will look at the pipe.  (StoreInput notifies after it has *)
(* released m_mutex.)                                                      *)
(***************************************************************************)
Notifying == {p \in InPins : pc[p] = "in_notify"}
Awake == {c \in OutPins : pc[c] \in InGetOutput \ {"waiting"}}

NoLostWakeup ==
  disconnectedPins = {} /\ Waiting # {} =>
    Len(outPipe) <= Cardinality(Notifying) + Cardinality(Awake)

(***************************************************************************)
(* The connector implements the channel it stands for: packets are         *)
(* delivered once, in the order StoreInput took them, and Get returns      *)
(* nullptr only if a side has no connected pin or the caller's own output  *)
(* pin is disconnected.                                                    *)
(***************************************************************************)
Channel == INSTANCE PacketChannel WITH
  free      <- Range(inPipe),
  queue     <- outPipe,
  calling   <- {t \in Pins : pc[t] \in InGetInput \union InGetOutput},
  connected <- pins,
  closed    <- Closed

ChannelSpec == Channel!Spec

(***************************************************************************)
(* A block that fills packets is not held up by a connector that is being  *)
(* torn down: once a side has no pin left, every GetInput under way        *)
(* returns, though it polls a pool that nobody refills any more.           *)
(***************************************************************************)
GetInputReturns ==
  \A p \in InPins : Closed /\ main # "wiring" /\ pc[p] \in InGetInput
                      ~> pc[p] \notin InGetInput

(***************************************************************************)
(* A packet that was stored is taken by some consumer, as long as nothing  *)
(* is disconnected and the consumers keep asking.                          *)
(***************************************************************************)
Delivered ==
  \A k \in Packets :
    k \in Range(outPipe) ~> k \notin Range(outPipe) \/ disconnectedPins # {}

(***************************************************************************)
(* What GetInput's own Trigger is for: if a producer asks for a packet     *)
(* after the connector has lost a side, the consumers that sleep in it are *)
(* released.                                                               *)
(***************************************************************************)
CloseIsRelayed ==
  \A c \in OutPins, p \in InPins :
    Closed /\ c \in Waiting /\ pc[p] = "in_flags" ~> pc[c] \notin InGetOutput

(***************************************************************************)
(* A GetOutput under way returns once a side has no pin left, so that      *)
(* StopAllThreads can join the block's thread.  It does NOT hold: the flag *)
(* may be set and both notify_all calls made between the consumer's test   *)
(* of the flags and its m_cond.wait, because DisconnectPin does not take   *)
(* m_mutex.                                                                *)
(***************************************************************************)
GetOutputReturns ==
  \A c \in OutPins : Closed /\ main # "wiring" /\ pc[c] \in InGetOutput
                       ~> pc[c] \notin InGetOutput
=============================================================================
