------------------------------ MODULE DataPacket ------------------------------
(***************************************************************************)
(* VAData and VADataCleaner: the life of the data the blocks pass on.      *)
(*                                                                         *)
(* A producer block (DecodeThreadBlock, CropThreadBlock) has a pool of     *)
(* surfaces with a counter each; a data object made for a surface counts   *)
(* in that counter (SetExternalRef), other objects in one of their own.    *)
(* The producer takes a surface again when it reads 0 in its counter,      *)
(* without a lock.  A consumer block gives up its reference with DeRef,    *)
(* the sink pin all that are left; an object without a reference goes to   *)
(* the cleaner, whose thread deletes what is in its list from time to      *)
(* time.  Packets are sets here: ConnectorRR is about their order.         *)
(***************************************************************************)
EXTENDS Integers, FiniteSets

CONSTANTS
  Data,     (* the addresses a VAData can have, those of deleted ones again *)
  Slots,    (* the surfaces of the producer's pool                          *)
  MaxRef,   (* the largest count a block sets (m_decodeRefNum + 1, m_outRef) *)
  Rereads,  (* the build reads *m_ref a second time for the test in DeRef   *)
  NoData    (* no object                                                    *)

ASSUME DataAssumption ==
  /\ Data \cap Slots = {} /\ NoData \notin Data /\ NoData \notin Slots
  /\ MaxRef \in Nat \ {0} /\ Rereads \in BOOLEAN

VARIABLES
  exists,      (* the objects that were created and not deleted             *)
  ref,         (* m_ref: a surface's counter, or the object's own           *)
  count,       (* the counters: of the surfaces, and m_internalRef          *)
  mapped,      (* the objects that mapped their surface: m_data not null    *)
  input,       (* the objects in packets for the consumer                   *)
  output,      (* the objects in packets for the sink pin                   *)
  destroyList, (* m_destroyList                                             *)
  slot,        (* the surface the producer has found and writes, or NoData  *)
  pc,          (* where the consumer, the sink's caller and the cleaner are *)
  cur,         (* the object the consumer and the sink's caller are at      *)
  kept         (* what DeRef has stored in the counter                      *)

objects == <<exists, ref, mapped>>
packets == <<input, output>>
vars    == <<objects, count, packets, destroyList, slot, pc, cur, kept>>

Users == {"consumer", "sink"}

Init ==
  /\ exists = {} /\ mapped = {} /\ input = {} /\ output = {} /\ destroyList = {}
  /\ ref = [d \in Data |-> d]
  /\ count = [c \in Data \cup Slots |-> 0]
  /\ slot = NoData
  /\ pc = [u \in Users \cup {"cleaner"} |-> "idle"]
  /\ cur = [u \in Users |-> NoData]
  /\ kept = 0

Goto(u, l) == pc' = [pc EXCEPT ![u] = l]

-----------------------------------------------------------------------------
(* The producer: any surface whose counter it read as 0 (the scan may pass  *)
(* one that becomes free behind it) ...                                     *)
GetFreeSurface(s) ==
  /\ slot = NoData
  /\ count[s] = 0
  /\ slot' = s
  /\ UNCHANGED <<objects, count, packets, destroyList, pc, cur, kept>>

(* ... and, once that is written, a data object that counts in counter c.   *)
Create(d, c, n) ==
  /\ d \notin exists
  /\ exists' = exists \cup {d}
  /\ ref' = [ref EXCEPT ![d] = c]
  /\ count' = [count EXCEPT ![c] = n]
  /\ input' = input \cup {d}
  /\ UNCHANGED <<mapped, output, destroyList, pc, cur, kept>>

SendSurface(d, n) == slot # NoData /\ Create(d, slot, n) /\ slot' = NoData

(* Any block sends regions or classes of its own.                           *)
SendResult(d, n) == Create(d, d, n) /\ UNCHANGED slot

-----------------------------------------------------------------------------
Take(d) ==
  /\ pc["consumer"] = "idle"
  /\ d \in input
  /\ input' = input \ {d}
  /\ cur' = [cur EXCEPT !["consumer"] = d]
  /\ Goto("consumer", "work")
  /\ UNCHANGED <<objects, count, output, destroyList, slot, kept>>

GetSurfacePointer ==
  /\ pc["consumer"] = "work"
  /\ ref[cur["consumer"]] \in Slots
  /\ cur["consumer"] \notin mapped
  /\ mapped' = mapped \cup {cur["consumer"]}
  /\ UNCHANGED <<exists, ref, count, packets, destroyList, slot, pc, cur, kept>>

(* What the block is not about goes on as it is. *)
PassOn ==
  /\ pc["consumer"] = "work"
  /\ output' = output \cup {cur["consumer"]}
  /\ Goto("consumer", "idle")
  /\ cur' = [cur EXCEPT !["consumer"] = NoData]
  /\ UNCHANGED <<objects, count, input, destroyList, slot, kept>>

DeRefSubtract ==
  LET c == ref[cur["consumer"]]
  IN /\ pc["consumer"] = "work"
     /\ count' = [count EXCEPT ![c] = @ - 1]
     /\ kept' = count[c] - 1
     /\ Goto("consumer", "test")
     /\ UNCHANGED <<objects, packets, destroyList, slot, cur>>

(* *m_ref <= 0, of what was stored or of what is there now.                 *)
Tested == IF Rereads THEN count[ref[cur["consumer"]]] ELSE kept

(* Mutant: an object whose last reference went is sent on. *)
DeRefTest_Below ==
  /\ pc["consumer"] = "test"
  /\ \/ Tested < 0 /\ Goto("consumer", "destroy") /\ UNCHANGED <<output, cur>>
     \/ /\ Tested >= 0
        /\ output' = output \cup {cur["consumer"]}
        /\ Goto("consumer", "idle")
        /\ cur' = [cur EXCEPT !["consumer"] = NoData]
  /\ UNCHANGED <<objects, count, input, destroyList, slot, kept>>

(* Mutant: without the else, an unreferenced object is sent on too. *)
DeRefTest_NoElse ==
  /\ pc["consumer"] = "test"
  /\ output' = output \cup {cur["consumer"]}
  /\ \/ Tested <= 0 /\ Goto("consumer", "destroy") /\ UNCHANGED cur
     \/ /\ Tested > 0
        /\ Goto("consumer", "idle")
        /\ cur' = [cur EXCEPT !["consumer"] = NoData]
  /\ UNCHANGED <<objects, count, input, destroyList, slot, kept>>

(* Mutant: an object with references left is not put into the packet. *)
DeRefTest_Dropped ==
  /\ pc["consumer"] = "test"
  /\ \/ Tested <= 0 /\ Goto("consumer", "destroy") /\ UNCHANGED cur
     \/ /\ Tested > 0
        /\ Goto("consumer", "idle")
        /\ cur' = [cur EXCEPT !["consumer"] = NoData]
  /\ UNCHANGED <<objects, count, packets, destroyList, slot, kept>>

DeRefTest ==
  /\ pc["consumer"] = "test"
  /\ \/ Tested <= 0 /\ Goto("consumer", "destroy") /\ UNCHANGED <<output, cur>>
     \/ /\ Tested > 0
        /\ output' = output \cup {cur["consumer"]}
        /\ Goto("consumer", "idle")
        /\ cur' = [cur EXCEPT !["consumer"] = NoData]
  /\ UNCHANGED <<objects, count, input, destroyList, slot, kept>>

(* Mutant: the sink leaves the references of what it destroys. *)
SinkStore_NoSetRef(d) ==
  /\ pc["sink"] = "idle"
  /\ d \in output
  /\ output' = output \ {d}
  /\ cur' = [cur EXCEPT !["sink"] = d]
  /\ Goto("sink", "destroy")
  /\ UNCHANGED <<objects, count, input, destroyList, slot, kept>>

SinkStore(d) ==
  /\ pc["sink"] = "idle"
  /\ d \in output
  /\ output' = output \ {d}
  /\ cur' = [cur EXCEPT !["sink"] = d]
  /\ count' = [count EXCEPT ![ref[d]] = 0]
  /\ Goto("sink", "destroy")
  /\ UNCHANGED <<objects, input, destroyList, slot, kept>>

-----------------------------------------------------------------------------
(* Mutant: the surface stays mapped. *)
Destroy_StaysMapped(u) ==
  /\ pc[u] = "destroy"
  /\ Goto(u, "push")
  /\ UNCHANGED <<objects, count, packets, destroyList, slot, cur, kept>>

(* VADataCleaner::Add: Destroy unmaps the surface, then the object is put   *)
(* on the list under the cleaner's mutex.                                   *)
Destroy(u) ==
  /\ pc[u] = "destroy"
  /\ mapped' = mapped \ {cur[u]}
  /\ Goto(u, "push")
  /\ UNCHANGED <<exists, ref, count, packets, destroyList, slot, cur, kept>>

Push(u) ==
  /\ pc[u] = "push"
  /\ pc["cleaner"] = "idle"
  /\ destroyList' = destroyList \cup {cur[u]}
  /\ \/ u = "consumer" /\ Goto(u, "unlock") /\ UNCHANGED cur
     \/ u = "sink" /\ Goto(u, "idle") /\ cur' = [cur EXCEPT ![u] = NoData]
  /\ UNCHANGED <<objects, count, packets, slot, kept>>

(* DeRef ends: its lock_guard unlocks the m_mutex of the object.            *)
Unlock ==
  /\ pc["consumer"] = "unlock"
  /\ Goto("consumer", "idle")
  /\ cur' = [cur EXCEPT !["consumer"] = NoData]
  /\ UNCHANGED <<objects, count, packets, destroyList, slot, kept>>

(* VADataCleaner::Destroy, under the mutex from its first step to its last. *)
CleanerBegin ==
  /\ pc["cleaner"] = "idle"
  /\ Goto("cleaner", "delete")
  /\ UNCHANGED <<objects, count, packets, destroyList, slot, cur, kept>>

CleanerDelete(d) ==
  /\ pc["cleaner"] = "delete"
  /\ d \in destroyList
  /\ destroyList' = destroyList \ {d}
  /\ exists' = exists \ {d}
  /\ UNCHANGED <<ref, mapped, count, packets, slot, pc, cur, kept>>

CleanerEnd ==
  /\ pc["cleaner"] = "delete"
  /\ destroyList = {}
  /\ Goto("cleaner", "idle")
  /\ UNCHANGED <<objects, count, packets, destroyList, slot, cur, kept>>

-----------------------------------------------------------------------------
Producer ==
  \/ \E s \in Slots : GetFreeSurface(s)
  \/ \E d \in Data, n \in 1 .. MaxRef : SendSurface(d, n) \/ SendResult(d, n)

Consumer ==
  \/ \E d \in Data : Take(d)
  \/ GetSurfacePointer \/ PassOn \/ DeRefSubtract \/ DeRefTest
  \/ Destroy("consumer") \/ Push("consumer") \/ Unlock

Sink == (\E d \in Data : SinkStore(d)) \/ Destroy("sink") \/ Push("sink")

Cleaner == CleanerBegin \/ (\E d \in Data : CleanerDelete(d)) \/ CleanerEnd

Next == Producer \/ Consumer \/ Sink \/ Cleaner

Spec == Init /\ [][Next]_vars

(* The threads of the blocks and of the cleaner run; packets are taken in   *)
(* their order, so that each one's turn comes; the cleaner sleeps between   *)
(* its passes, so that a thread that waits for its mutex gets it.  The      *)
(* producer may have nothing to send.                                       *)
FairSpec ==
  /\ Spec
  /\ WF_vars(Consumer) /\ WF_vars(Sink) /\ WF_vars(Cleaner)
  /\ SF_vars(Push("consumer")) /\ SF_vars(Push("sink"))
  /\ \A d \in Data : SF_vars(Take(d)) /\ SF_vars(SinkStore(d))

-----------------------------------------------------------------------------
(* Types. *)
TypeOK ==
  /\ exists \subseteq Data /\ mapped \subseteq exists
  /\ input \subseteq exists /\ output \subseteq exists /\ destroyList \subseteq exists
  /\ ref \in [Data -> Data \cup Slots]
  /\ count \in [Data \cup Slots -> Int]
  /\ slot \in Slots \cup {NoData}
  /\ pc \in [Users \cup {"cleaner"} ->
               {"idle", "work", "test", "destroy", "push", "unlock", "delete"}]
  /\ cur \in [Users -> Data \cup {NoData}]
  /\ kept \in Int

(* The objects that a block still reads or will read: those in packets, and *)
(* the one the consumer has, until DeRef has taken its last reference.      *)
InWork == /\ pc["consumer"] \in {"work", "test"}
          /\ pc["consumer"] = "test" => Tested > 0
Readable == input \cup output \cup (IF InWork THEN {cur["consumer"]} ELSE {})

(* The counters tell the producer what is in use: while it writes a surface *)
(* no block reads an object of that surface, and two objects never stand    *)
(* for one surface at a time.                                               *)
SlotExclusive ==
  /\ slot # NoData => \A d \in Readable : ref[d] # slot
  /\ \A d, e \in Readable : ref[d] = ref[e] => d = e

(* Each object is given to the cleaner once: while a thread adds it, and    *)
(* once it is on the list, no packet, no list and no other thread has it.   *)
Adding(u) == pc[u] \in {"destroy", "push"}
DestroyedOnce ==
  /\ \A u \in Users : Adding(u) => cur[u] \notin input \cup output \cup destroyList
  /\ Adding("consumer") /\ Adding("sink") => cur["consumer"] # cur["sink"]
  /\ destroyList \cap (input \cup output) = {}

(* Nothing leaks: every object is deleted in the end ...                    *)
Reclaimed == \A d \in Data : d \in exists ~> d \notin exists

(* ... and every surface that was sent can be found free again.             *)
SurfaceReturns == \A s \in Slots : count[s] # 0 ~> count[s] = 0
=============================================================================
