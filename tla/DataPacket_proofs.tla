-------------------------- MODULE DataPacket_proofs --------------------------
(***************************************************************************)
(* What holds of the data objects for any number of them, of surfaces and  *)
(* of references.  OneOwner says where an object can be, in one place at a *)
(* time: with it every object is destroyed once.  Counted says that an     *)
(* object which is still read has a positive counter and shares it with no *)
(* other: with it the producer never writes a surface that is read, in a   *)
(* build whose DeRef tests the value it has stored.                        *)
(***************************************************************************)
EXTENDS DataPacket, TLAPS

Busy(u) == pc[u] \in {"work", "test", "destroy", "push"}

ControlOK ==
  /\ pc["consumer"] \in {"idle", "work", "test", "destroy", "push", "unlock"}
  /\ pc["sink"] \in {"idle", "destroy", "push"}
  /\ pc["cleaner"] \in {"idle", "delete"}

OneOwner ==
  /\ input \cap output = {} /\ input \cap destroyList = {} /\ output \cap destroyList = {}
  /\ \A u \in Users :
       Busy(u) => cur[u] \in exists /\ cur[u] \notin input \cup output \cup destroyList
  /\ Busy("consumer") /\ Busy("sink") => cur["consumer"] # cur["sink"]

Unmapped ==
  /\ destroyList \cap mapped = {}
  /\ \A u \in Users : pc[u] = "push" => cur[u] \notin mapped

IInv == TypeOK /\ ControlOK /\ OneOwner /\ Unmapped

(* The objects that are still read: Readable, of what DeRef has stored. *)
Holding == pc["consumer"] = "work" \/ (pc["consumer"] = "test" /\ kept > 0)
Read(d) == d \in input \/ d \in output \/ (Holding /\ d = cur["consumer"])

Counted ==
  /\ \A d \in Data : Read(d) => (ref[d] \in Slots \/ ref[d] = d) /\ count[ref[d]] > 0
  /\ \A d, e \in Data : Read(d) /\ Read(e) /\ ref[d] = ref[e] => d = e
  /\ slot # NoData => count[slot] = 0
  /\ pc["consumer"] = "test" => kept = count[ref[cur["consumer"]]] \/ kept <= 0

-----------------------------------------------------------------------------
(* The initial state. *)
LEMMA InitIInv == Init => IInv
BY DataAssumption DEF Init, IInv, TypeOK, ControlOK, OneOwner, Unmapped, Busy, Users

(* Every step keeps IInv. *)
LEMMA NextIInv ==
  ASSUME IInv, [Next]_vars
  PROVE  IInv'
<1> USE DEF IInv, TypeOK, ControlOK, OneOwner, Unmapped, Busy, Users, objects, packets
<1>1. ASSUME NEW s \in Slots, GetFreeSurface(s) PROVE IInv'
  BY <1>1, DataAssumption DEF GetFreeSurface
<1>2. ASSUME NEW d \in Data, NEW n \in 1 .. MaxRef, SendSurface(d, n) PROVE IInv'
  BY <1>2, DataAssumption DEF SendSurface, Create
<1>3. ASSUME NEW d \in Data, NEW n \in 1 .. MaxRef, SendResult(d, n) PROVE IInv'
  BY <1>3, DataAssumption DEF SendResult, Create
<1>4. ASSUME NEW d \in Data, Take(d) PROVE IInv'
  BY <1>4, DataAssumption DEF Take, Goto
<1>5. ASSUME GetSurfacePointer PROVE IInv'
  BY <1>5, DataAssumption DEF GetSurfacePointer
<1>6. ASSUME PassOn PROVE IInv'
  BY <1>6, DataAssumption DEF PassOn, Goto
<1>7. ASSUME DeRefSubtract PROVE IInv'
  BY <1>7, DataAssumption DEF DeRefSubtract, Goto
<1>8. ASSUME DeRefTest PROVE IInv'
  BY <1>8, DataAssumption DEF DeRefTest, Goto
<1>9. ASSUME NEW u \in Users, Destroy(u) PROVE IInv'
  BY <1>9, DataAssumption DEF Destroy, Goto
<1>10. ASSUME NEW u \in Users, Push(u) PROVE IInv'
  BY <1>10, DataAssumption DEF Push, Goto
<1>11. ASSUME Unlock PROVE IInv'
  BY <1>11, DataAssumption DEF Unlock, Goto
<1>12. ASSUME NEW d \in Data, SinkStore(d) PROVE IInv'
  BY <1>12, DataAssumption DEF SinkStore, Goto
<1>13. ASSUME CleanerBegin PROVE IInv'
  BY <1>13, DataAssumption DEF CleanerBegin, Goto
<1>14. ASSUME NEW d \in Data, CleanerDelete(d) PROVE IInv'
  BY <1>14, DataAssumption DEF CleanerDelete
<1>15. ASSUME CleanerEnd PROVE IInv'
  BY <1>15, DataAssumption DEF CleanerEnd, Goto
<1>16. ASSUME UNCHANGED vars PROVE IInv'
  BY <1>16 DEF vars
<1> QED
  BY <1>1, <1>2, <1>3, <1>4, <1>5, <1>6, <1>7, <1>8, <1>9, <1>10, <1>11, <1>12, <1>13, <1>14, <1>15, <1>16 DEF Next, Producer, Consumer, Sink, Cleaner

-----------------------------------------------------------------------------
LEMMA InitCounted == Init => Counted
BY DataAssumption DEF Init, Counted, Read, Holding, Users

(* Every step keeps Counted, if DeRef tests what it has stored. *)
LEMMA NextCounted ==
  ASSUME IInv, Counted, [Next]_vars, ~Rereads
  PROVE  Counted'
<1> USE DEF IInv, TypeOK, ControlOK, OneOwner, Busy, Users, objects, packets,
            Counted, Read, Holding
<1>1. ASSUME NEW s \in Slots, GetFreeSurface(s) PROVE Counted'
  BY <1>1, DataAssumption DEF GetFreeSurface
<1>2. ASSUME NEW d \in Data, NEW n \in 1 .. MaxRef, SendSurface(d, n) PROVE Counted'
  BY <1>2, DataAssumption DEF SendSurface, Create
<1>3. ASSUME NEW d \in Data, NEW n \in 1 .. MaxRef, SendResult(d, n) PROVE Counted'
  BY <1>3, DataAssumption DEF SendResult, Create
<1>4. ASSUME NEW d \in Data, Take(d) PROVE Counted'
  BY <1>4, DataAssumption DEF Take, Goto
<1>5. ASSUME GetSurfacePointer PROVE Counted'
  BY <1>5, DataAssumption DEF GetSurfacePointer
<1>6. ASSUME PassOn PROVE Counted'
  BY <1>6, DataAssumption DEF PassOn, Goto
<1>7. ASSUME DeRefSubtract PROVE Counted'
  BY <1>7, DataAssumption DEF DeRefSubtract, Goto
<1>8. ASSUME DeRefTest PROVE Counted'
  BY <1>8, DataAssumption DEF DeRefTest, Goto, Tested
<1>9. ASSUME NEW u \in Users, Destroy(u) PROVE Counted'
  BY <1>9, DataAssumption DEF Destroy, Goto
<1>10. ASSUME NEW u \in Users, Push(u) PROVE Counted'
  BY <1>10, DataAssumption DEF Push, Goto
<1>11. ASSUME Unlock PROVE Counted'
  BY <1>11, DataAssumption DEF Unlock, Goto
<1>12. ASSUME NEW d \in Data, SinkStore(d) PROVE Counted'
  BY <1>12, DataAssumption DEF SinkStore, Goto
<1>13. ASSUME CleanerBegin PROVE Counted'
  BY <1>13, DataAssumption DEF CleanerBegin, Goto
<1>14. ASSUME NEW d \in Data, CleanerDelete(d) PROVE Counted'
  BY <1>14, DataAssumption DEF CleanerDelete
<1>15. ASSUME CleanerEnd PROVE Counted'
  BY <1>15, DataAssumption DEF CleanerEnd, Goto
<1>16. ASSUME UNCHANGED vars PROVE Counted'
  BY <1>16 DEF vars
<1> QED
  BY <1>1, <1>2, <1>3, <1>4, <1>5, <1>6, <1>7, <1>8, <1>9, <1>10, <1>11, <1>12, <1>13, <1>14, <1>15, <1>16 DEF Next, Producer, Consumer, Sink, Cleaner

-----------------------------------------------------------------------------
LEMMA Invariance == Spec => []IInv
<1>1. Init => IInv
  BY InitIInv
<1>2. IInv /\ [Next]_vars => IInv'
  BY NextIInv
<1> QED
  BY <1>1, <1>2, PTL DEF Spec

(* A packet, the list and the threads only ever hold objects that exist     *)
(* (DataPacket.cpp 60-80, 279-291).                                         *)
THEOREM TypeCorrect == Spec => []TypeOK
<1>1. IInv => TypeOK
  BY DEF IInv
<1> QED
  BY <1>1, Invariance, PTL

(* Every object is given to the cleaner once, whatever the build reads in   *)
(* DeRef (DataPacket.cpp 75-80, 279-291; Connector.h 133-143).              *)
THEOREM DestroyOnce == Spec => []DestroyedOnce
<1>1. IInv => DestroyedOnce
  BY DEF IInv, OneOwner, Busy, DestroyedOnce, Adding, Users
<1> QED
  BY <1>1, Invariance, PTL

(* If DeRef tests the value it has stored, a surface is written only when   *)
(* no block reads an object made for it (DataPacket.cpp 279-291;            *)
(* DecodeThreadBlock.cpp 885-899).                                          *)
THEOREM SurfacesExclusive ==
  ASSUME ~Rereads
  PROVE  Spec => []SlotExclusive
<1>1. Init => Counted
  BY InitCounted
<1>2. IInv /\ Counted /\ [Next]_vars => Counted'
  BY NextCounted
<1>3. IInv /\ Counted => SlotExclusive
  <2> SUFFICES ASSUME IInv, Counted PROVE SlotExclusive
    OBVIOUS
  <2>1. Readable \subseteq Data
    BY DEF IInv, TypeOK, ControlOK, OneOwner, Busy, Readable, InWork, Users
  <2>2. \A d \in Readable : Read(d)
    BY DEF Readable, InWork, Read, Holding, Tested
  <2>3. slot # NoData => \A d \in Readable : ref[d] # slot
    BY <2>1, <2>2, DataAssumption DEF Counted, IInv, TypeOK
  <2>4. \A d, e \in Readable : ref[d] = ref[e] => d = e
    BY <2>1, <2>2 DEF Counted
  <2> QED
    BY <2>3, <2>4 DEF SlotExclusive
<1> QED
  BY <1>1, <1>2, <1>3, Invariance, PTL DEF Spec
=============================================================================
