---------------------------- MODULE InferenceUser ----------------------------
(***************************************************************************)
(* InferenceOV with the caller of InferenceOV_test: one thread inserts     *)
(* images and collects what GetOutput hands over, each whenever it likes,  *)
(* until GetOutput says that the inference is free.  The images are        *)
(* numbered in the order of their insertion; the caller keeps what it got, *)
(* so datas and ids are everything handed over so far.                     *)
(***************************************************************************)
EXTENDS InferenceOV

CONSTANTS
  Found,     (* how many results Translate may make of an image              *)
  MaxImages  (* bound: the images the caller inserts                         *)

ASSUME UserAssumption == Found \subseteq Nat /\ MaxImages \in Nat

VARIABLES
  inserted,  (* the images inserted so far: what Translate makes of each     *)
  inserting, (* the caller is in InsertImage                                 *)
  ret        (* what the last GetOutput returned                             *)

vars == <<engine, inserted, inserting, ret>>

Init == EngineInit /\ inserted = <<>> /\ inserting = FALSE /\ ret = 0

Insert ==
  /\ ~inserting /\ Len(inserted) < MaxImages
  /\ inserting' = TRUE
  /\ ret' = 0
  /\ UNCHANGED <<engine, inserted>>

Room == inserting /\ MakeRoom /\ UNCHANGED <<inserted, inserting, ret>>

Inserted ==
  /\ inserting
  /\ \E n \in Found :
       /\ InsertImage([id |-> Len(inserted) + 1, found |-> n])
       /\ inserted' = Append(inserted, n)
  /\ inserting' = FALSE
  /\ UNCHANGED ret

Get ==
  /\ ~inserting
  /\ GetOutput
  /\ ret' = Returned
  /\ UNCHANGED <<inserted, inserting>>

Next == Insert \/ Room \/ Inserted \/ Get \/ (Device /\ UNCHANGED <<inserted, inserting, ret>>)

Spec == Init /\ [][Next]_vars

(* The caller and the device go on. *)
FairSpec ==
  /\ Spec /\ WF_vars(Room) /\ WF_vars(Inserted) /\ WF_vars(Get)
  /\ \A i \in 1 .. AsyncDepth :
       WF_vars((Complete(i) \/ Fail(i)) /\ UNCHANGED <<inserted, inserting, ret>>)
-----------------------------------------------------------------------------
TypeOK ==
  /\ EngineOK
  /\ inserted \in Seq(Found) /\ Len(inserted) <= MaxImages
  /\ inserting \in BOOLEAN
  /\ ret \in {-2, -1, 0, 2}

(***************************************************************************)
(* The caller gets the images back in the order in which it inserted them, *)
(* each once, and with them exactly their results, in the same order,      *)
(* though requests are completed in any order and results may have waited  *)
(* in the internal buffers.                                                *)
(***************************************************************************)
ResultsInOrder ==
  /\ ids = [i \in 1 .. Len(ids) |-> i]
  /\ datas = Translate([i \in 1 .. Len(ids) |-> [id |-> i, found |-> inserted[i]]])

(***************************************************************************)
(* No image gets stuck: once the caller stops inserting, GetOutput hands   *)
(* over all whole batches, whether their results came through the internal *)
(* buffers or not, unless a request has failed: that one stays at the head *)
(* of m_busyRequest for ever, and the results behind it inside.            *)
(***************************************************************************)
AllHandedOver ==
  Len(inserted) = MaxImages
    ~> \/ Len(ids) = MaxImages - (MaxImages % BatchNum)
       \/ Contains(busyRequest, "failed")

(***************************************************************************)
(* The comment on -1 in GetOutputInternal: "inference free, can pop all    *)
(* the results": when GetOutput returns -1 the caller has everything it    *)
(* inserted.  It does NOT hold if an image may have no result: GetOutput   *)
(* leaves the internal buffers alone if m_internalDatas is empty.          *)
(***************************************************************************)
FreeMeansAll == ret = -1 => Len(ids) = Len(inserted)
=============================================================================
