----------------------------- MODULE InferenceOV -----------------------------
(***************************************************************************)
(* InferenceOV: the state and the operations of an asynchronous inference  *)
(* engine with a pool of AsyncDepth requests, each of a batch of BatchNum  *)
(* images.  InsertImage and GetOutput are called by one thread, the        *)
(* requests are completed by the device in any order; results are taken in *)
(* the order in which the requests were started.                           *)
(*                                                                         *)
(* An image is [id, found]: the frame it belongs to and how many results   *)
(* Translate makes of it, which a detector may find none of.  A result is  *)
(* the frame it is for.  Who calls the operations is said by the modules   *)
(* that extend this one.                                                   *)
(***************************************************************************)
EXTENDS Integers, Sequences, FiniteSets, SequencesExt

CONSTANTS
  AsyncDepth, (* m_asyncDepth: requests                                      *)
  BatchNum,   (* m_batchNum: images per request                              *)
  MayFail     (* whether the device may fail to complete a request           *)

ASSUME EngineAssumption ==
  AsyncDepth \in Nat \ {0} /\ BatchNum \in Nat \ {0} /\ MayFail \in BOOLEAN

VARIABLES
  freeRequest,   (* how many requests m_freeRequest has                      *)
  busyRequest,   (* m_busyRequest: the state of each, the oldest first       *)
  images,        (* m_channels, m_frames, m_rois: images without result      *)
  batchIndex,    (* m_batchIndex: images in the batch that is filled         *)
  internalDatas, (* m_internalDatas                                          *)
  internalIDs,   (* m_internalChannels, m_internalFrames                     *)
  datas,         (* the caller's vector of results ...                       *)
  ids            (* ... and its channels and frames, one per image           *)

requests == <<freeRequest, busyRequest>>
internal == <<internalDatas, internalIDs>>
outputs  == <<datas, ids>>
engine   == <<requests, images, batchIndex, internal, outputs>>

EngineInit ==
  /\ freeRequest = AsyncDepth
  /\ busyRequest = <<>>
  /\ images = <<>>
  /\ batchIndex = 0
  /\ internalDatas = <<>> /\ internalIDs = <<>>
  /\ datas = <<>> /\ ids = <<>>

-----------------------------------------------------------------------------
(* Mutant: the last busy request is never popped. *)
Finished_KeepsOne ==
  CHOOSE n \in 0 .. Len(busyRequest) :
    /\ \A i \in 1 .. n : busyRequest[i] = "done" /\ i < Len(busyRequest)
    /\ n + 1 < Len(busyRequest) => busyRequest[n + 1] # "done"

(* The requests GetOutputInternal pops: up to the first that is not OK.     *)
Finished ==
  CHOOSE n \in 0 .. Len(busyRequest) :
    /\ \A i \in 1 .. n : busyRequest[i] = "done"
    /\ n < Len(busyRequest) => busyRequest[n + 1] # "done"

IDs(batch) == [i \in DOMAIN batch |-> batch[i].id]

(* Translate: the results of the images of a batch, image after image. *)
Translate(batch) ==
  FlattenSeq([i \in DOMAIN batch |-> [k \in 1 .. batch[i].found |-> batch[i].id]])

(* Pops the requests and their images. *)
Pop(n) ==
  /\ busyRequest' = SubSeq(busyRequest, n + 1, Len(busyRequest))
  /\ freeRequest' = freeRequest + n
  /\ images' = SubSeq(images, n * BatchNum + 1, Len(images))

Popped(n) == SubSeq(images, 1, n * BatchNum)

(* InsertImage when no request is free: Wait for the oldest, then           *)
(* GetOutputInternal into the internal buffers.  If the oldest has failed   *)
(* nothing is popped and the code goes on with the front of an empty queue, *)
(* which is undefined: the model stops there.                               *)
MakeRoom ==
  /\ freeRequest = 0
  /\ Head(busyRequest) = "done"
  /\ Pop(Finished)
  /\ internalDatas' = internalDatas \o Translate(Popped(Finished))
  /\ internalIDs' = internalIDs \o IDs(Popped(Finished))
  /\ UNCHANGED <<batchIndex, outputs>>

(* Mutant: a batch is started one image late. *)
InsertImage_Late(image) ==
  /\ freeRequest > 0
  /\ images' = Append(images, image)
  /\ IF batchIndex + 1 > BatchNum
       THEN /\ batchIndex' = 0
            /\ busyRequest' = Append(busyRequest, "running")
            /\ freeRequest' = freeRequest - 1
       ELSE batchIndex' = batchIndex + 1 /\ UNCHANGED requests
  /\ UNCHANGED <<internal, outputs>>

(* InsertImage into the first free request, which is started when its batch *)
(* is full.                                                                 *)
InsertImage(image) ==
  /\ freeRequest > 0
  /\ images' = Append(images, image)
  /\ IF batchIndex + 1 >= BatchNum
       THEN /\ batchIndex' = 0
            /\ busyRequest' = Append(busyRequest, "running")
            /\ freeRequest' = freeRequest - 1
       ELSE batchIndex' = batchIndex + 1 /\ UNCHANGED requests
  /\ UNCHANGED <<internal, outputs>>

(* The internal buffers are handed over only if each of them has something, *)
(* m_internalDatas too.                                                     *)
Flushed == internalDatas # <<>> /\ internalIDs # <<>>

(* Mutant: the results of this call come before the internal ones. *)
GetOutput_InternalLast ==
  /\ Pop(Finished)
  /\ IF Flushed
       THEN /\ datas' = datas \o Translate(Popped(Finished)) \o internalDatas
            /\ ids' = ids \o IDs(Popped(Finished)) \o internalIDs
            /\ internalDatas' = <<>> /\ internalIDs' = <<>>
       ELSE /\ datas' = datas \o Translate(Popped(Finished))
            /\ ids' = ids \o IDs(Popped(Finished))
            /\ UNCHANGED internal
  /\ UNCHANGED batchIndex

GetOutput ==
  /\ Pop(Finished)
  /\ IF Flushed
       THEN /\ datas' = datas \o internalDatas \o Translate(Popped(Finished))
            /\ ids' = ids \o internalIDs \o IDs(Popped(Finished))
            /\ internalDatas' = <<>> /\ internalIDs' = <<>>
       ELSE /\ datas' = datas \o Translate(Popped(Finished))
            /\ ids' = ids \o IDs(Popped(Finished))
            /\ UNCHANGED internal
  /\ UNCHANGED batchIndex

(* What GetOutput returns: -1 "inference free, can pop all the results", -2 *)
(* free with a batch begun, 2 no free request.                              *)
Returned ==
  IF busyRequest = <<>> THEN (IF batchIndex = 0 THEN -1 ELSE -2)
  ELSE IF freeRequest' = 0 THEN 2 ELSE 0

(* The device. *)
Complete(i) ==
  /\ i \in DOMAIN busyRequest /\ busyRequest[i] = "running"
  /\ busyRequest' = [busyRequest EXCEPT ![i] = "done"]
  /\ UNCHANGED <<freeRequest, images, batchIndex, internal, outputs>>

Fail(i) ==
  /\ MayFail
  /\ i \in DOMAIN busyRequest /\ busyRequest[i] = "running"
  /\ busyRequest' = [busyRequest EXCEPT ![i] = "failed"]
  /\ UNCHANGED <<freeRequest, images, batchIndex, internal, outputs>>

Device == \E i \in 1 .. AsyncDepth : Complete(i) \/ Fail(i)
-----------------------------------------------------------------------------
(***************************************************************************)
(* The types, and what ties the queues together: every request is in one   *)
(* of them, the images wait for the requests that are busy or for the      *)
(* batch that is filled, and a batch that is filled has a free request.    *)
(***************************************************************************)
EngineOK ==
  /\ freeRequest \in 0 .. AsyncDepth
  /\ freeRequest + Len(busyRequest) = AsyncDepth
  /\ \A i \in DOMAIN busyRequest : busyRequest[i] \in {"running", "done", "failed"}
  /\ batchIndex \in 0 .. BatchNum - 1
  /\ Len(images) = Len(busyRequest) * BatchNum + batchIndex
  /\ batchIndex > 0 => freeRequest > 0
=============================================================================
