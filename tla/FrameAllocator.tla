--------------------------- MODULE FrameAllocator ---------------------------
(***************************************************************************)
(* The frame allocator that the blocks and the Media SDK runtime share     *)
(* (common.cpp: simple_alloc, simple_free).  A request is answered with an *)
(* array of memory IDs, each of one VA object; an array is known by its    *)
(* address (response->mids).  A decoder's surfaces are asked for twice: by *)
(* the block, and by the runtime when it initialises the decoder, which    *)
(* must get the same ones; so the answer is saved for each session and     *)
(* counted.  All calls come from the main thread.                          *)
(***************************************************************************)
EXTENDS Integers, FiniteSets

CONSTANTS
  Sessions,   (* what pthis can be: the handles of the sessions              *)
  Holders,    (* those who ask for arrays, each for one at a time            *)
  Mids,       (* the addresses of arrays                                     *)
  MaxFrames,  (* the largest NumFrameSuggested: a mfxU16                     *)
  NULL

ASSUME AllocatorAssumption ==
  /\ NULL \notin Mids \union Sessions
  /\ MaxFrames \in Nat
  /\ IsFiniteSet(Holders)

VARIABLES
  arrays,           (* the memory IDs in each array, 0 if there is no array  *)
  objects,          (* the VA objects made for each array that exist         *)
  allocResponses,   (* std::map: the session of an array                     *)
  decodeResponses,  (* allocDecodeResponses: saved answer and refCount       *)
  held              (* the answer each holder got and has not freed          *)

memory == <<arrays, objects, allocResponses, decodeResponses, held>>

Requests ==
  [num : 0 .. MaxFrames,             (* NumFrameSuggested                    *)
   target : BOOLEAN,                 (* DECODER_TARGET or PROCESSOR_TARGET   *)
   decode : BOOLEAN,                 (* EXTERNAL_FRAME and FROM_DECODE       *)
   fourcc : {"picture", "P8", "unknown"}]

NoResponse == [mids |-> NULL, num |-> 0]
NotSaved   == [response |-> NoResponse, refCount |-> 0]
NotHeld    == [pthis |-> NULL, decode |-> FALSE, response |-> NoResponse]

MemoryInit ==
  /\ arrays = [m \in Mids |-> 0]
  /\ objects = [m \in Mids |-> 0]
  /\ allocResponses = [m \in Mids |-> NULL]
  /\ decodeResponses = [p \in Sessions |-> NotSaved]
  /\ held = [h \in Holders |-> NotHeld]

Used == {m \in Mids : arrays[m] > 0}

-----------------------------------------------------------------------------
(* ConvertMfxFourccToVAFormat *)
Known(request) == request.fourcc # "unknown"

(* va_to_mfx_status: how many of the VA objects are made before one fails.  *)
(* Surfaces come all at once, coded buffers one by one.                     *)
MayMake(request) ==
  IF request.fourcc = "P8" THEN 0 .. request.num ELSE {0, request.num}

(* Mutant: the loop over the buffers ends one short. *)
CleanedUp_OneShort(request, made) ==
  IF request.fourcc = "P8" /\ made > 0 THEN made - 1 ELSE 0

(* What is destroyed again when not all were made. *)
CleanedUp(request, made) ==
  IF request.fourcc = "P8" THEN made ELSE 0

(* _simple_alloc, for an array at address m. *)
Response(request, m, made) ==
  IF made = request.num THEN [mids |-> m, num |-> request.num] ELSE NoResponse

MakeObjects(request, m, made) ==
  /\ Known(request) /\ m \in Mids \ Used /\ made \in MayMake(request)
  /\ arrays' = [arrays EXCEPT ![m] = Response(request, m, made).num]
  /\ objects' = [objects EXCEPT ![m] = IF made = request.num THEN made
                                       ELSE made - CleanedUp(request, made)]

Accepted(request) == request.num > 0 /\ request.target

(* Mutant: an encoder's request is answered with the decoder's surfaces. *)
IsSaved_AnyType(p, request) ==
  /\ request.num <= decodeResponses[p].response.num
  /\ decodeResponses[p].response.num # 0

(* Mutant: the comparison the other way round. *)
IsSaved_Swapped(p, request) ==
  /\ decodeResponses[p].response.num <= request.num
  /\ request.decode
  /\ decodeResponses[p].response.num # 0

IsSaved(p, request) ==
  /\ request.num <= decodeResponses[p].response.num
  /\ request.decode
  /\ decodeResponses[p].response.num # 0

(* Mutant: the second holder is not counted. *)
AllocSaved_NotCounted(h, p, request) ==
  LET r == decodeResponses[p].response
  IN /\ Accepted(request) /\ IsSaved(p, request)
     /\ held' = [held EXCEPT ![h] = [pthis |-> p, decode |-> request.decode, response |-> r]]
     /\ UNCHANGED <<arrays, objects, allocResponses, decodeResponses>>

(* simple_alloc: the runtime asks again at Init, and gets what was saved. *)
AllocSaved(h, p, request) ==
  LET r == decodeResponses[p].response
  IN /\ Accepted(request) /\ IsSaved(p, request)
     /\ decodeResponses' = [decodeResponses EXCEPT ![p].refCount = @ + 1]
     /\ held' = [held EXCEPT ![h] = [pthis |-> p, decode |-> request.decode, response |-> r]]
     /\ UNCHANGED <<arrays, objects, allocResponses>>

(* A new array; a decoder's is saved, over what was saved before.           *)
AllocNew(h, p, request, m, made) ==
  LET r == Response(request, m, made)
  IN /\ Accepted(request) /\ ~IsSaved(p, request)
     /\ MakeObjects(request, m, made)
     /\ IF r = NoResponse THEN UNCHANGED <<allocResponses, decodeResponses, held>>
        ELSE /\ held' = [held EXCEPT ![h] = [pthis |-> p, decode |-> request.decode, response |-> r]]
             /\ IF request.decode
                THEN /\ decodeResponses' = [decodeResponses EXCEPT ![p].response = r, ![p].refCount = @ + 1]
                     /\ UNCHANGED allocResponses
                ELSE /\ allocResponses' = [allocResponses EXCEPT ![m] = p]
                     /\ UNCHANGED decodeResponses

(* Alloc, when it answers: all other requests change nothing. *)
Alloc(h, p, request, m, made) ==
  /\ held[h] = NotHeld
  /\ AllocSaved(h, p, request) \/ AllocNew(h, p, request, m, made)

-----------------------------------------------------------------------------
(* _simple_free: memory is freed only if the answer is the saved one and    *)
(* one more decrement makes its count 0.                                    *)
Decremented(saved, r) ==
  IF r = saved.response THEN [saved EXCEPT !.refCount = @ - 1] ELSE saved

FreeObjects(saved, r) ==
  IF r = saved.response /\ saved.refCount = 1
    THEN arrays' = [arrays EXCEPT ![r.mids] = 0] /\ objects' = [objects EXCEPT ![r.mids] = 0]
    ELSE UNCHANGED <<arrays, objects>>

(* simple_free.  A decoder's answer is counted down; at 0 _simple_free is   *)
(* called, which counts once more, and what was saved is erased.            *)
Free(h) ==
  LET p == held[h].pthis
      r == held[h].response
      once == [decodeResponses[p] EXCEPT !.refCount = @ - 1]
  IN /\ held[h] # NotHeld
     /\ held' = [held EXCEPT ![h] = NotHeld]
     /\ IF allocResponses[r.mids] = NULL
        THEN /\ decodeResponses' = [decodeResponses EXCEPT ![p] = IF once.refCount = 0 THEN NotSaved ELSE once]
             /\ IF once.refCount = 0 THEN FreeObjects(once, r) ELSE UNCHANGED <<arrays, objects>>
             /\ UNCHANGED allocResponses
        ELSE /\ allocResponses' = [allocResponses EXCEPT ![r.mids] = NULL]
             /\ decodeResponses' = [decodeResponses EXCEPT ![p] = Decremented(@, r)]
             /\ FreeObjects(decodeResponses[p], r)

MemoryNext ==
  \E h \in Holders :
    \/ \E p \in Sessions, request \in Requests, m \in Mids, made \in 0 .. MaxFrames :
         Alloc(h, p, request, m, made)
    \/ Free(h)

MemorySpec == MemoryInit /\ [][MemoryNext]_memory

-----------------------------------------------------------------------------
Responses == [mids : Mids \union {NULL}, num : 0 .. MaxFrames]

MemoryTypeOK ==
  /\ arrays \in [Mids -> 0 .. MaxFrames]
  /\ objects \in [Mids -> 0 .. MaxFrames]
  /\ allocResponses \in [Mids -> Sessions \union {NULL}]
  /\ decodeResponses \in [Sessions -> [response : Responses, refCount : Nat]]
  /\ held \in [Holders -> [pthis : Sessions \union {NULL}, decode : BOOLEAN, response : Responses]]

(***************************************************************************)
(* refCount is the number of those who hold an array of decoder surfaces   *)
(* of the session, however they came and went: the count is kept in three  *)
(* places of two functions (common.cpp:486, 495, 708), once for the saved  *)
(* answer and once for a new one.                                          *)
(***************************************************************************)
DecodeHolders(p) == {h \in Holders : held[h].pthis = p /\ held[h].decode}

RefCounts ==
  \A p \in Sessions : decodeResponses[p].refCount = Cardinality(DecodeHolders(p))

(***************************************************************************)
(* An array has all of its VA objects or none: a request that fails half   *)
(* way leaves nothing behind, and whoever holds an array finds every       *)
(* object of it, whatever the others have freed.                           *)
(***************************************************************************)
WholeArrays ==
  /\ objects = arrays
  /\ \A h \in Holders : held[h] # NotHeld =>
       /\ held[h].response.mids \in Used
       /\ held[h].response.num = arrays[held[h].response.mids]

(***************************************************************************)
(* Two holders have the same array only if it is the decoder surfaces of   *)
(* one session: VPP and encoder never write into the surfaces of the       *)
(* decoder with which they share the session and the allocator.            *)
(***************************************************************************)
ArraysExclusive ==
  \A g, h \in Holders :
    g # h /\ held[g] # NotHeld /\ held[g].response.mids = held[h].response.mids =>
      held[g].decode /\ held[h].decode /\ held[g].pthis = held[h].pthis
=============================================================================
