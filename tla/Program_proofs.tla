---------------------------- MODULE Program_proofs ----------------------------
(***************************************************************************)
(* The allocator's counts, arrays and owners are right for any number of   *)
(* sessions, holders and arrays.  The main thread uses it only through its *)
(* two calls, so that this holds in every program, and more: the runtime   *)
(* decodes into the surfaces of the block.  The counters lose no step, and *)
(* the countdown stops the program only after the last decoder.            *)
(***************************************************************************)
EXTENDS Program, FiniteSetTheorems, TLAPS

(***************************************************************************)
(* The allocator, with nothing said of who calls it.  IInv adds to the     *)
(* properties what the two maps know: an array is in allocResponses exactly*)
(* while a holder has it that is no decoder, and a saved answer is never   *)
(* one of these.                                                           *)
(***************************************************************************)
(* Whoever holds an array holds all of it, and the maps say for what.       *)
HeldRight ==
  \A h \in Holders : held[h] # NotHeld =>
    /\ held[h].pthis \in Sessions
    /\ held[h].response.mids \in Mids
    /\ held[h].response.num = arrays[held[h].response.mids]
    /\ held[h].response.num > 0
    /\ held[h].decode <=> allocResponses[held[h].response.mids] = NULL

(* A saved answer is an array of decoder surfaces of one session.           *)
SavedRight ==
  \A p \in Sessions : decodeResponses[p].response.num # 0 =>
    /\ decodeResponses[p].response.mids \in Mids
    /\ decodeResponses[p].response.num = arrays[decodeResponses[p].response.mids]
    /\ allocResponses[decodeResponses[p].response.mids] = NULL
    /\ \A h \in Holders :
         held[h] # NotHeld /\ held[h].response.mids = decodeResponses[p].response.mids
           => held[h].pthis = p
    /\ \A q \in Sessions :
         decodeResponses[q].response.num # 0
           /\ decodeResponses[q].response.mids = decodeResponses[p].response.mids
           => q = p

ListedRight == \A m \in Mids : allocResponses[m] # NULL => arrays[m] > 0

IInv ==
  /\ MemoryTypeOK /\ objects = arrays
  /\ HeldRight /\ SavedRight /\ ListedRight /\ ArraysExclusive
  /\ RefCounts

-----------------------------------------------------------------------------
LEMMA HoldersFinite ==
  \A p : IsFiniteSet(DecodeHolders(p)) /\ Cardinality(DecodeHolders(p)) \in Nat
  <1>1. \A p : DecodeHolders(p) \in SUBSET Holders
    BY DEF DecodeHolders
  <1>2. \A p : IsFiniteSet(DecodeHolders(p))
    BY <1>1, FS_Subset, AllocatorAssumption DEF AllocatorAssumption
  <1> QED BY <1>2, FS_CardinalityType

(* A holder that takes an array of decoder surfaces is one more of its      *)
(* session, one that takes another array changes no count.                  *)
LEMMA TakingCounts ==
  ASSUME NEW h \in Holders, NEW p \in Sessions, NEW d \in BOOLEAN, NEW r \in Responses,
         MemoryTypeOK, held[h] = NotHeld,
         held' = [held EXCEPT ![h] = [pthis |-> p, decode |-> d, response |-> r]]
  PROVE  /\ \A q \in Sessions : q # p => DecodeHolders(q)' = DecodeHolders(q)
         /\ ~d => DecodeHolders(p)' = DecodeHolders(p)
         /\ d => Cardinality(DecodeHolders(p)') = Cardinality(DecodeHolders(p)) + 1
  <1>1. \A g \in Holders : held'[g] = IF g = h THEN [pthis |-> p, decode |-> d, response |-> r] ELSE held[g]
    BY DEF MemoryTypeOK
  <1>2. ~held[h].decode
    BY DEF NotHeld
  <1>3. \A q \in Sessions : q # p => DecodeHolders(q)' = DecodeHolders(q)
    BY <1>1, <1>2 DEF DecodeHolders
  <1>4. ~d => DecodeHolders(p)' = DecodeHolders(p)
    BY <1>1, <1>2 DEF DecodeHolders
  <1>5. ASSUME d PROVE DecodeHolders(p)' = DecodeHolders(p) \cup {h}
    BY <1>1, <1>5 DEF DecodeHolders
  <1>6. h \notin DecodeHolders(p)
    BY <1>2 DEF DecodeHolders
  <1>7. IsFiniteSet(DecodeHolders(p))
    BY HoldersFinite
  <1>8. Cardinality(DecodeHolders(p) \cup {h}) = Cardinality(DecodeHolders(p)) + 1
    BY <1>6, <1>7, FS_AddElement
  <1> QED BY <1>3, <1>4, <1>5, <1>8

(* A holder that frees an array of decoder surfaces is one less.            *)
LEMMA FreeingCounts ==
  ASSUME NEW h \in Holders, NEW p \in Sessions, MemoryTypeOK, held[h].pthis = p,
         held' = [held EXCEPT ![h] = NotHeld]
  PROVE  /\ \A q \in Sessions : q # p => DecodeHolders(q)' = DecodeHolders(q)
         /\ ~held[h].decode => DecodeHolders(p)' = DecodeHolders(p)
         /\ held[h].decode => Cardinality(DecodeHolders(p)') = Cardinality(DecodeHolders(p)) - 1
  <1>1. \A g \in Holders : held'[g] = IF g = h THEN NotHeld ELSE held[g]
    BY DEF MemoryTypeOK
  <1>2. ~NotHeld.decode
    BY DEF NotHeld
  <1>3. \A q \in Sessions : q # p => DecodeHolders(q)' = DecodeHolders(q)
    BY <1>1, <1>2 DEF DecodeHolders
  <1>4. ~held[h].decode => DecodeHolders(p)' = DecodeHolders(p)
    BY <1>1, <1>2 DEF DecodeHolders
  <1>5. DecodeHolders(p)' = DecodeHolders(p) \ {h}
    BY <1>1, <1>2 DEF DecodeHolders
  <1>6. held[h].decode => h \in DecodeHolders(p)
    BY DEF DecodeHolders
  <1>7. IsFiniteSet(DecodeHolders(p))
    BY HoldersFinite
  <1>8. h \in DecodeHolders(p) => Cardinality(DecodeHolders(p) \ {h}) = Cardinality(DecodeHolders(p)) - 1
    BY <1>7, FS_RemoveElement
  <1> QED BY <1>3, <1>4, <1>5, <1>6, <1>8

LEMMA InitHolds == MemoryInit => IInv
  <1> SUFFICES ASSUME MemoryInit PROVE IInv
    OBVIOUS
  <1>1. NULL \notin Sessions /\ NULL \notin Mids /\ MaxFrames \in Nat
    BY AllocatorAssumption DEF AllocatorAssumption
  <1>2. NoResponse \in Responses /\ NoResponse.num = 0
    BY <1>1 DEF NoResponse, Responses
  <1>3. MemoryTypeOK
    BY <1>1, <1>2 DEF MemoryInit, MemoryTypeOK, NotSaved, NotHeld
  <1>4. HeldRight /\ ArraysExclusive
    BY DEF MemoryInit, HeldRight, ArraysExclusive
  <1>5. SavedRight /\ ListedRight /\ objects = arrays
    BY <1>2 DEF MemoryInit, SavedRight, ListedRight, NotSaved
  <1>6. \A p \in Sessions : DecodeHolders(p) = {}
    BY DEF MemoryInit, DecodeHolders, NotHeld
  <1>7. RefCounts
    BY <1>6, FS_EmptySet DEF RefCounts, MemoryInit, NotSaved
  <1> QED BY <1>3, <1>4, <1>5, <1>7 DEF IInv

-----------------------------------------------------------------------------
(* The runtime gets what was saved for the block.                           *)
LEMMA SavedPreserves ==
  ASSUME IInv, NEW h \in Holders, NEW p \in Sessions, NEW request \in Requests,
         held[h] = NotHeld, AllocSaved(h, p, request)
  PROVE  IInv'
  <1> DEFINE r == decodeResponses[p].response
  <1>1. /\ request.decode /\ r.num # 0 /\ r \in Responses
        /\ held' = [held EXCEPT ![h] = [pthis |-> p, decode |-> request.decode, response |-> r]]
        /\ decodeResponses' = [decodeResponses EXCEPT ![p].refCount = @ + 1]
        /\ arrays' = arrays /\ objects' = objects /\ allocResponses' = allocResponses
    BY DEF AllocSaved, IsSaved, IInv, MemoryTypeOK
  <1>2. /\ r.mids \in Mids /\ r.num = arrays[r.mids] /\ r.num > 0 /\ allocResponses[r.mids] = NULL
        /\ \A g \in Holders : held[g] # NotHeld /\ held[g].response.mids = r.mids => held[g].pthis = p
        /\ \A q \in Sessions : decodeResponses[q].response.num # 0
                               /\ decodeResponses[q].response.mids = r.mids => q = p
    BY <1>1 DEF IInv, SavedRight, MemoryTypeOK, Responses
  <1> HIDE DEF r
  <1>3. request.decode \in BOOLEAN
    BY DEF Requests
  <1>4. MemoryTypeOK'
    BY <1>1, <1>3 DEF IInv, MemoryTypeOK
  <1>5. \A g \in Holders : held'[g] = IF g = h THEN [pthis |-> p, decode |-> TRUE, response |-> r] ELSE held[g]
    BY <1>1 DEF IInv, MemoryTypeOK
  <1>6. HeldRight'
    BY <1>1, <1>2, <1>5 DEF IInv, HeldRight
  <1>7. \A q \in Sessions : decodeResponses'[q].response = decodeResponses[q].response
    BY <1>1 DEF IInv, MemoryTypeOK
  <1>8. SavedRight'
    BY <1>1, <1>2, <1>5, <1>7 DEF IInv, SavedRight
  <1>9. ArraysExclusive'
    <2> SUFFICES ASSUME NEW g \in Holders, NEW k \in Holders, g # k, held'[g] # NotHeld,
                        held'[g].response.mids = held'[k].response.mids
                 PROVE  held'[g].decode /\ held'[k].decode /\ held'[g].pthis = held'[k].pthis
      BY DEF ArraysExclusive
    <2>1. \A l \in Holders : held[l].response.mids = r.mids => held[l] # NotHeld
      BY <1>2, AllocatorAssumption DEF AllocatorAssumption, NotHeld, NoResponse
    <2>2. \A l \in Holders : held[l].response.mids = r.mids => held[l].decode /\ held[l].pthis = p
      BY <1>2, <2>1 DEF IInv, HeldRight
    <2>3. CASE g = h
      BY <1>5, <2>2, <2>3
    <2>4. CASE k = h
      BY <1>5, <2>2, <2>4
    <2>5. CASE g # h /\ k # h
      BY <1>5, <2>5 DEF IInv, ArraysExclusive
    <2> QED BY <2>3, <2>4, <2>5
  <1>10. RefCounts'
    <2>1. \A q \in Sessions : decodeResponses'[q].refCount
            = IF q = p THEN decodeResponses[p].refCount + 1 ELSE decodeResponses[q].refCount
      BY <1>1 DEF IInv, MemoryTypeOK
    <2>2. /\ \A q \in Sessions : q # p => DecodeHolders(q)' = DecodeHolders(q)
          /\ Cardinality(DecodeHolders(p)') = Cardinality(DecodeHolders(p)) + 1
      BY <1>1, <1>3, TakingCounts DEF IInv
    <2> QED BY <2>1, <2>2 DEF IInv, RefCounts
  <1>11. ListedRight' /\ objects' = arrays'
    BY <1>1 DEF IInv, ListedRight
  <1> QED BY <1>4, <1>6, <1>8, <1>9, <1>10, <1>11 DEF IInv

(* An array is made at an address that nobody knows, whole or not at all.   *)
LEMMA MadeWhole ==
  ASSUME IInv, NEW request \in Requests, NEW m \in Mids, NEW made \in 0 .. MaxFrames,
         Accepted(request), MakeObjects(request, m, made)
  PROVE  LET r == Response(request, m, made)
         IN /\ r \in Responses /\ arrays[m] = 0
            /\ arrays' = [arrays EXCEPT ![m] = r.num] /\ objects' = arrays'
            /\ r # NoResponse => r.mids = m /\ r.num > 0
            /\ r = NoResponse => arrays' = arrays
            /\ \A g \in Holders : held[g] # NotHeld => held[g].response.mids # m
            /\ \A q \in Sessions : decodeResponses[q].response.num # 0
                                   => decodeResponses[q].response.mids # m
            /\ allocResponses[m] = NULL
  <1> DEFINE r == Response(request, m, made)
  <1>1. /\ request.num \in Nat /\ request.num <= MaxFrames /\ request.num > 0 /\ MaxFrames \in Nat
        /\ made \in Nat
    BY AllocatorAssumption DEF Requests, Accepted, AllocatorAssumption
  <1>2. arrays[m] = 0
    BY AllocatorAssumption DEF MakeObjects, Used, IInv, MemoryTypeOK, AllocatorAssumption
  <1>3. /\ r \in Responses
        /\ r # NoResponse => r.mids = m /\ r.num > 0
        /\ r = NoResponse => r.num = 0
        /\ made = request.num <=> r # NoResponse
    BY <1>1, AllocatorAssumption DEF Response, NoResponse, Responses, AllocatorAssumption
  <1>4. made = request.num => r.num = made
    BY DEF Response
  <1>5. made # request.num => made - CleanedUp(request, made) = 0
    BY <1>1 DEF MakeObjects, MayMake, CleanedUp
  <1>6. arrays' = [arrays EXCEPT ![m] = r.num]
    BY DEF MakeObjects
  <1>7. objects' = [arrays EXCEPT ![m] = r.num]
    BY <1>3, <1>4, <1>5 DEF MakeObjects, IInv
  <1>8. r = NoResponse => arrays' = arrays
    BY <1>2, <1>3, <1>6 DEF IInv, MemoryTypeOK
  <1>9. \A g \in Holders : held[g] # NotHeld => held[g].response.mids # m
    BY <1>2 DEF IInv, HeldRight
  <1>10. \A q \in Sessions : decodeResponses[q].response.num # 0 => decodeResponses[q].response.mids # m
    BY <1>2 DEF IInv, SavedRight
  <1>11. allocResponses[m] = NULL
    BY <1>2 DEF IInv, ListedRight
  <1> QED BY <1>2, <1>3, <1>6, <1>7, <1>8, <1>9, <1>10, <1>11

(* A new array, or none.                                                    *)
LEMMA NewPreserves ==
  ASSUME IInv, NEW h \in Holders, NEW p \in Sessions, NEW request \in Requests,
         NEW m \in Mids, NEW made \in 0 .. MaxFrames,
         held[h] = NotHeld, AllocNew(h, p, request, m, made)
  PROVE  IInv'
  <1> DEFINE r == Response(request, m, made)
  <1>1. Accepted(request) /\ MakeObjects(request, m, made)
    BY DEF AllocNew
  <1>2. /\ r \in Responses /\ arrays[m] = 0
        /\ arrays' = [arrays EXCEPT ![m] = r.num] /\ objects' = arrays'
        /\ r # NoResponse => r.mids = m /\ r.num > 0
        /\ r = NoResponse => arrays' = arrays
        /\ \A g \in Holders : held[g] # NotHeld => held[g].response.mids # m
        /\ \A q \in Sessions : decodeResponses[q].response.num # 0
                               => decodeResponses[q].response.mids # m
        /\ allocResponses[m] = NULL
    BY <1>1, MadeWhole
  <1>3. /\ r = NoResponse => UNCHANGED <<allocResponses, decodeResponses, held>>
        /\ r # NoResponse =>
             /\ held' = [held EXCEPT ![h] = [pthis |-> p, decode |-> request.decode, response |-> r]]
             /\ IF request.decode
                THEN /\ decodeResponses' = [decodeResponses EXCEPT ![p].response = r, ![p].refCount = @ + 1]
                     /\ allocResponses' = allocResponses
                ELSE /\ allocResponses' = [allocResponses EXCEPT ![m] = p]
                     /\ decodeResponses' = decodeResponses
    BY DEF AllocNew
  <1>4. request.decode \in BOOLEAN /\ p # NULL /\ NULL \notin Mids
    BY AllocatorAssumption DEF Requests, AllocatorAssumption
  <1> HIDE DEF r
  <1>5. CASE r = NoResponse
    <2>1. UNCHANGED <<arrays, allocResponses, decodeResponses, held>> /\ objects' = arrays'
      BY <1>2, <1>3, <1>5
    <2>2. MemoryTypeOK'
      BY <2>1 DEF IInv, MemoryTypeOK
    <2>3. HeldRight' /\ SavedRight' /\ ListedRight' /\ ArraysExclusive'
      BY <2>1 DEF IInv, HeldRight, SavedRight, ListedRight, ArraysExclusive
    <2>4. RefCounts'
      BY <2>1 DEF IInv, RefCounts, DecodeHolders
    <2> QED BY <2>1, <2>2, <2>3, <2>4 DEF IInv
  <1>6. CASE r # NoResponse
    <2>1. /\ r.mids = m /\ r.num > 0 /\ r.num \in 0 .. MaxFrames
          /\ \A n \in Mids : arrays'[n] = IF n = m THEN r.num ELSE arrays[n]
      BY <1>2, <1>6 DEF IInv, MemoryTypeOK, Responses
    <2>2. \A g \in Holders : held'[g] = IF g = h THEN [pthis |-> p, decode |-> request.decode, response |-> r]
                                        ELSE held[g]
      BY <1>3, <1>6 DEF IInv, MemoryTypeOK
    <2>3. \A n \in Mids : allocResponses'[n] = IF n = m /\ ~request.decode THEN p ELSE allocResponses[n]
      BY <1>3, <1>4, <1>6 DEF IInv, MemoryTypeOK
    <2>4. \A q \in Sessions :
            /\ decodeResponses'[q].response = IF q = p /\ request.decode THEN r ELSE decodeResponses[q].response
            /\ decodeResponses'[q].refCount = IF q = p /\ request.decode THEN decodeResponses[p].refCount + 1
                                              ELSE decodeResponses[q].refCount
      BY <1>3, <1>4, <1>6 DEF IInv, MemoryTypeOK
    <2>5. MemoryTypeOK'
      <3>1. arrays' \in [Mids -> 0 .. MaxFrames] /\ objects' \in [Mids -> 0 .. MaxFrames]
        BY <1>2, <2>1 DEF IInv, MemoryTypeOK
      <3>2. allocResponses' \in [Mids -> Sessions \union {NULL}]
        BY <1>3, <1>6 DEF IInv, MemoryTypeOK
      <3>3. decodeResponses' \in [Sessions -> [response : Responses, refCount : Nat]]
        BY <1>2, <1>3, <1>6 DEF IInv, MemoryTypeOK
      <3>4. held' \in [Holders -> [pthis : Sessions \union {NULL}, decode : BOOLEAN, response : Responses]]
        BY <1>2, <1>3, <1>4, <1>6 DEF IInv, MemoryTypeOK
      <3> QED BY <3>1, <3>2, <3>3, <3>4 DEF MemoryTypeOK
    <2>6. HeldRight'
      BY <1>2, <1>4, <2>1, <2>2, <2>3 DEF IInv, HeldRight
    <2>7. SavedRight'
      <3> SUFFICES ASSUME NEW q \in Sessions, decodeResponses'[q].response.num # 0
                   PROVE  /\ decodeResponses'[q].response.mids \in Mids
                          /\ decodeResponses'[q].response.num = arrays'[decodeResponses'[q].response.mids]
                          /\ allocResponses'[decodeResponses'[q].response.mids] = NULL
                          /\ \A g \in Holders :
                               held'[g] # NotHeld /\ held'[g].response.mids = decodeResponses'[q].response.mids
                                 => held'[g].pthis = q
                          /\ \A k \in Sessions :
                               decodeResponses'[k].response.num # 0
                                 /\ decodeResponses'[k].response.mids = decodeResponses'[q].response.mids
                                 => k = q
        BY DEF SavedRight
      <3>1. CASE q = p /\ request.decode
        BY <1>2, <2>1, <2>2, <2>3, <2>4, <3>1
      <3>2. CASE ~(q = p /\ request.decode)
        <4>1. decodeResponses'[q].response = decodeResponses[q].response
          BY <2>4, <3>2
        <4>2. /\ decodeResponses[q].response.mids \in Mids /\ decodeResponses[q].response.mids # m
              /\ decodeResponses[q].response.num = arrays[decodeResponses[q].response.mids]
              /\ allocResponses[decodeResponses[q].response.mids] = NULL
          BY <1>2, <4>1 DEF IInv, SavedRight
        <4>3. \A g \in Holders :
                held'[g] # NotHeld /\ held'[g].response.mids = decodeResponses[q].response.mids
                  => held'[g].pthis = q
          BY <2>1, <2>2, <4>1, <4>2 DEF IInv, SavedRight
        <4>4. \A k \in Sessions :
                decodeResponses'[k].response.num # 0
                  /\ decodeResponses'[k].response.mids = decodeResponses[q].response.mids => k = q
          BY <2>1, <2>4, <4>1, <4>2 DEF IInv, SavedRight
        <4> QED BY <2>1, <2>3, <4>1, <4>2, <4>3, <4>4
      <3> QED BY <3>1, <3>2
    <2>7a. ListedRight'
      BY <2>1, <2>3 DEF IInv, ListedRight
    <2>8. ArraysExclusive'
      <3> SUFFICES ASSUME NEW g \in Holders, NEW k \in Holders, g # k, held'[g] # NotHeld,
                          held'[g].response.mids = held'[k].response.mids
                   PROVE  held'[g].decode /\ held'[k].decode /\ held'[g].pthis = held'[k].pthis
        BY DEF ArraysExclusive
      <3>1. \A l \in Holders : held[l].response.mids # m
        BY <1>2, <1>4 DEF NotHeld, NoResponse
      <3>2. g # h /\ k # h
        BY <2>1, <2>2, <3>1
      <3> QED BY <2>2, <3>2 DEF IInv, ArraysExclusive
    <2>9. RefCounts'
      <3>1. /\ \A q \in Sessions : q # p => DecodeHolders(q)' = DecodeHolders(q)
            /\ ~request.decode => DecodeHolders(p)' = DecodeHolders(p)
            /\ request.decode => Cardinality(DecodeHolders(p)') = Cardinality(DecodeHolders(p)) + 1
        BY <1>2, <1>3, <1>4, <1>6, TakingCounts DEF IInv
      <3> QED BY <2>4, <3>1 DEF IInv, RefCounts
    <2> QED BY <1>2, <2>5, <2>6, <2>7, <2>7a, <2>8, <2>9 DEF IInv
  <1> QED BY <1>5, <1>6

(* The holder gives back what it has.  Nothing is ever destroyed.           *)
LEMMA FreePreserves ==
  ASSUME IInv, NEW h \in Holders, Free(h)
  PROVE  IInv'
  <1>0. PICK p \in Sessions : p = held[h].pthis
    BY DEF Free, IInv, HeldRight
  <1> DEFINE r == held[h].response
             once == [decodeResponses[p] EXCEPT !.refCount = @ - 1]
  <1>1. /\ held[h] # NotHeld /\ held' = [held EXCEPT ![h] = NotHeld]
        /\ held[h].pthis = p /\ r.mids \in Mids /\ r.num > 0 /\ r.num = arrays[r.mids]
        /\ held[h].decode <=> allocResponses[r.mids] = NULL
    BY <1>0 DEF Free, IInv, HeldRight
  <1>2. /\ decodeResponses[p].refCount = Cardinality(DecodeHolders(p))
        /\ decodeResponses[p].refCount \in Nat
        /\ decodeResponses[p] \in [response : Responses, refCount : Nat]
    BY <1>1 DEF IInv, RefCounts, MemoryTypeOK
  <1>3. \A g \in Holders : held'[g] = IF g = h THEN NotHeld ELSE held[g]
    BY <1>1 DEF IInv, MemoryTypeOK
  <1>4. /\ \A q \in Sessions : q # p => DecodeHolders(q)' = DecodeHolders(q)
        /\ ~held[h].decode => DecodeHolders(p)' = DecodeHolders(p)
        /\ held[h].decode => Cardinality(DecodeHolders(p)') = Cardinality(DecodeHolders(p)) - 1
    BY <1>1, FreeingCounts DEF IInv
  <1>5. held[h].decode => decodeResponses[p].refCount > 0
    <2>1. held[h].decode => h \in DecodeHolders(p)
      BY <1>0 DEF DecodeHolders
    <2>2. Cardinality(DecodeHolders(p)) = 0 <=> DecodeHolders(p) = {}
      BY HoldersFinite, FS_EmptySet
    <2> QED BY <1>2, <2>1, <2>2
  <1>6. once.refCount = decodeResponses[p].refCount - 1 /\ once.response = decodeResponses[p].response
    BY <1>2
  <1>7. /\ arrays' = arrays /\ objects' = objects
        /\ held[h].decode =>
             /\ decodeResponses' = [decodeResponses EXCEPT ![p] = IF once.refCount = 0 THEN NotSaved ELSE once]
             /\ allocResponses' = allocResponses
        /\ ~held[h].decode =>
             /\ decodeResponses' = decodeResponses
             /\ allocResponses' = [allocResponses EXCEPT ![r.mids] = NULL]
    <2>1. CASE held[h].decode
      BY <1>1, <1>6, <2>1 DEF Free, FreeObjects
    <2>2. CASE ~held[h].decode
      <3>1. r # decodeResponses[p].response
        BY <1>1, <2>2 DEF IInv, SavedRight
      <3>2. decodeResponses' = [decodeResponses EXCEPT ![p] = decodeResponses[p]]
        BY <1>1, <2>2, <3>1 DEF Free, Decremented
      <3> QED BY <1>1, <2>2, <3>1, <3>2 DEF Free, FreeObjects, IInv, MemoryTypeOK
    <2> QED BY <2>1, <2>2
  <1>8. NotHeld \in [pthis : Sessions \union {NULL}, decode : BOOLEAN, response : Responses]
        /\ NotSaved \in [response : Responses, refCount : Nat] /\ NotSaved.refCount = 0 /\ NotSaved.response.num = 0
    BY AllocatorAssumption DEF NotHeld, NotSaved, NoResponse, Responses, AllocatorAssumption
  <1>9. held[h].decode => once \in [response : Responses, refCount : Nat]
    BY <1>2, <1>5
  <1> HIDE DEF once, r
  <1>10. MemoryTypeOK'
    <2>1. held' \in [Holders -> [pthis : Sessions \union {NULL}, decode : BOOLEAN, response : Responses]]
      BY <1>1, <1>8 DEF IInv, MemoryTypeOK
    <2>2. decodeResponses' \in [Sessions -> [response : Responses, refCount : Nat]]
      BY <1>7, <1>8, <1>9 DEF IInv, MemoryTypeOK
    <2>3. allocResponses' \in [Mids -> Sessions \union {NULL}]
      BY <1>7 DEF IInv, MemoryTypeOK
    <2> QED BY <1>7, <2>1, <2>2, <2>3 DEF IInv, MemoryTypeOK
  <1>11. \A q \in Sessions :
           /\ decodeResponses'[q].response.num # 0 => decodeResponses'[q].response = decodeResponses[q].response
           /\ decodeResponses'[q].refCount = IF q = p /\ held[h].decode THEN decodeResponses[p].refCount - 1
                                             ELSE decodeResponses[q].refCount
    BY <1>6, <1>7, <1>8 DEF IInv, MemoryTypeOK
  <1>12. \A n \in Mids : allocResponses'[n] = IF n = r.mids THEN NULL ELSE allocResponses[n]
    BY <1>1, <1>7 DEF IInv, MemoryTypeOK
  <1>13. ArraysExclusive'
    <2> SUFFICES ASSUME NEW g \in Holders, NEW k \in Holders, g # k, held'[g] # NotHeld,
                        held'[g].response.mids = held'[k].response.mids
                 PROVE  held'[g].decode /\ held'[k].decode /\ held'[g].pthis = held'[k].pthis
      BY DEF ArraysExclusive
    <2>1. g # h /\ held'[g] = held[g]
      BY <1>3
    <2>2. held[g].response.mids \in Mids
      BY <2>1 DEF IInv, HeldRight
    <2>3. k # h
      BY <1>3, <2>1, <2>2, AllocatorAssumption DEF NotHeld, NoResponse, AllocatorAssumption
    <2> QED BY <1>3, <2>1, <2>3 DEF IInv, ArraysExclusive
  <1>14. HeldRight'
    <2> SUFFICES ASSUME NEW g \in Holders, g # h, held[g] # NotHeld
                 PROVE  held[g].decode <=> allocResponses'[held[g].response.mids] = NULL
      BY <1>3, <1>7 DEF IInv, HeldRight
    <2>1. held[g].response.mids = r.mids => held[g].decode
      BY DEF IInv, ArraysExclusive, r
    <2>2. held[g].response.mids \in Mids /\ (held[g].decode <=> allocResponses[held[g].response.mids] = NULL)
      BY DEF IInv, HeldRight
    <2> QED BY <1>12, <2>1, <2>2
  <1>15. SavedRight'
    BY <1>3, <1>7, <1>11, <1>12 DEF IInv, SavedRight
  <1>16. ListedRight' /\ objects' = arrays'
    BY <1>7, <1>12 DEF IInv, ListedRight
  <1>17. RefCounts'
    BY <1>2, <1>4, <1>11 DEF IInv, RefCounts
  <1> QED BY <1>10, <1>13, <1>14, <1>15, <1>16, <1>17 DEF IInv

-----------------------------------------------------------------------------
LEMMA StepPreserves == IInv /\ [MemoryNext]_memory => IInv'
  <1> SUFFICES ASSUME IInv, [MemoryNext]_memory PROVE IInv'
    OBVIOUS
  <1>1. ASSUME NEW h \in Holders, NEW p \in Sessions, NEW request \in Requests,
               NEW m \in Mids, NEW made \in 0 .. MaxFrames, Alloc(h, p, request, m, made)
        PROVE  IInv'
    BY <1>1, SavedPreserves, NewPreserves DEF Alloc
  <1>2. ASSUME NEW h \in Holders, Free(h) PROVE IInv'
    BY <1>2, FreePreserves
  <1>3. CASE UNCHANGED memory
    <2>1. UNCHANGED <<arrays, objects, allocResponses, decodeResponses, held>>
      BY <1>3 DEF memory
    <2>2. MemoryTypeOK' /\ (objects = arrays)'
      BY <2>1 DEF IInv, MemoryTypeOK
    <2>3. HeldRight' /\ SavedRight' /\ ListedRight' /\ ArraysExclusive'
      BY <2>1 DEF IInv, HeldRight, SavedRight, ListedRight, ArraysExclusive
    <2>4. RefCounts'
      BY <2>1 DEF IInv, RefCounts, DecodeHolders
    <2> QED BY <2>2, <2>3, <2>4 DEF IInv
  <1> QED BY <1>1, <1>2, <1>3 DEF MemoryNext

LEMMA AllocatorInvariant == MemorySpec => []IInv
  BY InitHolds, StepPreserves, PTL DEF MemorySpec

LEMMA HeldIsWhole == IInv => WholeArrays
  BY DEF IInv, HeldRight, WholeArrays, Used

(* Every map and array has its type, for any number of sessions and holders. *)
THEOREM MemoryTyped == MemorySpec => []MemoryTypeOK
  <1>1. IInv => MemoryTypeOK
    BY DEF IInv
  <1> QED BY <1>1, AllocatorInvariant, PTL

(* refCount is the number of holders of decoder surfaces of the session.    *)
THEOREM CountsAreRight == MemorySpec => []RefCounts
  <1>1. IInv => RefCounts
    BY DEF IInv
  <1> QED BY <1>1, AllocatorInvariant, PTL

(* A request that fails leaves nothing, a holder has all of its array.      *)
THEOREM ArraysAreWhole == MemorySpec => []WholeArrays
  BY HeldIsWhole, AllocatorInvariant, PTL

(* Only the surfaces of one decoder are shared, and only in one session.    *)
THEOREM ArraysAreExclusive == MemorySpec => []ArraysExclusive
  <1>1. IInv => ArraysExclusive
    BY DEF IInv
  <1> QED BY <1>1, AllocatorInvariant, PTL

-----------------------------------------------------------------------------
(* The main thread and the blocks.                                         *)
Preparing == {"session", "frames", "vpp", "init", "coded"}

(* The main thread prepares one of the program's blocks.                    *)
Where == app \in Apps /\ (main \in Preparing => at \in Blocks)

LEMMA AppFacts ==
  ASSUME Where
  PROVE  /\ app.decoders \in Nat /\ app.decoders > 0 /\ app.encoder \in BOOLEAN
         /\ app.batch \in Nat /\ app.batch > 0
         /\ app.countdown \in BOOLEAN /\ Decoders \subseteq Sessions
         /\ Suggested \in Nat /\ Suggested > 0 /\ MaxFrames \in Nat
         /\ Suggested + app.batch * 4 <= MaxFrames
         /\ app.decoders < Wrap /\ Wrap \in Nat
         /\ [use : {"block", "vpp", "runtime", "coded"}, block : Blocks] \subseteq Holders
  BY AppAssumption, AllocatorAssumption, WrapAssumption
     DEF Where, AppAssumption, AllocatorAssumption, WrapAssumption, Decoders, Blocks, Encoder

LEMMA BlocksCounted ==
  ASSUME Where
  PROVE  LastBlock \in Nat /\ Blocks = 1 .. LastBlock
  <1>1. PICK n \in Nat : Blocks = 1 .. n
    BY AppFacts DEF Blocks, Decoders, Encoder
  <1>2. Cardinality(1 .. n) = n
    BY FS_Interval, 1 \in Int, n \in Int, Z3
  <1> QED BY <1>1, <1>2 DEF LastBlock

(* Every block is a holder for each use, and on the channel of a session.   *)
LEMMA BlockFacts ==
  ASSUME Where, NEW b \in Blocks
  PROVE  /\ Channel(b) \in Sessions
         /\ \A use \in {"block", "vpp", "runtime", "coded"} : Holder(use, b) \in Holders
         /\ b # Encoder => b \in Decoders /\ Channel(b) = b
  BY AppFacts DEF Holder, Channel, Blocks, Decoders, Encoder

LEMMA RequestFacts ==
  ASSUME Where, NEW n \in {Suggested, Suggested + 1, DecodeFrames, VppFrames}
  PROVE  /\ n \in Nat /\ n <= DecodeFrames /\ DecodeFrames \in Nat /\ DecodeFrames > 0
         /\ DecodeRequest(n) \in Requests /\ FrameRequest(n) \in Requests /\ CodedRequest(n) \in Requests
  BY AppFacts DEF DecodeFrames, VppFrames, DecodeRequest, FrameRequest, CodedRequest, Requests

-----------------------------------------------------------------------------
(* AllocFor is a call of the allocator.                                     *)
LEMMA AllocForCalls ==
  ASSUME IInv, NEW h \in Holders, NEW c \in Sessions, NEW request \in Requests,
         AllocFor(h, c, request)
  PROVE  MemoryNext
  <1>1. PICK made \in 0 .. request.num : Alloc(h, c, request, FreshMids, made)
    BY DEF AllocFor
  <1>2. made \in 0 .. MaxFrames
    BY AllocatorAssumption DEF Requests, AllocatorAssumption
  <1>3. CASE AllocSaved(h, c, request)
    <2>1. decodeResponses[c].response.mids \in Mids
      BY <1>3 DEF AllocSaved, IsSaved, IInv, SavedRight
    <2>2. Alloc(h, c, request, decodeResponses[c].response.mids, made)
      BY <1>1, <1>3 DEF Alloc
    <2> QED BY <1>2, <2>1, <2>2 DEF MemoryNext
  <1>4. CASE AllocNew(h, c, request, FreshMids, made)
    <2>1. FreshMids \in Mids
      BY <1>4 DEF AllocNew, MakeObjects
    <2> QED BY <1>1, <1>2, <2>1 DEF MemoryNext
  <1> QED BY <1>1, <1>3, <1>4 DEF Alloc

LEMMA OtherSteps ==
  ASSUME [Next]_vars,
         ~AllocFrames, ~AllocEncoderFrames, ~AllocVpp, ~InitDecoder, ~InitEncoder, ~InitCoded, ~CloseFrees
  PROVE  UNCHANGED memory
  BY DEF Next, MainThread, Prepare, Report, GetSession, NoAdapter, RunAllThreads, BeginReport, UpdateNext,
         Decide, Stop, Join, Clear, Return, Decode, EndDecoder, Infer, InferOwn, EndInference, Interrupt, Killed, vars

(* Every step of the program is a step of the allocator or leaves it alone. *)
LEMMA StepCalls ==
  ASSUME IInv, Where, [Next]_vars
  PROVE  [MemoryNext]_memory
  <1>1. ASSUME AllocFrames \/ InitDecoder PROVE MemoryNext
    <2>1. at \in Blocks
      BY <1>1 DEF AllocFrames, InitDecoder, Where, Preparing
    <2> QED BY <1>1, <2>1, BlockFacts, RequestFacts, AllocForCalls DEF AllocFrames, InitDecoder
  <1>2. ASSUME AllocEncoderFrames \/ AllocVpp PROVE MemoryNext
    <2>1. at \in Blocks
      BY <1>2 DEF AllocEncoderFrames, AllocVpp, Where, Preparing
    <2> QED BY <1>2, <2>1, BlockFacts, RequestFacts, AllocForCalls DEF AllocEncoderFrames, AllocVpp
  <1>3. ASSUME InitEncoder \/ InitCoded PROVE MemoryNext
    <2>1. at \in Blocks
      BY <1>3 DEF InitEncoder, InitCoded, Where, Preparing
    <2> QED BY <1>3, <2>1, BlockFacts, RequestFacts, AllocForCalls DEF InitEncoder, InitCoded
  <1>4. ASSUME CloseFrees PROVE MemoryNext
    BY <1>4 DEF CloseFrees, RuntimeOf, MemoryNext
  <1> QED BY <1>1, <1>2, <1>3, <1>4, OtherSteps

-----------------------------------------------------------------------------
LEMMA WhereInit == Init => Where
  BY AppAssumption DEF Init, Where, Preparing, Blocks, Decoders, Encoder, AppAssumption

LEMMA NextBlockFacts ==
  ASSUME Where, at \in Blocks, NextBlock, app' = app
  PROVE  main' \in {"session", "run"} /\ Where'
  <1>1. at = LastBlock => main' = "run"
    BY DEF NextBlock, Goto
  <1>2. at # LastBlock => main' = "session" /\ at' = at + 1
    BY DEF NextBlock, Goto
  <1>3. at # LastBlock => at + 1 \in Blocks
    BY BlocksCounted
  <1>4. Blocks' = Blocks
    BY DEF Blocks, Decoders, Encoder
  <1> QED BY <1>1, <1>2, <1>3, <1>4 DEF Where, Preparing

LEMMA WhereNext == Where /\ [Next]_vars => Where'
  <1> SUFFICES ASSUME Where, [Next]_vars PROVE Where'
    OBVIOUS
  <1>1. app' = app
    BY DEF Next, MainThread, Prepare, Report, GetSession, NoAdapter, RunAllThreads, BeginReport, UpdateNext,
           Decide, Stop, Join, Clear, Return, Decode, EndDecoder, Infer, InferOwn, EndInference, Interrupt, Killed, vars,
           AllocFrames, AllocEncoderFrames, AllocVpp, InitDecoder, InitEncoder, InitCoded, CloseFrees
  <1>2. Blocks' = Blocks
    BY <1>1 DEF Blocks, Decoders, Encoder
  <1>3. CASE GetSession \/ AllocFrames \/ AllocEncoderFrames \/ AllocVpp
    <2>1. main \in Preparing /\ (main' \notin Preparing \/ at' = at)
      BY <1>3 DEF GetSession, NewChannel, AllocFrames, AllocEncoderFrames, AllocVpp, Goto, Fail, Preparing
    <2> QED BY <1>1, <1>2, <2>1 DEF Where
  <1>4. CASE InitDecoder \/ InitEncoder \/ InitCoded
    <2>1. at \in Blocks
      BY <1>4 DEF InitDecoder, InitEncoder, InitCoded, Where, Preparing
    <2>2. CASE NextBlock
      BY <1>1, <2>1, <2>2, NextBlockFacts
    <2>3. CASE ~NextBlock
      BY <1>1, <1>2, <1>4, <2>1, <2>3 DEF InitDecoder, InitEncoder, InitCoded, Goto, Fail, Where, Preparing
    <2> QED BY <2>2, <2>3
  <1>5. CASE NoAdapter \/ RunAllThreads \/ Report \/ Stop \/ Join \/ Clear \/ Return \/ Killed
    BY <1>1, <1>5 DEF NoAdapter, RunAllThreads, Report, BeginReport, UpdateNext, Decide, Stop, Join, Clear,
                      Return, Killed, Goto, Where, Preparing
  <1>6. CASE UNCHANGED <<main, at>>
    BY <1>1, <1>2, <1>6 DEF Where
  <1>7. CASE CloseFrees \/ Interrupt
    BY <1>6, <1>7 DEF CloseFrees, Interrupt
  <1>8. ASSUME NEW d \in Decoders, Decode(d) \/ EndDecoder(d) PROVE Where'
    BY <1>6, <1>8 DEF Decode, EndDecoder
  <1>9. ASSUME NEW b \in Inferences,
               InferOwn(b) \/ EndInference(b) \/ \E kind \in {"RECEIVED", "PROCESSED"} : Infer(b, kind)
        PROVE  Where'
    BY <1>6, <1>9 DEF Infer, InferOwn, EndInference
  <1>10. CASE UNCHANGED vars
    BY <1>6, <1>10 DEF vars
  <1> QED BY <1>3, <1>4, <1>5, <1>7, <1>8, <1>9, <1>10 DEF Next, MainThread, Prepare

-----------------------------------------------------------------------------
PInv == Where /\ IInv

LEMMA ProgramInvariant == Spec => []PInv
  <1>1. Init => PInv
    BY WhereInit, InitHolds DEF Init, PInv
  <1>2. PInv /\ [Next]_vars => PInv'
    BY StepCalls, StepPreserves, WhereNext DEF PInv
  <1> QED BY <1>1, <1>2, PTL DEF Spec

(* A program does with the allocator what MemorySpec says, whatever fails.  *)
THEOREM UsesAllocator == Spec => MemorySpec
  <1>1. Init => MemoryInit
    BY DEF Init
  <1>2. PInv /\ [Next]_vars => [MemoryNext]_memory
    BY StepCalls DEF PInv
  <1> QED BY <1>1, <1>2, ProgramInvariant, PTL DEF Spec, MemorySpec

(* In every program the arrays are counted, whole and not shared.           *)
THEOREM ProgramMemory == Spec => [](RefCounts /\ WholeArrays /\ ArraysExclusive)
  BY UsesAllocator, CountsAreRight, ArraysAreWhole, ArraysAreExclusive, PTL

-----------------------------------------------------------------------------
(* The counters.                                                            *)
CInv ==
  /\ counters \in [AllTypes -> Nat] /\ acc \in [AllTypes -> Nat] /\ steps \in [AllTypes -> Nat]
  /\ StepsCounted

LEMMA StepCounts ==
  ASSUME CInv, NEW type, Step(type)
  PROVE  CInv'
  <1>1. \A t \in AllTypes :
          /\ counters'[t] = IF t = type THEN counters[t] + 1 ELSE counters[t]
          /\ steps'[t] = IF t = type THEN steps[t] + 1 ELSE steps[t]
          /\ acc'[t] = acc[t]
    BY DEF CInv, Step
  <1>2. /\ counters' \in [AllTypes -> Nat] /\ acc' \in [AllTypes -> Nat] /\ steps' \in [AllTypes -> Nat]
    <2>1. CASE type \in AllTypes
      BY <2>1 DEF CInv, Step
    <2>2. CASE type \notin AllTypes
      BY <2>2 DEF CInv, Step
    <2> QED BY <2>1, <2>2
  <1> QED BY <1>1, <1>2 DEF CInv, StepsCounted

LEMMA UpdateCounts ==
  ASSUME CInv, NEW type, Update(type)
  PROVE  CInv'
  <1>1. \A t \in AllTypes :
          /\ counters'[t] = IF t = type THEN 0 ELSE counters[t]
          /\ acc'[t] = IF t = type THEN acc[t] + counters[t] ELSE acc[t]
          /\ steps'[t] = steps[t]
    BY DEF CInv, Update
  <1>2. /\ counters' \in [AllTypes -> Nat] /\ acc' \in [AllTypes -> Nat] /\ steps' \in [AllTypes -> Nat]
    <2>1. CASE type \in AllTypes
      BY <2>1 DEF CInv, Update
    <2>2. CASE type \notin AllTypes
      BY <2>2 DEF CInv, Update
    <2> QED BY <2>1, <2>2
  <1> QED BY <1>1, <1>2 DEF CInv, StepsCounted

LEMMA OthersDoNotCount ==
  ASSUME [Next]_vars, ~UpdateNext, \A d \in Decoders : ~Decode(d), \A b \in Inferences : ~InferOwn(b),
         \A b \in Inferences, kind \in {"RECEIVED", "PROCESSED"} : ~Infer(b, kind)
  PROVE  UNCHANGED counts
  BY DEF Next, MainThread, Prepare, Report, GetSession, NoAdapter, RunAllThreads, BeginReport,
         Decide, Stop, Join, Clear, Return, EndDecoder, EndInference, Interrupt, Killed, vars,
         AllocFrames, AllocEncoderFrames, AllocVpp, InitDecoder, InitEncoder, InitCoded, CloseFrees,
         CountDownStart, CountDown, SigInt, statistics

LEMMA CountersInvariant == Spec => []CInv
  <1>1. Init => CInv
    BY DEF Init, StatisticsInit, CInv, StepsCounted
  <1>2. CInv /\ [Next]_vars => CInv'
    <2> SUFFICES ASSUME CInv, [Next]_vars PROVE CInv'
      OBVIOUS
    <2>1. CASE UpdateNext
      BY <2>1, UpdateCounts DEF UpdateNext
    <2>2. ASSUME NEW b \in Inferences, InferOwn(b) PROVE CInv'
      BY <2>2, StepCounts DEF InferOwn
    <2>3. ASSUME NEW d \in Decoders, Decode(d) PROVE CInv'
      BY <2>3, StepCounts DEF Decode
    <2>4. ASSUME NEW b \in Inferences, NEW kind \in {"RECEIVED", "PROCESSED"}, Infer(b, kind) PROVE CInv'
      BY <2>4, StepCounts DEF Infer
    <2>5. CASE UNCHANGED counts
      BY <2>5 DEF counts, CInv, StepsCounted
    <2> QED BY <2>1, <2>2, <2>3, <2>4, <2>5, OthersDoNotCount
  <1> QED BY <1>1, <1>2, PTL DEF Spec

(* No step of a counter is lost or counted twice.                           *)
THEOREM NoStepIsLost == Spec => []StepsCounted
  <1>1. CInv => StepsCounted
    BY DEF CInv
  <1> QED BY <1>1, CountersInvariant, PTL

-----------------------------------------------------------------------------
(* The countdown: the decoders that still run, in an application that has   *)
(* started it; otherwise it goes down from 2^32 and does not reach 0.       *)
NotStarted == main \in Preparing \union {"run"}
Left       == Cardinality(running \intersect Decoders)

DInv ==
  /\ countdown \in 0 .. Wrap - 1
  /\ app.countdown => countdown = Left
  /\ ~app.countdown => countdown = 0 \/ countdown >= Wrap - app.decoders + Left
  /\ NotStarted => running = {} /\ countdown = 0 /\ (~continue => interrupted)
  /\ CountdownEnds

LEMMA LeftFacts ==
  ASSUME Where
  PROVE  Left \in Nat /\ Left <= app.decoders /\ IsFiniteSet(running \intersect Decoders)
  <1>1. IsFiniteSet(Decoders) /\ Cardinality(Decoders) = app.decoders
    <2>1. app.decoders \in Int /\ ~(1 > app.decoders) /\ app.decoders - 1 + 1 = app.decoders
      BY AppFacts
    <2> QED BY <2>1, FS_Interval, 1 \in Int DEF Decoders
  <1>2. running \intersect Decoders \subseteq Decoders
    OBVIOUS
  <1> QED BY <1>1, <1>2, FS_Subset, FS_CardinalityType DEF Left

LEMMA CountDownLeft ==
  ASSUME Where, DInv, NEW d \in Decoders, EndDecoder(d)
  PROVE  DInv'
  <1>1. d \in running /\ running' = running \ {d} /\ Decoders' = Decoders /\ app' = app
        /\ main' = main /\ interrupted' = interrupted
        /\ countdown' = (countdown - 1) % Wrap /\ continue' = (continue /\ countdown' # 0)
    BY DEF EndDecoder, CountDown, Decoders, report
  <1>2. Left' = Left - 1 /\ Left \in Nat /\ Left > 0 /\ Left <= app.decoders
    <2>1. running' \intersect Decoders = (running \intersect Decoders) \ {d}
      BY <1>1
    <2>2. Left \in Nat /\ Left <= app.decoders /\ IsFiniteSet(running \intersect Decoders)
      BY LeftFacts
    <2>3. d \in running \intersect Decoders
      BY <1>1
    <2>4. Cardinality((running \intersect Decoders) \ {d}) = Left - 1
      BY <2>2, <2>3, FS_RemoveElement DEF Left
    <2>5. Left # 0
      BY <2>2, <2>3, FS_EmptySet DEF Left
    <2>6. Left' = Cardinality((running \intersect Decoders) \ {d})
      BY <1>1, <2>1 DEF Left
    <2> QED BY <2>2, <2>4, <2>5, <2>6
  <1>3. Wrap \in Nat /\ app.decoders \in Nat /\ app.decoders < Wrap /\ countdown \in 0 .. Wrap - 1
    BY AppFacts DEF DInv
  <1>4. countdown' = IF countdown = 0 THEN Wrap - 1 ELSE countdown - 1
    BY <1>1, <1>3
  <1>5. ~NotStarted
    BY <1>1 DEF DInv
  <1>6. /\ countdown' \in 0 .. Wrap - 1
        /\ app.countdown => countdown' = Left'
        /\ ~app.countdown => countdown' # 0 /\ countdown' >= Wrap - app.decoders + Left'
    BY <1>2, <1>3, <1>4 DEF DInv
  <1>7. Left' = 0 => running' \intersect Decoders' = {}
    BY <1>1, LeftFacts, FS_Subset, FS_EmptySet DEF Left
  <1>8. CountdownEnds'
    BY <1>1, <1>6, <1>7 DEF DInv, CountdownEnds
  <1> QED BY <1>1, <1>5, <1>6, <1>8 DEF DInv, NotStarted

LEMMA OthersKeepCountdown ==
  ASSUME [Next]_vars, ~RunAllThreads, ~Interrupt, \A b \in Inferences : ~EndInference(b),
         \A d \in Decoders : ~EndDecoder(d)
  PROVE  /\ UNCHANGED <<app, running, countdown, continue, interrupted>>
         /\ NotStarted' => NotStarted
  BY DEF Next, MainThread, Prepare, Report, GetSession, NoAdapter, BeginReport, UpdateNext, NewChannel,
         Decide, Stop, Join, Clear, Return, Decode, Infer, InferOwn, Killed, vars, threads, report,
         AllocFrames, AllocEncoderFrames, AllocVpp, InitDecoder, InitEncoder, InitCoded, CloseFrees,
         Step, Update, statistics, NotStarted, Preparing, Goto, Fail, NextBlock

LEMMA CountdownInvariant == Spec => []DInv
  <1>1. Init => DInv
    <2> SUFFICES ASSUME Init PROVE DInv
      OBVIOUS
    <2>1. Wrap \in Nat /\ Wrap > 0
      BY WrapAssumption DEF WrapAssumption
    <2>2. Left = 0
      BY FS_EmptySet DEF Init, Left
    <2> QED BY <2>1, <2>2 DEF Init, StatisticsInit, DInv, CountdownEnds
  <1>2. PInv /\ DInv /\ [Next]_vars => DInv'
    <2> SUFFICES ASSUME Where, DInv, [Next]_vars PROVE DInv'
      BY DEF PInv
    <2>1. CASE RunAllThreads
      <3>1. /\ running' \intersect Decoders' = Decoders /\ app' = app /\ Decoders' = Decoders
            /\ countdown' = IF app.countdown THEN app.decoders ELSE countdown
            /\ countdown = 0 /\ continue' = continue /\ interrupted' = interrupted
            /\ (~continue => interrupted) /\ ~NotStarted'
        BY <2>1 DEF RunAllThreads, CountDownStart, statistics, report, DInv, NotStarted, Preparing, Goto,
                    Decoders, Inferences, Encoder
      <3>2. Cardinality(Decoders) = app.decoders
        <4>1. app.decoders \in Int /\ ~(1 > app.decoders) /\ app.decoders - 1 + 1 = app.decoders
          BY AppFacts
        <4> QED BY <4>1, FS_Interval, 1 \in Int DEF Decoders
      <3>3. Left' = app.decoders
        BY <3>1, <3>2 DEF Left
      <3> QED BY <3>1, <3>3, AppFacts DEF DInv, CountdownEnds
    <2>2. CASE Interrupt
      BY <2>2 DEF Interrupt, SigInt, counts, threads, DInv, CountdownEnds, Left, Decoders, NotStarted
    <2>3. ASSUME NEW b \in Inferences, EndInference(b) PROVE DInv'
      <3>1. running' = running \ {b} /\ b \notin Decoders /\ Decoders' = Decoders
        BY <2>3, AppFacts DEF EndInference, Decoders, Inferences, Encoder
      <3>2. running' \intersect Decoders' = running \intersect Decoders
        BY <3>1
      <3> QED BY <2>3, <3>2 DEF EndInference, report, statistics, DInv, CountdownEnds, Left, NotStarted
    <2>4. ASSUME NEW d \in Decoders, EndDecoder(d) PROVE DInv'
      BY <2>4, CountDownLeft
    <2>5. CASE /\ UNCHANGED <<app, running, countdown, continue, interrupted>>
               /\ NotStarted' => NotStarted
      <3>1. Decoders' = Decoders /\ Left' = Left
        BY <2>5 DEF Decoders, Left
      <3> QED BY <2>5, <3>1 DEF DInv, CountdownEnds
    <2> QED BY <2>1, <2>2, <2>3, <2>4, <2>5, OthersKeepCountdown
  <1> QED BY <1>1, <1>2, ProgramInvariant, PTL DEF Spec

(* The countdown stops the program only after its last decoder, and only a  *)
(* program that has started it: as long as 2^32 is more than its decoders.  *)
THEOREM CountdownIsReal == Spec => []CountdownEnds
  <1>1. DInv => CountdownEnds
    BY DEF DInv
  <1> QED BY <1>1, CountdownInvariant, PTL

-----------------------------------------------------------------------------
(* The answer to a decoder's block stays saved, so that the runtime, which  *)
(* asks for no more, gets the same one.                                     *)
OwnHolder(d) == Holder("block", d)
Runtime(d)   == Holder("runtime", d)

SavedForRuntime(d) ==
  /\ held[OwnHolder(d)] = NotHeld => decodeResponses[d].response.num = 0
  /\ held[OwnHolder(d)] # NotHeld =>
       /\ held[OwnHolder(d)].pthis = d /\ held[OwnHolder(d)].decode
       /\ held[OwnHolder(d)].response = decodeResponses[d].response
       /\ held[OwnHolder(d)].response.num = DecodeFrames
  /\ held[Runtime(d)] # NotHeld =>
       /\ held[OwnHolder(d)] # NotHeld
       /\ held[Runtime(d)].response = held[OwnHolder(d)].response

AskedFirst == main \in {"vpp", "init"} /\ at \in Decoders => held[OwnHolder(at)] # NotHeld

SInv == (\A d \in Decoders : SavedForRuntime(d)) /\ AskedFirst

(* What does not concern a decoder's two answers keeps SInv.                *)
LEMMA SameKept ==
  ASSUME SInv, app' = app,
         \A d \in Decoders :
           /\ decodeResponses'[d].response = decodeResponses[d].response
           /\ held'[OwnHolder(d)] = held[OwnHolder(d)]
           /\ held'[Runtime(d)] = held[Runtime(d)] \/ held'[Runtime(d)] = NotHeld,
         main' \in {"vpp", "init"} /\ at' \in Decoders => held[OwnHolder(at')] # NotHeld
  PROVE  SInv'
  <1>1. Decoders' = Decoders /\ DecodeFrames' = DecodeFrames
    BY DEF Decoders, DecodeFrames
  <1>2. \A d : OwnHolder(d)' = OwnHolder(d) /\ Runtime(d)' = Runtime(d)
    BY DEF OwnHolder, Runtime, Holder
  <1>3. AskedFirst'
    BY <1>1 DEF AskedFirst, OwnHolder, Holder
  <1>4. ASSUME NEW d \in Decoders PROVE SavedForRuntime(d)'
    BY <1>1, <1>2 DEF SInv, SavedForRuntime
  <1> QED BY <1>1, <1>3, <1>4 DEF SInv

LEMMA HoldersDiffer ==
  \A d, e : /\ OwnHolder(d) # Runtime(e) /\ (OwnHolder(d) = OwnHolder(e) => d = e)
            /\ (Runtime(d) = Runtime(e) => d = e)
            /\ OwnHolder(d) # Holder("vpp", e) /\ Runtime(d) # Holder("vpp", e)
            /\ OwnHolder(d) # Holder("coded", e) /\ Runtime(d) # Holder("coded", e)
  <1> DEFINE H(use, b) == [use |-> use, block |-> b]
  <1>1. \A u, v, d, e : H(u, d) = H(v, e) => u = v /\ d = e
    <2> TAKE u, v, d, e
    <2>1. H(u, d).use = u /\ H(v, e).use = v /\ H(u, d).block = d /\ H(v, e).block = e
      OBVIOUS
    <2> QED BY <2>1
  <1> QED BY <1>1 DEF OwnHolder, Runtime, Holder

(* An answer that is no decoder's.                                          *)
LEMMA OtherAnswers ==
  ASSUME IInv, NEW h \in Holders, NEW c \in Sessions, NEW request \in Requests,
         ~request.decode, AllocFor(h, c, request)
  PROVE  decodeResponses' = decodeResponses /\ \A g \in Holders : g # h => held'[g] = held[g]
  <1>1. PICK made \in 0 .. request.num : Alloc(h, c, request, FreshMids, made)
    BY DEF AllocFor
  <1>2. ~AllocSaved(h, c, request)
    BY DEF AllocSaved, IsSaved
  <1> QED BY <1>1, <1>2 DEF Alloc, AllocNew, IInv, MemoryTypeOK

(* A decoder's block gets a new answer, which is saved.                     *)
LEMMA BlockAnswers ==
  ASSUME IInv, NEW h \in Holders, NEW d \in Sessions, NEW request \in Requests,
         request.decode, decodeResponses[d].response.num = 0, AllocFor(h, d, request)
  PROVE  /\ \A e \in Sessions : e # d => decodeResponses'[e] = decodeResponses[e]
         /\ \A g \in Holders : g # h => held'[g] = held[g]
         /\ held'[h] = NotHeld => decodeResponses' = decodeResponses
         /\ held'[h] # NotHeld =>
              /\ held'[h].pthis = d /\ held'[h].decode
              /\ held'[h].response = decodeResponses'[d].response
              /\ held'[h].response.num = request.num
  <1>1. PICK made \in 0 .. request.num : Alloc(h, d, request, FreshMids, made)
    BY DEF AllocFor
  <1>2. held[h] = NotHeld /\ AllocNew(h, d, request, FreshMids, made)
    BY <1>1 DEF Alloc, AllocSaved, IsSaved
  <1> DEFINE r == Response(request, FreshMids, made)
  <1>3. CASE r = NoResponse
    BY <1>2, <1>3 DEF AllocNew
  <1>4. CASE r # NoResponse
    <2>1. r.num = request.num
      BY <1>4 DEF Response
    <2>2. /\ held' = [held EXCEPT ![h] = [pthis |-> d, decode |-> request.decode, response |-> r]]
          /\ decodeResponses' = [decodeResponses EXCEPT ![d].response = r, ![d].refCount = @ + 1]
      BY <1>2, <1>4 DEF AllocNew
    <2> HIDE DEF r
    <2>3. decodeResponses'[d].response = r /\ \A e \in Sessions : e # d => decodeResponses'[e] = decodeResponses[e]
      BY <2>2 DEF IInv, MemoryTypeOK
    <2>4. held'[h] = [pthis |-> d, decode |-> request.decode, response |-> r]
          /\ \A g \in Holders : g # h => held'[g] = held[g]
      BY <2>2 DEF IInv, MemoryTypeOK
    <2>5. d # NULL
      BY AllocatorAssumption DEF AllocatorAssumption
    <2> QED BY <2>1, <2>3, <2>4, <2>5 DEF NotHeld
  <1> QED BY <1>3, <1>4

(* The runtime gets what is saved.                                          *)
LEMMA RuntimeAnswers ==
  ASSUME IInv, NEW h \in Holders, NEW d \in Sessions, NEW request \in Requests, request.decode,
         decodeResponses[d].response.num # 0, request.num <= decodeResponses[d].response.num,
         AllocFor(h, d, request)
  PROVE  /\ \A e \in Sessions : decodeResponses'[e].response = decodeResponses[e].response
         /\ \A g \in Holders : g # h => held'[g] = held[g]
         /\ held'[h].response = decodeResponses[d].response
  <1>1. PICK made \in 0 .. request.num : Alloc(h, d, request, FreshMids, made)
    BY DEF AllocFor
  <1>2. AllocSaved(h, d, request)
    BY <1>1 DEF Alloc, AllocNew, IsSaved
  <1> QED BY <1>2 DEF AllocSaved, IInv, MemoryTypeOK

(* What the runtime gives back leaves an answer saved that a block has.     *)
LEMMA FreeKeepsSaved ==
  ASSUME IInv, RefCounts', NEW h \in Holders, Free(h), NEW d \in Sessions, NEW g \in Holders,
         g # h, held[g].pthis = d, held[g].decode
  PROVE  decodeResponses'[d].response = decodeResponses[d].response
  <1>1. held'[g] = held[g] /\ held[h].pthis \in Sessions
    BY DEF Free, IInv, MemoryTypeOK, HeldRight
  <1>2. g \in DecodeHolders(d)'
    BY <1>1 DEF DecodeHolders
  <1>3. IsFiniteSet(DecodeHolders(d)')
    <2>1. DecodeHolders(d)' \in SUBSET Holders
      BY DEF DecodeHolders
    <2> QED BY <2>1, FS_Subset, AllocatorAssumption DEF AllocatorAssumption
  <1>4. decodeResponses'[d].refCount # 0
    BY <1>2, <1>3, FS_EmptySet DEF RefCounts
  <1>5. decodeResponses'[d].response = decodeResponses[d].response \/ decodeResponses'[d] = NotSaved
    <2> DEFINE once(p) == [decodeResponses[p] EXCEPT !.refCount = @ - 1]
    <2>1. \A p \in Sessions : once(p).response = decodeResponses[p].response
      BY DEF IInv, MemoryTypeOK
    <2>2. PICK p \in Sessions : p = held[h].pthis
      BY <1>1
    <2>3. \/ decodeResponses' = [decodeResponses EXCEPT ![p] = NotSaved]
          \/ decodeResponses' = [decodeResponses EXCEPT ![p] = once(p)]
          \/ decodeResponses' = [decodeResponses EXCEPT ![p] = decodeResponses[p]]
      BY <2>2 DEF Free, Decremented
    <2> HIDE DEF once
    <2> QED BY <2>1, <2>3 DEF IInv, MemoryTypeOK
  <1>6. NotSaved.refCount = 0
    BY DEF NotSaved
  <1> QED BY <1>4, <1>5, <1>6

(* The steps of the memory, with SInv before them.                          *)
LEMMA BlockStep ==
  ASSUME IInv, Where, SInv, AllocFrames
  PROVE  SInv'
  <1>1. at \in Decoders /\ at \in Sessions /\ Channel(at) = at /\ OwnHolder(at) \in Holders /\ app' = app
    BY BlockFacts, AppFacts DEF AllocFrames, Where, Preparing, OwnHolder
  <1>2. DecodeRequest(DecodeFrames) \in Requests
    BY RequestFacts
  <1>3. DecodeRequest(DecodeFrames).decode /\ DecodeRequest(DecodeFrames).num = DecodeFrames
    BY DEF DecodeRequest
  <1>4. AllocFor(OwnHolder(at), at, DecodeRequest(DecodeFrames))
    BY <1>1 DEF AllocFrames, OwnHolder
  <1>5. held[OwnHolder(at)] = NotHeld
    BY <1>4 DEF AllocFor, Alloc
  <1>6. held[Runtime(at)] = NotHeld /\ decodeResponses[at].response.num = 0
    BY <1>1, <1>5 DEF SInv, SavedForRuntime
  <1>7. /\ \A e \in Sessions : e # at => decodeResponses'[e] = decodeResponses[e]
        /\ \A g \in Holders : g # OwnHolder(at) => held'[g] = held[g]
        /\ held'[OwnHolder(at)] = NotHeld => decodeResponses' = decodeResponses
        /\ held'[OwnHolder(at)] # NotHeld =>
             /\ held'[OwnHolder(at)].pthis = at /\ held'[OwnHolder(at)].decode
             /\ held'[OwnHolder(at)].response = decodeResponses'[at].response
             /\ held'[OwnHolder(at)].response.num = DecodeFrames
    BY <1>1, <1>2, <1>3, <1>4, <1>6, BlockAnswers
  <1>8. (main' = "vpp" /\ at' = at /\ held'[OwnHolder(at)] # NotHeld) \/ main' = "destroy"
    BY DEF AllocFrames, Got, Goto, Fail, OwnHolder
  <1>9. Decoders' = Decoders /\ DecodeFrames' = DecodeFrames
        /\ \A d : OwnHolder(d)' = OwnHolder(d) /\ Runtime(d)' = Runtime(d)
    BY <1>1 DEF Decoders, DecodeFrames, OwnHolder, Runtime, Holder
  <1>10. ASSUME NEW d \in Decoders PROVE SavedForRuntime(d)'
    <2>1. OwnHolder(d) \in Holders /\ Runtime(d) \in Holders /\ d \in Sessions
      BY BlockFacts, AppFacts DEF Blocks, Decoders, Encoder, OwnHolder, Runtime
    <2>2. held'[Runtime(d)] = held[Runtime(d)]
      BY <1>7, <2>1, HoldersDiffer
    <2>3. CASE d = at
      BY <1>6, <1>7, <1>9, <2>2, <2>3 DEF SavedForRuntime
    <2>4. CASE d # at
      <3>1. held'[OwnHolder(d)] = held[OwnHolder(d)] /\ decodeResponses'[d] = decodeResponses[d]
        BY <1>7, <2>1, <2>4, HoldersDiffer
      <3> QED BY <1>9, <2>2, <3>1 DEF SInv, SavedForRuntime
    <2> QED BY <2>3, <2>4
  <1>11. AskedFirst'
    BY <1>8, <1>9 DEF AskedFirst, OwnHolder, Holder
  <1> QED BY <1>9, <1>10, <1>11 DEF SInv

LEMMA RuntimeStep ==
  ASSUME IInv, Where, SInv, InitDecoder
  PROVE  SInv'
  <1>1. at \in Decoders /\ at \in Sessions /\ Channel(at) = at /\ Runtime(at) \in Holders /\ app' = app
    BY BlockFacts, AppFacts DEF InitDecoder, Where, Preparing, Runtime
  <1>2. PICK num \in {Suggested, DecodeFrames} : AllocFor(Runtime(at), at, DecodeRequest(num))
    BY <1>1 DEF InitDecoder, Runtime
  <1>3. /\ DecodeRequest(num) \in Requests /\ num <= DecodeFrames /\ DecodeFrames > 0
        /\ DecodeRequest(num).decode /\ DecodeRequest(num).num = num
    BY RequestFacts DEF DecodeRequest
  <1>4. held[OwnHolder(at)] # NotHeld
    BY <1>1 DEF InitDecoder, SInv, AskedFirst
  <1>5. decodeResponses[at].response.num = DecodeFrames
        /\ held[OwnHolder(at)].response = decodeResponses[at].response
    BY <1>1, <1>4 DEF SInv, SavedForRuntime
  <1>6. decodeResponses[at].response.num # 0 /\ num <= decodeResponses[at].response.num
    BY <1>3, <1>5, RequestFacts
  <1>7. /\ \A e \in Sessions : decodeResponses'[e].response = decodeResponses[e].response
        /\ \A g \in Holders : g # Runtime(at) => held'[g] = held[g]
        /\ held'[Runtime(at)].response = decodeResponses[at].response
    BY <1>1, <1>2, <1>3, <1>6, RuntimeAnswers
  <1>8. main' \notin {"vpp", "init"}
    BY DEF InitDecoder, NextBlock, Fail, Goto
  <1>9. Decoders' = Decoders /\ DecodeFrames' = DecodeFrames
        /\ \A d : OwnHolder(d)' = OwnHolder(d) /\ Runtime(d)' = Runtime(d)
    BY <1>1 DEF Decoders, DecodeFrames, OwnHolder, Runtime, Holder
  <1>10. ASSUME NEW d \in Decoders PROVE SavedForRuntime(d)'
    <2>1. OwnHolder(d) \in Holders /\ Runtime(d) \in Holders /\ d \in Sessions
      BY BlockFacts, AppFacts DEF Blocks, Decoders, Encoder, OwnHolder, Runtime
    <2>2. held'[OwnHolder(d)] = held[OwnHolder(d)] /\ decodeResponses'[d].response = decodeResponses[d].response
      BY <1>7, <2>1, HoldersDiffer
    <2>3. CASE d = at
      BY <1>4, <1>5, <1>7, <1>9, <2>2, <2>3 DEF SInv, SavedForRuntime
    <2>4. CASE d # at
      <3>1. held'[Runtime(d)] = held[Runtime(d)]
        BY <1>7, <2>1, <2>4, HoldersDiffer
      <3> QED BY <1>9, <2>2, <3>1 DEF SInv, SavedForRuntime
    <2> QED BY <2>3, <2>4
  <1>11. AskedFirst'
    BY <1>8 DEF AskedFirst
  <1> QED BY <1>9, <1>10, <1>11 DEF SInv

(* VPP and encoder: none of the holders is a decoder's.                     *)
LEMMA OtherStep ==
  ASSUME IInv, Where, SInv, AllocEncoderFrames \/ AllocVpp \/ InitEncoder \/ InitCoded
  PROVE  SInv'
  <1>1. at \in Blocks /\ app' = app
    BY DEF AllocEncoderFrames, AllocVpp, InitEncoder, InitCoded, Where, Preparing
  <1> DEFINE Other(h, request) ==
               /\ AllocFor(h, Channel(at), request) /\ ~request.decode
               /\ \/ h \in {Holder("vpp", at), Holder("coded", at)}
                  \/ at = Encoder /\ h \in {Holder("block", at), Holder("runtime", at)}
  <1>2. PICK h \in Holders, request \in Requests : Other(h, request)
    <2>1. \A use \in {"block", "vpp", "runtime", "coded"} : Holder(use, at) \in Holders
      BY <1>1, BlockFacts
    <2>2. /\ FrameRequest(Suggested + 1) \in Requests /\ FrameRequest(VppFrames) \in Requests
          /\ FrameRequest(Suggested) \in Requests /\ CodedRequest(Suggested) \in Requests
      BY RequestFacts
    <2>3. \A n : ~FrameRequest(n).decode /\ ~CodedRequest(n).decode
      BY DEF FrameRequest, CodedRequest
    <2>4. CASE AllocEncoderFrames
      <3>1. Other(Holder("block", at), FrameRequest(Suggested + 1))
        BY <2>3, <2>4 DEF AllocEncoderFrames
      <3> QED BY <2>1, <2>2, <3>1
    <2>5. CASE AllocVpp
      <3>1. Other(Holder("vpp", at), FrameRequest(VppFrames))
        BY <2>3, <2>5 DEF AllocVpp
      <3> QED BY <2>1, <2>2, <3>1
    <2>6. CASE InitEncoder
      <3>1. Other(Holder("runtime", at), FrameRequest(Suggested))
        BY <2>3, <2>6 DEF InitEncoder
      <3> QED BY <2>1, <2>2, <3>1
    <2>7. CASE InitCoded
      <3>1. Other(Holder("coded", at), CodedRequest(Suggested))
        BY <2>3, <2>7 DEF InitCoded
      <3> QED BY <2>1, <2>2, <3>1
    <2> QED BY <2>4, <2>5, <2>6, <2>7
  <1>3. decodeResponses' = decodeResponses /\ \A g \in Holders : g # h => held'[g] = held[g]
    BY <1>1, <1>2, BlockFacts, OtherAnswers
  <1>4. Encoder \notin Decoders
    BY AppFacts DEF Encoder, Decoders
  <1>5. ASSUME NEW d \in Decoders
        PROVE  held'[OwnHolder(d)] = held[OwnHolder(d)] /\ held'[Runtime(d)] = held[Runtime(d)]
    <2>1. OwnHolder(d) \in Holders /\ Runtime(d) \in Holders
      BY BlockFacts, AppFacts DEF Blocks, Decoders, Encoder, OwnHolder, Runtime
    <2>2. OwnHolder(d) # h /\ Runtime(d) # h
      <3>1. Holder("block", at) = OwnHolder(at) /\ Holder("runtime", at) = Runtime(at)
        BY DEF OwnHolder, Runtime
      <3> QED BY <1>2, <1>4, <3>1, HoldersDiffer
    <2> QED BY <1>3, <2>1, <2>2
  <1>6. main' \in {"vpp", "init"} /\ at' \in Decoders => main = "vpp" /\ at' = at
    BY <1>4 DEF AllocEncoderFrames, AllocVpp, InitEncoder, InitCoded, NextBlock, Fail, Goto
  <1>7. main' \in {"vpp", "init"} /\ at' \in Decoders => held[OwnHolder(at')] # NotHeld
    BY <1>6 DEF SInv, AskedFirst
  <1> QED BY <1>1, <1>3, <1>5, <1>7, SameKept

LEMMA FreeStep ==
  ASSUME IInv, IInv', Where, SInv, CloseFrees
  PROVE  SInv'
  <1>1. PICK h \in Holders : h.use \in {"runtime", "coded"} /\ Free(h)
    BY DEF CloseFrees, RuntimeOf
  <1>2. app' = app /\ main' = main /\ at' = at /\ main = "destroy"
    BY DEF CloseFrees
  <1>3. \A g \in Holders : held'[g] = IF g = h THEN NotHeld ELSE held[g]
    BY <1>1 DEF Free, IInv, MemoryTypeOK
  <1>4. ASSUME NEW d \in Decoders
        PROVE  /\ held'[OwnHolder(d)] = held[OwnHolder(d)]
               /\ held'[Runtime(d)] = held[Runtime(d)] \/ held'[Runtime(d)] = NotHeld
               /\ held[OwnHolder(d)] # NotHeld => decodeResponses'[d].response = decodeResponses[d].response
    <2>1. OwnHolder(d) \in Holders /\ Runtime(d) \in Holders /\ d \in Sessions
      BY BlockFacts, AppFacts DEF Blocks, Decoders, Encoder, OwnHolder, Runtime
    <2>2. OwnHolder(d) # h
      BY <1>1 DEF OwnHolder, Holder
    <2>3. held[OwnHolder(d)] # NotHeld => held[OwnHolder(d)].pthis = d /\ held[OwnHolder(d)].decode
      BY DEF SInv, SavedForRuntime
    <2>4. RefCounts'
      BY DEF IInv
    <2> QED BY <1>1, <1>3, <2>1, <2>2, <2>3, <2>4, FreeKeepsSaved
  <1>5. ASSUME NEW d \in Decoders, held[OwnHolder(d)] = NotHeld
        PROVE  decodeResponses'[d].response.num = 0
    <2>1. d \in Sessions /\ decodeResponses[d].response.num = 0
      BY <1>5, AppFacts DEF SInv, SavedForRuntime
    <2>2. NotSaved.response.num = 0
      BY DEF NotSaved, NoResponse
    <2>3. \A p \in Sessions : [decodeResponses[p] EXCEPT !.refCount = @ - 1].response = decodeResponses[p].response
      BY DEF IInv, MemoryTypeOK
    <2>4. PICK p \in Sessions : p = held[h].pthis
      BY <1>1 DEF Free, IInv, HeldRight
    <2>5. \/ decodeResponses' = [decodeResponses EXCEPT ![p] = NotSaved]
          \/ decodeResponses' = [decodeResponses EXCEPT ![p] = [decodeResponses[p] EXCEPT !.refCount = @ - 1]]
          \/ decodeResponses' = [decodeResponses EXCEPT ![p] = decodeResponses[p]]
      BY <1>1, <2>4 DEF Free, Decremented
    <2> QED BY <2>1, <2>2, <2>3, <2>5 DEF IInv, MemoryTypeOK
  <1>6. Decoders' = Decoders /\ DecodeFrames' = DecodeFrames
        /\ \A d : OwnHolder(d)' = OwnHolder(d) /\ Runtime(d)' = Runtime(d)
    BY <1>2 DEF Decoders, DecodeFrames, OwnHolder, Runtime, Holder
  <1>7. ASSUME NEW d \in Decoders PROVE SavedForRuntime(d)'
    BY <1>4, <1>5, <1>6 DEF SInv, SavedForRuntime
  <1>8. AskedFirst'
    BY <1>2 DEF AskedFirst
  <1> QED BY <1>6, <1>7, <1>8 DEF SInv

LEMMA OtherPlaces ==
  ASSUME [Next]_vars,
         ~AllocFrames, ~AllocEncoderFrames, ~AllocVpp, ~InitDecoder, ~InitEncoder, ~InitCoded, ~CloseFrees
  PROVE  app' = app /\ (main' \in {"vpp", "init"} => main' = main /\ at' = at)
  BY DEF Next, MainThread, Prepare, Report, GetSession, NewChannel, NoAdapter, RunAllThreads, BeginReport,
         UpdateNext, Decide, Stop, Join, Clear, Return, Decode, EndDecoder, Infer, InferOwn, EndInference,
         Interrupt, Killed, vars, Goto, Fail

LEMMA SameInvariant == Spec => []SInv
  <1>1. Init => SInv
    <2> SUFFICES ASSUME Init PROVE SInv
      OBVIOUS
    <2>1. AskedFirst
      BY DEF Init, AskedFirst
    <2>2. ASSUME NEW d \in Decoders PROVE SavedForRuntime(d)
      <3>1. OwnHolder(d) \in Holders /\ Runtime(d) \in Holders /\ d \in Sessions
        BY WhereInit, BlockFacts, AppFacts DEF Blocks, Decoders, Encoder, OwnHolder, Runtime
      <3>2. NotSaved.response.num = 0
        BY DEF NotSaved, NoResponse
      <3> QED BY <3>1, <3>2 DEF Init, MemoryInit, SavedForRuntime
    <2> QED BY <2>1, <2>2 DEF SInv
  <1>2. PInv /\ PInv' /\ SInv /\ [Next]_vars => SInv'
    <2> SUFFICES ASSUME IInv, IInv', Where, SInv, [Next]_vars PROVE SInv'
      BY DEF PInv
    <2>1. CASE AllocFrames
      BY <2>1, BlockStep
    <2>2. CASE InitDecoder
      BY <2>2, RuntimeStep
    <2>3. CASE AllocEncoderFrames \/ AllocVpp \/ InitEncoder \/ InitCoded
      BY <2>3, OtherStep
    <2>4. CASE CloseFrees
      BY <2>4, FreeStep
    <2>5. CASE ~(\/ AllocFrames \/ InitDecoder \/ AllocEncoderFrames \/ AllocVpp
                 \/ InitEncoder \/ InitCoded \/ CloseFrees)
      <3>1. UNCHANGED memory
        BY <2>5, OtherSteps
      <3>2. app' = app /\ (main' \in {"vpp", "init"} => main' = main /\ at' = at)
        BY <2>5, OtherPlaces
      <3> QED BY <3>1, <3>2, SameKept DEF memory, SInv, AskedFirst
    <2> QED BY <2>1, <2>2, <2>3, <2>4, <2>5
  <1> QED BY <1>1, <1>2, ProgramInvariant, PTL DEF Spec

(* The runtime decodes into the block's surfaces, in every program.         *)
THEOREM RuntimeUsesBlocksSurfaces == Spec => []SameSurfaces
  <1>1. SInv => SameSurfaces
    BY DEF SInv, SavedForRuntime, SameSurfaces, OwnHolder, Runtime
  <1> QED BY <1>1, SameInvariant, PTL

-----------------------------------------------------------------------------
(* Every variable of the program has its type.  ReportPeriodly leaves its   *)
(* loop at the fifth idle report, so that it goes round with less.          *)
Reporting == {"run", "report", "update", "decide"}

TInv ==
  /\ current \in [AllTypes -> Nat] /\ continue \in BOOLEAN
  /\ main \in Preparing \union Reporting \union {"stop", "join", "destroy", "returned"}
  /\ at \in Nat /\ sessions \subseteq Sessions
  /\ running \subseteq Decoders \union Inferences
  /\ pending \in [Inferences -> AllTypes \union {"none"}]
  /\ noFPS \in 0 .. 5 /\ (main \in Preparing \union Reporting => noFPS < 5)
  /\ count \in Nat

LEMMA TInvInit == Init => TInv
  BY DEF Init, StatisticsInit, TInv, Preparing, AllTypes

(* The preparation, and what else only moves the main thread.               *)
LEMMA PlaceStep ==
  ASSUME Where, TInv, NEW places, places \subseteq Preparing \union {"run", "destroy", "returned"},
         main' \in places, main \in Preparing, at' \in Nat, sessions' \subseteq Sessions, app' = app,
         UNCHANGED <<threads, report, statistics>>
  PROVE  TInv'
  BY DEF TInv, threads, report, statistics, counts, Decoders, Inferences, Encoder, Preparing, Reporting

LEMMA PrepareTyped ==
  ASSUME Where, TInv, Prepare
  PROVE  TInv'
  <1>1. at \in Nat /\ FirstToGo \in Nat /\ main \in Preparing /\ at \in Blocks
    BY AppFacts DEF FirstToGo, Encoder, TInv, Prepare, GetSession, NoAdapter, AllocFrames, AllocEncoderFrames, AllocVpp,
                         InitDecoder, InitEncoder, InitCoded, Preparing, Where
  <1>2. app' = app /\ UNCHANGED <<threads, report, statistics>>
    BY DEF Prepare, GetSession, NoAdapter, AllocFrames, AllocEncoderFrames, AllocVpp,
           InitDecoder, InitEncoder, InitCoded, threads, report
  <1>3. main' \in Preparing \union {"run", "destroy", "returned"} /\ at' \in Nat
    BY <1>1 DEF Prepare, GetSession, NewChannel, NoAdapter, AllocFrames, AllocEncoderFrames, AllocVpp,
                InitDecoder, InitEncoder, InitCoded, NextBlock, Fail, Goto, Preparing
  <1>4. sessions' \subseteq Sessions
    <2>1. Channel(at) \in Sessions /\ sessions \subseteq Sessions
      BY <1>1, BlockFacts DEF TInv
    <2> QED BY <2>1 DEF Prepare, GetSession, NewChannel, NoAdapter, AllocFrames, AllocEncoderFrames, AllocVpp,
                        InitDecoder, InitEncoder, InitCoded, process
  <1> QED BY <1>1, <1>2, <1>3, <1>4, PlaceStep

LEMMA ReportTyped ==
  ASSUME Where, TInv, CInv, Report
  PROVE  TInv'
  <1>1. CASE BeginReport
    BY <1>1 DEF BeginReport, Goto, TInv, process, threads, report, statistics, counts, Decoders, Inferences, Encoder,
                Preparing, Reporting
  <1>2. CASE UpdateNext
    <2>1. current' \in [AllTypes -> Nat]
      <3>1. current' = [current EXCEPT ![Types[at]] = counters[Types[at]]]
        BY <1>2 DEF UpdateNext, Update
      <3>2. CASE Types[at] \in AllTypes
        <4>1. counters[Types[at]] \in Nat
          BY <3>2 DEF CInv
        <4> QED BY <3>1, <4>1 DEF TInv
      <3>3. CASE Types[at] \notin AllTypes
        BY <3>1, <3>3 DEF TInv
      <3> QED BY <3>2, <3>3
    <2>2. main' \in Reporting /\ at' \in Nat /\ main \in Reporting
      BY <1>2 DEF UpdateNext, Goto, TInv, Reporting
    <2> QED BY <1>2, <2>1, <2>2 DEF UpdateNext, Update, TInv, process, threads, report, Decoders, Inferences, Encoder
  <1>3. CASE Decide
    <2>1. noFPS \in 0 .. 4 /\ count \in Nat
      BY <1>3 DEF Decide, TInv, Reporting
    <2>2. noFPS' \in 0 .. 5 /\ count' \in Nat /\ at' \in Nat
      BY <1>3, <2>1 DEF Decide, Goto
    <2>3. main' = "stop" \/ (main' = "report" /\ noFPS' < 5)
      BY <1>3, <2>2 DEF Decide, Goto
    <2> QED BY <1>3, <2>2, <2>3 DEF Decide, TInv, process, threads, statistics, counts, Decoders, Inferences, Encoder,
                                    Preparing, Reporting
  <1> QED BY <1>1, <1>2, <1>3 DEF Report

(* Two counters of an image have a name.                                    *)
LEMMA InferTyped ==
  ASSUME Where, TInv, NEW b \in Inferences, NEW kind \in {"RECEIVED", "PROCESSED"}, Infer(b, kind)
  PROVE  TInv'
  <1>1. Kind(b) \in {"SR", "OD", "OC"}
    <2>1. app.decoders \in Nat /\ app.infer \in Seq({"SR", "OD", "OC"}) /\ Len(app.infer) \in Nat
      BY AppAssumption DEF Where, AppAssumption
    <2>2. b - Encoder \in 1 .. Len(app.infer)
      BY <2>1 DEF Inferences, Encoder
    <2> QED BY <2>1, <2>2 DEF Kind
  <1>2. Own(b, kind) \in AllTypes \union {"none"}
    <2>1. {"OD_RECEIVED", "OD_PROCESSED", "OC_RECEIVED", "OC_PROCESSED"} \subseteq AllTypes
      <3>1. Types[4] \in AllTypes /\ Types[5] \in AllTypes /\ Types[6] \in AllTypes /\ Types[7] \in AllTypes
        BY DEF AllTypes, Types
      <3> QED BY <3>1 DEF Types
    <2> QED BY <1>1, <2>1 DEF Own
  <1>3. pending' = [pending EXCEPT ![b] = Own(b, kind)]
        /\ UNCHANGED <<app, main, at, process, running, report>> /\ UNCHANGED <<current, continue>>
    BY DEF Infer, Step
  <1>4. pending' \in [Inferences -> AllTypes \union {"none"}]
    BY <1>2, <1>3 DEF TInv
  <1> QED BY <1>3, <1>4 DEF TInv, process, report, Decoders, Inferences, Encoder

(* What the inference blocks count second, and that they end.               *)
LEMMA InferEndTyped ==
  ASSUME Where, TInv, NEW b \in Inferences, InferOwn(b) \/ EndInference(b)
  PROVE  TInv'
  <1>1. CASE InferOwn(b)
    <2>1. pending' \in [Inferences -> AllTypes \union {"none"}]
      BY <1>1 DEF InferOwn, TInv
    <2> QED BY <1>1, <2>1 DEF InferOwn, Step, TInv, process, report, Decoders, Inferences, Encoder
  <1>2. CASE EndInference(b)
    BY <1>2 DEF EndInference, TInv, process, report, statistics, counts, Decoders, Inferences, Encoder
  <1> QED BY <1>1, <1>2

LEMMA OtherTyped ==
  ASSUME Where, TInv,
         \/ RunAllThreads \/ Stop \/ Join \/ CloseFrees \/ Clear \/ Return
         \/ Interrupt \/ Killed
  PROVE  TInv'
  <1>1. CASE RunAllThreads
    BY <1>1 DEF RunAllThreads, CountDownStart, Goto, TInv, process, report, statistics, counts, Decoders,
                Inferences, Encoder, Preparing, Reporting
  <1>2. CASE Stop \/ Join \/ CloseFrees \/ Clear \/ Return \/ Killed
    <2>1. app' = app /\ UNCHANGED <<threads, report, statistics>>
      BY <1>2 DEF Stop, Join, CloseFrees, Clear, Return, Killed, threads, report, statistics
    <2>2. sessions' \subseteq Sessions
      BY <1>2 DEF Stop, Join, CloseFrees, Clear, Return, Killed, process, TInv
    <2>3. main' \in {"join", "destroy", "returned"} /\ at' \in Nat
      BY <1>2, AppFacts DEF Stop, Join, CloseFrees, Clear, Return, Killed, Goto, FirstToGo, NextToGo, Encoder, TInv
    <2> QED BY <2>1, <2>2, <2>3 DEF TInv, threads, report, statistics, counts, Decoders, Inferences, Encoder, Preparing,
                                    Reporting
  <1>3. CASE Interrupt
    BY <1>3 DEF Interrupt, SigInt, TInv, process, threads, counts, Decoders, Inferences, Encoder
  <1> QED BY <1>1, <1>2, <1>3

LEMMA TypesInvariant == Spec => []TInv
  <1>1. PInv /\ CInv /\ TInv /\ [Next]_vars => TInv'
    <2> SUFFICES ASSUME Where, CInv, TInv, [Next]_vars PROVE TInv'
      BY DEF PInv
    <2>1. ASSUME NEW d \in Decoders, Decode(d) \/ EndDecoder(d) PROVE TInv'
      BY <2>1 DEF Decode, EndDecoder, Step, CountDown, counts, TInv, process, threads, report, Decoders,
                  Inferences, Encoder
    <2>2. CASE UNCHANGED vars
      BY <2>2 DEF vars, TInv, process, threads, report, statistics, counts, Decoders, Inferences, Encoder
    <2> QED BY <2>1, <2>2, PrepareTyped, ReportTyped, InferTyped, InferEndTyped, OtherTyped DEF Next, MainThread
  <1> QED BY <1>1, TInvInit, ProgramInvariant, CountersInvariant, PTL DEF Spec

(* The countdown never leaves the 32-bit counter, ReportPeriodly never      *)
(* counts more than five idle reports, and every variable of the program,   *)
(* the allocator and the counters has its type.                             *)
THEOREM ProgramTyped == Spec => []TypeOK
  <1>1. PInv /\ CInv /\ DInv /\ TInv => TypeOK
    BY DEF PInv, IInv, CInv, DInv, TInv, TypeOK, StatisticsTypeOK, Preparing, Reporting
  <1> QED BY <1>1, ProgramInvariant, CountersInvariant, CountdownInvariant, TypesInvariant, PTL
=============================================================================
