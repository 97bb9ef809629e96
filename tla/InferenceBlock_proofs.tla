----------------------- MODULE InferenceBlock_proofs -----------------------
(***************************************************************************)
(* The block around the engine sends its packets in the order they         *)
(* arrived, each with all its results; every result it has recorded is of  *)
(* a packet that is still inside, and it holds few packets: for any number *)
(* of requests, any batch, any packets of a network that the assumptions   *)
(* admit, any order in which the device completes the requests and any     *)
(* request that fails.                                                     *)
(*   BlockTyped         Spec => []TypeOK                                   *)
(*   BlockSendsInOrder  Spec => []SentInOrder                              *)
(*   RecordedInside     Spec => []RecordedIsInside                         *)
(*   AllResultsAttached Spec => []SentComplete                             *)
(*   FewPacketsHeld     Spec => []HeldPackets                              *)
(*   BlockIsStage       Spec => StageSpec                                  *)
(* The packets that arrived are in three parts: those sent, those being    *)
(* sent after one of them (following), and those from First to before      *)
(* Coming.  Of the last, those in the domain of pendingIDs have images,    *)
(* and each of the others is pending on the one with images before it      *)
(* (PendingOK).  The frames in hasOutputs, then those of the images still  *)
(* in the engine, are sorted and are exactly that domain (WayOK).  Of the  *)
(* results that a packet inside is due, some are recorded, some are        *)
(* Outstanding and some are of images that were not inserted yet           *)
(* (ResultsOK).  When no request is free, the packets that are ahead of    *)
(* the engine's images are one, or a packet has two places in the engine   *)
(* (RoomOK); and the images in the engine that belong to no whole batch    *)
(* are the last batchIndex of all that were inserted (BatchOK).            *)
(***************************************************************************)
EXTENDS InferenceBlock, InferenceOV_proofs, FiniteSetTheorems

(* Sorted and ascending sequences of frames.                               *)
Sorted(s) == \A i, j \in 1 .. Len(s) : i <= j => s[i] <= s[j]
Ascending(s) == \A i, j \in 1 .. Len(s) : i < j => s[i] < s[j]

LEMMA RangeIs ==
  ASSUME NEW S, NEW s \in Seq(S)
  PROVE  /\ \A i \in 1 .. Len(s) : s[i] \in Range(s)
         /\ \A e \in Range(s) : e \in S /\ \E i \in 1 .. Len(s) : s[i] = e
  BY LenProperties, ElementOfSeq DEF Range

LEMMA SortedBoth ==
  ASSUME NEW s \in Seq(Nat), NEW t \in Seq(Nat), Sorted(s), Sorted(t),
         \A d \in Range(s), e \in Range(t) : d <= e
  PROVE  Sorted(s \o t)
  <1>1. PICK a \in Nat, b \in Nat : a = Len(s) /\ b = Len(t)
    BY LenProperties
  <1>2. PICK u \in Seq(Nat) : u = s \o t
    BY Concat
  <1>3. /\ Len(u) = a + b
        /\ \A i \in 1 .. a : u[i] = s[i] /\ s[i] \in Range(s)
        /\ \A i \in 1 .. b : t[i] \in Range(t)
    BY <1>1, <1>2, BothLength, BothFirst, RangeIs
  <1>4. ASSUME NEW i \in 1 .. a + b, i > a
        PROVE  i - a \in 1 .. b /\ u[i] = t[i - a]
    <2>1. PICK k \in 1 .. b : k = i - a /\ a + k = i
      <3>1. i - a \in 1 .. b /\ a + (i - a) = i
        BY <1>1, <1>4
      <3> QED BY <3>1
    <2> QED BY <1>1, <1>2, <2>1, BothSecond
  <1>5. ASSUME NEW i \in 1 .. a + b, NEW j \in 1 .. a + b, i <= j
        PROVE  u[i] <= u[j]
    <2>1. CASE j <= a
      <3>1. i \in 1 .. a /\ j \in 1 .. a
        BY <1>5, <2>1
      <3>2. s[i] <= s[j]
        BY <1>1, <1>5, <3>1 DEF Sorted
      <3> QED BY <1>3, <3>1, <3>2
    <2>2. CASE i <= a /\ j > a
      <3>1. i \in 1 .. a
        BY <2>2
      <3> QED BY <1>3, <1>4, <2>2, <3>1
    <2>3. CASE i > a
      <3>1. i - a \in 1 .. b /\ u[i] = t[i - a]
        BY <1>4, <2>3
      <3>3. j > a
        BY <1>1, <1>5, <2>3
      <3>4. j - a \in 1 .. b /\ u[j] = t[j - a]
        BY <1>4, <3>3
      <3>2. i - a <= j - a
        BY <1>5, <1>1
      <3> QED BY <1>1, <3>1, <3>2, <3>4 DEF Sorted
    <2> QED BY <2>1, <2>2, <2>3, <1>1
  <1> QED BY <1>2, <1>3, <1>5 DEF Sorted

LEMMA SortedParts ==
  ASSUME NEW s \in Seq(Nat), NEW t \in Seq(Nat), Sorted(s \o t)
  PROVE  /\ Sorted(s) /\ Sorted(t)
         /\ \A d \in Range(s), e \in Range(t) : d <= e
  <1>1. PICK a \in Nat, b \in Nat : a = Len(s) /\ b = Len(t)
    BY LenProperties
  <1>2. PICK u \in Seq(Nat) : u = s \o t /\ Sorted(u)
    BY Concat
  <1>3. ASSUME NEW i \in 1 .. a
        PROVE  i \in 1 .. Len(u) /\ u[i] = s[i]
    BY <1>1, <1>2, BothFirst
  <1>4. ASSUME NEW i \in 1 .. b
        PROVE  a + i \in 1 .. Len(u) /\ u[a + i] = t[i]
    BY <1>1, <1>2, BothSecond
  <1>5. Sorted(s)
    <2>1. ASSUME NEW i \in 1 .. a, NEW j \in 1 .. a, i <= j PROVE s[i] <= s[j]
      BY <1>2, <1>3, <2>1 DEF Sorted
    <2> QED BY <1>1, <2>1 DEF Sorted
  <1>6. Sorted(t)
    <2>1. ASSUME NEW i \in 1 .. b, NEW j \in 1 .. b, i <= j PROVE t[i] <= t[j]
      <3>1. a + i <= a + j
        BY <1>1, <2>1
      <3>2. u[a + i] <= u[a + j]
        BY <1>2, <1>4, <3>1 DEF Sorted
      <3> QED BY <1>4, <3>2
    <2> QED BY <1>1, <2>1 DEF Sorted
  <1>7. ASSUME NEW d \in Range(s), NEW e \in Range(t) PROVE d <= e
    <2>1. PICK i \in 1 .. a, j \in 1 .. b : d = s[i] /\ e = t[j]
      BY <1>1, RangeIs
    <2>2. i <= a + j
      BY <1>1
    <2>3. u[i] <= u[a + j]
      BY <1>2, <1>3, <1>4, <2>2 DEF Sorted
    <2> QED BY <1>3, <1>4, <2>1, <2>3
  <1> QED BY <1>5, <1>6, <1>7

LEMMA SortedOne ==
  ASSUME NEW e \in Nat
  PROVE  <<e>> \in Seq(Nat) /\ Sorted(<<e>>) /\ Ascending(<<e>>) /\ Range(<<e>>) = {e}
  <1>1. PICK s \in Seq(Nat) : s = <<e>> /\ Len(s) = 1 /\ s[1] = e
    BY OneIn
  <1>2. \A i \in 1 .. 1 : i = 1
    OBVIOUS
  <1>3. Sorted(s)
    BY <1>1, <1>2 DEF Sorted
  <1>4. Ascending(s)
    BY <1>1, <1>2 DEF Ascending
  <1>5. Range(s) = {e}
    <2>1. e \in Range(s)
      <3>1. 1 \in 1 .. Len(s)
        BY <1>1
      <3>2. s[1] \in Range(s)
        BY <3>1, RangeIs
      <3> QED BY <1>1, <3>2
    <2>2. ASSUME NEW d \in Range(s) PROVE d = e
      BY <1>1, <1>2, RangeIs
    <2> QED BY <2>1, <2>2
  <1> QED BY <1>1, <1>3, <1>4, <1>5

LEMMA AscendingIsSorted ==
  ASSUME NEW s \in Seq(Nat), Ascending(s)
  PROVE  Sorted(s)
  <1>1. PICK a \in Nat : a = Len(s)
    BY LenProperties
  <1>2. ASSUME NEW i \in 1 .. a, NEW j \in 1 .. a, i <= j PROVE s[i] <= s[j]
    <2>1. s[i] \in Nat /\ s[j] \in Nat
      BY <1>1, ElementOfSeq
    <2>2. i < j \/ i = j
      BY <1>2
    <2>3. CASE i < j
      <3>1. s[i] < s[j]
        BY <1>1, <2>3 DEF Ascending
      <3> QED BY <2>1, <3>1
    <2>4. CASE i = j
      BY <2>1, <2>4
    <2> QED BY <2>2, <2>3, <2>4
  <1> QED BY <1>1, <1>2 DEF Sorted

(* The last of an ascending sequence is above the others.                   *)
LEMMA AscendingNext ==
  ASSUME NEW s \in Seq(Nat), Ascending(s), NEW e \in Nat, \A d \in Range(s) : d < e
  PROVE  Ascending(Append(s, e))
  <1>1. PICK a \in Nat : a = Len(s)
    BY LenProperties
  <1>4. PICK u : u = Append(s, e)
    OBVIOUS
  <1>2. u = Append(s, e) /\ Len(u) = a + 1 /\ u[a + 1] = e /\ \A i \in 1 .. a : u[i] = s[i]
    BY <1>1, <1>4, AppendProperties
  <1>3. ASSUME NEW i \in 1 .. a + 1, NEW j \in 1 .. a + 1, i < j PROVE u[i] < u[j]
    <2>1. i \in 1 .. a
      BY <1>3
    <2>2. CASE j = a + 1
      <3>1. s[i] \in Range(s)
        BY <1>1, <2>1, RangeIs
      <3> QED BY <1>2, <2>1, <2>2, <3>1
    <2>3. CASE j # a + 1
      <3>1. j \in 1 .. a
        BY <2>3
      <3>2. s[i] < s[j]
        BY <1>1, <1>3, <2>1, <3>1 DEF Ascending
      <3> QED BY <1>2, <2>1, <3>1, <3>2
    <2> QED BY <2>2, <2>3
  <1> QED BY <1>2, <1>3 DEF Ascending

LEMMA AscendingTail ==
  ASSUME NEW s \in Seq(Nat), Ascending(s), s # <<>>
  PROVE  Ascending(Tail(s)) /\ \A d \in Range(Tail(s)) : Head(s) < d
  <1>1. PICK a \in Nat : a = Len(s) /\ a > 0
    BY LenProperties, EmptySeq
  <1>2. PICK u \in Seq(Nat) : u = Tail(s) /\ Len(u) = a - 1
    BY <1>1, HeadAndTail
  <1>3. ASSUME NEW i \in 1 .. a - 1 PROVE i + 1 \in 1 .. a /\ u[i] = s[i + 1]
    BY <1>1, <1>2, HeadTailProperties
  <1>4. ASSUME NEW i \in 1 .. a - 1, NEW j \in 1 .. a - 1, i < j PROVE u[i] < u[j]
    <2>1. i + 1 < j + 1
      BY <1>1, <1>4
    <2>2. s[i + 1] < s[j + 1]
      BY <1>1, <1>3, <2>1 DEF Ascending
    <2> QED BY <1>3, <2>2
  <1>5. ASSUME NEW d \in Range(u) PROVE Head(s) < d
    <2>1. PICK i \in 1 .. a - 1 : d = u[i]
      BY <1>2, RangeIs, ZenonT(30)
    <2>2. 1 < i + 1 /\ 1 \in 1 .. a
      BY <1>1
    <2>3. s[1] < s[i + 1]
      BY <1>1, <1>3, <2>2 DEF Ascending
    <2> QED BY <1>3, <2>1, <2>3
  <1> QED BY <1>2, <1>4, <1>5 DEF Ascending

-----------------------------------------------------------------------------
(* What Attach pushes to hasOutputs.                                       *)
(* What Pushed computes, from the first of the images that came back on.    *)
PushedTo(n, f, queue, back) ==
  /\ f \in [0 .. n -> Seq(Nat)] /\ f[0] = queue
  /\ \A m \in 1 .. n : f[m] = PushOutput(f[m - 1], back[m])

LEMMA PushOutputType ==
  ASSUME NEW queue \in Seq(Nat), NEW id \in Nat
  PROVE  PushOutput(queue, id) \in Seq(Nat)
  BY AppendProperties DEF PushOutput

LEMMA PushedExists ==
  ASSUME NEW queue \in Seq(Nat), NEW back \in Seq(Nat)
  PROVE  \E f : PushedTo(Len(back), f, queue, back)
  <1> DEFINE T == {n \in Nat : n <= Len(back) => \E f : PushedTo(n, f, queue, back)}
  <1>1. 0 \in T
    <2> DEFINE f == [m \in 0 .. 0 |-> queue]
    <2>1. f \in [0 .. 0 -> Seq(Nat)] /\ f[0] = queue /\ \A m \in 1 .. 0 : f[m] = PushOutput(f[m - 1], back[m])
      OBVIOUS
    <2> HIDE DEF f
    <2>2. PushedTo(0, f, queue, back)
      BY <2>1 DEF PushedTo
    <2> QED BY <2>2
  <1>2. ASSUME NEW n \in T PROVE n + 1 \in T
    <2> SUFFICES ASSUME n + 1 <= Len(back) PROVE \E f : PushedTo(n + 1, f, queue, back)
      BY <1>2
    <2>1. PICK f : PushedTo(n, f, queue, back)
      BY <1>2, LenProperties
    <2>2. n \in Nat /\ back[n + 1] \in Nat /\ f[n] \in Seq(Nat)
      BY <2>1, ElementOfSeq DEF PushedTo
    <2>3. PICK e \in Seq(Nat) : e = PushOutput(f[n], back[n + 1])
      BY <2>2, PushOutputType
    <2> DEFINE g == [m \in 0 .. n + 1 |-> IF m <= n THEN f[m] ELSE e]
    <2>4. g \in [0 .. n + 1 -> Seq(Nat)] /\ g[0] = queue
      BY <2>1, <2>2, <2>3 DEF PushedTo
    <2>5. ASSUME NEW m \in 1 .. n + 1 PROVE g[m] = PushOutput(g[m - 1], back[m])
      <3>1. CASE m <= n
        <4>1. g[m] = f[m] /\ g[m - 1] = f[m - 1] /\ m \in 1 .. n
          BY <2>2, <3>1
        <4> QED BY <2>1, <4>1 DEF PushedTo
      <3>2. CASE m = n + 1
        <4>1. g[m] = e /\ g[m - 1] = f[n]
          BY <2>2, <3>2
        <4> QED BY <2>3, <3>2, <4>1
      <3> QED BY <3>1, <3>2, <2>2
    <2> HIDE DEF g
    <2>6. PushedTo(n + 1, g, queue, back)
      BY <2>4, <2>5 DEF PushedTo
    <2> QED BY <2>6
  <1> HIDE DEF T
  <1>3. T \in SUBSET Nat
    BY DEF T
  <1>4. T = Nat
    BY <1>1, <1>2, <1>3, Induction
  <1>5. Len(back) \in T /\ Len(back) \in Nat
    BY <1>4, LenProperties
  <1> QED BY <1>5 DEF T

LEMMA PushedIs ==
  ASSUME NEW queue \in Seq(Nat), NEW back \in Seq(Nat)
  PROVE  \E f : PushedTo(Len(back), f, queue, back) /\ Pushed(queue, back) = f[Len(back)]
  <1> DEFINE u == CHOOSE g : g = [j \in 0 .. Len(back) |-> IF j = 0 THEN queue ELSE PushOutput(g[j - 1], back[j])]
  <1>0. PICK L \in Nat : L = Len(back)
    BY LenProperties
  <1>1. Pushed(queue, back) = u[L]
    BY <1>0 DEF Pushed
  <1>2. PICK f : PushedTo(L, f, queue, back)
    BY <1>0, PushedExists
  <1>3. f = [j \in 0 .. L |-> IF j = 0 THEN queue ELSE PushOutput(f[j - 1], back[j])]
    <2>1. ASSUME NEW j \in 0 .. L PROVE f[j] = IF j = 0 THEN queue ELSE PushOutput(f[j - 1], back[j])
      <3>1. CASE j = 0
        BY <1>2, <3>1 DEF PushedTo
      <3>2. CASE j # 0
        <4>1. j \in 1 .. L
          BY <3>2
        <4> QED BY <1>2, <3>2, <4>1 DEF PushedTo
      <3> QED BY <3>1, <3>2
    <2>2. f \in [0 .. L -> Seq(Nat)]
      BY <1>2 DEF PushedTo
    <2> QED BY <2>1, <2>2, Zenon
  <1>4. u = [j \in 0 .. L |-> IF j = 0 THEN queue ELSE PushOutput(u[j - 1], back[j])]
    BY <1>0, <1>3, Zenon
  <1> HIDE DEF u
  <1> DEFINE T == {n \in Nat : n <= L => u[n] = f[n]}
  <1>5. 0 \in T
    <2>1. u[0] = queue
      BY <1>4
    <2>2. f[0] = queue
      BY <1>2 DEF PushedTo
    <2> QED BY <2>1, <2>2
  <1>6. ASSUME NEW n \in T PROVE n + 1 \in T
    <2> SUFFICES ASSUME n + 1 <= L PROVE u[n + 1] = f[n + 1]
      OBVIOUS
    <2>1. u[n] = f[n] /\ n + 1 \in 1 .. L /\ n + 1 \in 0 .. L /\ n + 1 # 0 /\ n + 1 - 1 = n
      BY <1>6
    <2>2. u[n + 1] = PushOutput(u[n + 1 - 1], back[n + 1])
      BY <1>4, <2>1
    <2>3. f[n + 1] = PushOutput(f[n + 1 - 1], back[n + 1])
      BY <1>2, <2>1 DEF PushedTo
    <2> QED BY <2>1, <2>2, <2>3
  <1> HIDE DEF T
  <1>7. T \in SUBSET Nat
    BY DEF T
  <1>8. T = Nat
    BY <1>5, <1>6, <1>7, Induction
  <1>9. u[L] = f[L]
    BY <1>8 DEF T
  <1> QED BY <1>0, <1>1, <1>2, <1>9

LEMMA LastOfAscending ==
  ASSUME NEW s \in Seq(Nat), s # <<>>, Sorted(s)
  PROVE  Last(s) \in Range(s) /\ Last(s) \in Nat /\ \A d \in Range(s) : d <= Last(s)
  <1>1. PICK a \in Nat : a = Len(s) /\ a > 0
    BY LenProperties, EmptySeq
  <1>2. a \in 1 .. a
    BY <1>1
  <1>3. s[a] \in Range(s) /\ s[a] \in Nat
    BY <1>1, <1>2, RangeIs
  <1>4. ASSUME NEW d \in Range(s) PROVE d <= s[a]
    <2>1. PICK i \in 1 .. a : d = s[i]
      BY <1>1, RangeIs
    <2> QED BY <1>1, <1>2, <2>1 DEF Sorted
  <1> QED BY <1>1, <1>3, <1>4 DEF Last

(* One more image that is not before the others.                            *)
LEMMA PushOne ==
  ASSUME NEW s \in Seq(Nat), Ascending(s), NEW e \in Nat, \A d \in Range(s) : d <= e,
         NEW t, t = PushOutput(s, e)
  PROVE  /\ t \in Seq(Nat) /\ Ascending(t) /\ Range(t) = Range(s) \union {e}
         /\ Len(t) \in Nat /\ Len(s) <= Len(t)
  <1>1. PICK a \in Nat : a = Len(s)
    BY LenProperties
  <1>2. CASE s # <<>> /\ Last(s) = e
    <2>1. t = s
      BY <1>2 DEF PushOutput
    <2>2. e \in Range(s)
      BY <1>2, AscendingIsSorted, LastOfAscending
    <2> QED BY <1>1, <2>1, <2>2
  <1>3. CASE ~(s # <<>> /\ Last(s) = e)
    <2>1. t = Append(s, e)
      BY <1>3 DEF PushOutput
    <2>2. \A d \in Range(s) : d < e
      <3>1. CASE s = <<>>
        <4>1. Len(s) = 0
          BY <3>1, EmptySeq
        <4>2. ASSUME NEW d \in Range(s) PROVE FALSE
          <5>1. PICK i \in 1 .. Len(s) : s[i] = d
            BY RangeIs
          <5> QED BY <4>1, <5>1
        <4> QED BY <4>2
      <3>2. CASE s # <<>>
        <4>1. Last(s) \in Range(s) /\ Last(s) \in Nat /\ \A d \in Range(s) : d <= Last(s)
          BY <3>2, AscendingIsSorted, LastOfAscending
        <4>2. Last(s) < e
          BY <1>3, <3>2, <4>1
        <4>3. \A d \in Range(s) : d \in Nat
          BY RangeIs
        <4> QED BY <4>1, <4>2, <4>3
      <3> QED BY <3>1, <3>2
    <2>3. Ascending(t)
      BY <2>1, <2>2, AscendingNext
    <2>4. t \in Seq(Nat) /\ Len(t) = Len(s) + 1 /\ Range(t) = Range(s) \union {e}
      <3>1. PICK v : v = Append(s, e)
        OBVIOUS
      <3>2. v \in Seq(Nat) /\ Len(v) = Len(s) + 1
        BY <3>1, AppendedOne
      <3>4. PICK one \in Seq(Nat) : one = <<e>> /\ Range(one) = {e}
        BY SortedOne
      <3>5. v = s \o one
        BY <3>1, <3>4, AppendedOne
      <3>6. s \in Seq(Nat) /\ one \in Seq(Nat)
        BY <3>4
      <3>7. Range(s \o one) = Range(s) \union Range(one)
        BY <3>6, RangeConcatenation, Zenon
      <3>3. Range(v) = Range(s) \union Range(one)
        BY <3>5, <3>7, Zenon
      <3> QED BY <2>1, <3>1, <3>2, <3>3, <3>4
    <2> QED BY <1>1, <2>3, <2>4
  <1> QED BY <1>2, <1>3

(* One pass over images that came back in order.                            *)
LEMMA PushedInOrder ==
  ASSUME NEW h \in Seq(Nat), NEW b \in Seq(Nat), Ascending(h), Sorted(h \o b), NEW q, q = Pushed(h, b)
  PROVE  /\ q \in Seq(Nat) /\ Ascending(q) /\ Range(q) = Range(h) \union Range(b)
         /\ Len(q) \in Nat /\ Len(h) <= Len(q)
  <1>1. PICK L \in Nat : L = Len(b)
    BY LenProperties
  <1>2. PICK f : PushedTo(L, f, h, b) /\ q = f[L]
    BY <1>1, PushedIs
  <1>3. Sorted(b) /\ \A d \in Range(h), e \in Range(b) : d <= e
    BY SortedParts
  <1> DEFINE Good(n, r) == /\ r \in Seq(Nat) /\ Ascending(r) /\ Range(r) = Range(h) \union {b[i] : i \in 1 .. n}
                           /\ Len(r) \in Nat /\ Len(h) <= Len(r)
  <1> DEFINE T == {n \in Nat : n <= L => Good(n, f[n])}
  <1>4. 0 \in T
    <2>1. f[0] = h
      BY <1>2 DEF PushedTo
    <2>2. {b[i] : i \in 1 .. 0} = {}
      OBVIOUS
    <2>3. Len(h) \in Nat
      BY LenProperties
    <2>4. Good(0, h)
      BY <2>2, <2>3
    <2> QED BY <2>1, <2>4
  <1>5. ASSUME NEW n \in T PROVE n + 1 \in T
    <2>0. n \in Nat /\ (n <= L => Good(n, f[n]))
      BY <1>5
    <2> HIDE DEF Good
    <2> SUFFICES ASSUME n + 1 <= L PROVE Good(n + 1, f[n + 1])
      BY <2>0
    <2>1. n \in Nat /\ n + 1 \in 1 .. L /\ n + 1 - 1 = n /\ Good(n, f[n])
      BY <2>0
    <2> USE DEF Good
    <2>2. PICK r \in Seq(Nat) : r = f[n] /\ Good(n, r)
      BY <2>1
    <2>3. PICK e \in Nat : e = b[n + 1] /\ e \in Range(b)
      <3>1. b[n + 1] \in Range(b) /\ b[n + 1] \in Nat
        BY <1>1, <2>1, RangeIs
      <3> QED BY <3>1
    <2>4. \A d \in Range(r) : d <= e
      <3>1. ASSUME NEW d \in Range(h) PROVE d <= e
        BY <1>3, <2>3
      <3>2. ASSUME NEW i \in 1 .. n PROVE b[i] <= e
        <4>1. i \in 1 .. L /\ i <= n + 1
          BY <2>1
        <4>2. b[i] <= b[n + 1]
          BY <1>1, <1>3, <2>1, <4>1 DEF Sorted
        <4> QED BY <2>3, <4>2
      <3>3. Range(r) = Range(h) \union {b[i] : i \in 1 .. n}
        BY <2>2
      <3> QED BY <3>1, <3>2, <3>3
    <2>5. PICK t : t = PushOutput(r, e) /\ f[n + 1] = t
      BY <1>2, <2>1, <2>2, <2>3 DEF PushedTo
    <2>6. Ascending(r) /\ Range(r) = Range(h) \union {b[i] : i \in 1 .. n} /\ Len(h) <= Len(r) /\ Len(r) \in Nat
      BY <2>2
    <2>7. /\ t \in Seq(Nat) /\ Ascending(t) /\ Range(t) = Range(r) \union {e}
          /\ Len(t) \in Nat /\ Len(r) <= Len(t)
      BY <2>4, <2>5, <2>6, PushOne
    <2>8. {b[i] : i \in 1 .. n + 1} = {b[i] : i \in 1 .. n} \union {e}
      <3>1. 1 .. n + 1 = (1 .. n) \union {n + 1}
        BY <2>1
      <3> QED BY <2>3, <3>1
    <2>9. Range(t) = Range(h) \union {b[i] : i \in 1 .. n + 1}
      BY <2>6, <2>7, <2>8
    <2>10. Len(h) <= Len(t)
      <3>1. Len(h) \in Nat
        BY LenProperties
      <3> QED BY <2>6, <2>7, <3>1
    <2> QED BY <2>5, <2>7, <2>9, <2>10
  <1>6. T \in SUBSET Nat
    OBVIOUS
  <1> HIDE DEF T
  <1>7. T = Nat
    BY <1>4, <1>5, <1>6, Induction
  <1>8. Good(L, f[L])
    <2> HIDE DEF Good
    <2>1. L \in T
      BY <1>7
    <2> QED BY <2>1 DEF T
  <1>9. Range(b) = {b[i] : i \in 1 .. L}
    <2>1. DOMAIN b = 1 .. L
      BY <1>1, LenProperties
    <2> QED BY <2>1 DEF Range
  <1> QED BY <1>2, <1>8, <1>9

-----------------------------------------------------------------------------
(* The packets pending on one with images.                                 *)
(* The packets from first to coming, of which those in the domain of p have *)
(* images, and the others are pending on the one before.                    *)
PendingTyped(p) == p \in [DOMAIN p -> Seq(Nat)] /\ DOMAIN p \subseteq Nat

PendingOK(p, first, coming) ==
  /\ \A k \in DOMAIN p : first <= k /\ k < coming
  /\ first \in DOMAIN p \union {coming}
  /\ \A k \in DOMAIN p : k + Len(p[k]) + 1 \in DOMAIN p \union {coming}
  /\ \A k \in DOMAIN p : \A i \in 1 .. Len(p[k]) : p[k][i] = k + i /\ k + i \notin DOMAIN p

LEMMA SetIs ==
  ASSUME NEW f, NEW k, NEW v, NEW g, g = Set(f, k, v)
  PROVE  DOMAIN g = DOMAIN f \union {k} /\ g[k] = v /\ \A i \in DOMAIN f : i # k => g[i] = f[i]
  BY DEF Set

LEMMA EraseIs ==
  ASSUME NEW f, NEW k, NEW g, g = Erase(f, k)
  PROVE  DOMAIN g = DOMAIN f \ {k} /\ \A i \in DOMAIN g : g[i] = f[i]
  BY DEF Erase, Restrict

LEMMA SetTyped ==
  ASSUME NEW p, PendingTyped(p), NEW k \in Nat, NEW v \in Seq(Nat), NEW q, q = Set(p, k, v)
  PROVE  PendingTyped(q)
  BY DEF Set, PendingTyped

LEMMA EraseTyped ==
  ASSUME NEW p, PendingTyped(p), NEW k, NEW q, q = Erase(p, k)
  PROVE  PendingTyped(q)
  BY DEF Erase, Restrict, PendingTyped

(* A packet k with image, and those pending on it.                          *)
LEMMA PendingOne ==
  ASSUME NEW p, PendingTyped(p), NEW k \in DOMAIN p
  PROVE  k \in Nat /\ p[k] \in Seq(Nat) /\ Len(p[k]) \in Nat
  <1>1. k \in Nat /\ p[k] \in Seq(Nat)
    BY DEF PendingTyped
  <1> QED BY <1>1, LenProperties

(* The next packet with an image is behind those pending on the last.       *)
LEMMA PendingBehind ==
  ASSUME NEW p, PendingTyped(p), NEW first \in Nat, NEW coming \in Nat, PendingOK(p, first, coming),
         NEW k \in DOMAIN p, NEW j \in DOMAIN p, k < j
  PROVE  k + Len(p[k]) + 1 <= j
  <1>1. PICK n \in Nat : n = Len(p[k])
    BY PendingOne
  <1>2. k \in Nat /\ j \in Nat
    BY PendingOne
  <1> SUFFICES ASSUME ~(k + n + 1 <= j) PROVE FALSE
    BY <1>1
  <1>3. PICK i \in 1 .. n : k + i = j
    <2>1. j - k \in 1 .. n /\ k + (j - k) = j
      BY <1>1, <1>2
    <2> QED BY <2>1
  <1> QED BY <1>1, <1>3 DEF PendingOK

LEMMA PendingSame ==
  ASSUME NEW p, PendingTyped(p), NEW first \in Nat, NEW coming \in Nat, PendingOK(p, first, coming)
  PROVE  /\ DOMAIN p # {} => first \in DOMAIN p
         /\ DOMAIN p = {} => first = coming
  <1>1. CASE DOMAIN p = {}
    BY <1>1 DEF PendingOK
  <1>2. CASE DOMAIN p # {}
    <2>1. PICK k \in DOMAIN p : k \in Nat /\ first <= k /\ k < coming
      BY <1>2, PendingOne DEF PendingOK
    <2>2. first # coming
      BY <2>1
    <2> QED BY <1>2, <2>2 DEF PendingOK
  <1> QED BY <1>1, <1>2

(* The first packet has left.                                               *)
LEMMA PendingRest ==
  ASSUME NEW p, PendingTyped(p), NEW first \in Nat, NEW coming \in Nat, PendingOK(p, first, coming),
         first \in DOMAIN p, NEW q, q = Erase(p, first), NEW next, next = first + Len(p[first]) + 1
  PROVE  next \in Nat /\ PendingOK(q, next, coming)
  <1>1. PICK n \in Nat : n = Len(p[first])
    BY PendingOne
  <1>2. next = first + n + 1 /\ next \in Nat
    BY <1>1
  <1>3. DOMAIN q = DOMAIN p \ {first} /\ \A i \in DOMAIN q : q[i] = p[i]
    BY DEF Erase, Restrict
  <1>4. ASSUME NEW k \in DOMAIN q PROVE next <= k /\ k < coming
    <2>1. k \in DOMAIN p /\ k # first /\ first <= k /\ k < coming /\ k \in Nat
      BY <1>3, PendingOne DEF PendingOK
    <2>2. first < k
      BY <2>1
    <2> QED BY <2>1, <2>2, PendingBehind
  <1>5. next \in DOMAIN q \union {coming}
    <2>1. next \in DOMAIN p \union {coming}
      BY <1>2, <1>1 DEF PendingOK
    <2>2. next # first
      BY <1>2
    <2> QED BY <1>3, <2>1, <2>2
  <1>6. ASSUME NEW k \in DOMAIN q PROVE k + Len(q[k]) + 1 \in DOMAIN q \union {coming}
    <2>1. k \in DOMAIN p /\ q[k] = p[k] /\ k \in Nat /\ Len(p[k]) \in Nat
      BY <1>3, PendingOne
    <2>2. k + Len(p[k]) + 1 \in DOMAIN p \union {coming}
      BY <2>1 DEF PendingOK
    <2>3. k + Len(p[k]) + 1 # first
      <3>1. first <= k
        BY <2>1 DEF PendingOK
      <3> QED BY <2>1, <3>1
    <2> QED BY <1>3, <2>1, <2>2, <2>3
  <1>7. ASSUME NEW k \in DOMAIN q, NEW i \in 1 .. Len(q[k]) PROVE q[k][i] = k + i /\ k + i \notin DOMAIN q
    BY <1>3 DEF PendingOK
  <1> QED BY <1>2, <1>4, <1>5, <1>6, <1>7 DEF PendingOK

(* Another packet with images is inserted.                                  *)
LEMMA PendingNew ==
  ASSUME NEW p, PendingTyped(p), NEW first \in Nat, NEW coming \in Nat, PendingOK(p, first, coming),
         first <= coming, NEW q, q = Set(p, coming, <<>>)
  PROVE  PendingOK(q, first, coming + 1)
  <1>1. DOMAIN q = DOMAIN p \union {coming} /\ q[coming] = <<>>
    BY DEF Set
  <1>2. \A k \in DOMAIN p : k # coming /\ k \in Nat /\ q[k] = p[k] /\ k < coming /\ first <= k
    <2>1. \A k \in DOMAIN p : k # coming /\ k \in Nat /\ k < coming /\ first <= k
      BY PendingOne DEF PendingOK
    <2>2. \A k \in DOMAIN p : k # coming => q[k] = p[k]
      BY DEF Set
    <2> QED BY <2>1, <2>2
  <1>3. ASSUME NEW k \in DOMAIN q PROVE first <= k /\ k < coming + 1
    BY <1>1, <1>2
  <1>4. first \in DOMAIN q
    BY <1>1 DEF PendingOK
  <1>5. Len(<<>>) = 0
    BY EmptySeq
  <1>6. ASSUME NEW k \in DOMAIN q PROVE k + Len(q[k]) + 1 \in DOMAIN q \union {coming + 1}
    <2>1. CASE k = coming
      BY <1>1, <1>5, <2>1
    <2>2. CASE k \in DOMAIN p
      <3>1. k + Len(p[k]) + 1 \in DOMAIN p \union {coming}
        BY <2>2 DEF PendingOK
      <3> QED BY <1>1, <1>2, <2>2, <3>1
    <2> QED BY <1>1, <2>1, <2>2
  <1>7. ASSUME NEW k \in DOMAIN q, NEW i \in 1 .. Len(q[k]) PROVE q[k][i] = k + i /\ k + i \notin DOMAIN q
    <2>1. CASE k = coming
      <3>1. i \in 1 .. 0
        BY <1>1, <1>5, <2>1
      <3> QED BY <3>1
    <2>2. CASE k \in DOMAIN p
      <3>1. q[k] = p[k] /\ p[k][i] = k + i /\ k + i \notin DOMAIN p
        BY <1>2, <2>2 DEF PendingOK
      <3>2. k + i # coming
        <4>1. PICK n \in Nat : n = Len(p[k])
          BY <2>2, PendingOne
        <4>2. k + n + 1 \in DOMAIN p \union {coming}
          BY <2>2, <4>1 DEF PendingOK
        <4>3. k + n + 1 <= coming /\ i <= n /\ k \in Nat
          BY <1>2, <2>2, <3>1, <4>1, <4>2
        <4> QED BY <4>1, <4>3
      <3> QED BY <1>1, <3>1, <3>2
    <2> QED BY <1>1, <2>1, <2>2
  <1> QED BY <1>3, <1>4, <1>6, <1>7 DEF PendingOK

(* A packet without an image becomes pending on the last one with images.   *)
LEMMA PendingAppended ==
  ASSUME NEW p, PendingTyped(p), NEW first \in Nat, NEW coming \in Nat, PendingOK(p, first, coming),
         NEW last \in DOMAIN p, \A k \in DOMAIN p : k <= last,
         NEW q, q = Set(p, last, Append(p[last], coming))
  PROVE  PendingOK(q, first, coming + 1)
  <1>1. PICK n \in Nat : n = Len(p[last])
    BY PendingOne
  <1>2. PICK s \in Seq(Nat) : s = p[last] /\ Len(s) = n
    BY <1>1, PendingOne
  <1>3. PICK t : t = Append(s, coming)
    OBVIOUS
  <1>4. Len(t) = n + 1 /\ t[n + 1] = coming /\ \A i \in 1 .. n : t[i] = s[i]
    BY <1>2, <1>3, AppendProperties
  <1>5. DOMAIN q = DOMAIN p /\ q[last] = t /\ \A k \in DOMAIN p : k # last => q[k] = p[k]
    <2>1. q = Set(p, last, t)
      BY <1>2, <1>3
    <2>2. DOMAIN q = DOMAIN p \union {last} /\ q[last] = t /\ \A k \in DOMAIN p : k # last => q[k] = p[k]
      BY <2>1 DEF Set
    <2> QED BY <2>2
  <1>6. last \in Nat /\ last < coming /\ \A k \in DOMAIN p : k \in Nat
    BY PendingOne DEF PendingOK
  <1>7. last + n + 1 = coming
    <2>1. last + n + 1 \in DOMAIN p \union {coming}
      BY <1>1 DEF PendingOK
    <2>2. ~(last + n + 1 <= last)
      BY <1>6
    <2> QED BY <2>1, <2>2
  <1>8. ASSUME NEW k \in DOMAIN q PROVE first <= k /\ k < coming + 1
    <2>1. first <= k /\ k < coming /\ k \in Nat
      BY <1>5, <1>6 DEF PendingOK
    <2> QED BY <2>1
  <1>9. first \in DOMAIN q \union {coming + 1}
    <2>1. first <= last
      BY DEF PendingOK
    <2>2. first # coming
      BY <1>6, <2>1
    <2> QED BY <1>5, <2>2 DEF PendingOK
  <1>10. ASSUME NEW k \in DOMAIN q PROVE k + Len(q[k]) + 1 \in DOMAIN q \union {coming + 1}
    <2>1. CASE k = last
      <3>1. Len(q[k]) = n + 1
        BY <1>4, <1>5, <2>1
      <3>2. k + (n + 1) + 1 = coming + 1
        BY <1>6, <1>7, <2>1
      <3> QED BY <3>1, <3>2
    <2>2. CASE k # last
      <3>1. k < last /\ k \in DOMAIN p /\ q[k] = p[k]
        BY <1>5, <1>6, <2>2
      <3>2. k + Len(p[k]) + 1 <= last
        BY <3>1, PendingBehind
      <3>3. k + Len(p[k]) + 1 \in DOMAIN p \union {coming}
        BY <3>1 DEF PendingOK
      <3>4. k + Len(p[k]) + 1 # coming
        BY <1>6, <3>2
      <3> QED BY <1>5, <3>1, <3>3, <3>4
    <2> QED BY <2>1, <2>2
  <1>11. ASSUME NEW k \in DOMAIN q, NEW i \in 1 .. Len(q[k]) PROVE q[k][i] = k + i /\ k + i \notin DOMAIN q
    <2>1. CASE k = last
      <3>1. i \in 1 .. n + 1
        BY <1>4, <1>5, <2>1
      <3>2. CASE i = n + 1
        <4>1. k + i = coming
          BY <1>6, <1>7, <2>1, <3>2
        <4>2. coming \notin DOMAIN p
          <5> SUFFICES ASSUME coming \in DOMAIN p PROVE FALSE
            OBVIOUS
          <5>1. coming < coming
            BY DEF PendingOK
          <5> QED BY <5>1
        <4> QED BY <1>4, <1>5, <2>1, <3>2, <4>1, <4>2
      <3>3. CASE i # n + 1
        <4>1. i \in 1 .. n
          BY <3>1, <3>3
        <4>2. s[i] = last + i /\ last + i \notin DOMAIN p
          BY <1>1, <1>2, <4>1 DEF PendingOK
        <4> QED BY <1>4, <1>5, <2>1, <4>1, <4>2
      <3> QED BY <3>2, <3>3
    <2>2. CASE k # last
      BY <1>5, <2>2 DEF PendingOK
    <2> QED BY <2>1, <2>2
  <1> QED BY <1>8, <1>9, <1>10, <1>11 DEF PendingOK

-----------------------------------------------------------------------------
(* The results that are matched with the images of a frame.                *)
(* Every image has results.                                                 *)
AllFound(s) == \A i \in 1 .. Len(s) : s[i].found > 0

LEMMA AllFoundParts ==
  ASSUME NEW s \in Seq(Image), NEW t \in Seq(Image), NEW u, u = s \o t, AllFound(u)
  PROVE  AllFound(s) /\ AllFound(t)
  <1>1. ASSUME NEW i \in 1 .. Len(s) PROVE s[i].found > 0
    <2>1. i \in 1 .. Len(u) /\ u[i] = s[i]
      BY BothFirst
    <2> QED BY <2>1 DEF AllFound
  <1>2. ASSUME NEW i \in 1 .. Len(t) PROVE t[i].found > 0
    <2>1. PICK j : j = Len(s) + i
      OBVIOUS
    <2>2. j \in 1 .. Len(u) /\ u[j] = t[i]
      BY <2>1, BothSecond
    <2> QED BY <2>2 DEF AllFound
  <1> QED BY <1>1, <1>2 DEF AllFound

LEMMA AllFoundBoth ==
  ASSUME NEW s \in Seq(Image), NEW t \in Seq(Image), NEW u, u = s \o t, AllFound(s), AllFound(t)
  PROVE  AllFound(u)
  <1>1. PICK a \in Nat, b \in Nat : a = Len(s) /\ b = Len(t)
    BY LenProperties
  <1>2. Len(u) = a + b
    BY <1>1, BothLength
  <1>3. ASSUME NEW i \in 1 .. a + b PROVE u[i].found > 0
    <2>1. CASE i <= a
      <3>1. i \in 1 .. Len(s)
        BY <1>1, <2>1
      <3>2. u[i] = s[i]
        BY <3>1, BothFirst
      <3> QED BY <3>1, <3>2 DEF AllFound
    <2>2. CASE i > a
      <3>1. PICK j \in 1 .. Len(t) : Len(s) + j = i
        <4>1. i - a \in 1 .. Len(t) /\ Len(s) + (i - a) = i
          BY <1>1, <2>2
        <4> QED BY <4>1
      <3>2. u[i] = t[j]
        BY <3>1, BothSecond
      <3> QED BY <3>1, <3>2 DEF AllFound
    <2>3. i <= a \/ i > a
      OBVIOUS
    <2> QED BY <2>1, <2>2, <2>3
  <1> QED BY <1>2, <1>3 DEF AllFound

LEMMA FinishedStops ==
  ASSUME EngineTypes
  PROVE  Finished < Len(busyRequest) => busyRequest[Finished + 1] # "done"
  <1>1. busyRequest \in Seq(States)
    BY DEF EngineTypes
  <1>2. \E n \in 0 .. Len(busyRequest) :
          (\A i \in 1 .. n : busyRequest[i] = "done") /\ (n < Len(busyRequest) => busyRequest[n + 1] # "done")
    BY <1>1, LongestBeginning
  <1> QED BY <1>2 DEF Finished

LEMMA AllFoundTranslated ==
  ASSUME NEW s \in Seq(Image), AllFound(s), s # <<>>
  PROVE  Translate(s) # <<>>
  BY SomethingTranslated DEF AllFound

(* How many requests, and images, are popped.                               *)
LEMMA PopCounts ==
  ASSUME EngineTypes, NEW n \in 0 .. Len(busyRequest), Pop(n)
  PROVE  /\ freeRequest' = freeRequest + n /\ n \in Nat /\ freeRequest \in Nat
         /\ Popped(n) \in Seq(Image) /\ Len(Popped(n)) = n * BatchNum
  <1>1. PICK L \in Nat, M \in Nat, N \in Nat, B \in Nat :
          L = Len(busyRequest) /\ M = Len(images) /\ N = n * BatchNum /\ B = BatchNum
    BY LenProperties, EngineAssumption DEF EngineTypes
  <1>2. N <= L * B
    BY <1>1, Shorter
  <1>3. L * B \in Nat
    BY <1>1, Shorter
  <1>4. batchIndex \in Nat /\ M = L * B + batchIndex /\ freeRequest \in Nat
    BY <1>1, EngineAssumption DEF EngineTypes, EngineOK
  <1>5. N \in 0 .. Len(images)
    BY <1>1, <1>2, <1>3, <1>4
  <1>6. images \in Seq(Image)
    BY DEF EngineTypes
  <1>7. SubSeq(images, 1, N) \in Seq(Image) /\ Len(SubSeq(images, 1, N)) = N
    BY <1>5, <1>6, Split
  <1>8. Popped(n) = SubSeq(images, 1, N)
    BY <1>1 DEF Popped
  <1>9. freeRequest' = freeRequest + n
    BY DEF Pop
  <1> QED BY <1>1, <1>4, <1>7, <1>8, <1>9

(* MakeRoom: images move from the engine to the internal buffers.           *)
LEMMA RoomEffect ==
  ASSUME EngineTypes, MakeRoom
  PROVE  \E p \in Seq(Image), n \in Nat :
           /\ EngineTypes' /\ images = p \o images'
           /\ internalIDs' = internalIDs \o IDs(p) /\ internalDatas' = internalDatas \o Translate(p)
           /\ n > 0 /\ freeRequest = 0 /\ freeRequest' = n /\ Len(p) = n * BatchNum /\ p # <<>>
           /\ batchIndex' = batchIndex /\ datas' = datas /\ ids' = ids
  <1>1. PICK n \in 0 .. Len(busyRequest) : n = Finished
    BY FinishedIs
  <1>2. PICK p \in Seq(Image) : p = Popped(n)
    BY PoppedType
  <1>3. /\ Pop(n) /\ freeRequest = 0
        /\ internalDatas' = internalDatas \o Translate(p)
        /\ internalIDs' = internalIDs \o IDs(p)
        /\ batchIndex' = batchIndex /\ datas' = datas /\ ids' = ids
        /\ Head(busyRequest) = "done"
    BY <1>1, <1>2 DEF MakeRoom, outputs
  <1>4. EngineTypes' /\ images = p \o images'
    <2>1. internalDatas' \in Seq(Nat)
      BY <1>3, TranslateType, Concat DEF EngineTypes
    <2>2. internalIDs' \in Seq(Nat)
      BY <1>3, IDsType, Concat DEF EngineTypes
    <2>3. datas' \in Seq(Nat) /\ ids' \in Seq(Nat)
      BY <1>3 DEF EngineTypes
    <2> QED BY <1>2, <1>3, <2>1, <2>2, <2>3, PopSplits
  <1>5. freeRequest' = n /\ n \in Nat /\ Len(p) = n * BatchNum
    BY <1>2, <1>3, PopCounts
  <1>6. n > 0
    <2>0. PICK L \in Nat, A \in Nat : L = Len(busyRequest) /\ A = AsyncDepth /\ A > 0
      BY LenProperties, EngineAssumption DEF EngineTypes
    <2>1. L = Len(busyRequest) /\ L > 0
      BY <1>3, <2>0 DEF EngineTypes, EngineOK
    <2>2. busyRequest[1] = "done"
      BY <1>3
    <2>3. n < L => busyRequest[n + 1] # "done"
      BY <1>1, <2>1, FinishedStops
    <2> QED BY <1>5, <2>1, <2>2, <2>3
  <1>7. p # <<>>
    <2>1. PICK B \in Nat : B = BatchNum /\ B > 0
      BY EngineAssumption
    <2>2. n * B > 0
      BY <1>5, <1>6, <2>1
    <2>3. Len(p) > 0
      BY <1>5, <2>1, <2>2
    <2> QED BY <2>3, EmptySeq
  <1> QED BY <1>3, <1>4, <1>5, <1>6, <1>7

(* GetOutput: what is in the internal buffers is handed over, then what is  *)
(* popped, if internal buffers with images always have results.             *)
LEMMA GetEffect ==
  ASSUME EngineTypes, GetOutput, internalIDs # <<>> => internalDatas # <<>>
  PROVE  \E p \in Seq(Image), n \in Nat :
           /\ EngineTypes' /\ images = p \o images'
           /\ ids' = (ids \o internalIDs) \o IDs(p)
           /\ internalIDs' = <<>> /\ (internalIDs' # <<>> => internalDatas' # <<>>)
           /\ freeRequest \in Nat /\ freeRequest' = freeRequest + n /\ Len(p) = n * BatchNum
           /\ batchIndex' = batchIndex
           /\ Returned = -1 => images' = <<>>
           /\ Returned # 2 => freeRequest' > 0
           /\ Returned \in {-2, -1, 0, 2}
  <1>1. PICK n \in 0 .. Len(busyRequest) : n = Finished
    BY FinishedIs
  <1>2. PICK p \in Seq(Image) : p = Popped(n)
    BY PoppedType
  <1>3. Translate(p) \in Seq(Nat) /\ IDs(p) \in Seq(Nat)
    BY TranslateType, IDsType
  <1>4. /\ datas \in Seq(Nat) /\ ids \in Seq(Nat) /\ internalDatas \in Seq(Nat) /\ internalIDs \in Seq(Nat)
        /\ images \in Seq(Image) /\ busyRequest \in Seq(States)
    BY DEF EngineTypes
  <1>5. Pop(n) /\ batchIndex' = batchIndex
    BY <1>1 DEF GetOutput
  <1>6. /\ datas' \in Seq(Nat) /\ ids' \in Seq(Nat) /\ internalDatas' \in Seq(Nat)
        /\ internalIDs' = <<>> /\ ids' = (ids \o internalIDs) \o IDs(p)
    <2>1. CASE Flushed
      <3>1. /\ datas' = (datas \o internalDatas) \o Translate(p)
            /\ ids' = (ids \o internalIDs) \o IDs(p)
            /\ internalDatas' = <<>> /\ internalIDs' = <<>>
        BY <1>1, <1>2, <2>1, Zenon DEF GetOutput
      <3>2. datas \o internalDatas \in Seq(Nat) /\ ids \o internalIDs \in Seq(Nat)
        BY <1>4, Concat
      <3> QED BY <1>3, <3>1, <3>2, Concat
    <2>2. CASE ~Flushed
      <3>1. datas' = datas \o Translate(p) /\ ids' = ids \o IDs(p)
        BY <1>1, <1>2, <2>2, Zenon DEF GetOutput
      <3>2. internalDatas' = internalDatas /\ internalIDs' = internalIDs
        BY <2>2 DEF GetOutput, internal
      <3>3. internalIDs = <<>>
        BY <2>2 DEF Flushed
      <3>4. ids \o <<>> = ids
        BY <1>4, Concat
      <3>5. datas' \in Seq(Nat) /\ ids' \in Seq(Nat)
        BY <1>3, <1>4, <3>1, Concat
      <3> QED BY <1>4, <3>1, <3>2, <3>3, <3>4, <3>5
    <2> QED BY <2>1, <2>2
  <1>7. EngineTypes' /\ images = p \o images'
    <2>1. internalIDs' \in Seq(Nat)
      BY <1>6, Concat
    <2> QED BY <1>2, <1>5, <1>6, <2>1, PopSplits
  <1>8. freeRequest \in Nat /\ freeRequest' = freeRequest + n /\ n \in Nat /\ Len(p) = n * BatchNum
    BY <1>2, <1>5, PopCounts
  <1>9. CASE busyRequest = <<>>
    <2>1. Len(busyRequest) = 0
      BY <1>9, EmptySeq
    <2>0. PICK A \in Nat : A = AsyncDepth /\ A > 0
      BY EngineAssumption
    <2>2. freeRequest > 0
      BY <1>8, <2>0, <2>1 DEF EngineTypes, EngineOK
    <2>3. Returned \in {-1, -2} /\ (Returned = -1 => batchIndex = 0)
      BY <1>9 DEF Returned
    <2>4. batchIndex = 0 => images' = <<>>
      <3> SUFFICES ASSUME batchIndex = 0 PROVE images' = <<>>
        OBVIOUS
      <3>1. PICK B \in Nat : B = BatchNum
        BY EngineAssumption
      <3>2. Len(images) = 0 * B + 0
        BY <2>1, <3>1 DEF EngineTypes, EngineOK
      <3>3. 0 * B = 0
        BY <3>1
      <3>4. Len(images) = 0
        BY <3>2, <3>3
      <3>5. images' \in Seq(Image)
        BY <1>7 DEF EngineTypes
      <3>6. PICK a \in Nat, b \in Nat : a = Len(p) /\ b = Len(images')
        BY <3>5, LenProperties
      <3>8. Len(images) = a + b
        BY <1>7, <3>5, <3>6, BothLength
      <3>9. a + b = 0
        BY <3>4, <3>8, Zenon
      <3>10. b = 0
        BY <3>9
      <3>7. Len(images') = 0
        BY <3>6, <3>10, Zenon
      <3> QED BY <3>5, <3>7, EmptySeq
    <2>5. freeRequest' > 0
      BY <1>8, <2>2
    <2>6. Returned \in {-2, -1, 0, 2}
      BY <2>3
    <2>7. Returned = -1 => images' = <<>>
      BY <2>3, <2>4
    <2> QED BY <1>5, <1>6, <1>7, <1>8, <2>5, <2>6, <2>7
  <1>10. CASE busyRequest # <<>>
    <2>1. Returned = IF freeRequest' = 0 THEN 2 ELSE 0
      BY <1>10 DEF Returned
    <2>2. Returned \in {-2, -1, 0, 2} /\ Returned # -1
      BY <2>1
    <2>3. Returned # 2 => freeRequest' > 0
      BY <1>8, <2>1
    <2> QED BY <1>5, <1>6, <1>7, <1>8, <2>2, <2>3
  <1> QED BY <1>9, <1>10

-----------------------------------------------------------------------------
(* The frames on their way through the block.                              *)
(* The packets with images, and where they are: from first to coming in p,  *)
(* last the newest; the ones of hasOutputs in h, then those whose images    *)
(* are behind.                                                              *)
WayOK(p, first, coming, last, h, behind) ==
  /\ PendingOK(p, first, coming)
  /\ DOMAIN p # {} => last \in DOMAIN p /\ \A k \in DOMAIN p : k <= last
  /\ Ascending(h) /\ Sorted(h \o behind) /\ Range(h \o behind) = DOMAIN p

LEMMA NatRange ==
  ASSUME NEW s \in Seq(Nat), NEW t \in Seq(Nat), NEW u, u = s \o t
  PROVE  Range(u) = Range(s) \union Range(t)
  BY RangeConcatenation, Zenon

LEMMA EmptyRange ==
  ASSUME NEW s \in Seq(Nat), Len(s) = 0
  PROVE  Range(s) = {}
  <1>1. DOMAIN s = 1 .. 0
    BY LenProperties
  <1> QED BY <1>1 DEF Range

LEMMA WayNext ==
  ASSUME NEW p, PendingTyped(p), NEW first \in Nat, NEW coming \in Nat, NEW last, NEW h, NEW b,
         WayOK(p, first, coming, last, h, b), DOMAIN p # {},
         NEW q, q = Set(p, last, Append(Get(p, last, <<>>), coming))
  PROVE  PendingTyped(q) /\ WayOK(q, first, coming + 1, last, h, b) /\ DOMAIN q = DOMAIN p
  <1>1. last \in DOMAIN p /\ \A k \in DOMAIN p : k <= last
    BY DEF WayOK
  <1>2. Get(p, last, <<>>) = p[last]
    BY <1>1 DEF Get
  <1>3. PendingOK(p, first, coming)
    BY DEF WayOK
  <1>4. q = Set(p, last, Append(p[last], coming))
    BY <1>2
  <1>5. PendingOK(q, first, coming + 1)
    BY <1>1, <1>3, <1>4, PendingAppended
  <1>6. last \in Nat /\ Append(p[last], coming) \in Seq(Nat)
    BY <1>1, PendingOne, AppendProperties
  <1>7. PendingTyped(q)
    BY <1>4, <1>6, SetTyped
  <1>8. DOMAIN q = DOMAIN p
    BY <1>1, <1>4 DEF Set
  <1> QED BY <1>1, <1>5, <1>7, <1>8 DEF WayOK

LEMMA WayLonger ==
  ASSUME NEW h \in Seq(Nat), NEW b \in Seq(Nat), Sorted(h \o b), NEW e \in Nat,
         \A d \in Range(h \o b) : d <= e
  PROVE  /\ b \o <<e>> \in Seq(Nat) /\ Sorted(h \o (b \o <<e>>))
         /\ Range(h \o (b \o <<e>>)) = Range(h \o b) \union {e}
  <1>1. <<e>> \in Seq(Nat) /\ Sorted(<<e>>) /\ Range(<<e>>) = {e}
    BY SortedOne
  <1>2. PICK w \in Seq(Nat) : w = h \o b
    BY Concat
  <1>3. b \o <<e>> \in Seq(Nat)
    BY <1>1, Concat
  <1>4. Associate(h, b, <<e>>)
    BY <1>1, Concat
  <1>5. w \o <<e>> = h \o (b \o <<e>>)
    BY <1>2, <1>4, Zenon DEF Associate
  <1>6. Sorted(w \o <<e>>)
    BY <1>1, <1>2, SortedBoth
  <1>7. PICK u : u = w \o <<e>>
    OBVIOUS
  <1>9. PICK v \in Seq(Nat) : v = <<e>>
    BY <1>1
  <1>10. u = w \o v
    BY <1>7, <1>9
  <1>11. Range(u) = Range(w) \union Range(v)
    BY <1>10, NatRange
  <1>8. Range(u) = Range(w) \union {e}
    BY <1>1, <1>9, <1>11
  <1> QED BY <1>1, <1>2, <1>3, <1>5, <1>6, <1>7, <1>8

LEMMA WayNew ==
  ASSUME NEW p, PendingTyped(p), NEW first \in Nat, NEW coming \in Nat, NEW last,
         NEW h \in Seq(Nat), NEW b \in Seq(Nat), WayOK(p, first, coming, last, h, b), first <= coming,
         NEW q, q = Set(p, coming, Get(p, coming, <<>>))
  PROVE  PendingTyped(q) /\ WayOK(q, first, coming + 1, coming, h, b \o <<coming>>)
         /\ DOMAIN q = DOMAIN p \union {coming}
  <1>1. PendingOK(p, first, coming) /\ Ascending(h) /\ Sorted(h \o b) /\ Range(h \o b) = DOMAIN p
    BY DEF WayOK
  <1>2. ASSUME NEW k \in DOMAIN p PROVE k \in Nat /\ k < coming
    BY <1>1, PendingOne DEF PendingOK
  <1>3. coming \notin DOMAIN p
    BY <1>2
  <1>4. q = Set(p, coming, <<>>)
    BY <1>3 DEF Get
  <1>5. PendingOK(q, first, coming + 1)
    BY <1>1, <1>4, PendingNew
  <1>6. <<>> \in Seq(Nat)
    BY Concat
  <1>7. PendingTyped(q)
    BY <1>4, <1>6, SetTyped
  <1>8. DOMAIN q = DOMAIN p \union {coming}
    BY <1>4 DEF Set
  <1>9. \A d \in Range(h \o b) : d <= coming
    BY <1>1, <1>2
  <1>10. Sorted(h \o (b \o <<coming>>)) /\ Range(h \o (b \o <<coming>>)) = DOMAIN p \union {coming}
    BY <1>1, <1>9, WayLonger
  <1>11. \A k \in DOMAIN q : k <= coming
    BY <1>2, <1>8
  <1> QED BY <1>1, <1>5, <1>7, <1>8, <1>10, <1>11 DEF WayOK

LEMMA WayAgain ==
  ASSUME NEW p, PendingTyped(p), NEW first \in Nat, NEW coming \in Nat, NEW last,
         NEW h \in Seq(Nat), NEW b \in Seq(Nat), WayOK(p, first, coming, last, h, b),
         NEW id \in DOMAIN p, coming = id + 1,
         NEW q, q = Set(p, id, Get(p, id, <<>>))
  PROVE  q = p /\ WayOK(p, first, coming, id, h, b \o <<id>>)
  <1>1. PendingOK(p, first, coming) /\ Ascending(h) /\ Sorted(h \o b) /\ Range(h \o b) = DOMAIN p
    BY DEF WayOK
  <1>2. ASSUME NEW k \in DOMAIN p PROVE k \in Nat /\ k <= id
    BY <1>1, PendingOne DEF PendingOK
  <1>3. q = p
    <2>1. p = [k \in DOMAIN p |-> p[k]]
      BY DEF PendingTyped
    <2> QED BY <2>1 DEF Set, Get
  <1>4. id \in Nat /\ \A d \in Range(h \o b) : d <= id
    BY <1>1, <1>2
  <1>5. Sorted(h \o (b \o <<id>>)) /\ Range(h \o (b \o <<id>>)) = DOMAIN p \union {id}
    BY <1>1, <1>4, WayLonger
  <1> QED BY <1>1, <1>2, <1>3, <1>5 DEF WayOK

(* The images that came back are pushed to hasOutputs.                      *)
LEMMA WayPushed ==
  ASSUME NEW p, NEW first, NEW coming, NEW last,
         NEW h \in Seq(Nat), NEW s \in Seq(Nat), NEW t \in Seq(Nat), WayOK(p, first, coming, last, h, s \o t),
         NEW q, q = Pushed(h, s)
  PROVE  /\ q \in Seq(Nat) /\ WayOK(p, first, coming, last, q, t)
         /\ Range(s) \subseteq DOMAIN p
         /\ Len(q) \in Nat /\ Len(h) <= Len(q)
  <1>1. PendingOK(p, first, coming) /\ Ascending(h) /\ Sorted(h \o (s \o t)) /\ Range(h \o (s \o t)) = DOMAIN p
    BY DEF WayOK
  <1>2. PICK w \in Seq(Nat) : w = h \o s
    BY Concat
  <1>3. Associate(h, s, t)
    BY Concat
  <1>4. h \o (s \o t) = w \o t
    BY <1>2, <1>3, Zenon DEF Associate
  <1>5. Sorted(w \o t)
    BY <1>1, <1>4
  <1>6. Sorted(w) /\ Sorted(t) /\ \A d \in Range(w), e \in Range(t) : d <= e
    BY <1>5, SortedParts
  <1>7. /\ q \in Seq(Nat) /\ Ascending(q) /\ Range(q) = Range(h) \union Range(s)
        /\ Len(q) \in Nat /\ Len(h) <= Len(q)
    BY <1>1, <1>2, <1>6, PushedInOrder
  <1>8. Range(w) = Range(h) \union Range(s)
    BY <1>2, NatRange
  <1>9. Sorted(q)
    BY <1>7, AscendingIsSorted
  <1>10. Sorted(q \o t)
    BY <1>6, <1>7, <1>8, <1>9, SortedBoth
  <1>11. PICK u : u = w \o t
    OBVIOUS
  <1>12. Range(u) = Range(w) \union Range(t)
    BY <1>11, NatRange
  <1>13. PICK v : v = q \o t
    OBVIOUS
  <1>14. Range(v) = Range(q) \union Range(t)
    <2>1. q \in Seq(Nat)
      BY <1>7
    <2> QED BY <2>1, <1>13, RangeConcatenation, Zenon
  <1>15. Range(q \o t) = DOMAIN p
    BY <1>1, <1>4, <1>7, <1>8, <1>11, <1>12, <1>13, <1>14
  <1>16. Range(s) \subseteq DOMAIN p
    BY <1>1, <1>4, <1>8, <1>11, <1>12
  <1> QED BY <1>1, <1>7, <1>10, <1>15, <1>16 DEF WayOK

(* The first packet leaves.                                                 *)
LEMMA WayFirst ==
  ASSUME NEW p, PendingTyped(p), NEW first \in Nat, NEW coming \in Nat, NEW last,
         NEW h \in Seq(Nat), NEW b \in Seq(Nat), WayOK(p, first, coming, last, h, b), h # <<>>
  PROVE  first \in DOMAIN p /\ Head(h) = first
  <1>1. PICK a \in Nat, c \in Nat : a = Len(h) /\ c = Len(b) /\ a > 0
    BY LenProperties, EmptySeq
  <1>2. PICK w \in Seq(Nat) : w = h \o b
    BY Concat
  <1>3. Len(w) = a + c
    BY <1>1, <1>2, BothLength
  <1>4. 1 \in 1 .. Len(w)
    BY <1>1, <1>3
  <1>5. w[1] = h[1]
    <2>1. 1 \in 1 .. Len(h)
      BY <1>1
    <2> QED BY <1>2, <2>1, BothFirst
  <1>6. Head(h) = h[1]
    BY HeadTailProperties
  <1>7. Range(w) = DOMAIN p /\ Sorted(w)
    BY <1>2 DEF WayOK
  <1>8. h[1] \in DOMAIN p
    BY <1>4, <1>5, <1>7, RangeIs
  <1>9. PendingOK(p, first, coming)
    BY DEF WayOK
  <1>10. first \in DOMAIN p
    BY <1>8, <1>9, PendingSame
  <1>11. PICK j \in 1 .. Len(w) : w[j] = first
    BY <1>7, <1>10, RangeIs
  <1>12. 1 <= j
    BY <1>3, <1>11
  <1>13. h[1] <= first
    BY <1>4, <1>5, <1>7, <1>11, <1>12 DEF Sorted
  <1>14. first <= h[1] /\ h[1] \in Nat
    BY <1>8, <1>9, PendingOne DEF PendingOK
  <1> QED BY <1>6, <1>10, <1>13, <1>14

LEMMA FirstNotBehind ==
  ASSUME NEW p, PendingTyped(p), NEW first \in Nat, NEW coming \in Nat, NEW last,
         NEW h \in Seq(Nat), NEW b \in Seq(Nat), WayOK(p, first, coming, last, h, b), h # <<>>,
         Len(h) = 1 => b = <<>>
  PROVE  first \notin Range(b)
  <1>1. first \in DOMAIN p /\ Head(h) = first
    BY WayFirst
  <1>2. Ascending(h) /\ Sorted(h \o b)
    BY DEF WayOK
  <1>3. PICK t \in Seq(Nat) : t = Tail(h) /\ Range(h) = {first} \union Range(t) /\ Len(t) = Len(h) - 1
    BY <1>1, HeadAndTail
  <1>4. Ascending(t) /\ \A d \in Range(t) : first < d
    BY <1>1, <1>2, <1>3, AscendingTail
  <1>5. \A d \in Range(h), e \in Range(b) : d <= e
    BY <1>2, SortedParts
  <1>6. CASE t = <<>>
    <2>1. PICK a \in Nat : a = Len(h)
      BY LenProperties
    <2>2. Len(t) = 0
      BY <1>6, EmptySeq
    <2>3. Len(h) = 1
      BY <1>3, <2>1, <2>2
    <2>4. b = <<>>
      BY <2>3
    <2>5. Len(b) = 0
      BY <2>4, EmptySeq
    <2> QED BY <2>5, EmptyRange
  <1>7. CASE t # <<>>
    <2>1. PICK n \in Nat : n = Len(t) /\ n > 0
      BY <1>7, LenProperties, EmptySeq
    <2>2. PICK d \in Range(t) : d \in Nat
      <3>1. 1 \in 1 .. n
        BY <2>1
      <3>2. t[1] \in Range(t) /\ t[1] \in Nat
        BY <2>1, <3>1, RangeIs, ElementOfSeq
      <3> QED BY <3>2
    <2>3. first < d /\ d \in Range(h)
      BY <1>3, <1>4
    <2>4. \A e \in Range(b) : d <= e /\ e \in Nat
      BY <1>5, <2>3, RangeIs
    <2> QED BY <2>2, <2>3, <2>4
  <1> QED BY <1>6, <1>7

LEMMA WayRest ==
  ASSUME NEW p, PendingTyped(p), NEW first \in Nat, NEW coming \in Nat, NEW last,
         NEW h \in Seq(Nat), NEW b \in Seq(Nat), WayOK(p, first, coming, last, h, b), h # <<>>,
         Len(h) = 1 => b = <<>>,
         NEW q, q = Erase(p, first), NEW next, next = first + Len(p[first]) + 1
  PROVE  /\ PendingTyped(q) /\ next \in Nat
         /\ WayOK(q, next, coming, last, Tail(h), b)
  <1>1. first \in DOMAIN p /\ Head(h) = first
    BY WayFirst
  <1>2. PendingOK(p, first, coming) /\ Ascending(h) /\ Sorted(h \o b) /\ Range(h \o b) = DOMAIN p
    BY DEF WayOK
  <1>3. next \in Nat /\ PendingOK(q, next, coming)
    BY <1>1, <1>2, PendingRest
  <1>4. PendingTyped(q)
    BY EraseTyped
  <1>5. DOMAIN q = DOMAIN p \ {first}
    BY DEF Erase, Restrict
  <1>6. PICK t \in Seq(Nat) : t = Tail(h) /\ Range(h) = {first} \union Range(t) /\ Len(t) = Len(h) - 1
    BY <1>1, HeadAndTail
  <1>7. Ascending(t) /\ \A d \in Range(t) : first < d
    BY <1>1, <1>2, <1>6, AscendingTail
  <1>8. Sorted(h) /\ Sorted(b) /\ \A d \in Range(h), e \in Range(b) : d <= e
    BY <1>2, SortedParts
  <1>9. Sorted(t \o b)
    <2>1. \A d \in Range(t), e \in Range(b) : d <= e
      BY <1>6, <1>8
    <2> QED BY <1>7, <1>8, <2>1, AscendingIsSorted, SortedBoth
  <1>10. first \notin Range(b)
    BY FirstNotBehind
  <1>11. PICK u : u = h \o b
    OBVIOUS
  <1>12. Range(u) = Range(h) \union Range(b)
    BY <1>11, NatRange
  <1>13. PICK v : v = t \o b
    OBVIOUS
  <1>14. Range(v) = Range(t) \union Range(b)
    BY <1>13, NatRange
  <1>15. first \notin Range(t)
    BY <1>7
  <1>16. Range(t \o b) = DOMAIN q
    BY <1>2, <1>5, <1>6, <1>10, <1>11, <1>12, <1>13, <1>14, <1>15
  <1>17. DOMAIN q # {} => last \in DOMAIN q /\ \A k \in DOMAIN q : k <= last
    <2> SUFFICES ASSUME NEW k \in DOMAIN q PROVE last \in DOMAIN q /\ \A i \in DOMAIN q : i <= last
      OBVIOUS
    <2>1. last \in DOMAIN p /\ \A i \in DOMAIN p : i <= last
      BY <1>1 DEF WayOK
    <2>2. k \in DOMAIN p /\ k # first /\ k \in Nat /\ first <= k /\ k <= last /\ last \in Nat
      BY <1>2, <1>5, <2>1, PendingOne DEF PendingOK
    <2>3. last # first
      BY <2>2
    <2> QED BY <1>5, <2>1, <2>3
  <1> QED BY <1>3, <1>4, <1>6, <1>7, <1>9, <1>16, <1>17 DEF WayOK

LEMMA WayNone ==
  ASSUME NEW p, DOMAIN p = {}, NEW first, NEW coming, NEW last,
         NEW h \in Seq(Nat), NEW b \in Seq(Nat), WayOK(p, first, coming, last, h, b), NEW n
  PROVE  first = coming /\ WayOK(p, n, n, last, h, b)
  BY DEF WayOK, PendingOK

-----------------------------------------------------------------------------
(* The inductive invariant.                                                *)
(* The frames of the images that the engine and the caller still have.      *)
Behind == ids \o (internalIDs \o IDs(images))

(* The packets that were inserted, and those pending on them, are the ones  *)
(* from First to before Coming: what has left is before, and the packet     *)
(* that is being handled is not yet pending.                                *)
First  == Len(sent) + Len(following) + 1
Fresh  == pc = "insert" /\ Len(arrived) \notin DOMAIN pendingIDs
Coming == IF pc = "direct" \/ Fresh THEN Len(arrived) ELSE Len(arrived) + 1

(* The networks that may find nothing are sent one image at a time.         *)
Single == \A c \in network : Len(c) <= 1

DataTypes ==
  /\ network \in Networks /\ arrived \in Seq(network) /\ Len(arrived) <= MaxPackets
  /\ todo \in Seq(Nat) /\ hasOutputs \in Seq(Nat) /\ following \in Seq(Nat)
  /\ sent \in Seq(Range(sent))
  /\ PendingTyped(pendingIDs)

ControlTypes ==
  /\ DOMAIN recorded \subseteq 1 .. Len(arrived) /\ DOMAIN pendingIDs \subseteq 1 .. Len(arrived)
  /\ lastInferID \in 0 .. Len(arrived)
  /\ flags \in [inferenceFree : BOOLEAN, isPendingTasks : BOOLEAN, isAllWorkerBusy : BOOLEAN]
  /\ toSend \in 0 .. Len(hasOutputs)
  /\ needInput \in BOOLEAN /\ stop \in BOOLEAN
  /\ pc \in {"input", "direct", "insert", "collect", "attach", "send", "ended"}

BlockTypes == EngineTypes /\ DataTypes /\ ControlTypes

(* What holds at each place of the loop.                                    *)
Place ==
  /\ pc # "send" => toSend = 0 /\ following = <<>> /\ Len(hasOutputs) <= 1
  /\ pc = "send" => Len(hasOutputs) <= toSend + 1
  /\ pc = "direct" => DOMAIN pendingIDs = {}
  /\ toSend > 0 /\ toSend = Len(hasOutputs) => Behind = <<>>
  /\ pc = "insert" <=> todo # <<>>
  /\ pc \notin {"collect", "attach"} => ids = <<>> /\ flags = NoFlags
  /\ pc \notin {"insert", "collect"} => internalIDs = <<>>

(* What the flags say of the engine, and the two internal buffers of each   *)
(* other.                                                                   *)
FlagsOK ==
  /\ internalIDs # <<>> => internalDatas # <<>>
  /\ ~flags.isPendingTasks => images = <<>> /\ internalIDs = <<>>
  /\ flags.inferenceFree => freeRequest > 0
  /\ pc = "attach" /\ ~flags.isAllWorkerBusy => freeRequest > 0

InOrder ==
  /\ SentInOrder
  /\ \A i \in 1 .. Len(following) : following[i] = Len(sent) + i
  /\ WayOK(pendingIDs, First, Coming, lastInferID, hasOutputs, Behind)

RecordedOK ==
  DOMAIN recorded = Len(sent) + 1 .. IF pc = "direct" THEN Len(arrived) - 1 ELSE Len(arrived)

FoundOK == Single \/ (AllFound(images) /\ \A k \in 1 .. Len(todo) : todo[k] > 0)

(* With one image per packet a request is always free when the block asks   *)
(* for a packet, and the internal buffers are never used.                   *)
SingleOK ==
  Single =>
    /\ internalIDs = <<>> /\ Len(todo) <= 1
    /\ ids # <<>> => freeRequest > 0
    /\ pc \in {"input", "insert", "direct"} \/ (pc = "send" /\ needInput) => freeRequest > 0

LoopInv == Place /\ FlagsOK /\ InOrder /\ RecordedOK /\ FoundOK /\ SingleOK

(* What remains true when the loop has ended.                               *)
Kept == SentInOrder /\ Range(hasOutputs) \union Range(following) \subseteq DOMAIN recorded

BlockInv == BlockTypes /\ Kept /\ (pc # "ended" => LoopInv)

-----------------------------------------------------------------------------
(* Its first consequences, and the initial states.                         *)
LEMMA Counts ==
  ASSUME BlockTypes
  PROVE  /\ Len(arrived) \in Nat /\ Len(sent) \in Nat /\ Len(following) \in Nat /\ Len(hasOutputs) \in Nat
         /\ First \in Nat /\ Coming \in Nat
  <1>1. Len(arrived) \in Nat
    BY LenProperties DEF BlockTypes, DataTypes
  <1>2. Len(sent) \in Nat
    BY LenProperties DEF BlockTypes, DataTypes
  <1>3. Len(following) \in Nat /\ Len(hasOutputs) \in Nat
    BY LenProperties DEF BlockTypes, DataTypes
  <1> QED BY <1>1, <1>2, <1>3 DEF First, Coming

LEMMA BehindType ==
  ASSUME EngineTypes
  PROVE  Behind \in Seq(Nat)
  <1>1. ids \in Seq(Nat) /\ internalIDs \in Seq(Nat) /\ IDs(images) \in Seq(Nat)
    BY IDsType DEF EngineTypes
  <1>2. internalIDs \o IDs(images) \in Seq(Nat)
    BY <1>1, Concat
  <1> QED BY <1>1, <1>2, Concat DEF Behind

LEMMA EngineSame ==
  ASSUME EngineTypes, UNCHANGED engine
  PROVE  /\ EngineTypes' /\ Behind' = Behind
         /\ UNCHANGED <<freeRequest, busyRequest, images, batchIndex, internalDatas, internalIDs, datas, ids>>
  <1>1. UNCHANGED <<freeRequest, busyRequest, images, batchIndex, internalDatas, internalIDs, datas, ids>>
    BY DEF engine, requests, internal, outputs
  <1> QED BY <1>1 DEF EngineTypes, EngineOK, Behind, IDs

-----------------------------------------------------------------------------
LEMMA InitBlock ==
  ASSUME Init
  PROVE  BlockTypes /\ LoopInv
  <1>1. PICK e \in Seq(Nat) : e = <<>> /\ Len(e) = 0
    BY EmptySeq
  <1>2. EngineTypes
    <2>1. busyRequest \in Seq(States) /\ Len(busyRequest) = 0 /\ images \in Seq(Image) /\ Len(images) = 0
      BY EmptySeq DEF Init, EngineInit
    <2>2. PICK A \in Nat, B \in Nat : A = AsyncDepth /\ B = BatchNum /\ A > 0 /\ B > 0
      BY EngineAssumption
    <2>3. 0 * B + 0 = 0 /\ 0 \in 0 .. B - 1
      BY <2>2
    <2>4. EngineOK
      BY <2>1, <2>2, <2>3 DEF Init, EngineInit, EngineOK
    <2> QED BY <1>1, <2>1, <2>4 DEF Init, EngineInit, EngineTypes
  <1>3. Behind = <<>>
    <2>1. IDs(images) = <<>>
      BY NothingTranslated DEF Init, EngineInit
    <2> QED BY <1>1, <2>1, Concat DEF Init, EngineInit, Behind
  <1>4. BlockTypes
    <2>1. arrived \in Seq(network) /\ Len(arrived) = 0
      BY EmptySeq DEF Init
    <2>2. sent \in Seq(Range(sent))
      BY EmptySeq DEF Init
    <2>3. DOMAIN recorded = {} /\ DOMAIN pendingIDs = {}
      BY EmptySeq DEF Init
    <2>4. PendingTyped(pendingIDs)
      BY <2>3 DEF PendingTyped, Init
    <2>5. DataTypes
      BY <1>1, <2>1, <2>2, <2>4, PacketAssumption DEF Init, DataTypes
    <2>6. flags \in [inferenceFree : BOOLEAN, isPendingTasks : BOOLEAN, isAllWorkerBusy : BOOLEAN]
      BY DEF Init, NoFlags
    <2>8. lastInferID \in 0 .. Len(arrived) /\ toSend \in 0 .. Len(hasOutputs)
      BY <1>1, <2>1 DEF Init
    <2>9. needInput \in BOOLEAN /\ stop \in BOOLEAN /\ pc = "input"
      BY DEF Init
    <2>7. ControlTypes
      BY <2>3, <2>6, <2>8, <2>9 DEF ControlTypes
    <2> QED BY <1>2, <2>5, <2>7 DEF BlockTypes
  <1>5. Place
    BY <1>1 DEF Init, EngineInit, Place, NoFlags
  <1>6. FlagsOK
    BY DEF Init, EngineInit, FlagsOK, NoFlags
  <1>7. InOrder
    <2>1. DOMAIN pendingIDs = {} /\ DOMAIN sent = {}
      BY EmptySeq DEF Init
    <2>2. First = 1 /\ Coming = 1
      BY <1>1 DEF Init, First, Coming, Fresh
    <2>3. PendingOK(pendingIDs, 1, 1)
      BY <2>1 DEF PendingOK
    <2>4. hasOutputs = e /\ e \o e = e
      BY <1>1, Concat DEF Init
    <2>7. \A i \in 1 .. 0 : FALSE
      OBVIOUS
    <2>5. Ascending(e) /\ Sorted(e) /\ Range(e) = {}
      <3>1. Range(e) = {}
        BY <1>1, EmptyRange
      <3>2. Ascending(e)
        BY <1>1, <2>7, Zenon DEF Ascending
      <3>3. Sorted(e)
        BY <1>1, <2>7, Zenon DEF Sorted
      <3> QED BY <3>1, <3>2, <3>3
    <2>6. WayOK(pendingIDs, First, Coming, lastInferID, hasOutputs, Behind)
      BY <1>1, <1>3, <2>1, <2>2, <2>3, <2>4, <2>5 DEF WayOK
    <2> QED BY <1>1, <2>1, <2>6 DEF InOrder, SentInOrder, Init
  <1>8. RecordedOK
    BY <1>1, EmptySeq DEF Init, RecordedOK
  <1>9. FoundOK
    BY <1>1 DEF Init, EngineInit, FoundOK, AllFound
  <1>10. SingleOK
    <2>1. freeRequest > 0
      BY EngineAssumption DEF Init, EngineInit
    <2> QED BY <1>1, <2>1 DEF Init, EngineInit, SingleOK
  <1> QED BY <1>4, <1>5, <1>6, <1>7, <1>8, <1>9, <1>10 DEF LoopInv

-----------------------------------------------------------------------------
(* A packet is acquired.                                                   *)
(* A packet that arrives.                                                   *)
LEMMA Arrives ==
  ASSUME BlockTypes, NEW c \in network, arrived' = Append(arrived, c), Len(arrived) < MaxPackets
  PROVE  /\ arrived' \in Seq(network) /\ Len(arrived') = Len(arrived) + 1 /\ Len(arrived') <= MaxPackets
         /\ c \in Seq(Nat)
  <1>1. arrived \in Seq(network) /\ network \in Networks
    BY DEF BlockTypes, DataTypes
  <1>2. PICK A \in Nat : A = Len(arrived)
    BY <1>1, LenProperties
  <1>3. arrived' \in Seq(network) /\ Len(arrived') = A + 1
    BY <1>1, <1>2, AppendProperties
  <1>4. c \in Seq(Nat)
    BY <1>1, PacketAssumption
  <1>5. MaxPackets \in Nat
    BY PacketAssumption
  <1> QED BY <1>2, <1>3, <1>4, <1>5

LEMMA AtInput ==
  ASSUME BlockTypes, LoopInv, pc = "input"
  PROVE  /\ toSend = 0 /\ following = <<>> /\ Len(following) = 0 /\ Len(hasOutputs) <= 1 /\ todo = <<>>
         /\ ids = <<>> /\ flags = NoFlags /\ internalIDs = <<>>
         /\ First = Len(sent) + 1 /\ Coming = Len(arrived) + 1 /\ First <= Coming
         /\ DOMAIN recorded = Len(sent) + 1 .. Len(arrived)
  <1>1. /\ toSend = 0 /\ following = <<>> /\ Len(hasOutputs) <= 1 /\ todo = <<>>
        /\ ids = <<>> /\ flags = NoFlags /\ internalIDs = <<>>
    BY DEF LoopInv, Place
  <1>2. Len(following) = 0
    BY <1>1, EmptySeq
  <1>3. Coming = Len(arrived) + 1
    BY DEF Coming, Fresh
  <1>4. First = Len(sent) + 1
    BY <1>2, Counts DEF First
  <1>5. PendingOK(pendingIDs, First, Coming)
    BY DEF LoopInv, InOrder, WayOK
  <1>6. First <= Coming
    <2>1. First \in Nat /\ Coming \in Nat
      BY Counts
    <2>2. CASE First = Coming
      BY <2>1, <2>2
    <2>3. CASE First \in DOMAIN pendingIDs
      BY <1>5, <2>1, <2>3 DEF PendingOK
    <2> QED BY <1>5, <2>2, <2>3 DEF PendingOK
  <1>7. DOMAIN recorded = Len(sent) + 1 .. Len(arrived)
    BY DEF LoopInv, RecordedOK
  <1> QED BY <1>1, <1>2, <1>3, <1>4, <1>6, <1>7

(* What the three ways of taking a packet leave alone.                      *)
LEMMA AcquireSame ==
  ASSUME BlockTypes, LoopInv, pc = "input", UNCHANGED <<engine, network, pass, sending, needInput, sent, stop>>
  PROVE  /\ EngineTypes' /\ Behind' = Behind
         /\ UNCHANGED <<freeRequest, busyRequest, images, batchIndex, internalDatas, internalIDs, datas, ids>>
         /\ UNCHANGED <<network, flags, toSend, following, needInput, sent, stop>>
         /\ First' = First /\ (Single' <=> Single)
  <1>1. EngineTypes
    BY DEF BlockTypes
  <1>2. UNCHANGED <<network, flags, toSend, following, needInput, sent, stop>>
    BY DEF pass, sending
  <1>3. First' = First
    BY <1>2 DEF First
  <1>4. Single' <=> Single
    BY <1>2, Zenon DEF Single
  <1> QED BY <1>1, <1>2, <1>3, <1>4, EngineSame

LEMMA FlagsSame ==
  ASSUME FlagsOK, UNCHANGED <<internalIDs, internalDatas, images, flags, freeRequest>>, pc' # "attach"
  PROVE  FlagsOK'
  BY DEF FlagsOK

LEMMA AcquireDirect ==
  ASSUME BlockTypes, LoopInv, pc = "input", Len(arrived) < MaxPackets,
         NEW c \in network, arrived' = Append(arrived, c), DOMAIN pendingIDs = {}, pc' = "direct",
         UNCHANGED <<todo, packets>>, UNCHANGED <<engine, network, pass, sending, needInput, sent, stop>>
  PROVE  BlockTypes' /\ LoopInv'
  <1>1. arrived' \in Seq(network) /\ Len(arrived') = Len(arrived) + 1 /\ Len(arrived') <= MaxPackets
    BY Arrives
  <1>2. /\ toSend = 0 /\ following = <<>> /\ Len(following) = 0 /\ Len(hasOutputs) <= 1 /\ todo = <<>>
        /\ ids = <<>> /\ flags = NoFlags /\ internalIDs = <<>>
        /\ First = Len(sent) + 1 /\ Coming = Len(arrived) + 1
        /\ DOMAIN recorded = Len(sent) + 1 .. Len(arrived)
    BY AtInput
  <1>3. /\ EngineTypes' /\ Behind' = Behind
        /\ UNCHANGED <<freeRequest, busyRequest, images, batchIndex, internalDatas, internalIDs, datas, ids>>
        /\ UNCHANGED <<network, flags, toSend, following, needInput, sent, stop>>
        /\ First' = First
    BY AcquireSame
  <1>4. UNCHANGED <<todo, recorded, hasOutputs, pendingIDs, lastInferID>>
    BY DEF packets
  <1>5. Len(arrived) \in Nat /\ Len(sent) \in Nat
    BY Counts
  <1>6. DataTypes'
    BY <1>1, <1>3, <1>4 DEF BlockTypes, DataTypes
  <1>7. ControlTypes'
    BY <1>1, <1>3, <1>4, <1>5 DEF BlockTypes, ControlTypes
  <1>8. Place'
    BY <1>2, <1>3, <1>4 DEF Place
  <1>9. FlagsOK'
    BY <1>3, FlagsSame DEF LoopInv
  <1>10. Coming' = Coming
    BY <1>1, <1>2 DEF Coming
  <1>11. InOrder'
    BY <1>3, <1>4, <1>10 DEF LoopInv, InOrder, SentInOrder
  <1>12. RecordedOK'
    <2>1. Len(arrived') - 1 = Len(arrived)
      BY <1>1, <1>5
    <2> QED BY <1>2, <1>3, <1>4, <2>1 DEF RecordedOK
  <1>13. FoundOK'
    BY <1>3, <1>4, AcquireSame DEF LoopInv, FoundOK, AllFound
  <1>14. SingleOK'
    BY <1>3, <1>4, AcquireSame DEF LoopInv, SingleOK
  <1> QED BY <1>3, <1>6, <1>7, <1>8, <1>9, <1>11, <1>12, <1>13, <1>14 DEF BlockTypes, LoopInv

LEMMA AcquirePending ==
  ASSUME BlockTypes, LoopInv, pc = "input", Len(arrived) < MaxPackets,
         NEW c \in network, arrived' = Append(arrived, c), DOMAIN pendingIDs # {}, pc' = "collect",
         recorded' = Set(recorded, Len(arrived) + 1, 0),
         pendingIDs' = Set(pendingIDs, lastInferID, Append(Get(pendingIDs, lastInferID, <<>>), Len(arrived) + 1)),
         UNCHANGED <<todo, hasOutputs, lastInferID>>,
         UNCHANGED <<engine, network, pass, sending, needInput, sent, stop>>
  PROVE  BlockTypes' /\ LoopInv'
  <1>1. arrived' \in Seq(network) /\ Len(arrived') = Len(arrived) + 1 /\ Len(arrived') <= MaxPackets
    BY Arrives
  <1>2. /\ toSend = 0 /\ following = <<>> /\ Len(following) = 0 /\ Len(hasOutputs) <= 1 /\ todo = <<>>
        /\ ids = <<>> /\ flags = NoFlags /\ internalIDs = <<>>
        /\ First = Len(sent) + 1 /\ Coming = Len(arrived) + 1 /\ First <= Coming
        /\ DOMAIN recorded = Len(sent) + 1 .. Len(arrived)
    BY AtInput
  <1>3. /\ EngineTypes' /\ Behind' = Behind
        /\ UNCHANGED <<freeRequest, busyRequest, images, batchIndex, internalDatas, internalIDs, datas, ids>>
        /\ UNCHANGED <<network, flags, toSend, following, needInput, sent, stop>>
        /\ First' = First
    BY AcquireSame
  <1>4. UNCHANGED <<todo, hasOutputs, lastInferID>>
    OBVIOUS
  <1>5. PICK A \in Nat, n \in Nat : A = Len(arrived) /\ n = Len(sent)
    BY Counts
  <1>6. /\ PendingTyped(pendingIDs') /\ DOMAIN pendingIDs' = DOMAIN pendingIDs
        /\ WayOK(pendingIDs', First, Coming + 1, lastInferID, hasOutputs, Behind)
    <2>1. WayOK(pendingIDs, First, Coming, lastInferID, hasOutputs, Behind)
      BY DEF LoopInv, InOrder
    <2>2. First \in Nat /\ Coming \in Nat
      BY Counts
    <2>3. PendingTyped(pendingIDs)
      BY DEF BlockTypes, DataTypes
    <2> QED BY <1>2, <2>1, <2>2, <2>3, WayNext
  <1>7. DOMAIN recorded' = n + 1 .. A + 1
    <2>1. DOMAIN recorded' = DOMAIN recorded \union {A + 1}
      BY <1>5 DEF Set
    <2>2. DOMAIN recorded = n + 1 .. A /\ n + 1 <= A + 1
      BY <1>2, <1>5
    <2>3. (n + 1 .. A) \union {A + 1} = n + 1 .. A + 1
      BY <2>2
    <2> QED BY <2>1, <2>2, <2>3, Zenon
  <1>8. DataTypes'
    BY <1>1, <1>3, <1>4, <1>6 DEF BlockTypes, DataTypes
  <1>9. ControlTypes'
    <2>1. DOMAIN recorded' \subseteq 1 .. Len(arrived')
      BY <1>1, <1>5, <1>7
    <2>2. DOMAIN pendingIDs' \subseteq 1 .. Len(arrived') /\ lastInferID' \in 0 .. Len(arrived')
      BY <1>1, <1>4, <1>5, <1>6 DEF BlockTypes, ControlTypes
    <2> QED BY <1>3, <1>4, <2>1, <2>2 DEF BlockTypes, ControlTypes
  <1>10. Place'
    BY <1>2, <1>3, <1>4 DEF Place
  <1>11. FlagsOK'
    BY <1>3, FlagsSame DEF LoopInv
  <1>12. Coming' = Coming + 1
    BY <1>1, <1>2 DEF Coming, Fresh
  <1>13. InOrder'
    BY <1>3, <1>4, <1>6, <1>12 DEF LoopInv, InOrder, SentInOrder
  <1>14. RecordedOK'
    BY <1>1, <1>3, <1>5, <1>7 DEF RecordedOK
  <1>15. FoundOK'
    BY <1>3, <1>4, AcquireSame DEF LoopInv, FoundOK, AllFound
  <1>16. SingleOK'
    BY <1>2, <1>3, <1>4, AcquireSame DEF LoopInv, SingleOK
  <1> QED BY <1>3, <1>8, <1>9, <1>10, <1>11, <1>13, <1>14, <1>15, <1>16 DEF BlockTypes, LoopInv

LEMMA AcquireImages ==
  ASSUME BlockTypes, LoopInv, pc = "input", Len(arrived) < MaxPackets,
         NEW c \in network, arrived' = Append(arrived, c), c # <<>>, pc' = "insert",
         recorded' = Set(recorded, Len(arrived) + 1, 0), todo' = c,
         UNCHANGED <<hasOutputs, pendingIDs, lastInferID>>,
         UNCHANGED <<engine, network, pass, sending, needInput, sent, stop>>
  PROVE  BlockTypes' /\ LoopInv'
  <1>1. /\ arrived' \in Seq(network) /\ Len(arrived') = Len(arrived) + 1 /\ Len(arrived') <= MaxPackets
        /\ c \in Seq(Nat)
    BY Arrives
  <1>2. /\ toSend = 0 /\ following = <<>> /\ Len(following) = 0 /\ Len(hasOutputs) <= 1 /\ todo = <<>>
        /\ ids = <<>> /\ flags = NoFlags /\ internalIDs = <<>>
        /\ First = Len(sent) + 1 /\ Coming = Len(arrived) + 1 /\ First <= Coming
        /\ DOMAIN recorded = Len(sent) + 1 .. Len(arrived)
    BY AtInput
  <1>3. /\ EngineTypes' /\ Behind' = Behind
        /\ UNCHANGED <<freeRequest, busyRequest, images, batchIndex, internalDatas, internalIDs, datas, ids>>
        /\ UNCHANGED <<network, flags, toSend, following, needInput, sent, stop>>
        /\ First' = First
    BY AcquireSame
  <1>4. UNCHANGED <<hasOutputs, pendingIDs, lastInferID>>
    OBVIOUS
  <1>5. PICK A \in Nat, n \in Nat : A = Len(arrived) /\ n = Len(sent)
    BY Counts
  <1>6. DOMAIN recorded' = n + 1 .. A + 1
    <2>1. DOMAIN recorded' = DOMAIN recorded \union {A + 1}
      BY <1>5 DEF Set
    <2>2. DOMAIN recorded = n + 1 .. A /\ n + 1 <= A + 1
      BY <1>2, <1>5
    <2>3. (n + 1 .. A) \union {A + 1} = n + 1 .. A + 1
      BY <2>2
    <2> QED BY <2>1, <2>2, <2>3, Zenon
  <1>7. DataTypes'
    BY <1>1, <1>3, <1>4 DEF BlockTypes, DataTypes
  <1>8. ControlTypes'
    <2>1. DOMAIN recorded' \subseteq 1 .. Len(arrived')
      BY <1>1, <1>5, <1>6
    <2>2. DOMAIN pendingIDs' \subseteq 1 .. Len(arrived') /\ lastInferID' \in 0 .. Len(arrived')
      BY <1>1, <1>4, <1>5 DEF BlockTypes, ControlTypes
    <2> QED BY <1>3, <1>4, <2>1, <2>2 DEF BlockTypes, ControlTypes
  <1>9. Place'
    BY <1>2, <1>3, <1>4 DEF Place
  <1>10. FlagsOK'
    BY <1>3, FlagsSame DEF LoopInv
  <1>11. Coming' = Coming
    <2>1. Len(arrived) + 1 \notin DOMAIN pendingIDs
      BY <1>5 DEF BlockTypes, ControlTypes
    <2> QED BY <1>1, <1>2, <1>4, <2>1 DEF Coming, Fresh
  <1>12. InOrder'
    BY <1>3, <1>4, <1>11 DEF LoopInv, InOrder, SentInOrder
  <1>13. RecordedOK'
    BY <1>1, <1>3, <1>5, <1>6 DEF RecordedOK
  <1>14. FoundOK'
    <2>1. CASE Single
      BY <2>1, AcquireSame DEF FoundOK
    <2>2. CASE ~Single
      <3>1. \A k \in DOMAIN c : c[k] > 0
        BY <2>2, NetworksAssumption DEF BlockTypes, DataTypes, Single
      <3>2. \A k \in 1 .. Len(todo') : todo'[k] > 0
        BY <1>1, <3>1, LenProperties
      <3>3. AllFound(images)
        BY <2>2 DEF LoopInv, FoundOK
      <3>4. AllFound(images)'
        BY <1>3, <3>3 DEF AllFound
      <3> QED BY <3>2, <3>4 DEF FoundOK
    <2> QED BY <2>1, <2>2
  <1>15. SingleOK'
    BY <1>2, <1>3, AcquireSame DEF LoopInv, SingleOK, Single
  <1> QED BY <1>3, <1>7, <1>8, <1>9, <1>10, <1>12, <1>13, <1>14, <1>15 DEF BlockTypes, LoopInv

LEMMA AcquireStep ==
  ASSUME BlockTypes, LoopInv, AcquireInput
  PROVE  BlockTypes' /\ LoopInv'
  <1>1. PICK c \in network :
          /\ arrived' = Append(arrived, c)
          /\ \/ /\ c = <<>> /\ DOMAIN pendingIDs = {}
                /\ pc' = "direct"
                /\ UNCHANGED <<todo, packets>>
             \/ /\ c = <<>> /\ DOMAIN pendingIDs # {}
                /\ recorded' = Set(recorded, Len(arrived) + 1, 0)
                /\ pendingIDs' = Set(pendingIDs, lastInferID,
                                     Append(Get(pendingIDs, lastInferID, <<>>), Len(arrived) + 1))
                /\ pc' = "collect"
                /\ UNCHANGED <<todo, hasOutputs, lastInferID>>
             \/ /\ c # <<>>
                /\ recorded' = Set(recorded, Len(arrived) + 1, 0)
                /\ todo' = c
                /\ pc' = "insert"
                /\ UNCHANGED <<hasOutputs, pendingIDs, lastInferID>>
    BY Zenon DEF AcquireInput
  <1>2. /\ pc = "input" /\ Len(arrived) < MaxPackets
        /\ UNCHANGED <<engine, network, pass, sending, needInput, sent, stop>>
    BY Zenon DEF AcquireInput
  <1> QED BY <1>1, <1>2, AcquireDirect, AcquirePending, AcquireImages

-----------------------------------------------------------------------------
(* A packet without image goes past the engine, and the wait for a         *)
(* request.                                                                *)
LEMMA SentGrows ==
  ASSUME DataTypes, SentInOrder, NEW r, sent' = Append(sent, r), r.id = Len(sent) + 1
  PROVE  SentInOrder' /\ sent' \in Seq(Range(sent')) /\ Len(sent') = Len(sent) + 1
  <1>1. sent \in Seq(Range(sent))
    BY DEF DataTypes
  <1>2. PICK n \in Nat : n = Len(sent) /\ DOMAIN sent = 1 .. n
    BY <1>1, LenProperties
  <1>3. PICK S : S = Range(sent) \union {r}
    OBVIOUS
  <1>4. sent \in Seq(S) /\ r \in S
    BY <1>1, <1>3, SeqOfFewer
  <1>6. /\ sent' \in Seq(S) /\ Len(sent') = n + 1
        /\ sent'[n + 1] = r /\ \A i \in 1 .. n : sent'[i] = sent[i]
    BY <1>2, <1>4, AppendProperties
  <1>7. DOMAIN sent' = 1 .. n + 1
    BY <1>6, LenProperties
  <1>8. sent' \in Seq(Range(sent'))
    <2>1. PICK R : R = Range(sent')
      OBVIOUS
    <2>2. PICK m \in Nat : m = n + 1
      OBVIOUS
    <2>3. sent' \in [1 .. m -> R]
      <3>1. sent' = [i \in 1 .. m |-> sent'[i]]
        BY <1>6, <2>2, LenProperties
      <3>2. \A i \in 1 .. m : sent'[i] \in R
        BY <1>7, <2>1, <2>2 DEF Range
      <3> QED BY <3>1, <3>2
    <2>4. sent' \in Seq(R)
      BY <2>3, SeqDef
    <2> QED BY <2>1, <2>4
  <1>5. ASSUME NEW i \in 1 .. n + 1 PROVE sent'[i].id = i
    <2>1. CASE i = n + 1
      BY <1>2, <1>6, <2>1
    <2>2. CASE i \in 1 .. n
      BY <1>2, <1>6, <2>2 DEF SentInOrder
    <2>3. i = n + 1 \/ i \in 1 .. n
      OBVIOUS
    <2> QED BY <2>1, <2>2, <2>3
  <1> QED BY <1>2, <1>5, <1>6, <1>7, <1>8 DEF SentInOrder

LEMMA DirectStep ==
  ASSUME BlockTypes, LoopInv, SendDirect
  PROVE  BlockTypes' /\ LoopInv'
  <1>1. /\ pc = "direct" /\ pc' = "input" /\ sent' = Append(sent, [id |-> Len(arrived), results |-> 0])
        /\ UNCHANGED <<network, arrived, todo, recorded, hasOutputs, pendingIDs, lastInferID, flags, toSend, following, needInput, stop>>
    BY DEF SendDirect, packets, pass, sending
  <1>2. /\ EngineTypes' /\ Behind' = Behind
        /\ UNCHANGED <<freeRequest, busyRequest, images, batchIndex, internalDatas, internalIDs, datas, ids>>
    BY EngineSame DEF BlockTypes, SendDirect
  <1>3. DOMAIN pendingIDs = {} /\ following = <<>>
    BY <1>1 DEF LoopInv, Place
  <1>4. PICK A \in Nat, n \in Nat : A = Len(arrived) /\ n = Len(sent)
    BY Counts
  <1>5. Len(following) = 0
    BY <1>3, EmptySeq
  <1>6. First = n + 1 /\ Coming = A
    BY <1>1, <1>4, <1>5 DEF First, Coming
  <1>7. WayOK(pendingIDs, First, Coming, lastInferID, hasOutputs, Behind)
    BY DEF LoopInv, InOrder
  <1>8. hasOutputs \in Seq(Nat) /\ Behind \in Seq(Nat)
    BY BehindType DEF BlockTypes, DataTypes
  <1>9. A = n + 1 /\ WayOK(pendingIDs, A + 1, A + 1, lastInferID, hasOutputs, Behind)
    BY <1>3, <1>6, <1>7, <1>8, WayNone
  <1>10. SentInOrder' /\ sent' \in Seq(Range(sent')) /\ Len(sent') = n + 1
    <2>1. PICK r : r = [id |-> Len(arrived), results |-> 0]
      OBVIOUS
    <2>2. r.id = Len(sent) + 1 /\ sent' = Append(sent, r)
      BY <1>1, <1>4, <1>9, <2>1
    <2> QED BY <1>4, <2>2, SentGrows DEF BlockTypes, LoopInv, InOrder
  <1>11. DataTypes'
    BY <1>1, <1>10 DEF BlockTypes, DataTypes
  <1>12. ControlTypes'
    BY <1>1 DEF BlockTypes, ControlTypes
  <1>13. Place'
    BY <1>1, <1>2 DEF LoopInv, Place
  <1>14. FlagsOK'
    BY <1>1, <1>2, FlagsSame DEF LoopInv
  <1>15. First' = A + 1 /\ Coming' = A + 1
    BY <1>1, <1>4, <1>5, <1>9, <1>10 DEF First, Coming, Fresh
  <1>16. InOrder'
    <2>1. \A i \in 1 .. 0 : FALSE
      OBVIOUS
    <2>2. \A i \in 1 .. Len(following') : following'[i] = Len(sent') + i
      BY <1>1, <1>5, <2>1
    <2> QED BY <1>1, <1>2, <1>9, <1>10, <1>15, <2>2 DEF InOrder
  <1>17. RecordedOK'
    <2>1. DOMAIN recorded = n + 1 .. A - 1
      BY <1>1, <1>4 DEF LoopInv, RecordedOK
    <2>2. n + 1 .. A - 1 = n + 1 + 1 .. A
      BY <1>4, <1>9
    <2> QED BY <1>1, <1>4, <1>10, <2>1, <2>2 DEF RecordedOK
  <1>18. FoundOK'
    BY <1>1, <1>2, Zenon DEF LoopInv, FoundOK, AllFound, Single
  <1>19. SingleOK'
    <2>1. Single' <=> Single
      BY <1>1, Zenon DEF Single
    <2> QED BY <1>1, <1>2, <2>1 DEF LoopInv, SingleOK
  <1> QED BY <1>2, <1>11, <1>12, <1>13, <1>14, <1>16, <1>17, <1>18, <1>19 DEF BlockTypes, LoopInv

-----------------------------------------------------------------------------
(* Images that come back while room is made keep their places.              *)
LEMMA WaitsStep ==
  ASSUME BlockTypes, LoopInv, InsertWaits
  PROVE  BlockTypes' /\ LoopInv'
  <1>1. /\ pc = "insert" /\ MakeRoom
        /\ UNCHANGED <<network, arrived, todo, recorded, hasOutputs, pendingIDs, lastInferID, flags, toSend, following, needInput, sent, stop, pc>>
    BY DEF InsertWaits, packets, pass, sending
  <1>2. EngineTypes
    BY DEF BlockTypes
  <1>3. PICK p \in Seq(Image), n \in Nat :
          /\ EngineTypes' /\ images = p \o images'
          /\ internalIDs' = internalIDs \o IDs(p) /\ internalDatas' = internalDatas \o Translate(p)
          /\ n > 0 /\ freeRequest = 0 /\ freeRequest' = n /\ Len(p) = n * BatchNum /\ p # <<>>
          /\ batchIndex' = batchIndex /\ datas' = datas /\ ids' = ids
    BY <1>1, <1>2, RoomEffect
  <1>4. images' \in Seq(Image) /\ internalIDs \in Seq(Nat) /\ internalDatas \in Seq(Nat) /\ ids \in Seq(Nat)
    BY <1>2, <1>3 DEF EngineTypes
  <1>5. IDs(p) \in Seq(Nat) /\ IDs(images') \in Seq(Nat) /\ Translate(p) \in Seq(Nat)
    BY <1>4, IDsType, TranslateType
  <1>6. Behind' = Behind
    <2>1. IDs(images) = IDs(p) \o IDs(images')
      BY <1>3, <1>4, IDsOfBoth
    <2>2. Associate(internalIDs, IDs(p), IDs(images'))
      BY <1>4, <1>5, Concat
    <2>3. internalIDs' \o IDs(images') = internalIDs \o IDs(images)
      BY <1>3, <2>1, <2>2, Zenon DEF Associate
    <2>4. Behind' = ids' \o (internalIDs' \o IDs(images'))
      BY DEF Behind, IDs
    <2> QED BY <1>3, <2>3, <2>4 DEF Behind
  <1>7. Single' <=> Single
    BY <1>1, Zenon DEF Single
  <1>8. ~Single
    BY <1>1, <1>3 DEF LoopInv, SingleOK
  <1>9. AllFound(images) /\ \A k \in 1 .. Len(todo) : todo[k] > 0
    BY <1>8 DEF LoopInv, FoundOK
  <1>10. AllFound(p) /\ AllFound(images')
    BY <1>3, <1>4, <1>9, AllFoundParts
  <1>11. internalDatas' # <<>>
    <2>1. PICK t \in Seq(Nat) : t = Translate(p) /\ t # <<>>
      BY <1>3, <1>5, <1>10, AllFoundTranslated
    <2>2. PICK a \in Nat, b \in Nat : a = Len(internalDatas) /\ b = Len(t) /\ b > 0
      BY <1>4, <2>1, LenProperties, EmptySeq
    <2>3. Len(internalDatas') = a + b
      BY <1>3, <1>4, <2>1, <2>2, BothLength
    <2>4. Len(internalDatas') # 0
      BY <2>2, <2>3
    <2> QED BY <2>4, EmptySeq
  <1>12. DataTypes' /\ ControlTypes'
    BY <1>1 DEF BlockTypes, DataTypes, ControlTypes
  <1>13. Place'
    BY <1>1, <1>3, <1>6 DEF LoopInv, Place
  <1>14. FlagsOK'
    <2>1. flags = NoFlags
      BY <1>1 DEF LoopInv, Place
    <2> QED BY <1>1, <1>11, <2>1 DEF FlagsOK, NoFlags
  <1>15. First' = First /\ Coming' = Coming
    BY <1>1 DEF First, Coming, Fresh
  <1>16. InOrder'
    BY <1>1, <1>6, <1>15 DEF LoopInv, InOrder, SentInOrder
  <1>17. RecordedOK'
    BY <1>1 DEF LoopInv, RecordedOK
  <1>18. FoundOK'
    BY <1>1, <1>9, <1>10 DEF FoundOK, AllFound
  <1>19. SingleOK'
    BY <1>7, <1>8 DEF SingleOK
  <1> QED BY <1>3, <1>12, <1>13, <1>14, <1>16, <1>17, <1>18, <1>19 DEF BlockTypes, LoopInv

-----------------------------------------------------------------------------
(* An image is inserted.                                                   *)
LEMMA FirstAtMost ==
  ASSUME BlockTypes, InOrder
  PROVE  First <= Coming
  <1>1. First \in Nat /\ Coming \in Nat
    BY Counts
  <1>2. PendingOK(pendingIDs, First, Coming)
    BY DEF InOrder, WayOK
  <1>3. CASE First = Coming
    BY <1>1, <1>3
  <1>4. CASE First \in DOMAIN pendingIDs
    BY <1>1, <1>2, <1>4 DEF PendingOK
  <1> QED BY <1>2, <1>3, <1>4 DEF PendingOK

(* The image is the last one in the engine.                                 *)
LEMMA BehindInserted ==
  ASSUME EngineTypes, NEW image \in Image, images' = images \o <<image>>,
         UNCHANGED <<ids, internalIDs>>
  PROVE  Behind' = Behind \o <<image.id>>
  <1>1. PICK v \in Seq(Image), e \in Seq(Nat) : v = <<image>> /\ e = <<image.id>> /\ IDs(v) = e
    <2>1. <<image>> \in Seq(Image) /\ Len(<<image>>) = 1 /\ <<image>>[1] = image
      BY OneIn
    <2>2. image.id \in Nat
      BY DEF Image
    <2>3. PICK v \in Seq(Image), e \in Seq(Nat) : v = <<image>> /\ e = <<image.id>>
      BY <2>1, <2>2, OneIn
    <2>4. Len(v) = 1 /\ v[1] = image /\ Len(e) = 1 /\ e[1] = image.id
      BY <2>2, <2>3, OneIn
    <2>5. IDs(v) \in Seq(Nat) /\ Len(IDs(v)) = 1 /\ IDs(v)[1] = image.id
      <3>1. 1 \in 1 .. Len(v)
        BY <2>4
      <3> QED BY <2>4, <3>1, IDsType, IDsLength, IDsElement
    <2>6. DOMAIN IDs(v) = 1 .. 1 /\ DOMAIN e = 1 .. 1
      BY <2>4, <2>5, LenProperties
    <2>7. IDs(v) = e
      <3>1. \A i \in 1 .. 1 : i = 1
        OBVIOUS
      <3>2. Len(IDs(v)) = Len(e) /\ \A i \in 1 .. Len(e) : IDs(v)[i] = e[i]
        BY <2>4, <2>5, <3>1
      <3> QED BY <2>5, <3>2, SeqEqual
    <2> QED BY <2>3, <2>7
  <1>2. IDs(images') = IDs(images) \o e
    BY <1>1, IDsOfBoth DEF EngineTypes
  <1>3. ids \in Seq(Nat) /\ internalIDs \in Seq(Nat) /\ IDs(images) \in Seq(Nat)
    BY IDsType DEF EngineTypes
  <1>4. internalIDs \o IDs(images) \in Seq(Nat)
    BY <1>3, Concat
  <1>5. Associate(internalIDs, IDs(images), e)
    BY <1>1, <1>3, Concat
  <1>6. Associate(ids, internalIDs \o IDs(images), e)
    BY <1>1, <1>3, <1>4, Concat
  <1>7. Behind' = ids \o (internalIDs \o IDs(images'))
    BY DEF Behind, IDs
  <1> QED BY <1>1, <1>2, <1>5, <1>6, <1>7, Zenon DEF Behind, Associate

LEMMA InsertStep ==
  ASSUME BlockTypes, LoopInv, Insert
  PROVE  BlockTypes' /\ LoopInv'
  <1>1. /\ pc = "insert" /\ todo' = Tail(todo) /\ lastInferID' = Len(arrived)
        /\ InsertImage([id |-> Len(arrived), found |-> Head(todo)])
        /\ pendingIDs' = Set(pendingIDs, Len(arrived), Get(pendingIDs, Len(arrived), <<>>))
        /\ pc' = IF Len(todo) = 1 THEN "collect" ELSE "insert"
        /\ UNCHANGED <<network, arrived, recorded, hasOutputs, flags, toSend, following, needInput, sent, stop>>
    BY DEF Insert, pass, sending
  <1>2. EngineTypes
    BY DEF BlockTypes
  <1>3. PICK A \in Nat, n \in Nat, L \in Nat : A = Len(arrived) /\ n = Len(sent) /\ L = Len(todo)
    BY Counts, LenProperties DEF BlockTypes, DataTypes
  <1>4. todo # <<>> /\ toSend = 0 /\ following = <<>> /\ ids = <<>> /\ flags = NoFlags
    BY <1>1 DEF LoopInv, Place
  <1>5. /\ L > 0 /\ Head(todo) \in Nat /\ todo' \in Seq(Nat) /\ Len(todo') = L - 1
        /\ Head(todo) = todo[1] /\ \A i \in 1 .. L - 1 : todo'[i] = todo[i + 1]
    BY <1>1, <1>3, <1>4, HeadTailProperties, EmptySeq DEF BlockTypes, DataTypes
  <1>6. PICK image \in Image : image = [id |-> A, found |-> Head(todo)]
    BY <1>3, <1>5 DEF Image
  <1>7. EngineTypes' /\ images' = images \o <<image>>
    BY <1>1, <1>2, <1>3, <1>6, InsertTypes
  <1>8. UNCHANGED <<internalIDs, internalDatas, ids, datas>>
    BY <1>1 DEF InsertImage, internal, outputs
  <1>9. Behind' = Behind \o <<A>>
    BY <1>2, <1>6, <1>7, <1>8, BehindInserted
  <1>10. WayOK(pendingIDs, First, Coming, lastInferID, hasOutputs, Behind)
    BY DEF LoopInv, InOrder
  <1>11. /\ First \in Nat /\ Coming \in Nat /\ First <= Coming /\ PendingTyped(pendingIDs)
         /\ hasOutputs \in Seq(Nat) /\ Behind \in Seq(Nat)
    BY <1>2, Counts, FirstAtMost, BehindType DEF BlockTypes, DataTypes, LoopInv
  <1>12. /\ PendingTyped(pendingIDs') /\ WayOK(pendingIDs', First, A + 1, A, hasOutputs, Behind')
         /\ DOMAIN pendingIDs' = DOMAIN pendingIDs \union {A} /\ First <= A
    <2>1. CASE Fresh
      <3>1. Coming = A
        BY <1>3, <2>1 DEF Coming
      <3>2. /\ PendingTyped(pendingIDs') /\ WayOK(pendingIDs', First, A + 1, A, hasOutputs, Behind \o <<A>>)
            /\ DOMAIN pendingIDs' = DOMAIN pendingIDs \union {A}
        BY <1>1, <1>3, <1>10, <1>11, <3>1, WayNew
      <3> QED BY <1>9, <1>11, <3>1, <3>2
    <2>2. CASE ~Fresh
      <3>1. Coming = A + 1 /\ A \in DOMAIN pendingIDs
        BY <1>1, <1>3, <2>2 DEF Coming, Fresh
      <3>2. pendingIDs' = pendingIDs /\ WayOK(pendingIDs, First, Coming, A, hasOutputs, Behind \o <<A>>)
        BY <1>1, <1>3, <1>10, <1>11, <3>1, WayAgain
      <3>3. First <= A
        BY <1>10, <3>1 DEF WayOK, PendingOK
      <3>4. DOMAIN pendingIDs' = DOMAIN pendingIDs \union {A}
        BY <3>1, <3>2
      <3> QED BY <1>9, <1>11, <3>1, <3>2, <3>3, <3>4
    <2> QED BY <2>1, <2>2
  <1>13. DataTypes'
    BY <1>1, <1>5, <1>12 DEF BlockTypes, DataTypes
  <1>14. First >= 1
    BY Counts DEF First
  <1>15. ControlTypes'
    <2>1. DOMAIN pendingIDs' \subseteq 1 .. Len(arrived')
      BY <1>1, <1>3, <1>11, <1>12, <1>14 DEF BlockTypes, ControlTypes
    <2> QED BY <1>1, <1>3, <2>1 DEF BlockTypes, ControlTypes
  <1>16. todo' = <<>> <=> L = 1
    <2>1. todo' = <<>> <=> Len(todo') = 0
      BY <1>5, EmptySeq
    <2> QED BY <1>3, <1>5, <2>1
  <1>17. Place'
    BY <1>1, <1>3, <1>4, <1>8, <1>16 DEF LoopInv, Place
  <1>18. FlagsOK'
    BY <1>1, <1>4, <1>8 DEF LoopInv, FlagsOK, NoFlags
  <1>19. First' = First /\ Coming' = A + 1
    BY <1>1, <1>3, <1>12 DEF First, Coming, Fresh
  <1>20. InOrder'
    BY <1>1, <1>3, <1>12, <1>19 DEF LoopInv, InOrder, SentInOrder
  <1>21. RecordedOK'
    BY <1>1 DEF LoopInv, RecordedOK
  <1>22. Single' <=> Single
    BY <1>1, Zenon DEF Single
  <1>23. FoundOK'
    <2>1. CASE Single
      BY <1>22, <2>1 DEF FoundOK
    <2>2. CASE ~Single
      <3>1. AllFound(images) /\ \A k \in 1 .. L : todo[k] > 0
        BY <1>3, <2>2 DEF LoopInv, FoundOK
      <3>2. image.found > 0
        BY <1>5, <1>6, <3>1
      <3>3. AllFound(images')
        <4>1. PICK v \in Seq(Image) : v = <<image>> /\ Len(v) = 1 /\ v[1] = image
          BY OneIn
        <4>2. AllFound(v)
          <5>1. \A i \in 1 .. 1 : i = 1
            OBVIOUS
          <5> QED BY <3>2, <4>1, <5>1 DEF AllFound
        <4>3. images' = images \o v /\ images \in Seq(Image)
          BY <1>2, <1>7, <4>1 DEF EngineTypes
        <4> QED BY <3>1, <4>2, <4>3, AllFoundBoth
      <3>4. \A k \in 1 .. L - 1 : todo'[k] > 0
        BY <1>5, <3>1, SMTT(30)
      <3>5. AllFound(images)'
        BY <3>3 DEF AllFound
      <3> QED BY <1>5, <3>4, <3>5 DEF FoundOK
    <2> QED BY <2>1, <2>2
  <1>24. SingleOK'
    <2> SUFFICES ASSUME Single
                 PROVE  internalIDs' = <<>> /\ Len(todo') <= 1 /\ ids' = <<>> /\ pc' = "collect"
      BY <1>22 DEF SingleOK
    <2>1. internalIDs = <<>> /\ L <= 1
      BY <1>3 DEF LoopInv, SingleOK
    <2> QED BY <1>1, <1>3, <1>4, <1>5, <1>8, <2>1
  <1> QED BY <1>7, <1>13, <1>15, <1>17, <1>18, <1>20, <1>21, <1>23, <1>24 DEF BlockTypes, LoopInv

-----------------------------------------------------------------------------
(* Results are collected.                                                  *)
LEMMA BehindCollected ==
  ASSUME EngineTypes, EngineTypes', NEW p \in Seq(Image), images = p \o images',
         ids' = (ids \o internalIDs) \o IDs(p), internalIDs' = <<>>
  PROVE  Behind' = Behind
  <1>1. PICK i \in Seq(Nat), s \in Seq(Nat), t \in Seq(Nat), u \in Seq(Nat) :
          i = ids /\ s = internalIDs /\ t = IDs(p) /\ u = IDs(images')
    BY IDsType DEF EngineTypes
  <1>2. IDs(images) = t \o u
    BY <1>1, IDsOfBoth DEF EngineTypes
  <1>3. i \o s \in Seq(Nat) /\ t \o u \in Seq(Nat)
    BY Concat
  <1>4. Associate(i \o s, t, u)
    BY <1>3, Concat
  <1>5. Associate(i, s, t \o u)
    BY <1>3, Concat
  <1>6. <<>> \o u = u
    BY Concat
  <1>7. Behind' = ids' \o (internalIDs' \o IDs(images'))
    BY DEF Behind, IDs
  <1> QED BY <1>1, <1>2, <1>4, <1>5, <1>6, <1>7, Zenon DEF Behind, Associate

LEMMA CollectStep ==
  ASSUME BlockTypes, LoopInv, Collect
  PROVE  BlockTypes' /\ LoopInv'
  <1>1. /\ pc = "collect" /\ GetOutput /\ pc' \in {"collect", "attach"}
        /\ flags' = [inferenceFree   |-> flags.inferenceFree \/ Returned < 0,
                     isPendingTasks  |-> flags.isPendingTasks /\ Returned # -1,
                     isAllWorkerBusy |-> flags.isAllWorkerBusy \/ Returned = 2]
        /\ UNCHANGED <<network, arrived, todo, recorded, hasOutputs, pendingIDs, lastInferID, toSend, following, needInput, sent, stop>>
    BY DEF Collect, packets, sending
  <1>2. EngineTypes
    BY DEF BlockTypes
  <1>3. internalIDs # <<>> => internalDatas # <<>>
    BY DEF LoopInv, FlagsOK
  <1>4. PICK p \in Seq(Image), n \in Nat :
           /\ EngineTypes' /\ images = p \o images'
           /\ ids' = (ids \o internalIDs) \o IDs(p)
           /\ internalIDs' = <<>> /\ (internalIDs' # <<>> => internalDatas' # <<>>)
           /\ freeRequest \in Nat /\ freeRequest' = freeRequest + n /\ Len(p) = n * BatchNum
           /\ batchIndex' = batchIndex
           /\ Returned = -1 => images' = <<>>
           /\ Returned # 2 => freeRequest' > 0
           /\ Returned \in {-2, -1, 0, 2}
    BY <1>1, <1>2, <1>3, GetEffect
  <1>5. Behind' = Behind
    BY <1>2, <1>4, BehindCollected
  <1>6. toSend = 0 /\ following = <<>> /\ Len(hasOutputs) <= 1 /\ todo = <<>>
    BY <1>1 DEF LoopInv, Place
  <1>7. DataTypes'
    BY <1>1 DEF BlockTypes, DataTypes
  <1>8. ControlTypes'
    <2>1. flags' \in [inferenceFree : BOOLEAN, isPendingTasks : BOOLEAN, isAllWorkerBusy : BOOLEAN]
      BY <1>1
    <2> QED BY <1>1, <2>1 DEF BlockTypes, ControlTypes
  <1>9. Place'
    BY <1>1, <1>4, <1>6 DEF Place
  <1>10. FlagsOK'
    <2>1. images = <<>> => images' = <<>>
      <3> SUFFICES ASSUME images = <<>> PROVE images' = <<>>
        OBVIOUS
      <3>1. images' \in Seq(Image)
        BY <1>4 DEF EngineTypes
      <3>2. PICK a \in Nat, b \in Nat : a = Len(p) /\ b = Len(images')
        BY <3>1, LenProperties
      <3>3. Len(images) = a + b
        BY <1>4, <3>1, <3>2, BothLength
      <3>4. a + b = 0
        BY <3>3, EmptySeq, Zenon
      <3>5. b = 0
        BY <3>4
      <3>6. Len(images') = 0
        BY <3>2, <3>5, Zenon
      <3> QED BY <3>1, <3>6, EmptySeq
    <2>2. ASSUME ~flags'.isPendingTasks PROVE images' = <<>> /\ internalIDs' = <<>>
      <3>1. CASE Returned = -1
        BY <1>4, <3>1
      <3>2. CASE ~flags.isPendingTasks
        BY <1>4, <2>1, <3>2 DEF LoopInv, FlagsOK
      <3>3. ~(flags.isPendingTasks /\ Returned # -1)
        BY <1>1, <2>2, Zenon
      <3> QED BY <3>1, <3>2, <3>3, Zenon
    <2>3. ASSUME flags'.inferenceFree PROVE freeRequest' > 0
      <3>1. CASE Returned < 0
        <4>1. Returned # 2
          BY <3>1
        <4> QED BY <1>4, <4>1
      <3>2. CASE flags.inferenceFree
        <4>1. freeRequest > 0
          BY <3>2 DEF LoopInv, FlagsOK
        <4> QED BY <1>4, <4>1
      <3>3. flags.inferenceFree \/ Returned < 0
        BY <1>1, <2>3, Zenon
      <3> QED BY <3>1, <3>2, <3>3, Zenon
    <2>4. ASSUME ~flags'.isAllWorkerBusy PROVE freeRequest' > 0
      <3>1. Returned # 2
        BY <1>1, <2>4, Zenon
      <3> QED BY <1>4, <3>1
    <2> QED BY <1>4, <2>2, <2>3, <2>4, Zenon DEF FlagsOK
  <1>11. First' = First /\ Coming' = Coming
    BY <1>1 DEF First, Coming, Fresh
  <1>12. InOrder'
    BY <1>1, <1>5, <1>11 DEF LoopInv, InOrder, SentInOrder
  <1>13. RecordedOK'
    BY <1>1 DEF LoopInv, RecordedOK
  <1>14. Single' <=> Single
    BY <1>1, Zenon DEF Single
  <1>15. FoundOK'
    <2>1. CASE Single
      BY <1>14, <2>1 DEF FoundOK
    <2>2. CASE ~Single
      <3>1. AllFound(images) /\ \A k \in 1 .. Len(todo) : todo[k] > 0
        BY <2>2 DEF LoopInv, FoundOK
      <3>2. images' \in Seq(Image)
        BY <1>4 DEF EngineTypes
      <3>3. AllFound(images')
        BY <1>4, <3>1, <3>2, AllFoundParts
      <3> QED BY <1>1, <3>1, <3>3 DEF FoundOK, AllFound
    <2> QED BY <2>1, <2>2
  <1>16. SingleOK'
    <2> SUFFICES ASSUME Single PROVE Len(todo') <= 1 /\ (freeRequest' = 0 => ids' = <<>>)
      <3>1. freeRequest' \in Nat
        BY <1>4
      <3> QED BY <1>1, <1>4, <1>14, <3>1 DEF SingleOK
    <2>1. internalIDs = <<>> /\ Len(todo) <= 1 /\ (ids # <<>> => freeRequest > 0)
      BY DEF LoopInv, SingleOK
    <2>2. ASSUME freeRequest' = 0 PROVE ids' = <<>>
      <3>1. freeRequest = 0 /\ n = 0
        BY <1>4, <2>2
      <3>2. ids = <<>>
        BY <2>1, <3>1
      <3>3. Len(p) = 0
        BY <1>4, <3>1, EngineAssumption
      <3>4. p = <<>>
        BY <3>3, EmptySeq
      <3>5. IDs(p) = <<>>
        BY <3>4, NothingTranslated
      <3>6. <<>> \o <<>> = <<>>
        BY Concat
      <3> QED BY <1>4, <2>1, <3>2, <3>5, <3>6, Zenon
    <2> QED BY <1>1, <2>1, <2>2
  <1> QED BY <1>4, <1>7, <1>8, <1>9, <1>10, <1>12, <1>13, <1>15, <1>16 DEF BlockTypes, LoopInv

-----------------------------------------------------------------------------
(* Results are attached.                                                   *)
LEMMA EmptyIs ==
  ASSUME NEW s \in Seq(Nat)
  PROVE  Len(s) \in Nat /\ (s = <<>> <=> Len(s) = 0)
  BY LenProperties, EmptySeq

LEMMA NonePushed ==
  ASSUME NEW h \in Seq(Nat)
  PROVE  Pushed(h, <<>>) = h
  <1>1. PICK e \in Seq(Nat) : e = <<>> /\ Len(e) = 0
    BY EmptySeq
  <1>2. PICK f : PushedTo(Len(e), f, h, e) /\ Pushed(h, e) = f[Len(e)]
    BY PushedIs
  <1> QED BY <1>1, <1>2 DEF PushedTo

LEMMA AttachStep ==
  ASSUME BlockTypes, LoopInv, Attach
  PROVE  BlockTypes' /\ LoopInv'
  <1>0. PICK q : q = Pushed(hasOutputs, ids)
    OBVIOUS
  <1>1. PICK k \in {0, 1} :
          /\ q = Pushed(hasOutputs, ids)
          /\ k = IF flags.inferenceFree /\ ~flags.isPendingTasks THEN 0 ELSE 1
    BY <1>0
  <1>2. /\ pc = "attach" /\ hasOutputs' = q
        /\ DOMAIN recorded' = DOMAIN recorded \union Range(ids)
        /\ IF q = <<>>
             THEN /\ Continue(flags.inferenceFree \/ ~flags.isAllWorkerBusy)
                  /\ UNCHANGED toSend
             ELSE /\ toSend' = Len(q) - k
                  /\ needInput' = ~(Len(q) - k = 0 /\ ~flags.inferenceFree /\ flags.isAllWorkerBusy)
                  /\ pc' = "send"
        /\ datas' = <<>> /\ ids' = <<>> /\ flags' = NoFlags
        /\ UNCHANGED <<freeRequest, busyRequest, images, batchIndex, internalDatas, internalIDs, network, arrived, todo,
                       pendingIDs, lastInferID, following, sent, stop>>
    BY <1>1 DEF Attach, requests, internal
  <1>3. EngineTypes
    BY DEF BlockTypes
  <1>4. PICK A \in Nat, n \in Nat, a \in Nat : A = Len(arrived) /\ n = Len(sent) /\ a = Len(hasOutputs)
    BY Counts
  <1>5. toSend = 0 /\ following = <<>> /\ a <= 1 /\ todo = <<>> /\ internalIDs = <<>>
    BY <1>2, <1>4 DEF LoopInv, Place
  <1>6. EngineTypes'
    <2>1. <<>> \in Seq(Nat)
      BY Concat
    <2> QED BY <1>2, <1>3, <2>1 DEF EngineTypes, EngineOK
  <1>7. PICK t \in Seq(Nat) : t = internalIDs \o IDs(images)
    BY <1>3, IDsType, Concat DEF EngineTypes
  <1>8. Behind = ids \o t /\ Behind' = t
    <2>1. Behind' = ids' \o (internalIDs' \o IDs(images'))
      BY DEF Behind, IDs
    <2>2. <<>> \o t = t
      BY Concat
    <2> QED BY <1>2, <1>7, <2>1, <2>2, Zenon DEF Behind
  <1>9. hasOutputs \in Seq(Nat) /\ ids \in Seq(Nat)
    BY <1>3 DEF BlockTypes, DataTypes, EngineTypes
  <1>10. WayOK(pendingIDs, First, Coming, lastInferID, hasOutputs, ids \o t)
    BY <1>8 DEF LoopInv, InOrder
  <1>11. /\ q \in Seq(Nat) /\ WayOK(pendingIDs, First, Coming, lastInferID, q, t)
         /\ Range(ids) \subseteq DOMAIN pendingIDs
         /\ Len(q) \in Nat /\ a <= Len(q)
    BY <1>1, <1>4, <1>9, <1>10, WayPushed
  <1>12. PICK c \in Nat : c = Len(q) /\ (q = <<>> <=> c = 0)
    BY <1>11, EmptyIs
  <1>13. Len(following) = 0 /\ First = n + 1 /\ Coming = A + 1
    BY <1>2, <1>4, <1>5, EmptySeq DEF First, Coming, Fresh
  <1>14. DOMAIN recorded = n + 1 .. A
    BY <1>2, <1>4 DEF LoopInv, RecordedOK
  <1>15. DOMAIN recorded' = DOMAIN recorded
    <2>1. ASSUME NEW i \in DOMAIN pendingIDs PROVE i \in n + 1 .. A
      <3>1. n + 1 <= i /\ i < A + 1
        BY <1>10, <1>13 DEF WayOK, PendingOK
      <3>2. i \in Nat
        BY PendingOne DEF BlockTypes, DataTypes
      <3> QED BY <3>1, <3>2
    <2> QED BY <1>2, <1>11, <1>14, <2>1
  <1>16. toSend' \in 0 .. c /\ c <= toSend' + 1
    <2>1. CASE c = 0
      BY <1>2, <1>5, <1>12, <2>1
    <2>2. CASE c # 0
      <3>1. toSend' = c - k
        BY <1>2, <1>12, <2>2
      <3> QED BY <1>1, <2>2, <3>1
    <2> QED BY <2>1, <2>2
  <1>17. pc' \in {"input", "collect", "send"} /\ needInput' \in BOOLEAN
         /\ (pc' # "send" => c = 0)
    BY <1>2, <1>12 DEF Continue
  <1>18. DataTypes'
    BY <1>2, <1>11 DEF BlockTypes, DataTypes
  <1>19. ControlTypes'
    <2>1. flags' \in [inferenceFree : BOOLEAN, isPendingTasks : BOOLEAN, isAllWorkerBusy : BOOLEAN]
      BY <1>2 DEF NoFlags
    <2>2. toSend' \in 0 .. Len(hasOutputs')
      BY <1>2, <1>12, <1>16
    <2> QED BY <1>2, <1>15, <1>17, <2>1, <2>2 DEF BlockTypes, ControlTypes
  <1>20. Place'
    <2>1. toSend' > 0 /\ toSend' = Len(hasOutputs') => Behind' = <<>>
      <3> SUFFICES ASSUME toSend' > 0, toSend' = c PROVE t = <<>>
        BY <1>2, <1>8, <1>12
      <3>1. toSend' = c - k
        BY <1>2, <1>5, <1>12
      <3>2. k = 0
        BY <3>1
      <3>3. images = <<>>
        BY <1>1, <3>2 DEF LoopInv, FlagsOK
      <3>4. IDs(images) = <<>>
        BY <3>3, NothingTranslated
      <3>5. <<>> \o <<>> = <<>>
        BY Concat
      <3> QED BY <1>5, <1>7, <3>4, <3>5, Zenon
    <2>2. pc' # "send" => toSend' = 0
      BY <1>16, <1>17
    <2> QED BY <1>2, <1>5, <1>12, <1>16, <1>17, <2>1, <2>2 DEF Place
  <1>21. FlagsOK'
    BY <1>2, <1>5, <1>17 DEF FlagsOK, NoFlags
  <1>22. First' = First /\ Coming' = Coming
    BY <1>2, <1>13, <1>17 DEF First, Coming, Fresh
  <1>23. InOrder'
    BY <1>2, <1>8, <1>11, <1>22 DEF LoopInv, InOrder, SentInOrder
  <1>24. RecordedOK'
    BY <1>2, <1>4, <1>14, <1>15, <1>17 DEF RecordedOK
  <1>25. Single' <=> Single
    BY <1>2, Zenon DEF Single
  <1>26. FoundOK'
    BY <1>2, <1>25 DEF LoopInv, FoundOK, AllFound
  <1>27. SingleOK'
    <2> SUFFICES ASSUME Single, pc' = "input" \/ (pc' = "send" /\ needInput') PROVE freeRequest > 0
      BY <1>2, <1>5, <1>17, <1>25, EmptySeq DEF LoopInv, SingleOK
    <2>1. CASE flags.inferenceFree
      BY <2>1 DEF LoopInv, FlagsOK
    <2>2. CASE ~flags.isAllWorkerBusy
      BY <1>2, <2>2 DEF LoopInv, FlagsOK
    <2>3. CASE ~flags.inferenceFree /\ flags.isAllWorkerBusy
      <3>1. q # <<>> /\ Len(q) - k # 0
        BY <1>2, <2>3 DEF Continue
      <3>2. k = 1
        BY <1>1, <2>3
      <3>3. c > 1
        BY <1>12, <3>1, <3>2
      <3>4. ids # <<>>
        <4> SUFFICES ASSUME ids = <<>> PROVE FALSE
          OBVIOUS
        <4>1. q = hasOutputs
          BY <1>1, <1>9, NonePushed
        <4> QED BY <1>4, <1>5, <1>12, <3>3, <4>1
      <3> QED BY <3>4 DEF LoopInv, SingleOK
    <2> QED BY <2>1, <2>2, <2>3, Zenon
  <1> QED BY <1>6, <1>18, <1>19, <1>20, <1>21, <1>23, <1>24, <1>26, <1>27 DEF BlockTypes, LoopInv

-----------------------------------------------------------------------------
(* Packets are sent, the block stops, and the theorems.                    *)
LEMMA SendStep ==
  ASSUME BlockTypes, LoopInv, Send
  PROVE  BlockTypes' /\ LoopInv'
  <1>1. /\ pc = "send" /\ toSend > 0 /\ following = <<>>
        /\ sent' = Append(sent, [id |-> Head(hasOutputs), results |-> Get(recorded, Head(hasOutputs), 0)])
        /\ hasOutputs' = Tail(hasOutputs)
        /\ recorded' = Erase(recorded, Head(hasOutputs))
        /\ following' = Get(pendingIDs, Head(hasOutputs), <<>>)
        /\ pendingIDs' = Erase(pendingIDs, Head(hasOutputs))
        /\ toSend' = toSend - 1
        /\ UNCHANGED <<engine, network, arrived, todo, lastInferID, flags, needInput, stop, pc>>
    BY DEF Send, pass
  <1>2. /\ EngineTypes' /\ Behind' = Behind
        /\ UNCHANGED <<freeRequest, busyRequest, images, batchIndex, internalDatas, internalIDs, datas, ids>>
    BY <1>1, EngineSame DEF BlockTypes
  <1>3. PICK A \in Nat, n \in Nat, a \in Nat, c \in Nat :
          A = Len(arrived) /\ n = Len(sent) /\ a = Len(hasOutputs) /\ c = toSend /\ c > 0 /\ c <= a /\ a <= c + 1
    BY <1>1, Counts DEF BlockTypes, ControlTypes, LoopInv, Place
  <1>4. hasOutputs \in Seq(Nat) /\ hasOutputs # <<>> /\ Behind \in Seq(Nat)
    BY <1>3, EmptySeq, BehindType DEF BlockTypes, DataTypes
  <1>5. First = n + 1 /\ Coming = A + 1
    BY <1>1, <1>3, EmptySeq DEF First, Coming, Fresh
  <1>6. PendingTyped(pendingIDs) /\ WayOK(pendingIDs, First, Coming, lastInferID, hasOutputs, Behind)
    BY DEF BlockTypes, DataTypes, LoopInv, InOrder
  <1>7. First \in DOMAIN pendingIDs /\ Head(hasOutputs) = First /\ First \in Nat
    BY <1>3, <1>4, <1>5, <1>6, WayFirst
  <1>8. a = 1 => Behind = <<>>
    BY <1>3 DEF LoopInv, Place
  <1>9. PICK m \in Nat : m = Len(pendingIDs[First]) /\ pendingIDs[First] \in Seq(Nat)
    BY <1>6, <1>7, PendingOne
  <1>10. following' = pendingIDs[First] /\ Len(following') = m
    BY <1>1, <1>7, <1>9 DEF Get
  <1>11. PICK next \in Nat : next = First + m + 1 /\ next = n + m + 2
    <2>1. First + m + 1 = n + m + 2 /\ First + m + 1 \in Nat
      BY <1>5
    <2> QED BY <2>1
  <1>12. pendingIDs' = Erase(pendingIDs, First)
    BY <1>1, <1>7
  <1>13. /\ PendingTyped(pendingIDs')
         /\ WayOK(pendingIDs', next, Coming, lastInferID, Tail(hasOutputs), Behind)
    <2>1. next = First + Len(pendingIDs[First]) + 1
      BY <1>9, <1>11
    <2>2. Coming \in Nat
      BY Counts
    <2>3. Len(hasOutputs) = 1 => Behind = <<>>
      BY <1>3, <1>8
    <2>4. PICK q : q = pendingIDs'
      OBVIOUS
    <2>5. q = Erase(pendingIDs, First)
      BY <1>12, <2>4
    <2>6. PICK h \in Seq(Nat), b \in Seq(Nat) : h = hasOutputs /\ b = Behind
      BY <1>4
    <2>7. h # <<>> /\ (Len(h) = 1 => b = <<>>) /\ WayOK(pendingIDs, First, Coming, lastInferID, h, b)
      BY <1>4, <1>6, <2>3, <2>6
    <2>8. PendingTyped(q) /\ WayOK(q, next, Coming, lastInferID, Tail(h), b)
      BY <1>6, <1>7, <2>1, <2>2, <2>5, <2>7, WayRest, SMTT(30)
    <2> QED BY <2>4, <2>6, <2>8
  <1>14. SentInOrder' /\ sent' \in Seq(Range(sent')) /\ Len(sent') = n + 1
    <2>1. PICK r : r = [id |-> Head(hasOutputs), results |-> Get(recorded, Head(hasOutputs), 0)]
      OBVIOUS
    <2>2. r.id = Len(sent) + 1 /\ sent' = Append(sent, r)
      BY <1>1, <1>3, <1>5, <1>7, <2>1
    <2> QED BY <1>3, <2>2, SentGrows DEF BlockTypes, LoopInv, InOrder
  <1>15. hasOutputs' \in Seq(Nat) /\ Len(hasOutputs') = a - 1
    BY <1>1, <1>3, <1>4, HeadAndTail
  <1>16. DataTypes'
    BY <1>1, <1>9, <1>10, <1>13, <1>14, <1>15 DEF BlockTypes, DataTypes
  <1>17. DOMAIN recorded' = DOMAIN recorded \ {First} /\ DOMAIN pendingIDs' = DOMAIN pendingIDs \ {First}
    BY <1>1, <1>7 DEF Erase, Restrict
  <1>18. ControlTypes'
    <2>1. toSend' \in 0 .. Len(hasOutputs')
      BY <1>1, <1>3, <1>15
    <2> QED BY <1>1, <1>17, <2>1 DEF BlockTypes, ControlTypes
  <1>19. Place'
    <2>1. toSend' > 0 /\ toSend' = Len(hasOutputs') => Behind' = <<>>
      <3>1. toSend' = Len(hasOutputs') => toSend = Len(hasOutputs)
        BY <1>1, <1>3, <1>15
      <3> QED BY <1>1, <1>2, <1>3, <3>1 DEF LoopInv, Place
    <2>2. Len(hasOutputs') <= toSend' + 1
      BY <1>1, <1>3, <1>15
    <2> QED BY <1>1, <1>2, <2>1, <2>2 DEF LoopInv, Place
  <1>20. FlagsOK'
    BY <1>1, <1>2, FlagsSame DEF LoopInv
  <1>21. First' = next /\ Coming' = Coming
    <2>1. First' = n + 1 + m + 1
      BY <1>10, <1>14 DEF First
    <2> QED BY <1>1, <1>11, <2>1 DEF Coming, Fresh
  <1>22. InOrder'
    <2>1. \A i \in 1 .. Len(following') : following'[i] = Len(sent') + i
      <3> SUFFICES ASSUME NEW i \in 1 .. m PROVE pendingIDs[First][i] = n + 1 + i
        BY <1>10, <1>14
      <3> QED BY <1>5, <1>6, <1>7, <1>9 DEF WayOK, PendingOK
    <2> QED BY <1>1, <1>2, <1>13, <1>14, <1>21, <2>1 DEF InOrder
  <1>23. RecordedOK'
    <2>1. DOMAIN recorded = n + 1 .. A
      BY <1>1, <1>3 DEF LoopInv, RecordedOK
    <2>2. (n + 1 .. A) \ {n + 1} = n + 1 + 1 .. A
      OBVIOUS
    <2> QED BY <1>1, <1>3, <1>5, <1>14, <1>17, <2>1, <2>2 DEF RecordedOK
  <1>24. Single' <=> Single
    BY <1>1, Zenon DEF Single
  <1>25. FoundOK'
    BY <1>1, <1>2, <1>24 DEF LoopInv, FoundOK, AllFound
  <1>26. SingleOK'
    BY <1>1, <1>2, <1>24 DEF LoopInv, SingleOK
  <1> QED BY <1>2, <1>16, <1>18, <1>19, <1>20, <1>22, <1>23, <1>25, <1>26 DEF BlockTypes, LoopInv

LEMMA FollowingStep ==
  ASSUME BlockTypes, LoopInv, SendFollowing
  PROVE  BlockTypes' /\ LoopInv'
  <1>1. /\ pc = "send" /\ following # <<>>
        /\ sent' = Append(sent, [id |-> Head(following), results |-> Get(recorded, Head(following), 0)])
        /\ recorded' = Erase(recorded, Head(following)) /\ following' = Tail(following)
        /\ UNCHANGED <<engine, network, arrived, todo, hasOutputs, pendingIDs, lastInferID, flags, toSend, needInput, stop, pc>>
    BY DEF SendFollowing, pass
  <1>2. /\ EngineTypes' /\ Behind' = Behind
        /\ UNCHANGED <<freeRequest, busyRequest, images, batchIndex, internalDatas, internalIDs, datas, ids>>
    BY <1>1, EngineSame DEF BlockTypes
  <1>3. PICK A \in Nat, n \in Nat, m \in Nat : A = Len(arrived) /\ n = Len(sent) /\ m = Len(following) /\ m > 0
    BY <1>1, Counts, EmptySeq DEF BlockTypes, DataTypes
  <1>4. /\ following' \in Seq(Nat) /\ Len(following') = m - 1
        /\ Head(following) = following[1] /\ \A i \in 1 .. m - 1 : following'[i] = following[i + 1]
    BY <1>1, <1>3, HeadTailProperties DEF BlockTypes, DataTypes
  <1>5. \A i \in 1 .. m : following[i] = n + i
    BY <1>3 DEF LoopInv, InOrder
  <1>6. Head(following) = n + 1
    <2>1. 1 \in 1 .. m
      BY <1>3
    <2> QED BY <1>4, <1>5, <2>1
  <1>7. SentInOrder' /\ sent' \in Seq(Range(sent')) /\ Len(sent') = n + 1
    <2>1. PICK r : r = [id |-> Head(following), results |-> Get(recorded, Head(following), 0)]
      OBVIOUS
    <2>2. r.id = Len(sent) + 1 /\ sent' = Append(sent, r)
      BY <1>1, <1>3, <1>6, <2>1
    <2> QED BY <1>3, <2>2, SentGrows DEF BlockTypes, LoopInv, InOrder
  <1>8. DataTypes'
    BY <1>1, <1>4, <1>7 DEF BlockTypes, DataTypes
  <1>9. DOMAIN recorded' = DOMAIN recorded \ {n + 1}
    BY <1>1, <1>6 DEF Erase, Restrict
  <1>10. ControlTypes'
    BY <1>1, <1>9 DEF BlockTypes, ControlTypes
  <1>11. Place'
    BY <1>1, <1>2 DEF LoopInv, Place
  <1>12. FlagsOK'
    BY <1>1, <1>2, FlagsSame DEF LoopInv
  <1>13. First' = First /\ Coming' = Coming
    <2>1. n + 1 + (m - 1) + 1 = n + m + 1
      OBVIOUS
    <2> QED BY <1>1, <1>3, <1>4, <1>7, <2>1 DEF First, Coming, Fresh
  <1>14. InOrder'
    <2>1. \A i \in 1 .. Len(following') : following'[i] = Len(sent') + i
      <3> SUFFICES ASSUME NEW i \in 1 .. m - 1 PROVE following'[i] = n + 1 + i
        BY <1>4, <1>7
      <3>1. following'[i] = following[i + 1] /\ i + 1 \in 1 .. m
        BY <1>3, <1>4
      <3> QED BY <1>5, <3>1
    <2> QED BY <1>1, <1>2, <1>7, <1>13, <2>1 DEF LoopInv, InOrder
  <1>15. RecordedOK'
    <2>1. DOMAIN recorded = n + 1 .. A
      BY <1>1, <1>3 DEF LoopInv, RecordedOK
    <2>2. (n + 1 .. A) \ {n + 1} = n + 1 + 1 .. A
      OBVIOUS
    <2> QED BY <1>1, <1>3, <1>7, <1>9, <2>1, <2>2 DEF RecordedOK
  <1>16. Single' <=> Single
    BY <1>1, Zenon DEF Single
  <1>17. FoundOK'
    BY <1>1, <1>2, <1>16 DEF LoopInv, FoundOK, AllFound
  <1>18. SingleOK'
    BY <1>1, <1>2, <1>16 DEF LoopInv, SingleOK
  <1> QED BY <1>2, <1>8, <1>10, <1>11, <1>12, <1>14, <1>15, <1>17, <1>18 DEF BlockTypes, LoopInv

LEMMA SentStep ==
  ASSUME BlockTypes, LoopInv, Sent
  PROVE  BlockTypes' /\ LoopInv'
  <1>1. /\ pc = "send" /\ toSend = 0 /\ following = <<>> /\ needInput' = needInput
        /\ pc' = IF needInput THEN "input" ELSE "collect"
        /\ UNCHANGED <<engine, network, arrived, todo, recorded, hasOutputs, pendingIDs, lastInferID, flags, toSend, following, sent, stop>>
    BY DEF Sent, Continue, packets, pass, sending
  <1>2. /\ EngineTypes' /\ Behind' = Behind
        /\ UNCHANGED <<freeRequest, busyRequest, images, batchIndex, internalDatas, internalIDs, datas, ids>>
    BY <1>1, EngineSame DEF BlockTypes
  <1>3. DataTypes'
    BY <1>1 DEF BlockTypes, DataTypes
  <1>4. ControlTypes'
    BY <1>1 DEF BlockTypes, ControlTypes
  <1>5. Place'
    BY <1>1, <1>2 DEF LoopInv, Place
  <1>6. FlagsOK'
    BY <1>1, <1>2, FlagsSame DEF LoopInv
  <1>7. First' = First /\ Coming' = Coming
    BY <1>1 DEF First, Coming, Fresh
  <1>8. InOrder'
    BY <1>1, <1>2, <1>7 DEF LoopInv, InOrder, SentInOrder
  <1>9. RecordedOK'
    BY <1>1 DEF LoopInv, RecordedOK
  <1>10. Single' <=> Single
    BY <1>1, Zenon DEF Single
  <1>11. FoundOK'
    BY <1>1, <1>2, <1>10 DEF LoopInv, FoundOK, AllFound
  <1>12. SingleOK'
    BY <1>1, <1>2, <1>10 DEF LoopInv, SingleOK
  <1> QED BY <1>2, <1>3, <1>4, <1>5, <1>6, <1>8, <1>9, <1>11, <1>12 DEF BlockTypes, LoopInv

(* Every packet that is still here is recorded.                             *)
LEMMA PendingRecorded ==
  ASSUME BlockTypes, LoopInv
  PROVE  DOMAIN pendingIDs \subseteq DOMAIN recorded
  <1>1. PICK A \in Nat, n \in Nat, m \in Nat : A = Len(arrived) /\ n = Len(sent) /\ m = Len(following)
    BY Counts
  <1>2. First = n + m + 1 /\ First \in Nat /\ Coming \in Nat /\ Coming <= A + 1
    BY <1>1, Counts DEF First, Coming
  <1>3. DOMAIN recorded = n + 1 .. IF pc = "direct" THEN A - 1 ELSE A
    BY <1>1 DEF LoopInv, RecordedOK
  <1>4. PendingOK(pendingIDs, First, Coming)
    BY DEF LoopInv, InOrder, WayOK
  <1>5. pc = "direct" => DOMAIN pendingIDs = {}
    BY DEF LoopInv, Place
  <1>6. \A k \in DOMAIN pendingIDs : k \in Nat /\ First <= k /\ k < Coming
    BY <1>4, PendingOne DEF PendingOK, BlockTypes, DataTypes
  <1>7. \A k \in DOMAIN pendingIDs : k \in n + 1 .. A
    BY <1>2, <1>6
  <1> QED BY <1>3, <1>5, <1>7

LEMMA LoopKept ==
  ASSUME BlockTypes, LoopInv
  PROVE  Kept
  <1>1. PICK A \in Nat, n \in Nat, m \in Nat : A = Len(arrived) /\ n = Len(sent) /\ m = Len(following)
    BY Counts
  <1>2. First = n + m + 1 /\ First \in Nat /\ Coming \in Nat /\ Coming <= A + 1 /\ First <= Coming
    BY <1>1, Counts, FirstAtMost DEF First, Coming, LoopInv
  <1>3. DOMAIN recorded = n + 1 .. IF pc = "direct" THEN A - 1 ELSE A
    BY <1>1 DEF LoopInv, RecordedOK
  <1>4. WayOK(pendingIDs, First, Coming, lastInferID, hasOutputs, Behind)
    BY DEF LoopInv, InOrder
  <1>5. pc = "direct" => DOMAIN pendingIDs = {} /\ following = <<>>
    BY DEF LoopInv, Place
  <1>7. DOMAIN pendingIDs \subseteq DOMAIN recorded
    BY PendingRecorded
  <1>8. Range(hasOutputs) \subseteq DOMAIN pendingIDs
    <2>1. hasOutputs \in Seq(Nat) /\ Behind \in Seq(Nat)
      BY BehindType DEF BlockTypes, DataTypes
    <2>2. PICK w : w = hasOutputs \o Behind
      OBVIOUS
    <2>3. Range(w) = Range(hasOutputs) \union Range(Behind)
      BY <2>1, <2>2, NatRange
    <2> QED BY <1>4, <2>2, <2>3 DEF WayOK
  <1>9. Range(following) \subseteq DOMAIN recorded
    <2> SUFFICES ASSUME NEW d \in Range(following) PROVE d \in DOMAIN recorded
      OBVIOUS
    <2>1. PICK i \in 1 .. m : following[i] = d
      BY <1>1, RangeIs DEF BlockTypes, DataTypes
    <2>2. d = n + i
      BY <1>1, <2>1 DEF LoopInv, InOrder
    <2>3. pc # "direct"
      BY <1>1, <1>5, <2>1, EmptySeq
    <2>4. d \in n + 1 .. A
      BY <1>2, <2>1, <2>2
    <2> QED BY <1>3, <2>3, <2>4
  <1> QED BY <1>7, <1>8, <1>9 DEF Kept, LoopInv, InOrder

(* The main thread, the device, and the way out of the loop.                *)
LEMMA StopStep ==
  ASSUME BlockInv, Stop
  PROVE  BlockInv'
  <1>1. /\ stop' = TRUE
        /\ UNCHANGED <<engine, network, arrived, todo, recorded, hasOutputs, pendingIDs, lastInferID, flags, toSend, following, needInput, sent, pc>>
    BY DEF Stop, packets, pass, sending
  <1>2. BlockTypes
    BY DEF BlockInv
  <1>3. /\ EngineTypes' /\ Behind' = Behind
        /\ UNCHANGED <<freeRequest, busyRequest, images, batchIndex, internalDatas, internalIDs, datas, ids>>
    BY <1>1, <1>2, EngineSame DEF BlockTypes
  <1>4. DataTypes' /\ ControlTypes'
    BY <1>1, <1>2 DEF BlockTypes, DataTypes, ControlTypes
  <1>5. ASSUME LoopInv PROVE LoopInv'
    <2>1. Place'
      BY <1>1, <1>3, <1>5 DEF LoopInv, Place
    <2>2. FlagsOK'
      BY <1>1, <1>3, <1>5 DEF LoopInv, FlagsOK
    <2>3. First' = First /\ Coming' = Coming
      BY <1>1 DEF First, Coming, Fresh
    <2>4. InOrder'
      BY <1>1, <1>3, <1>5, <2>3 DEF LoopInv, InOrder, SentInOrder
    <2>5. RecordedOK'
      BY <1>1, <1>5 DEF LoopInv, RecordedOK
    <2>6. Single' <=> Single
      BY <1>1, Zenon DEF Single
    <2>7. FoundOK' /\ SingleOK'
      BY <1>1, <1>3, <1>5, <2>6 DEF LoopInv, FoundOK, AllFound, SingleOK
    <2> QED BY <2>1, <2>2, <2>4, <2>5, <2>7 DEF LoopInv
  <1>9. Kept'
    BY <1>1 DEF BlockInv, Kept, SentInOrder
  <1> QED BY <1>9, <1>1, <1>3, <1>4, <1>5 DEF BlockInv, BlockTypes

LEMMA DeviceStep ==
  ASSUME BlockInv, Device, UNCHANGED others
  PROVE  BlockInv'
  <1>1. UNCHANGED <<network, arrived, todo, recorded, hasOutputs, pendingIDs, lastInferID, flags, toSend, following, needInput, sent, stop, pc>>
    BY DEF others, packets, pass, sending
  <1>2. BlockTypes
    BY DEF BlockInv
  <1>3. EngineTypes' /\ UNCHANGED <<freeRequest, images, internalDatas, internalIDs, datas, ids>>
    BY <1>2, DeviceTypes DEF BlockTypes, internal, outputs, Device, Complete, Fail
  <1>4. Behind' = Behind
    BY <1>3 DEF Behind, IDs
  <1>5. DataTypes' /\ ControlTypes'
    BY <1>1, <1>2 DEF BlockTypes, DataTypes, ControlTypes
  <1>6. ASSUME LoopInv PROVE LoopInv'
    <2>1. Place'
      BY <1>1, <1>3, <1>4, <1>6 DEF LoopInv, Place
    <2>2. FlagsOK'
      BY <1>1, <1>3, <1>6 DEF LoopInv, FlagsOK
    <2>3. First' = First /\ Coming' = Coming
      BY <1>1 DEF First, Coming, Fresh
    <2>4. InOrder'
      BY <1>1, <1>4, <1>6, <2>3 DEF LoopInv, InOrder, SentInOrder
    <2>5. RecordedOK'
      BY <1>1, <1>6 DEF LoopInv, RecordedOK
    <2>6. Single' <=> Single
      BY <1>1, Zenon DEF Single
    <2>7. FoundOK' /\ SingleOK'
      BY <1>1, <1>3, <1>6, <2>6 DEF LoopInv, FoundOK, AllFound, SingleOK
    <2> QED BY <2>1, <2>2, <2>4, <2>5, <2>7 DEF LoopInv
  <1>9. Kept'
    BY <1>1 DEF BlockInv, Kept, SentInOrder
  <1> QED BY <1>9, <1>1, <1>3, <1>5, <1>6 DEF BlockInv, BlockTypes

LEMMA ExitStep ==
  ASSUME BlockInv, Exit
  PROVE  BlockInv'
  <1>1. /\ pc' = "ended"
        /\ UNCHANGED <<engine, network, arrived, todo, recorded, hasOutputs, pendingIDs, lastInferID, flags, toSend, following, needInput, sent, stop>>
    BY DEF Exit, packets, pass, sending
  <1>2. BlockTypes
    BY DEF BlockInv
  <1>3. EngineTypes'
    BY <1>1, <1>2, EngineSame DEF BlockTypes
  <1>4. DataTypes' /\ ControlTypes'
    BY <1>1, <1>2 DEF BlockTypes, DataTypes, ControlTypes
  <1>9. Kept'
    BY <1>1 DEF BlockInv, Kept, SentInOrder
  <1> QED BY <1>9, <1>1, <1>3, <1>4 DEF BlockInv, BlockTypes

LEMMA SameStep ==
  ASSUME BlockInv, UNCHANGED vars
  PROVE  BlockInv'
  <1>1. UNCHANGED <<engine, network, arrived, todo, recorded, hasOutputs, pendingIDs, lastInferID, flags, toSend, following, needInput, sent, stop, pc>>
    BY DEF vars, packets, pass, sending
  <1>2. BlockTypes
    BY DEF BlockInv
  <1>3. /\ EngineTypes' /\ Behind' = Behind
        /\ UNCHANGED <<freeRequest, busyRequest, images, batchIndex, internalDatas, internalIDs, datas, ids>>
    BY <1>1, <1>2, EngineSame DEF BlockTypes
  <1>4. DataTypes' /\ ControlTypes'
    BY <1>1, <1>2 DEF BlockTypes, DataTypes, ControlTypes
  <1>5. ASSUME LoopInv PROVE LoopInv'
    <2>1. Place'
      BY <1>1, <1>3, <1>5 DEF LoopInv, Place
    <2>2. FlagsOK'
      BY <1>1, <1>3, <1>5 DEF LoopInv, FlagsOK
    <2>3. First' = First /\ Coming' = Coming
      BY <1>1 DEF First, Coming, Fresh
    <2>4. InOrder'
      BY <1>1, <1>3, <1>5, <2>3 DEF LoopInv, InOrder, SentInOrder
    <2>5. RecordedOK'
      BY <1>1, <1>5 DEF LoopInv, RecordedOK
    <2>6. Single' <=> Single
      BY <1>1, Zenon DEF Single
    <2>7. FoundOK' /\ SingleOK'
      BY <1>1, <1>3, <1>5, <2>6 DEF LoopInv, FoundOK, AllFound, SingleOK
    <2> QED BY <2>1, <2>2, <2>4, <2>5, <2>7 DEF LoopInv
  <1>9. Kept'
    BY <1>1 DEF BlockInv, Kept, SentInOrder
  <1> QED BY <1>9, <1>1, <1>3, <1>4, <1>5 DEF BlockInv, BlockTypes

LEMMA LoopKeptAlways ==
  BlockTypes /\ LoopInv => Kept
  BY LoopKept

LEMMA LoopKeptNext ==
  (BlockTypes /\ LoopInv => Kept)'
  BY LoopKeptAlways, PTL

LEMMA BlockStep ==
  ASSUME BlockInv, [Next]_vars
  PROVE  BlockInv'
  <1>1. ASSUME AcquireInput \/ SendDirect \/ InsertWaits \/ Insert \/ Collect \/ Attach \/ Send \/ SendFollowing \/ Sent
        PROVE  BlockInv'
    <2>1. pc # "ended"
      BY <1>1 DEF AcquireInput, SendDirect, InsertWaits, Insert, Collect, Attach, Send, SendFollowing, Sent
    <2>2. BlockTypes /\ LoopInv
      BY <2>1 DEF BlockInv
    <2>3. BlockTypes' /\ LoopInv'
      BY <1>1, <2>2, AcquireStep, DirectStep, WaitsStep, InsertStep, CollectStep, AttachStep, SendStep, FollowingStep, SentStep
    <2>4. Kept'
      BY <2>3, LoopKeptNext
    <2> QED BY <2>3, <2>4 DEF BlockInv
  <1> QED BY <1>1, StopStep, DeviceStep, ExitStep, SameStep DEF Next, Working

(* The invariant holds: what the block keeps of its packets agrees with     *)
(* what the engine has of their images, at every call and between them.     *)
THEOREM BlockInvariant ==
  Spec => []BlockInv
  <1>1. Init => BlockInv
    BY InitBlock, LoopKept DEF BlockInv
  <1>2. BlockInv /\ [Next]_vars => BlockInv'
    BY BlockStep
  <1> QED BY <1>1, <1>2, PTL DEF Spec

(* Every request is in one of the two queues, and the images without result *)
(* are those of the busy requests and of the batch, whatever Loop calls.    *)
THEOREM BlockTyped ==
  Spec => []TypeOK
  <1>1. BlockInv => TypeOK
    BY DEF BlockInv, BlockTypes, EngineTypes, DataTypes, ControlTypes, TypeOK
  <1> QED BY <1>1, BlockInvariant, PTL

(* The packets leave the block in the order in which they arrived, none     *)
(* twice and none left out: the m_pendingIDs of Loop put every packet       *)
(* without image behind the one that it arrived after.                      *)
THEOREM BlockSendsInOrder ==
  Spec => []SentInOrder
  <1>1. BlockInv => SentInOrder
    BY DEF BlockInv, Kept
  <1> QED BY <1>1, BlockInvariant, PTL

(* recordedPackets never has a packet that was sent: results that come late *)
(* are not attached to a packet that the next block already works on.       *)
THEOREM RecordedInside ==
  Spec => []RecordedIsInside
  <1>1. ASSUME BlockInv PROVE RecordedIsInside
    <2>1. BlockTypes /\ Kept /\ (pc # "ended" => LoopInv)
      BY <1>1 DEF BlockInv
    <2>2. PICK A \in Nat, n \in Nat : A = Len(arrived) /\ n = Len(sent)
      BY <2>1, Counts
    <2>3. ASSUME pc = "attach" PROVE Range(ids) \subseteq DOMAIN recorded
      <3>1. LoopInv
        BY <2>1, <2>3
      <3>2. WayOK(pendingIDs, First, Coming, lastInferID, hasOutputs, Behind)
        BY <3>1 DEF LoopInv, InOrder
      <3>3. DOMAIN pendingIDs \subseteq DOMAIN recorded
        BY <2>1, <3>1, PendingRecorded
      <3>4. PICK t \in Seq(Nat) : t = internalIDs \o IDs(images)
        BY <2>1, IDsType, Concat DEF BlockTypes, EngineTypes
      <3>5. ids \in Seq(Nat) /\ hasOutputs \in Seq(Nat) /\ Behind = ids \o t
        BY <2>1, <3>4 DEF BlockTypes, DataTypes, EngineTypes, Behind
      <3>6. PICK q : q = Pushed(hasOutputs, ids)
        OBVIOUS
      <3>7. Range(ids) \subseteq DOMAIN pendingIDs
        BY <3>2, <3>5, <3>6, WayPushed
      <3> QED BY <3>3, <3>7
    <2>4. ASSUME pc \notin {"direct", "ended"}
          PROVE  DOMAIN recorded = (1 .. Len(arrived)) \ {sent[i].id : i \in DOMAIN sent}
      <3>1. DOMAIN recorded = n + 1 .. A
        BY <2>1, <2>2, <2>4 DEF LoopInv, RecordedOK
      <3>2. DOMAIN sent = 1 .. n
        BY <2>1, <2>2, LenProperties DEF BlockTypes, DataTypes
      <3>3. {sent[i].id : i \in DOMAIN sent} = 1 .. n
        BY <2>1, <3>2 DEF Kept, SentInOrder
      <3>4. n + 1 .. A = (1 .. A) \ (1 .. n)
        OBVIOUS
      <3> QED BY <2>2, <3>1, <3>3, <3>4
    <2> QED BY <2>1, <2>3, <2>4, Zenon DEF RecordedIsInside, Kept
  <1> QED BY <1>1, BlockInvariant, PTL

-----------------------------------------------------------------------------
(* Sums over a sequence.                                                   *)

(* The sum of what the elements of a sequence count.                        *)
Count(w, seq) == Total([i \in DOMAIN seq |-> w[seq[i]]])

(* The recursive function of Count exists, so that CHOOSE finds one that    *)
(* satisfies its equations.                                                 *)
CountedTo(n, f, w, seq) ==
  /\ f \in [0 .. n -> Nat] /\ f[0] = 0
  /\ \A m \in 1 .. n : f[m] = f[m - 1] + w[seq[m]]

Counted(f, w, seq) == CountedTo(Len(seq), f, w, seq)

LEMMA CountedExists ==
  ASSUME NEW S, NEW seq \in Seq(S), NEW w, \A p \in S : w[p] \in Nat
  PROVE  \E f : Counted(f, w, seq)
  <1> DEFINE T == {n \in Nat : n <= Len(seq) => \E f : CountedTo(n, f, w, seq)}
  <1>1. 0 \in T
    <2> DEFINE f == [m \in 0 .. 0 |-> 0]
    <2>1. f \in [0 .. 0 -> Nat] /\ f[0] = 0 /\ \A m \in 1 .. 0 : f[m] = f[m - 1] + w[seq[m]]
      OBVIOUS
    <2> HIDE DEF f
    <2>2. CountedTo(0, f, w, seq)
      BY <2>1 DEF CountedTo
    <2> QED BY <2>2
  <1>2. ASSUME NEW n \in T PROVE n + 1 \in T
    <2> SUFFICES ASSUME n + 1 <= Len(seq) PROVE \E f : CountedTo(n + 1, f, w, seq)
      BY <1>2
    <2>1. PICK f : CountedTo(n, f, w, seq)
      BY <1>2, LenProperties
    <2> DEFINE g == [m \in 0 .. n + 1 |-> IF m <= n THEN f[m] ELSE f[n] + w[seq[n + 1]]]
    <2>2. n \in Nat /\ seq[n + 1] \in S /\ w[seq[n + 1]] \in Nat /\ f[n] \in Nat
      BY <2>1, ElementOfSeq DEF CountedTo
    <2>3. g \in [0 .. n + 1 -> Nat] /\ g[0] = 0
      BY <2>1, <2>2 DEF CountedTo
    <2>4. ASSUME NEW m \in 1 .. n + 1 PROVE g[m] = g[m - 1] + w[seq[m]]
      <3>1. CASE m <= n
        BY <2>1, <2>2, <3>1 DEF CountedTo
      <3>2. CASE m = n + 1
        BY <2>1, <2>2, <3>2
      <3> QED BY <3>1, <3>2, <2>2
    <2> HIDE DEF g
    <2>5. CountedTo(n + 1, g, w, seq)
      BY <2>3, <2>4 DEF CountedTo
    <2> QED BY <2>5
  <1> HIDE DEF T
  <1>3. T \in SUBSET Nat
    BY DEF T
  <1>4. T = Nat
    BY <1>1, <1>2, <1>3, Induction
  <1>5. Len(seq) \in T
    BY <1>4, LenProperties
  <1> QED BY <1>5, LenProperties DEF T, Counted

(* What Total computes for the elements.                                    *)
LEMMA CountIs ==
  ASSUME NEW S, NEW seq \in Seq(S), NEW w, \A p \in S : w[p] \in Nat
  PROVE  \E f : Counted(f, w, seq) /\ Count(w, seq) = f[Len(seq)]
  <1>0. PICK L \in Nat : L = Len(seq) /\ DOMAIN seq = 1 .. L
    BY LenProperties
  <1>10. PICK c : c = [i \in 1 .. L |-> w[seq[i]]]
    OBVIOUS
  <1>11. ASSUME NEW i \in 1 .. L PROVE w[seq[i]] \in Nat
    BY <1>0, ElementOfSeq
  <1>12. c \in [1 .. L -> Nat] /\ \A i \in 1 .. L : c[i] = w[seq[i]]
    BY <1>10, <1>11, Zenon
  <1>13. c \in Seq(Nat)
    <2>1. c \in [1 .. L -> Nat]
      BY <1>12
    <2> QED BY <2>1, SeqDef
  <1>14. Len(c) = L
    <2>1. PICK n \in Nat : n = Len(c) /\ DOMAIN c = 1 .. n
      BY <1>13, LenProperties
    <2>2. 1 .. n = 1 .. L
      BY <1>10, <2>1
    <2>3. CASE n < L
      <3>1. L \in 1 .. L /\ L \notin 1 .. n
        BY <2>3
      <3> QED BY <2>2, <3>1
    <2>4. CASE n > L
      <3>1. n \in 1 .. n /\ n \notin 1 .. L
        BY <2>4
      <3> QED BY <2>2, <3>1
    <2> QED BY <2>1, <2>3, <2>4
  <1> DEFINE u == CHOOSE g : g = [n \in 0 .. L |-> IF n = 0 THEN 0 ELSE g[n - 1] + c[n]]
  <1>1. Count(w, seq) = u[L]
    BY <1>0, <1>10, <1>14 DEF Count, Total
  <1>2. PICK f : Counted(f, w, seq)
    BY CountedExists
  <1>3. f = [n \in 0 .. L |-> IF n = 0 THEN 0 ELSE f[n - 1] + c[n]]
    <2>1. ASSUME NEW n \in 0 .. L PROVE f[n] = IF n = 0 THEN 0 ELSE f[n - 1] + c[n]
      <3>1. CASE n = 0
        BY <1>2, <3>1 DEF Counted, CountedTo
      <3>2. CASE n # 0
        <4>1. n \in 1 .. L
          BY <3>2
        <4> QED BY <1>0, <1>2, <1>12, <3>2, <4>1 DEF Counted, CountedTo
      <3> QED BY <3>1, <3>2
    <2>2. f \in [0 .. L -> Nat]
      BY <1>0, <1>2 DEF Counted, CountedTo
    <2> QED BY <2>1, <2>2, Zenon
  <1>4. u = [n \in 0 .. L |-> IF n = 0 THEN 0 ELSE u[n - 1] + c[n]]
    BY <1>3, Zenon
  <1> HIDE DEF u
  <1> DEFINE T == {n \in Nat : n <= L => u[n] = f[n]}
  <1>5. 0 \in T
    <2>1. u[0] = 0
      BY <1>4
    <2>2. f[0] = 0
      BY <1>2 DEF Counted, CountedTo
    <2> QED BY <2>1, <2>2
  <1>6. ASSUME NEW n \in T PROVE n + 1 \in T
    <2> SUFFICES ASSUME n + 1 <= L PROVE u[n + 1] = f[n + 1]
      OBVIOUS
    <2>1. u[n] = f[n] /\ n + 1 \in 1 .. L /\ n + 1 \in 0 .. L /\ n + 1 # 0 /\ n + 1 - 1 = n
      BY <1>6
    <2>2. u[n + 1] = u[n + 1 - 1] + c[n + 1]
      BY <1>4, <2>1
    <2>3. f[n + 1] = f[n + 1 - 1] + c[n + 1]
      BY <1>3, <2>1
    <2> QED BY <2>1, <2>2, <2>3
  <1> HIDE DEF T
  <1>7. T \in SUBSET Nat
    BY DEF T
  <1>8. T = Nat
    BY <1>5, <1>6, <1>7, Induction
  <1>9. u[L] = f[L]
    BY <1>8 DEF T
  <1> QED BY <1>0, <1>1, <1>2, <1>9

(* What is in two sequences is in the first and in the second.              *)
LEMMA CountOfBoth ==
  ASSUME NEW S, NEW s \in Seq(S), NEW t \in Seq(S), NEW w, \A p \in S : w[p] \in Nat
  PROVE  Count(w, s \o t) = Count(w, s) + Count(w, t) /\ Count(w, s) \in Nat
  <1>1. PICK u : u = s \o t
    OBVIOUS
  <1>2. PICK a \in Nat, b \in Nat : a = Len(s) /\ b = Len(t)
    BY LenProperties
  <1>3. /\ s \in Seq(S) /\ t \in Seq(S) /\ u \in Seq(S) /\ Len(u) = a + b
        /\ \A i \in 1 .. a + b : u[i] = IF i <= a THEN s[i] ELSE t[i - a]
    BY <1>1, <1>2, ConcatProperties
  <1>4. PICK f : Counted(f, w, u) /\ Count(w, u) = f[a + b]
    BY <1>3, CountIs
  <1>5. PICK g : Counted(g, w, s) /\ Count(w, s) = g[a]
    BY <1>2, CountIs
  <1>6. PICK h : Counted(h, w, t) /\ Count(w, t) = h[b]
    BY <1>2, CountIs
  <1>7. f[a] = g[a] /\ g[a] \in Nat
    <2> DEFINE T == {n \in Nat : n <= a => f[n] = g[n]}
    <2>1. 0 \in T
      BY <1>4, <1>5 DEF Counted, CountedTo
    <2>2. ASSUME NEW n \in T PROVE n + 1 \in T
      <3> SUFFICES ASSUME n + 1 <= a PROVE f[n + 1] = g[n + 1]
        OBVIOUS
      <3>1. n \in Nat /\ f[n] = g[n]
        OBVIOUS
      <3>2. PICK i \in 1 .. a : i = n + 1 /\ i - 1 = n /\ i \in 1 .. a + b
        BY <3>1
      <3>3. f[i] = f[n] + w[u[i]] /\ g[i] = g[n] + w[s[i]]
        BY <1>2, <1>3, <1>4, <1>5, <3>2 DEF Counted, CountedTo
      <3>4. u[i] = s[i]
        BY <1>3, <3>2
      <3> QED BY <3>1, <3>2, <3>3, <3>4
    <2> HIDE DEF T
    <2>4. T \in SUBSET Nat
      BY DEF T
    <2>5. T = Nat
      BY <2>1, <2>2, <2>4, Induction
    <2>3. f[a] = g[a]
      <3>1. a \in T
        BY <2>5
      <3> QED BY <3>1 DEF T
    <2> QED BY <1>2, <1>5, <2>3 DEF Counted, CountedTo
  <1> DEFINE T == {n \in Nat : n <= b => f[a + n] = g[a] + h[n]}
  <1>8. 0 \in T
    BY <1>6, <1>7 DEF Counted, CountedTo
  <1>9. ASSUME NEW n \in T PROVE n + 1 \in T
    <2> SUFFICES ASSUME n + 1 <= b PROVE f[a + (n + 1)] = g[a] + h[n + 1]
      OBVIOUS
    <2>1. n \in Nat /\ f[a + n] = g[a] + h[n]
      OBVIOUS
    <2>2. PICK i \in 1 .. b, j \in 1 .. a + b : i = n + 1 /\ j = a + (n + 1)
      BY <2>1
    <2>3. i - 1 = n /\ j - 1 = a + n /\ j - a = i /\ ~(j <= a)
      BY <2>1, <2>2
    <2>4. f[j] = f[a + n] + w[u[j]] /\ h[i] = h[n] + w[t[i]]
      BY <1>2, <1>3, <1>4, <1>6, <2>2, <2>3 DEF Counted, CountedTo
    <2>5. u[j] = t[i] /\ t[i] \in S
      BY <1>2, <1>3, <2>2, <2>3, ElementOfSeq
    <2>6. w[t[i]] \in Nat /\ h[n] \in Nat
      BY <1>2, <1>6, <2>1, <2>2, <2>5 DEF Counted, CountedTo
    <2> QED BY <1>7, <2>1, <2>2, <2>4, <2>5, <2>6
  <1> HIDE DEF T
  <1>10. T \in SUBSET Nat
    BY DEF T
  <1>11. T = Nat
    BY <1>8, <1>9, <1>10, Induction
  <1>12. b \in T
    BY <1>11
  <1>13. f[a + b] = g[a] + h[b]
    BY <1>12 DEF T
  <1> QED BY <1>1, <1>4, <1>5, <1>6, <1>7, <1>13

LEMMA EmptyCount ==
  ASSUME NEW S, NEW w, \A q \in S : w[q] \in Nat
  PROVE  Count(w, <<>>) = 0
  <1>1. PICK none : none = <<>>
    OBVIOUS
  <1>2. none \in Seq(S) /\ Len(none) = 0
    BY <1>1
  <1>3. PICK f : Counted(f, w, none) /\ Count(w, none) = f[0]
    BY <1>2, CountIs
  <1>4. Count(w, none) = 0
    BY <1>2, <1>3 DEF Counted, CountedTo
  <1> QED BY <1>1, <1>4

LEMMA CountOfOne ==
  ASSUME NEW S, NEW p \in S, NEW w, \A q \in S : w[q] \in Nat
  PROVE  Count(w, <<p>>) = w[p]
  <1>1. PICK one : one = <<p>>
    OBVIOUS
  <1>2. one \in Seq(S) /\ Len(one) = 1 /\ one[1] = p
    BY <1>1
  <1>3. PICK f : Counted(f, w, one) /\ Count(w, one) = f[1]
    BY <1>2, CountIs
  <1>4. Count(w, one) = w[p]
    <2>1. f[0] = 0 /\ f[1] = f[1 - 1] + w[one[1]] /\ w[p] \in Nat
      BY <1>2, <1>3 DEF Counted, CountedTo
    <2> QED BY <1>2, <1>3, <2>1
  <1> QED BY <1>1, <1>4

LEMMA CountAppended ==
  ASSUME NEW S, NEW s \in Seq(S), NEW e \in S, NEW w, \A q \in S : w[q] \in Nat
  PROVE  Count(w, Append(s, e)) = Count(w, s) + w[e] /\ Count(w, s) \in Nat
  <1>1. PICK one : one = <<e>>
    OBVIOUS
  <1>2. one \in Seq(S)
    BY <1>1
  <1>3. Append(s, e) = s \o one
    BY <1>1, AppendedOne
  <1>4. Count(w, one) = w[e]
    BY <1>1, CountOfOne
  <1>5. Count(w, s \o one) = Count(w, s) + Count(w, one) /\ Count(w, s) \in Nat
    BY <1>2, CountOfBoth
  <1> QED BY <1>3, <1>4, <1>5

(* Two ways to count that agree on the elements.                            *)
LEMMA CountAgrees ==
  ASSUME NEW S, NEW s \in Seq(S), NEW w, \A q \in S : w[q] \in Nat,
         NEW v, \A q \in S : v[q] \in Nat, \A i \in 1 .. Len(s) : w[s[i]] = v[s[i]]
  PROVE  Count(w, s) = Count(v, s)
  <1>1. PICK L \in Nat : L = Len(s) /\ DOMAIN s = 1 .. L
    BY LenProperties
  <1>2. [i \in DOMAIN s |-> w[s[i]]] = [i \in DOMAIN s |-> v[s[i]]]
    BY <1>1, Zenon
  <1> QED BY <1>2, Zenon DEF Count

(* Induction over the length of a sequence.                                 *)
LEMMA SeqInduction ==
  ASSUME NEW S, NEW T, <<>> \in T,
         \A s \in Seq(S) : \A e \in S : s \in T => Append(s, e) \in T
  PROVE  \A s \in Seq(S) : s \in T
  <1> DEFINE N == {n \in Nat : \A s \in Seq(S) : Len(s) = n => s \in T}
  <1>1. 0 \in N
    BY EmptySeq
  <1>2. ASSUME NEW n \in N PROVE n + 1 \in N
    <2> SUFFICES ASSUME NEW s \in Seq(S), Len(s) = n + 1 PROVE s \in T
      OBVIOUS
    <2>1. s # <<>>
      BY <1>2, EmptySeq
    <2>2. PICK t \in Seq(S), e \in S : s = Append(t, e) /\ Len(t) = n
      <3>1. PICK t : t = SubSeq(s, 1, n)
        OBVIOUS
      <3>2. PICK r : r = SubSeq(s, n + 1, Len(s))
        OBVIOUS
      <3>3. n \in 0 .. Len(s)
        BY <1>2
      <3>4. t \in Seq(S) /\ r \in Seq(S) /\ Len(t) = n /\ Len(r) = 1 /\ s = t \o r
        BY <3>1, <3>2, <3>3, Split
      <3>5. r[1] \in S
        BY <3>4, ElementOfSeq
      <3>6. r = <<r[1]>>
        <4>1. <<r[1]>> \in Seq(S) /\ Len(<<r[1]>>) = 1 /\ <<r[1]>>[1] = r[1]
          BY <3>5, OneIn
        <4> QED BY <3>4, <4>1, SeqEqual
      <3>7. Append(t, r[1]) = t \o <<r[1]>>
        BY <3>4, <3>5, AppendedOne
      <3>8. s = Append(t, r[1])
        BY <3>4, <3>6, <3>7, Zenon
      <3> QED BY <3>4, <3>5, <3>8
    <2>3. t \in T
      BY <2>2
    <2> QED BY <2>2, <2>3
  <1> HIDE DEF N
  <1>3. N \in SUBSET Nat
    BY DEF N
  <1>4. N = Nat
    BY <1>1, <1>2, <1>3, Induction
  <1>5. ASSUME NEW s \in Seq(S) PROVE s \in T
    <2>1. Len(s) \in N
      BY <1>4, LenProperties
    <2> QED BY <2>1 DEF N
  <1> QED BY <1>5

(* If nothing counts the sum is 0, if everything counts 1 it is the length. *)
LEMMA CountNone ==
  ASSUME NEW S, NEW s \in Seq(S), NEW w, \A q \in S : w[q] \in Nat,
         \A i \in 1 .. Len(s) : w[s[i]] = 0
  PROVE  Count(w, s) = 0
  <1> DEFINE v == [q \in S |-> 0]
  <1> DEFINE T == {t \in Seq(S) : Count(v, t) = 0}
  <1>1. \A q \in S : v[q] \in Nat /\ v[q] = 0
    OBVIOUS
  <1> HIDE DEF v
  <1>2. <<>> \in T
    BY <1>1, EmptyCount, EmptySeq
  <1>3. ASSUME NEW t \in Seq(S), NEW e \in S, t \in T PROVE Append(t, e) \in T
    <2>1. Count(v, Append(t, e)) = Count(v, t) + v[e] /\ Count(v, t) \in Nat
      BY <1>1, <1>3, CountAppended
    <2> QED BY <1>1, <1>3, <2>1, AppendProperties
  <1> HIDE DEF T
  <1>4. s \in T
    BY <1>2, <1>3, SeqInduction
  <1>5. \A i \in 1 .. Len(s) : w[s[i]] = v[s[i]]
    BY <1>1, ElementOfSeq
  <1>6. Count(w, s) = Count(v, s)
    BY <1>1, <1>5, CountAgrees
  <1> QED BY <1>4, <1>6 DEF T

LEMMA CountEach ==
  ASSUME NEW S, NEW s \in Seq(S), NEW w, \A q \in S : w[q] \in Nat,
         \A i \in 1 .. Len(s) : w[s[i]] = 1
  PROVE  Count(w, s) = Len(s)
  <1> DEFINE v == [q \in S |-> 1]
  <1> DEFINE T == {t \in Seq(S) : Count(v, t) = Len(t)}
  <1>1. \A q \in S : v[q] \in Nat /\ v[q] = 1
    OBVIOUS
  <1> HIDE DEF v
  <1>2. <<>> \in T
    BY <1>1, EmptyCount, EmptySeq
  <1>3. ASSUME NEW t \in Seq(S), NEW e \in S, t \in T PROVE Append(t, e) \in T
    <2>1. Count(v, Append(t, e)) = Count(v, t) + 1
      BY <1>1, CountAppended
    <2> QED BY <1>3, <2>1, AppendProperties
  <1> HIDE DEF T
  <1>4. s \in T
    BY <1>2, <1>3, SeqInduction
  <1>5. \A i \in 1 .. Len(s) : w[s[i]] = v[s[i]]
    BY <1>1, ElementOfSeq
  <1>6. Count(w, s) = Count(v, s)
    BY <1>1, <1>5, CountAgrees
  <1> QED BY <1>4, <1>6 DEF T

Self == [n \in Nat |-> n]

LEMMA TotalIs ==
  ASSUME NEW s \in Seq(Nat)
  PROVE  Total(s) = Count(Self, s)
  <1>1. PICK L \in Nat : L = Len(s) /\ DOMAIN s = 1 .. L
    BY LenProperties
  <1>2. \A i \in 1 .. L : Self[s[i]] = s[i]
    BY <1>1, ElementOfSeq DEF Self
  <1>3. s = [i \in 1 .. L |-> s[i]]
    BY <1>1
  <1>4. [i \in 1 .. L |-> Self[s[i]]] = [i \in 1 .. L |-> s[i]]
    BY <1>2, Zenon
  <1> QED BY <1>1, <1>3, <1>4, Zenon DEF Count

-----------------------------------------------------------------------------
(* What a result, or an image, counts for the frame k.                      *)
One(k) == [n \in Nat |-> IF n = k THEN 1 ELSE 0]
FoundFor(k) == [x \in Image |-> IF x.id = k THEN x.found ELSE 0]

LEMMA OneTyped ==
  ASSUME NEW k
  PROVE  \A n \in Nat : One(k)[n] \in Nat /\ One(k)[n] = IF n = k THEN 1 ELSE 0
  BY DEF One

LEMMA FoundForTyped ==
  ASSUME NEW k
  PROVE  \A x \in Image : FoundFor(k)[x] \in Nat /\ FoundFor(k)[x] = IF x.id = k THEN x.found ELSE 0
  BY DEF FoundFor, Image

(* The results of one image.                                                *)
LEMMA TranslateOne ==
  ASSUME NEW e \in Image
  PROVE  <<e>> \in Seq(Image) /\ Translate(<<e>>) = FoundIn(e) /\ IDs(<<e>>) = <<e.id>>
  <1>1. PICK v : v = <<e>>
    OBVIOUS
  <1>2. v \in Seq(Image) /\ Len(v) = 1 /\ v[1] = e
    BY <1>1, OneIn
  <1>3. PICK r \in Seq(Nat) : r = FoundIn(e)
    BY ResultsType
  <1>4. PICK l : l = <<r>>
    OBVIOUS
  <1>5. 1 \in 1 .. Len(v) /\ \A i \in 1 .. 1 : i = 1
    BY <1>2
  <1> DEFINE T == Seq(Nat)
  <1>11. r \in T /\ Lists(v) \in Seq(T)
    BY <1>2, ListsType
  <1> HIDE DEF T
  <1>6. l \in Seq(T) /\ Len(l) = 1 /\ l[1] = r
    BY <1>4, <1>11, OneIn
  <1>7. Len(Lists(v)) = 1 /\ Lists(v)[1] = r
    BY <1>2, <1>3, <1>5, ListsLength, ListsElement
  <1>8. Lists(v) = l
    BY <1>5, <1>6, <1>7, <1>11, SeqEqual
  <1>9. FlattenSeq(l) = r
    <2>1. PICK none : none = <<>>
      OBVIOUS
    <2>2. none \in Seq(Seq(Nat)) /\ l \in Seq(Seq(Nat))
      BY <1>6, <2>1, EmptySeq DEF T
    <2>3. none \o l = l
      BY <2>1, <2>2, Concat
    <2>4. l = none \o <<r>>
      BY <1>4, <2>3
    <2>5. FlattenSeq(l) = FlattenSeq(none) \o r
      BY <2>2, <2>4, FlattenOneMore
    <2>6. FlattenSeq(none) = <<>>
      BY <2>1, FlattenNone
    <2>7. <<>> \o r = r
      BY Concat
    <2> QED BY <2>5, <2>6, <2>7, Zenon
  <1>10. Translate(v) = r
    BY <1>2, <1>8, <1>9, TranslateIs
  <1>12. IDs(v) = <<e.id>>
    <2>1. e.id \in Nat
      BY DEF Image
    <2>2. PICK w \in Seq(Nat) : w = <<e.id>> /\ Len(w) = 1 /\ w[1] = e.id
      BY <2>1, OneIn
    <2>3. IDs(v) \in Seq(Nat) /\ Len(IDs(v)) = 1 /\ IDs(v)[1] = e.id
      BY <1>2, <1>5, IDsType, IDsLength, IDsElement
    <2>4. IDs(v) = w
      BY <1>5, <2>2, <2>3, SeqEqual
    <2> QED BY <2>2, <2>4
  <1> QED BY <1>1, <1>2, <1>3, <1>10, <1>12

LEMMA CountOfImage ==
  ASSUME NEW e \in Image, NEW k
  PROVE  Count(One(k), FoundIn(e)) = IF e.id = k THEN e.found ELSE 0
  <1>1. PICK r \in Seq(Nat), f \in Nat, d \in Nat :
          r = FoundIn(e) /\ Len(r) = f /\ f = e.found /\ d = e.id
    <2>1. e.found \in Nat /\ e.id \in Nat
      BY DEF Image
    <2> QED BY <2>1, ResultsType, ResultsLength
  <1>2. \A i \in 1 .. f : r[i] = d
    BY <1>1 DEF FoundIn
  <1>3. PICK w : w = One(k) /\ \A n \in Nat : w[n] \in Nat /\ w[n] = IF n = k THEN 1 ELSE 0
    BY OneTyped
  <1>4. \A n \in Nat : w[n] \in Nat
    BY <1>3
  <1>5. CASE d = k
    <2>1. \A i \in 1 .. Len(r) : w[r[i]] = 1
      BY <1>1, <1>2, <1>3, <1>5
    <2>2. Count(w, r) = Len(r)
      BY <1>4, <2>1, CountEach
    <2> QED BY <1>1, <1>3, <1>5, <2>2
  <1>6. CASE d # k
    <2>1. \A i \in 1 .. Len(r) : w[r[i]] = 0
      BY <1>1, <1>2, <1>3, <1>6
    <2>2. Count(w, r) = 0
      BY <1>4, <2>1, CountNone
    <2> QED BY <1>1, <1>3, <1>6, <2>2
  <1> QED BY <1>5, <1>6

(* A batch has for each frame the results of its images.                    *)
LEMMA CountTranslated ==
  ASSUME NEW s \in Seq(Image), NEW k
  PROVE  Count(One(k), Translate(s)) = Count(FoundFor(k), s)
  <1> DEFINE T == {t \in Seq(Image) : Count(One(k), Translate(t)) = Count(FoundFor(k), t)}
  <1>1. PICK w, v : /\ w = One(k) /\ (\A n \in Nat : w[n] \in Nat)
                    /\ v = FoundFor(k) /\ (\A x \in Image : v[x] \in Nat /\ v[x] = IF x.id = k THEN x.found ELSE 0)
    BY OneTyped, FoundForTyped
  <1>2. <<>> \in T
    <2>1. Count(w, <<>>) = 0
      BY <1>1, EmptyCount
    <2>2. Count(v, <<>>) = 0
      BY <1>1, EmptyCount
    <2>3. <<>> \in Seq(Image)
      BY EmptySeq
    <2> QED BY <1>1, <2>1, <2>2, <2>3, NothingTranslated
  <1>3. ASSUME NEW t \in Seq(Image), NEW e \in Image, t \in T PROVE Append(t, e) \in T
    <2>1. PICK u : u = Append(t, e)
      OBVIOUS
    <2>2. u \in Seq(Image) /\ u = t \o <<e>>
      BY <2>1, AppendedOne
    <2>3. PICK one : one = <<e>> /\ one \in Seq(Image) /\ Translate(one) = FoundIn(e)
      BY TranslateOne
    <2>4. Translate(u) = Translate(t) \o FoundIn(e)
      BY <2>2, <2>3, TranslateBoth
    <2>5. PICK a \in Seq(Nat), b \in Seq(Nat) : a = Translate(t) /\ b = FoundIn(e)
      BY TranslateType, ResultsType
    <2>6. Count(w, a \o b) = Count(w, a) + Count(w, b) /\ Count(w, a) \in Nat
      BY <1>1, CountOfBoth
    <2>7. Count(w, b) = v[e]
      BY <1>1, <2>5, CountOfImage
    <2>8. Count(v, u) = Count(v, t) + v[e]
      <3>1. \A x \in Image : v[x] \in Nat
        BY <1>1
      <3>2. Count(v, Append(t, e)) = Count(v, t) + v[e]
        BY <3>1, CountAppended
      <3> QED BY <2>1, <3>2
    <2>9. Count(w, a) = Count(v, t)
      BY <1>1, <1>3, <2>5
    <2>10. Count(w, Translate(u)) = Count(v, u)
      BY <2>4, <2>5, <2>6, <2>7, <2>8, <2>9
    <2> QED BY <1>1, <2>1, <2>2, <2>10
  <1> HIDE DEF T
  <1>4. s \in T
    BY <1>2, <1>3, SeqInduction
  <1> QED BY <1>4 DEF T

-----------------------------------------------------------------------------
(* Results in the order of the frames they are for, each of a frame whose   *)
(* images came back.                                                        *)
Grouped(d, i) == Sorted(d) /\ Range(d) \subseteq Range(i)

LEMMA GroupedBoth ==
  ASSUME NEW d \in Seq(Nat), NEW i \in Seq(Nat), NEW e \in Seq(Nat), NEW j \in Seq(Nat),
         Grouped(d, i), Grouped(e, j), Sorted(i \o j)
  PROVE  Grouped(d \o e, i \o j)
  <1>1. \A x \in Range(i), y \in Range(j) : x <= y
    BY SortedParts
  <1>2. \A x \in Range(d), y \in Range(e) : x <= y
    BY <1>1 DEF Grouped
  <1>3. Sorted(d \o e)
    BY <1>2, SortedBoth DEF Grouped
  <1>4. PICK u, v : u = d \o e /\ v = i \o j
    OBVIOUS
  <1>5. Range(u) = Range(d) \union Range(e)
    BY <1>4, NatRange
  <1>6. Range(v) = Range(i) \union Range(j)
    BY <1>4, NatRange
  <1> QED BY <1>3, <1>4, <1>5, <1>6 DEF Grouped

LEMMA GroupedNone ==
  ASSUME NEW i
  PROVE  Grouped(<<>>, i)
  <1>1. PICK e \in Seq(Nat) : e = <<>> /\ Len(e) = 0
    BY EmptySeq
  <1>2. Range(e) = {}
    BY <1>1, EmptyRange
  <1>3. \A n \in 1 .. 0 : FALSE
    OBVIOUS
  <1>4. Sorted(e)
    BY <1>1, <1>3, Zenon DEF Sorted
  <1> QED BY <1>1, <1>2, <1>4 DEF Grouped

LEMMA GroupedOne ==
  ASSUME NEW e \in Image
  PROVE  Grouped(FoundIn(e), <<e.id>>)
  <1>1. PICK r \in Seq(Nat), d \in Nat : r = FoundIn(e) /\ d = e.id
    BY ResultsType DEF Image
  <1>2. \A i \in 1 .. Len(r) : r[i] = d
    <2>1. DOMAIN r = 1 .. Len(r)
      BY LenProperties
    <2> QED BY <1>1, <2>1 DEF FoundIn
  <1>3. Sorted(r)
    BY <1>2 DEF Sorted
  <1>4. Range(<<d>>) = {d}
    BY SortedOne
  <1>5. \A x \in Range(r) : x = d
    BY <1>2, RangeIs
  <1> QED BY <1>1, <1>3, <1>4, <1>5 DEF Grouped

LEMMA GroupedTranslated ==
  ASSUME NEW s \in Seq(Image), Sorted(IDs(s))
  PROVE  Grouped(Translate(s), IDs(s))
  <1> DEFINE T == {t \in Seq(Image) : Sorted(IDs(t)) => Grouped(Translate(t), IDs(t))}
  <1>1. <<>> \in T
    <2>1. <<>> \in Seq(Image)
      BY EmptySeq
    <2>2. Grouped(Translate(<<>>), IDs(<<>>))
      BY NothingTranslated, GroupedNone
    <2> QED BY <2>1, <2>2
  <1>2. ASSUME NEW t \in Seq(Image), NEW e \in Image, t \in T PROVE Append(t, e) \in T
    <2>1. PICK u : u = Append(t, e)
      OBVIOUS
    <2>2. u \in Seq(Image) /\ u = t \o <<e>>
      BY <2>1, AppendedOne
    <2>3. PICK one : one = <<e>> /\ one \in Seq(Image) /\ Translate(one) = FoundIn(e) /\ IDs(one) = <<e.id>>
      BY TranslateOne
    <2>4. Translate(u) = Translate(t) \o FoundIn(e)
      BY <2>2, <2>3, TranslateBoth
    <2>5. PICK a \in Seq(Nat), b \in Seq(Nat), i \in Seq(Nat), j \in Seq(Nat) :
            a = Translate(t) /\ b = FoundIn(e) /\ i = IDs(t) /\ j = <<e.id>>
      <3>1. <<e.id>> \in Seq(Nat)
        <4>1. e.id \in Nat
          BY DEF Image
        <4> QED BY <4>1, OneIn
      <3> QED BY <3>1, TranslateType, ResultsType, IDsType
    <2>6. IDs(u) = i \o j
      BY <2>2, <2>3, <2>5, IDsOfBoth
    <2>7. ASSUME Sorted(i \o j) PROVE Grouped(a \o b, i \o j)
      <3>1. Sorted(i)
        BY <2>7, SortedParts
      <3>2. Grouped(a, i)
        BY <1>2, <2>5, <3>1
      <3>3. Grouped(b, j)
        BY <2>5, GroupedOne
      <3> QED BY <2>7, <3>2, <3>3, GroupedBoth
    <2> QED BY <2>1, <2>2, <2>4, <2>5, <2>6, <2>7
  <1> HIDE DEF T
  <1>3. s \in T
    BY <1>1, <1>2, SeqInduction
  <1> QED BY <1>3 DEF T

-----------------------------------------------------------------------------
(* The results that Attach takes for each image.                            *)
LEMMA RunIs ==
  ASSUME datas \in Seq(Nat), NEW j \in 0 .. Len(datas), NEW id, NEW n, n = Run(j, id)
  PROVE  /\ n \in j .. Len(datas) /\ \A k \in j + 1 .. n : datas[k] = id
         /\ n < Len(datas) => datas[n + 1] # id
  <1>1. PICK L \in Nat : L = Len(datas)
    BY LenProperties
  <1>2. PICK s \in Seq(Nat) : Len(s) = L - j /\ \A i \in 1 .. L - j : s[i] = datas[j + i]
    <2>1. PICK a, s : a = SubSeq(datas, 1, j) /\ s = SubSeq(datas, j + 1, Len(datas))
      OBVIOUS
    <2>2. a \in Seq(Nat) /\ s \in Seq(Nat) /\ Len(a) = j /\ Len(s) = L - j /\ datas = a \o s
      BY <1>1, <2>1, Split
    <2>3. ASSUME NEW i \in 1 .. L - j PROVE s[i] = datas[j + i]
      BY <2>2, <2>3, BothSecond
    <2> QED BY <2>2, <2>3
  <1>3. PICK m \in 0 .. L - j : (\A i \in 1 .. m : s[i] = id) /\ (m < L - j => s[m + 1] # id)
    <2>1. \E m \in 0 .. Len(s) : (\A i \in 1 .. m : s[i] = id) /\ (m < Len(s) => s[m + 1] # id)
      BY <1>2, LongestBeginning
    <2> QED BY <1>2, <2>1
  <1>4. PICK x \in j .. L : x = j + m
    <2>1. j + m \in j .. L
      BY <1>1, <1>3
    <2> QED BY <2>1
  <1>5. \A k \in j + 1 .. x : datas[k] = id
    <2> SUFFICES ASSUME NEW k \in j + 1 .. x PROVE datas[k] = id
      OBVIOUS
    <2>1. PICK i \in 1 .. m : j + i = k
      <3>1. k - j \in 1 .. m /\ j + (k - j) = k
        BY <1>1, <1>3, <1>4
      <3> QED BY <3>1
    <2>2. i \in 1 .. L - j
      BY <1>1, <1>3, <2>1
    <2> QED BY <1>2, <1>3, <2>1, <2>2
  <1>6. x < L => datas[x + 1] # id
    <2> SUFFICES ASSUME x < L PROVE datas[x + 1] # id
      OBVIOUS
    <2>1. m + 1 \in 1 .. L - j /\ j + (m + 1) = x + 1 /\ m < L - j
      BY <1>1, <1>3, <1>4
    <2> QED BY <1>2, <1>3, <2>1
  <1>7. Run(j, id) = CHOOSE y \in j .. Len(datas) :
                       /\ \A k \in j + 1 .. y : datas[k] = id
                       /\ y < Len(datas) => datas[y + 1] # id
    BY DEF Run
  <1>8. \E y \in j .. Len(datas) :
          /\ \A k \in j + 1 .. y : datas[k] = id
          /\ y < Len(datas) => datas[y + 1] # id
    BY <1>1, <1>5, <1>6
  <1> QED BY <1>7, <1>8

(* What Matched computes, from the first of the images that came back on.   *)
MatchedTo(n, f) ==
  /\ f \in [0 .. n -> 0 .. Len(datas)] /\ f[0] = 0
  /\ \A m \in 1 .. n : f[m] = Run(f[m - 1], ids[m])

LEMMA MatchedExists ==
  ASSUME datas \in Seq(Nat), ids \in Seq(Nat)
  PROVE  \E f : MatchedTo(Len(ids), f)
  <1> DEFINE T == {n \in Nat : n <= Len(ids) => \E f : MatchedTo(n, f)}
  <1>0. PICK D \in Nat : D = Len(datas)
    BY LenProperties
  <1>1. 0 \in T
    <2> DEFINE f == [m \in 0 .. 0 |-> 0]
    <2>1. f \in [0 .. 0 -> 0 .. D] /\ f[0] = 0 /\ \A m \in 1 .. 0 : f[m] = Run(f[m - 1], ids[m])
      OBVIOUS
    <2> HIDE DEF f
    <2>2. MatchedTo(0, f)
      BY <1>0, <2>1 DEF MatchedTo
    <2> QED BY <2>2
  <1>2. ASSUME NEW n \in T PROVE n + 1 \in T
    <2> SUFFICES ASSUME n + 1 <= Len(ids) PROVE \E f : MatchedTo(n + 1, f)
      BY <1>2
    <2>1. PICK f : MatchedTo(n, f)
      BY <1>2, LenProperties
    <2>2. n \in Nat /\ f[n] \in 0 .. D
      BY <1>0, <2>1 DEF MatchedTo
    <2>3. ids[n + 1] \in Range(ids)
      <3>1. n + 1 \in 1 .. Len(ids)
        BY <2>2, LenProperties
      <3> QED BY <3>1, RangeIs
    <2>4. PICK e : e = Run(f[n], ids[n + 1])
      OBVIOUS
    <2>5. e \in f[n] .. D
      BY <1>0, <2>2, <2>3, <2>4, RunIs
    <2>6. e \in 0 .. D
      BY <2>2, <2>5
    <2> DEFINE g == [m \in 0 .. n + 1 |-> IF m <= n THEN f[m] ELSE e]
    <2>7. g \in [0 .. n + 1 -> 0 .. D] /\ g[0] = 0
      BY <1>0, <2>1, <2>2, <2>6 DEF MatchedTo
    <2>8. ASSUME NEW m \in 1 .. n + 1 PROVE g[m] = Run(g[m - 1], ids[m])
      <3>1. CASE m <= n
        <4>1. g[m] = f[m] /\ g[m - 1] = f[m - 1] /\ m \in 1 .. n
          BY <2>2, <3>1
        <4> QED BY <2>1, <4>1 DEF MatchedTo
      <3>2. CASE m = n + 1
        <4>1. g[m] = e /\ g[m - 1] = f[n]
          BY <2>2, <3>2
        <4> QED BY <2>4, <3>2, <4>1
      <3> QED BY <3>1, <3>2, <2>2
    <2> HIDE DEF g
    <2>9. MatchedTo(n + 1, g)
      BY <1>0, <2>7, <2>8 DEF MatchedTo
    <2> QED BY <2>9
  <1> HIDE DEF T
  <1>3. T \in SUBSET Nat
    BY DEF T
  <1>4. T = Nat
    BY <1>1, <1>2, <1>3, Induction
  <1>5. Len(ids) \in T /\ Len(ids) \in Nat
    BY <1>4, LenProperties
  <1> QED BY <1>5 DEF T

LEMMA MatchedIs ==
  ASSUME datas \in Seq(Nat), ids \in Seq(Nat)
  PROVE  \E f : MatchedTo(Len(ids), f) /\ Matched = f[Len(ids)]
  <1> DEFINE u == CHOOSE g : g = [j \in 0 .. Len(ids) |-> IF j = 0 THEN 0 ELSE Run(g[j - 1], ids[j])]
  <1>0. PICK L \in Nat : L = Len(ids)
    BY LenProperties
  <1>1. Matched = u[L]
    BY <1>0 DEF Matched
  <1>2. PICK f : MatchedTo(L, f)
    BY <1>0, MatchedExists
  <1>3. f = [j \in 0 .. L |-> IF j = 0 THEN 0 ELSE Run(f[j - 1], ids[j])]
    <2>1. ASSUME NEW j \in 0 .. L PROVE f[j] = IF j = 0 THEN 0 ELSE Run(f[j - 1], ids[j])
      <3>1. CASE j = 0
        BY <1>2, <3>1 DEF MatchedTo
      <3>2. CASE j # 0
        <4>1. j \in 1 .. L
          BY <3>2
        <4> QED BY <1>2, <3>2, <4>1 DEF MatchedTo
      <3> QED BY <3>1, <3>2
    <2>2. f \in [0 .. L -> 0 .. Len(datas)]
      BY <1>2 DEF MatchedTo
    <2> QED BY <2>1, <2>2, Zenon
  <1>4. u = [j \in 0 .. L |-> IF j = 0 THEN 0 ELSE Run(u[j - 1], ids[j])]
    BY <1>0, <1>3, Zenon
  <1> HIDE DEF u
  <1> DEFINE T == {n \in Nat : n <= L => u[n] = f[n]}
  <1>5. 0 \in T
    <2>1. u[0] = 0
      BY <1>4
    <2>2. f[0] = 0
      BY <1>2 DEF MatchedTo
    <2> QED BY <2>1, <2>2
  <1>6. ASSUME NEW n \in T PROVE n + 1 \in T
    <2> SUFFICES ASSUME n + 1 <= L PROVE u[n + 1] = f[n + 1]
      OBVIOUS
    <2>1. u[n] = f[n] /\ n + 1 \in 1 .. L /\ n + 1 \in 0 .. L /\ n + 1 # 0 /\ n + 1 - 1 = n
      BY <1>6
    <2>2. u[n + 1] = Run(u[n + 1 - 1], ids[n + 1])
      BY <1>4, <2>1
    <2>3. f[n + 1] = Run(f[n + 1 - 1], ids[n + 1])
      BY <1>2, <2>1 DEF MatchedTo
    <2> QED BY <2>1, <2>2, <2>3
  <1> HIDE DEF T
  <1>7. T \in SUBSET Nat
    BY DEF T
  <1>8. T = Nat
    BY <1>5, <1>6, <1>7, Induction
  <1>9. u[L] = f[L]
    BY <1>8 DEF T
  <1> QED BY <1>0, <1>1, <1>2, <1>9

(* Every result is matched with the images of its frame.                    *)
LEMMA AllMatched ==
  ASSUME datas \in Seq(Nat), ids \in Seq(Nat), Sorted(ids), Grouped(datas, ids)
  PROVE  Matched = Len(datas)
  <1>1. PICK D \in Nat, L \in Nat : D = Len(datas) /\ L = Len(ids)
    BY LenProperties
  <1>2. PICK f : MatchedTo(L, f) /\ Matched = f[L]
    BY <1>1, MatchedIs
  <1>3. \A i \in 1 .. D : datas[i] \in Range(ids) /\ datas[i] \in Nat
    BY <1>1, RangeIs DEF Grouped
  <1>4. \A l \in 1 .. L : ids[l] \in Range(ids) /\ ids[l] \in Nat
    BY <1>1, RangeIs
  <1> DEFINE Good(m, x) == \A i \in x + 1 .. D, l \in 1 .. m : datas[i] # ids[l]
  <1> DEFINE T == {m \in Nat : m <= L => Good(m, f[m])}
  <1>5. 0 \in T
    <2>1. Good(0, f[0])
      OBVIOUS
    <2> HIDE DEF Good
    <2> QED BY <2>1
  <1>6. ASSUME NEW m \in T PROVE m + 1 \in T
    <2>0. m \in Nat /\ (m <= L => Good(m, f[m]))
      BY <1>6
    <2> HIDE DEF Good
    <2> SUFFICES ASSUME m + 1 <= L PROVE Good(m + 1, f[m + 1])
      BY <2>0
    <2>1. m \in 0 .. L /\ m + 1 \in 1 .. L /\ m + 1 - 1 = m /\ Good(m, f[m])
      BY <2>0
    <2>2. PICK x \in 0 .. D, e \in Range(ids) : x = f[m] /\ e = ids[m + 1]
      BY <1>1, <1>2, <1>4, <2>1 DEF MatchedTo
    <2>3. PICK y : y = f[m + 1] /\ y = Run(x, e)
      BY <1>2, <2>1, <2>2 DEF MatchedTo
    <2>4. y \in x .. D /\ (\A k \in x + 1 .. y : datas[k] = e) /\ (y < D => datas[y + 1] # e)
      BY <1>1, <2>2, <2>3, RunIs
    <2>5. ASSUME NEW i \in y + 1 .. D, NEW l \in 1 .. m + 1 PROVE datas[i] # ids[l]
      <3>1. CASE l <= m
        <4>1. i \in x + 1 .. D /\ l \in 1 .. m
          <5>1. y \in x .. D
            BY <2>4
          <5>2. i \in x + 1 .. D
            BY <5>1
          <5> QED BY <3>1, <5>2
        <4>2. Good(m, x)
          BY <2>1, <2>2
        <4> QED BY <4>1, <4>2 DEF Good
      <3>2. CASE l = m + 1
        <4> SUFFICES ASSUME datas[i] = e PROVE FALSE
          BY <2>2, <3>2
        <4>1. PICK j \in 1 .. D : j = y + 1 /\ j <= i /\ i \in 1 .. D /\ j \in x + 1 .. D
          <5>1. y + 1 \in 1 .. D /\ y + 1 <= i /\ i \in 1 .. D /\ y + 1 \in x + 1 .. D
            BY <2>2, <2>4
          <5> QED BY <5>1
        <4>2. datas[j] <= datas[i] /\ datas[j] # e /\ datas[j] \in Nat /\ datas[i] \in Nat
          <5>1. datas[j] <= datas[i]
            BY <1>1, <4>1 DEF Grouped, Sorted
          <5> QED BY <1>3, <2>4, <4>1, <5>1
        <4>3. datas[j] < e
          BY <4>2
        <4>4. PICK z \in 1 .. L : ids[z] = datas[j]
          BY <1>1, <1>3, <4>1, RangeIs
        <4>5. z <= m
          <5> SUFFICES ASSUME ~(z <= m) PROVE FALSE
            OBVIOUS
          <5>1. m + 1 <= z
            BY <2>0
          <5>2. ids[m + 1] <= ids[z]
            BY <1>1, <2>1, <5>1 DEF Sorted
          <5> QED BY <2>2, <4>2, <4>3, <4>4, <5>2
        <4>6. z \in 1 .. m
          BY <4>5, <2>0
        <4>7. Good(m, x)
          BY <2>1, <2>2
        <4> QED BY <4>1, <4>4, <4>6, <4>7 DEF Good
      <3> QED BY <2>0, <3>1, <3>2
    <2>6. Good(m + 1, y)
      BY <2>5 DEF Good
    <2> QED BY <2>3, <2>6
  <1>7. T \in SUBSET Nat
    OBVIOUS
  <1> HIDE DEF T
  <1>8. T = Nat
    BY <1>5, <1>6, <1>7, Induction
  <1>9. Good(L, f[L])
    <2> HIDE DEF Good
    <2>1. L \in T
      BY <1>8
    <2> QED BY <2>1 DEF T
  <1>10. PICK x \in 0 .. D : x = f[L]
    BY <1>1, <1>2 DEF MatchedTo
  <1>11. x = D
    <2> SUFFICES ASSUME x < D PROVE FALSE
      BY <1>10
    <2>1. x + 1 \in 1 .. D /\ x + 1 \in x + 1 .. D
      BY <1>10
    <2>2. PICK l \in 1 .. L : ids[l] = datas[x + 1]
      BY <1>1, <1>3, <2>1, RangeIs
    <2> QED BY <1>9, <1>10, <2>1, <2>2
  <1> QED BY <1>1, <1>2, <1>10, <1>11

(* How many of them are for a frame.                                        *)
LEMMA CountIsCardinality ==
  ASSUME NEW s \in Seq(Nat), NEW k
  PROVE  Cardinality({i \in 1 .. Len(s) : s[i] = k}) = Count(One(k), s)
  <1> DEFINE P(t) == {i \in 1 .. Len(t) : t[i] = k}
  <1> DEFINE T == {t \in Seq(Nat) : Cardinality(P(t)) = Count(One(k), t)}
  <1>1. PICK w : w = One(k) /\ \A n \in Nat : w[n] \in Nat /\ w[n] = IF n = k THEN 1 ELSE 0
    BY OneTyped
  <1>2. \A n \in Nat : w[n] \in Nat
    BY <1>1
  <1>3. <<>> \in T
    <2>1. PICK e \in Seq(Nat) : e = <<>> /\ Len(e) = 0
      BY EmptySeq
    <2>2. P(e) = {}
      BY <2>1
    <2> HIDE DEF P
    <2>3. Cardinality(P(e)) = 0
      BY <2>2, FS_EmptySet
    <2>4. Count(w, e) = 0
      BY <1>2, <2>1, EmptyCount
    <2> QED BY <1>1, <2>1, <2>3, <2>4
  <1>4. ASSUME NEW t \in Seq(Nat), NEW e \in Nat, t \in T PROVE Append(t, e) \in T
    <2>0. PICK a \in Nat : a = Len(t)
      BY LenProperties
    <2>9. PICK u : u = Append(t, e)
      OBVIOUS
    <2>1. a \in Nat /\ a = Len(t) /\ u = Append(t, e)
      BY <2>0, <2>9
    <2>2. /\ u \in Seq(Nat) /\ u = Append(t, e) /\ Len(u) = a + 1 /\ u[a + 1] = e
          /\ \A i \in 1 .. a : u[i] = t[i]
      BY <2>1, AppendProperties
    <2>3. Count(w, u) = Count(w, t) + w[e] /\ Count(w, t) \in Nat
      <3>1. Count(w, Append(t, e)) = Count(w, t) + w[e] /\ Count(w, t) \in Nat
        BY <1>2, CountAppended
      <3> QED BY <2>2, <3>1
    <2>4. IsFiniteSet(P(t)) /\ a + 1 \notin P(t)
      <3>1. IsFiniteSet(1 .. a)
        BY FS_Interval
      <3>2. P(t) \in SUBSET (1 .. a)
        BY <2>1
      <3>3. a + 1 \notin 1 .. a
        OBVIOUS
      <3> HIDE DEF P
      <3> QED BY <3>1, <3>2, <3>3, FS_Subset
    <2>5. P(u) = IF e = k THEN P(t) \union {a + 1} ELSE P(t)
      <3>1. 1 .. a + 1 = (1 .. a) \union {a + 1} /\ a + 1 \notin 1 .. a
        OBVIOUS
      <3> QED BY <2>1, <2>2, <3>1
    <2>6. Cardinality(P(t)) = Count(w, t)
      BY <1>1, <1>4
    <2>7. Cardinality(P(u)) = Count(w, u)
      <3> HIDE DEF P
      <3>1. CASE e = k
        <4>1. Cardinality(P(t) \union {a + 1}) = Cardinality(P(t)) + 1
          BY <2>4, FS_AddElement
        <4> QED BY <1>1, <2>3, <2>5, <2>6, <3>1, <4>1
      <3>2. CASE e # k
        BY <1>1, <2>3, <2>5, <2>6, <3>2
      <3> QED BY <3>1, <3>2
    <2> HIDE DEF P
    <2> QED BY <1>1, <2>2, <2>7
  <1> HIDE DEF T
  <1>5. s \in T
    BY <1>3, <1>4, SeqInduction
  <1> QED BY <1>5 DEF T

LEMMA ResultsAre ==
  ASSUME datas \in Seq(Nat), ids \in Seq(Nat), Sorted(ids), Grouped(datas, ids), NEW k
  PROVE  ResultsOf(k) = Count(One(k), datas)
  <1>1. Matched = Len(datas)
    BY AllMatched
  <1>2. ResultsOf(k) = Cardinality({i \in 1 .. Len(datas) : datas[i] = k})
    BY <1>1 DEF ResultsOf
  <1> QED BY <1>2, CountIsCardinality

-----------------------------------------------------------------------------
LEMMA CountNat ==
  ASSUME NEW S, NEW s \in Seq(S), NEW w, \A q \in S : w[q] \in Nat
  PROVE  Count(w, s) \in Nat
  BY CountOfBoth

LEMMA CountSum ==
  ASSUME NEW S, NEW s \in Seq(S), NEW t \in Seq(S), NEW w, \A q \in S : w[q] \in Nat
  PROVE  Count(w, s \o t) = Count(w, s) + Count(w, t)
  BY CountOfBoth

LEMMA CountSumNat ==
  ASSUME NEW s \in Seq(Nat), NEW t \in Seq(Nat), NEW w, \A q \in Nat : w[q] \in Nat
  PROVE  Count(w, s \o t) = Count(w, s) + Count(w, t)
  BY CountSum

LEMMA NoTotal ==
  Total(<<>>) = 0
  <1>1. PICK e \in Seq(Nat) : e = <<>>
    BY EmptySeq
  <1>a. \A n \in Nat : Self[n] \in Nat
    BY DEF Self
  <1>2. PICK w : w = Self
    OBVIOUS
  <1>3. \A n \in Nat : w[n] \in Nat
    BY <1>a, <1>2
  <1>4. Count(w, <<>>) = 0
    BY <1>3, EmptyCount
  <1> QED BY <1>1, <1>2, <1>4, TotalIs

LEMMA TotalNat ==
  ASSUME NEW s \in Seq(Nat)
  PROVE  Total(s) \in Nat
  <1>1. \A n \in Nat : Self[n] \in Nat
    BY DEF Self
  <1> QED BY <1>1, TotalIs, CountNat

LEMMA TotalOfRest ==
  ASSUME NEW s \in Seq(Nat), s # <<>>
  PROVE  Total(s) = Head(s) + Total(Tail(s)) /\ Head(s) \in Nat /\ Total(Tail(s)) \in Nat
  <1>1. PICK h \in Nat, t \in Seq(Nat) : h = Head(s) /\ t = Tail(s) /\ s = <<h>> \o t
    BY HeadAndTail
  <1>a. \A n \in Nat : Self[n] \in Nat /\ Self[n] = n
    BY DEF Self
  <1>2. PICK w : w = Self
    OBVIOUS
  <1>3. \A n \in Nat : w[n] \in Nat
    BY <1>a, <1>2
  <1>b. w[h] = h
    BY <1>a, <1>2
  <1>4. PICK one \in Seq(Nat) : one = <<h>>
    BY OneIn
  <1>5. Count(w, one \o t) = Count(w, one) + Count(w, t)
    BY <1>3, CountSumNat
  <1>6. Count(w, <<h>>) = w[h]
    BY <1>3, CountOfOne
  <1>7. Total(s) = Count(w, s) /\ Total(t) = Count(w, t) /\ Total(t) \in Nat
    BY <1>2, TotalIs, TotalNat
  <1> QED BY <1>1, <1>2, <1>b, <1>4, <1>5, <1>6, <1>7

-----------------------------------------------------------------------------
(* The results of the frame k that are not yet recorded, of images that     *)
(* were inserted, and of those of the current packet that were not.         *)
Outstanding(k) ==
  Count(One(k), datas) + Count(One(k), internalDatas) + Count(FoundFor(k), images)
NotInserted(k) == IF k = Len(arrived) THEN Total(todo) ELSE 0

ResultsOK ==
  /\ Grouped(datas, ids) /\ Grouped(internalDatas, internalIDs)
  /\ \A k \in DOMAIN recorded :
       recorded[k] \in Nat /\ recorded[k] + Outstanding(k) + NotInserted(k) = Due(arrived[k])
  /\ pc = "direct" => arrived[Len(arrived)] = <<>>

LEMMA OutstandingNat ==
  ASSUME EngineTypes, NEW k
  PROVE  Count(One(k), datas) \in Nat /\ Count(One(k), internalDatas) \in Nat /\ Count(FoundFor(k), images) \in Nat
  <1>1. datas \in Seq(Nat) /\ internalDatas \in Seq(Nat) /\ images \in Seq(Image)
    BY DEF EngineTypes
  <1>2. \A n \in Nat : One(k)[n] \in Nat
    BY OneTyped
  <1>3. \A x \in Image : FoundFor(k)[x] \in Nat
    BY FoundForTyped
  <1> QED BY <1>1, <1>2, <1>3, CountNat

LEMMA BehindOrder ==
  ASSUME BlockTypes, LoopInv
  PROVE  /\ Sorted(ids) /\ Sorted(internalIDs)
         /\ Range(ids) \subseteq DOMAIN pendingIDs /\ Range(internalIDs) \subseteq DOMAIN pendingIDs
         /\ Range(IDs(images)) \subseteq DOMAIN pendingIDs
         /\ Range(Behind) = Range(ids) \union Range(internalIDs) \union Range(IDs(images))
  <1>1. PICK h \in Seq(Nat), i \in Seq(Nat), j \in Seq(Nat), m \in Seq(Nat) :
          h = hasOutputs /\ i = ids /\ j = internalIDs /\ m = IDs(images)
    BY IDsType DEF BlockTypes, DataTypes, EngineTypes
  <1>2. PICK r \in Seq(Nat) : r = j \o m
    BY Concat
  <1>3. PICK b \in Seq(Nat) : b = i \o r
    BY Concat
  <1>4. b = Behind
    BY <1>1, <1>2, <1>3 DEF Behind
  <1>5. Sorted(h \o b) /\ Range(h \o b) = DOMAIN pendingIDs
    BY <1>1, <1>4 DEF LoopInv, InOrder, WayOK
  <1>6. Sorted(b)
    BY <1>5, SortedParts
  <1>7. Sorted(i) /\ Sorted(r)
    BY <1>3, <1>6, SortedParts
  <1>8. Sorted(j)
    BY <1>2, <1>7, SortedParts
  <1>9. Range(b) = Range(i) \union Range(r)
    BY <1>3, NatRange
  <1>10. Range(r) = Range(j) \union Range(m)
    BY <1>2, NatRange
  <1>11. PICK w : w = h \o b
    OBVIOUS
  <1>12. Range(w) = Range(h) \union Range(b)
    BY <1>11, NatRange
  <1> QED BY <1>1, <1>4, <1>5, <1>7, <1>8, <1>9, <1>10, <1>11, <1>12

LEMMA IDsSorted ==
  BlockTypes /\ LoopInv => Sorted(ids) /\ Sorted(internalIDs)
  BY BehindOrder

LEMMA IDsSortedNext ==
  (BlockTypes /\ LoopInv => Sorted(ids) /\ Sorted(internalIDs))'
  BY IDsSorted, PTL

LEMMA NothingOutstanding ==
  ASSUME BlockTypes, LoopInv, ResultsOK, NEW k, k \notin Range(Behind)
  PROVE  Outstanding(k) = 0
  <1>1. datas \in Seq(Nat) /\ internalDatas \in Seq(Nat) /\ images \in Seq(Image)
    BY DEF BlockTypes, EngineTypes
  <1>2. k \notin Range(ids) /\ k \notin Range(internalIDs) /\ k \notin Range(IDs(images))
    BY BehindOrder
  <1>3. PICK w : w = One(k) /\ \A n \in Nat : w[n] \in Nat /\ w[n] = IF n = k THEN 1 ELSE 0
    BY OneTyped
  <1>4. PICK v : v = FoundFor(k) /\ \A x \in Image : v[x] \in Nat /\ v[x] = IF x.id = k THEN x.found ELSE 0
    BY FoundForTyped
  <1>5. \A n \in Nat : w[n] \in Nat
    BY <1>3
  <1>6. \A x \in Image : v[x] \in Nat
    BY <1>4
  <1>7. Count(w, datas) = 0
    <2>1. ASSUME NEW i \in 1 .. Len(datas) PROVE w[datas[i]] = 0
      <3>1. datas[i] \in Range(datas) /\ datas[i] \in Nat
        BY <1>1, RangeIs
      <3>2. datas[i] # k
        BY <1>2, <3>1 DEF ResultsOK, Grouped
      <3> QED BY <1>3, <3>1, <3>2
    <2> QED BY <1>1, <1>5, <2>1, CountNone
  <1>8. Count(w, internalDatas) = 0
    <2>1. ASSUME NEW i \in 1 .. Len(internalDatas) PROVE w[internalDatas[i]] = 0
      <3>1. internalDatas[i] \in Range(internalDatas) /\ internalDatas[i] \in Nat
        BY <1>1, RangeIs
      <3>2. internalDatas[i] # k
        BY <1>2, <3>1 DEF ResultsOK, Grouped
      <3> QED BY <1>3, <3>1, <3>2
    <2> QED BY <1>1, <1>5, <2>1, CountNone
  <1>9. Count(v, images) = 0
    <2>1. ASSUME NEW i \in 1 .. Len(images) PROVE v[images[i]] = 0
      <3>1. images[i] \in Image /\ IDs(images)[i] = images[i].id
        BY <1>1, ElementOfSeq, IDsElement
      <3>2. IDs(images)[i] \in Range(IDs(images))
        BY <1>1, IDsType, IDsLength, RangeIs
      <3> QED BY <1>2, <1>4, <3>1, <3>2
    <2> QED BY <1>1, <1>6, <2>1, CountNone
  <1> QED BY <1>3, <1>4, <1>7, <1>8, <1>9 DEF Outstanding

(* The packets are recorded as before, or no longer.                        *)
LEMMA ResultsSame ==
  ASSUME ResultsOK, UNCHANGED <<datas, ids, internalDatas, internalIDs, images, todo, arrived>>,
         DOMAIN recorded' \subseteq DOMAIN recorded, \A k \in DOMAIN recorded' : recorded'[k] = recorded[k],
         pc' = "direct" => pc = "direct"
  PROVE  ResultsOK'
  <1>1. ASSUME NEW k PROVE Outstanding(k)' = Outstanding(k) /\ NotInserted(k)' = NotInserted(k)
    BY DEF Outstanding, NotInserted
  <1>2. ASSUME NEW k \in DOMAIN recorded'
        PROVE  recorded'[k] \in Nat /\ recorded'[k] + Outstanding(k)' + NotInserted(k)' = Due(arrived'[k])
    BY <1>1 DEF ResultsOK
  <1>3. ASSUME NEW k \in DOMAIN recorded' PROVE Due(arrived'[k]) = Due(arrived[k])'
    BY DEF Due, Total
  <1>4. Grouped(datas', ids') /\ Grouped(internalDatas', internalIDs')
    BY DEF ResultsOK
  <1>5. Grouped(datas, ids)' /\ Grouped(internalDatas, internalIDs)'
    BY <1>4 DEF Grouped, Sorted, Range
  <1>6. pc' = "direct" => arrived'[Len(arrived')] = <<>>
    BY DEF ResultsOK
  <1> QED BY <1>2, <1>3, <1>5, <1>6 DEF ResultsOK

LEMMA ResultsInit ==
  ASSUME Init
  PROVE  ResultsOK
  <1>1. DOMAIN recorded = {}
    BY EmptySeq DEF Init
  <1>2. Grouped(datas, ids) /\ Grouped(internalDatas, internalIDs)
    BY GroupedNone DEF Init, EngineInit
  <1> QED BY <1>1, <1>2 DEF Init, ResultsOK

-----------------------------------------------------------------------------
(* What GetOutput hands over, results with the images that they are of.     *)
LEMMA GetDatas ==
  ASSUME EngineTypes, GetOutput, internalIDs # <<>> => internalDatas # <<>>,
         Grouped(internalDatas, internalIDs)
  PROVE  \E p \in Seq(Image) :
           /\ EngineTypes' /\ images = p \o images'
           /\ datas' = (datas \o internalDatas) \o Translate(p)
           /\ ids' = (ids \o internalIDs) \o IDs(p)
           /\ internalDatas' = <<>> /\ internalIDs' = <<>>
  <1>1. PICK n \in 0 .. Len(busyRequest) : n = Finished
    BY FinishedIs
  <1>2. PICK p \in Seq(Image) : p = Popped(n)
    BY PoppedType
  <1>3. Translate(p) \in Seq(Nat) /\ IDs(p) \in Seq(Nat)
    BY TranslateType, IDsType
  <1>4. /\ datas \in Seq(Nat) /\ ids \in Seq(Nat) /\ internalDatas \in Seq(Nat) /\ internalIDs \in Seq(Nat)
        /\ images \in Seq(Image) /\ busyRequest \in Seq(States)
    BY DEF EngineTypes
  <1>5. Pop(n) /\ batchIndex' = batchIndex
    BY <1>1 DEF GetOutput
  <1>6. /\ datas' = (datas \o internalDatas) \o Translate(p)
        /\ ids' = (ids \o internalIDs) \o IDs(p)
        /\ internalDatas' = <<>> /\ internalIDs' = <<>>
    <2>1. CASE Flushed
      BY <1>1, <1>2, <2>1, Zenon DEF GetOutput
    <2>2. CASE ~Flushed
      <3>1. datas' = datas \o Translate(p) /\ ids' = ids \o IDs(p)
        BY <1>1, <1>2, <2>2, Zenon DEF GetOutput
      <3>2. internalDatas' = internalDatas /\ internalIDs' = internalIDs
        BY <2>2 DEF GetOutput, internal
      <3>3. internalIDs = <<>>
        BY <2>2 DEF Flushed
      <3>4. internalDatas = <<>>
        <4>1. Range(internalIDs) = {}
          BY <1>4, <3>3, EmptySeq, EmptyRange
        <4>2. Range(internalDatas) = {}
          BY <4>1 DEF Grouped
        <4>3. \A i \in 1 .. Len(internalDatas) : FALSE
          BY <1>4, <4>2, RangeIs
        <4>4. Len(internalDatas) = 0
          BY <1>4, <4>3, LenProperties
        <4> QED BY <1>4, <4>4, EmptySeq
      <3>5. ids \o <<>> = ids /\ datas \o <<>> = datas
        BY <1>4, Concat
      <3> QED BY <3>1, <3>2, <3>3, <3>4, <3>5
    <2> QED BY <2>1, <2>2
  <1>7. EngineTypes' /\ images = p \o images'
    <2>1. internalIDs' \in Seq(Nat) /\ internalDatas' \in Seq(Nat)
      BY <1>6, Concat
    <2>2. datas \o internalDatas \in Seq(Nat) /\ ids \o internalIDs \in Seq(Nat)
      BY <1>4, Concat
    <2>3. datas' \in Seq(Nat)
      BY <1>3, <1>6, <2>2, Concat
    <2>4. ids' \in Seq(Nat)
      BY <1>3, <1>6, <2>2, Concat
    <2> QED BY <1>2, <1>5, <2>1, <2>3, <2>4, PopSplits
  <1> QED BY <1>2, <1>6, <1>7

(* A step in which what a packet gains, recorded or outstanding, it had     *)
(* outstanding or not inserted.                                             *)
LEMMA ResultsKept ==
  ASSUME ResultsOK, arrived' = arrived, Grouped(datas', ids'), Grouped(internalDatas', internalIDs'),
         \A k \in DOMAIN recorded' :
           /\ k \in DOMAIN recorded /\ recorded'[k] \in Nat
           /\ recorded'[k] + Outstanding(k)' + NotInserted(k)' = recorded[k] + Outstanding(k) + NotInserted(k),
         pc' = "direct" => pc = "direct"
  PROVE  ResultsOK'
  <1>1. ASSUME NEW k \in DOMAIN recorded'
        PROVE  recorded'[k] \in Nat /\ recorded'[k] + Outstanding(k)' + NotInserted(k)' = Due(arrived'[k])
    BY DEF ResultsOK
  <1>2. ASSUME NEW k PROVE Due(arrived'[k]) = Due(arrived[k])'
    BY DEF Due, Total
  <1>3. Grouped(datas', ids') = Grouped(datas, ids)' /\ Grouped(internalDatas', internalIDs') = Grouped(internalDatas, internalIDs)'
    BY DEF Grouped, Sorted, Range
  <1> QED BY <1>1, <1>2, <1>3 DEF ResultsOK

(* Images go from the engine to the internal buffers, their results with    *)
(* them.                                                                    *)
LEMMA ResultsWait ==
  ASSUME BlockTypes, LoopInv, ResultsOK, BlockTypes', LoopInv', InsertWaits
  PROVE  ResultsOK'
  <1>1. PICK p \in Seq(Image) :
          /\ images = p \o images' /\ datas' = datas /\ ids' = ids
          /\ internalIDs' = internalIDs \o IDs(p) /\ internalDatas' = internalDatas \o Translate(p)
    BY RoomEffect DEF InsertWaits, BlockTypes
  <1>2. UNCHANGED <<arrived, todo, recorded, pc>>
    BY DEF InsertWaits, packets
  <1>3. PICK r \in Seq(Image) : r = images'
    BY DEF BlockTypes, EngineTypes
  <1>4. PICK d \in Seq(Nat), i \in Seq(Nat), t \in Seq(Nat), e \in Seq(Nat) :
          d = internalDatas /\ i = internalIDs /\ t = Translate(p) /\ e = IDs(p)
    BY TranslateType, IDsType DEF BlockTypes, EngineTypes
  <1>5. Sorted(i \o e) /\ Sorted(ids)
    BY <1>1, <1>4, IDsSortedNext, IDsSorted
  <1>6. Sorted(e)
    BY <1>5, SortedParts
  <1>7. Grouped(t, e)
    BY <1>4, <1>6, GroupedTranslated
  <1>8. Grouped(d, i)
    BY <1>4 DEF ResultsOK
  <1>9. Grouped(d \o t, i \o e)
    BY <1>5, <1>7, <1>8, GroupedBoth
  <1>10. Grouped(internalDatas', internalIDs')
    BY <1>1, <1>4, <1>9
  <1>11. ASSUME NEW k PROVE Outstanding(k)' = Outstanding(k)
    <2>1. PICK w, v : w = One(k) /\ v = FoundFor(k)
      OBVIOUS
    <2>2. \A n \in Nat : w[n] \in Nat
      BY <2>1, OneTyped
    <2>3. \A x \in Image : v[x] \in Nat
      BY <2>1, FoundForTyped
    <2>4. Count(w, d \o t) = Count(w, d) + Count(w, t)
      BY <2>2, CountSumNat
    <2>5. Count(v, p \o r) = Count(v, p) + Count(v, r)
      BY <2>3, CountSum
    <2>6. Count(w, t) = Count(v, p)
      BY <1>4, <2>1, CountTranslated
    <2>7. Count(w, datas) \in Nat /\ Count(w, d) \in Nat
      BY <1>4, <2>1, OutstandingNat DEF BlockTypes
    <2>8. Count(v, p) \in Nat
      BY <2>3, CountNat
    <2>9. Count(v, r) \in Nat
      BY <2>3, CountNat
    <2>10. Outstanding(k) = Count(w, datas) + Count(w, d) + Count(v, p \o r)
      BY <1>1, <1>3, <1>4, <2>1 DEF Outstanding
    <2>11. Outstanding(k)' = Count(w, datas') + Count(w, internalDatas') + Count(v, images')
      BY <2>1 DEF Outstanding, One, FoundFor, Count
    <2>12. Outstanding(k)' = Count(w, datas) + Count(w, d \o t) + Count(v, r)
      BY <1>1, <1>3, <1>4, <2>11
    <2> QED BY <2>4, <2>5, <2>6, <2>7, <2>8, <2>9, <2>10, <2>12
  <1>12. ASSUME NEW k PROVE NotInserted(k)' = NotInserted(k)
    BY <1>2 DEF NotInserted, Total
  <1>13. Grouped(datas', ids')
    BY <1>1 DEF ResultsOK
  <1>14. \A k \in DOMAIN recorded' : k \in DOMAIN recorded /\ recorded'[k] \in Nat
    BY <1>2 DEF ResultsOK
  <1> QED BY <1>2, <1>10, <1>11, <1>12, <1>13, <1>14, ResultsKept

-----------------------------------------------------------------------------
(* The images are inserted, and their results collected and attached.      *)

LEMMA ResultsInsert ==
  ASSUME BlockTypes, LoopInv, ResultsOK, Insert
  PROVE  ResultsOK'
  <1>1. /\ pc = "insert" /\ todo' = Tail(todo)
        /\ InsertImage([id |-> Len(arrived), found |-> Head(todo)])
        /\ pc' = IF Len(todo) = 1 THEN "collect" ELSE "insert"
        /\ UNCHANGED <<arrived, recorded>>
    BY DEF Insert
  <1>2. UNCHANGED <<datas, ids, internalDatas, internalIDs>>
    BY <1>1 DEF InsertImage, internal, outputs
  <1>3. PICK A \in Nat : A = Len(arrived)
    BY Counts
  <1>4. todo \in Seq(Nat) /\ todo # <<>>
    BY <1>1 DEF BlockTypes, DataTypes, LoopInv, Place
  <1>5. PICK h \in Nat, u \in Nat : h = Head(todo) /\ u = Total(Tail(todo)) /\ Total(todo) = h + u
    BY <1>4, TotalOfRest
  <1>6. PICK image \in Image : image = [id |-> A, found |-> h]
    BY DEF Image
  <1>a. image.id = A /\ image.found = h
    BY <1>6
  <1>7. images' = Append(images, image) /\ images \in Seq(Image)
    BY <1>1, <1>3, <1>5, <1>6 DEF InsertImage, BlockTypes, EngineTypes
  <1>8. ASSUME NEW k
        PROVE  /\ Outstanding(k)' = Outstanding(k) + (IF k = A THEN h ELSE 0)
               /\ Outstanding(k) \in Nat
    <2>1. PICK w, v : w = One(k) /\ v = FoundFor(k)
      OBVIOUS
    <2>2. \A x \in Image : v[x] \in Nat
      BY <2>1, FoundForTyped
    <2>3. v[image] = IF k = A THEN h ELSE 0
      BY <1>a, <2>1, FoundForTyped
    <2>4. Count(v, Append(images, image)) = Count(v, images) + v[image]
      BY <1>7, <2>2, CountAppended
    <2>5. PICK a \in Nat, b \in Nat, c \in Nat :
            a = Count(w, datas) /\ b = Count(w, internalDatas) /\ c = Count(v, images)
      BY <2>1, OutstandingNat DEF BlockTypes
    <2>6. Outstanding(k) = a + b + c
      BY <2>1, <2>5 DEF Outstanding
    <2>7. Outstanding(k)' = Count(w, datas') + Count(w, internalDatas') + Count(v, images')
      BY <2>1 DEF Outstanding, One, FoundFor, Count
    <2>8. Outstanding(k)' = a + b + (c + v[image])
      BY <1>2, <1>7, <2>4, <2>5, <2>7
    <2> QED BY <2>3, <2>6, <2>8
  <1>9. ASSUME NEW k
        PROVE  /\ NotInserted(k) = IF k = A THEN h + u ELSE 0
               /\ NotInserted(k)' = IF k = A THEN u ELSE 0
    <2>1. NotInserted(k) = IF k = A THEN h + u ELSE 0
      BY <1>3, <1>5 DEF NotInserted
    <2>2. NotInserted(k)' = IF k = A THEN Total(todo') ELSE 0
      BY <1>1, <1>3 DEF NotInserted, Total
    <2> QED BY <1>1, <1>5, <2>1, <2>2
  <1>10. Grouped(datas', ids') /\ Grouped(internalDatas', internalIDs')
    BY <1>2 DEF ResultsOK
  <1>11. ASSUME NEW k \in DOMAIN recorded'
         PROVE  /\ k \in DOMAIN recorded /\ recorded'[k] \in Nat
                /\ recorded'[k] + Outstanding(k)' + NotInserted(k)' = recorded[k] + Outstanding(k) + NotInserted(k)
    <2>1. PICK r \in Nat, o \in Nat : r = recorded[k] /\ recorded'[k] = r /\ o = Outstanding(k) /\ k \in DOMAIN recorded
      BY <1>1, <1>8 DEF ResultsOK
    <2>2. Outstanding(k)' = o + (IF k = A THEN h ELSE 0)
      BY <1>8, <2>1
    <2> QED BY <1>9, <2>1, <2>2
  <1>12. pc' # "direct"
    BY <1>1
  <1> QED BY <1>1, <1>10, <1>11, <1>12, ResultsKept

LEMMA ResultsCollect ==
  ASSUME BlockTypes, LoopInv, ResultsOK, BlockTypes', LoopInv', Collect
  PROVE  ResultsOK'
  <1>1. GetOutput /\ pc = "collect" /\ pc' \in {"collect", "attach"}
        /\ UNCHANGED <<arrived, todo, recorded>>
    BY DEF Collect, packets
  <1>2. PICK p \in Seq(Image) :
          /\ images = p \o images'
          /\ datas' = (datas \o internalDatas) \o Translate(p)
          /\ ids' = (ids \o internalIDs) \o IDs(p)
          /\ internalDatas' = <<>> /\ internalIDs' = <<>>
    BY <1>1, GetDatas DEF BlockTypes, LoopInv, FlagsOK, ResultsOK
  <1>3. PICK r \in Seq(Image) : r = images'
    BY DEF BlockTypes, EngineTypes
  <1>4. PICK d \in Seq(Nat), i \in Seq(Nat), f \in Seq(Nat), j \in Seq(Nat), t \in Seq(Nat), e \in Seq(Nat) :
          /\ d = datas /\ i = ids /\ f = internalDatas /\ j = internalIDs /\ t = Translate(p) /\ e = IDs(p)
    BY TranslateType, IDsType DEF BlockTypes, EngineTypes
  <1>5. PICK di \in Seq(Nat), ii \in Seq(Nat) : di = d \o f /\ ii = i \o j
    BY Concat
  <1>6. datas' = di \o t /\ ids' = ii \o e
    BY <1>2, <1>4, <1>5
  <1>7. Sorted(ii \o e)
    BY <1>6, IDsSortedNext
  <1>8. Sorted(ii) /\ Sorted(e)
    BY <1>7, SortedParts
  <1>9. Sorted(i \o j)
    BY <1>5, <1>8
  <1>10. Grouped(d \o f, i \o j)
    BY <1>4, <1>9, GroupedBoth DEF ResultsOK
  <1>11. Grouped(t, e)
    BY <1>4, <1>8, GroupedTranslated
  <1>12. Grouped(di, ii)
    BY <1>5, <1>10
  <1>13. Grouped(di \o t, ii \o e)
    BY <1>7, <1>11, <1>12, GroupedBoth
  <1>14. Grouped(datas', ids')
    BY <1>6, <1>13
  <1>15. Grouped(internalDatas', internalIDs')
    BY <1>2, GroupedNone
  <1>16. ASSUME NEW k PROVE Outstanding(k)' = Outstanding(k)
    <2>1. PICK w, v : w = One(k) /\ v = FoundFor(k)
      OBVIOUS
    <2>2. \A n \in Nat : w[n] \in Nat
      BY <2>1, OneTyped
    <2>3. \A x \in Image : v[x] \in Nat
      BY <2>1, FoundForTyped
    <2>4. Count(w, d \o f) = Count(w, d) + Count(w, f)
      BY <2>2, CountSumNat
    <2>5. Count(w, di \o t) = Count(w, di) + Count(w, t)
      BY <2>2, CountSumNat
    <2>6. Count(v, p \o r) = Count(v, p) + Count(v, r)
      BY <2>3, CountSum
    <2>7. Count(w, t) = Count(v, p)
      BY <1>4, <2>1, CountTranslated
    <2>8. Count(w, d) \in Nat /\ Count(w, f) \in Nat
      BY <1>4, <2>1, OutstandingNat DEF BlockTypes
    <2>9. Count(v, p) \in Nat
      BY <2>3, CountNat
    <2>10. Count(v, r) \in Nat
      BY <2>3, CountNat
    <2>11. Count(w, <<>>) = 0
      BY <2>2, EmptyCount
    <2>12. Outstanding(k) = Count(w, d) + Count(w, f) + Count(v, p \o r)
      BY <1>2, <1>3, <1>4, <2>1 DEF Outstanding
    <2>13. Outstanding(k)' = Count(w, datas') + Count(w, internalDatas') + Count(v, images')
      BY <2>1 DEF Outstanding, One, FoundFor, Count
    <2>14. Outstanding(k)' = Count(w, di \o t) + Count(w, <<>>) + Count(v, r)
      BY <1>2, <1>3, <1>6, <2>13
    <2>15. Count(w, di) = Count(w, d) + Count(w, f)
      BY <1>5, <2>4
    <2> QED BY <2>5, <2>6, <2>7, <2>8, <2>9, <2>10, <2>11, <2>12, <2>14, <2>15
  <1>17. ASSUME NEW k PROVE NotInserted(k)' = NotInserted(k)
    BY <1>1 DEF NotInserted, Total
  <1>18. \A k \in DOMAIN recorded' : k \in DOMAIN recorded /\ recorded'[k] \in Nat
    BY <1>1 DEF ResultsOK
  <1>19. pc' # "direct"
    BY <1>1
  <1> QED BY <1>1, <1>14, <1>15, <1>16, <1>17, <1>18, <1>19, ResultsKept

(* The results are added to the packets that they are for.                  *)
LEMMA ResultsAttached ==
  ASSUME BlockTypes, LoopInv, ResultsOK, Attach
  PROVE  ResultsOK'
  <1>1. /\ pc = "attach" /\ pc' \in {"input", "collect", "send"}
        /\ recorded' = [id \in DOMAIN recorded \union Range(ids) |-> Get(recorded, id, 0) + ResultsOf(id)]
        /\ datas' = <<>> /\ ids' = <<>>
        /\ UNCHANGED <<images, internal, arrived, todo>>
    BY DEF Attach, Continue
  <1>2. UNCHANGED <<internalDatas, internalIDs>>
    BY <1>1 DEF internal
  <1>3. datas \in Seq(Nat) /\ ids \in Seq(Nat)
    BY DEF BlockTypes, EngineTypes
  <1>4. DOMAIN recorded \union Range(ids) = DOMAIN recorded
    BY BehindOrder, PendingRecorded
  <1>5. \A k : ResultsOf(k) = Count(One(k), datas)
    BY <1>3, IDsSorted, ResultsAre DEF ResultsOK
  <1>6. Grouped(datas', ids')
    BY <1>1, GroupedNone
  <1>7. Grouped(internalDatas', internalIDs')
    BY <1>2 DEF ResultsOK
  <1>8. ASSUME NEW k \in DOMAIN recorded'
        PROVE  /\ k \in DOMAIN recorded /\ recorded'[k] \in Nat
               /\ recorded'[k] + Outstanding(k)' + NotInserted(k)' = recorded[k] + Outstanding(k) + NotInserted(k)
    <2>1. k \in DOMAIN recorded
      BY <1>1, <1>4
    <2>2. PICK w, v : w = One(k) /\ v = FoundFor(k)
      OBVIOUS
    <2>3. \A n \in Nat : w[n] \in Nat
      BY <2>2, OneTyped
    <2>4. PICK a \in Nat, b \in Nat, c \in Nat :
            a = Count(w, datas) /\ b = Count(w, internalDatas) /\ c = Count(v, images)
      BY <2>2, OutstandingNat DEF BlockTypes
    <2>5. PICK r \in Nat : r = recorded[k]
      BY <2>1 DEF ResultsOK
    <2>6. recorded'[k] = r + a
      <3>1. recorded'[k] = Get(recorded, k, 0) + ResultsOf(k)
        BY <1>1, <1>4, <2>1
      <3> QED BY <1>5, <2>1, <2>2, <2>4, <2>5, <3>1 DEF Get
    <2>7. Outstanding(k) = a + b + c
      BY <2>2, <2>4 DEF Outstanding
    <2>8. Outstanding(k)' = Count(w, datas') + Count(w, internalDatas') + Count(v, images')
      BY <2>2 DEF Outstanding, One, FoundFor, Count
    <2>9. Count(w, <<>>) = 0
      BY <2>3, EmptyCount
    <2>10. Outstanding(k)' = 0 + b + c
      BY <1>1, <1>2, <2>4, <2>8, <2>9
    <2>11. NotInserted(k)' = NotInserted(k)
      BY <1>1 DEF NotInserted, Total
    <2>12. r + a \in Nat /\ (r + a) + (0 + b + c) = r + (a + b + c)
      OBVIOUS
    <2> QED BY <2>1, <2>5, <2>6, <2>7, <2>10, <2>11, <2>12
  <1>9. pc' # "direct"
    BY <1>1
  <1> QED BY <1>1, <1>6, <1>7, <1>8, <1>9, ResultsKept

-----------------------------------------------------------------------------
(* Packets arrive.                                                          *)

(* What a packet that arrives leaves as it was.                             *)
LEMMA ResultsBefore ==
  ASSUME BlockTypes, LoopInv, ResultsOK, pc = "input", NEW c \in network, arrived' = Append(arrived, c),
         NEW A \in Nat, A = Len(arrived),
         UNCHANGED <<engine, network, pass, sending, needInput, sent, stop>>
  PROVE  /\ Grouped(datas', ids') /\ Grouped(internalDatas', internalIDs')
         /\ Len(arrived') = A + 1 /\ arrived'[A + 1] = c
         /\ \A k \in DOMAIN recorded :
              /\ recorded[k] \in Nat /\ k # A + 1
              /\ recorded[k] + Outstanding(k)' + NotInserted(k)' = Due(arrived'[k])
         /\ Outstanding(A + 1)' = 0
  <1>1. UNCHANGED <<images, internalDatas, internalIDs, datas, ids>>
    BY DEF engine, internal, outputs
  <1>3. arrived \in Seq(network)
    BY DEF BlockTypes, DataTypes
  <1>4. /\ Len(arrived') = A + 1 /\ arrived'[A + 1] = c
        /\ \A k \in 1 .. A : arrived'[k] = arrived[k]
    BY <1>3, AppendProperties
  <1>5. DOMAIN recorded \subseteq 1 .. A /\ DOMAIN pendingIDs \subseteq 1 .. A
    BY DEF BlockTypes, ControlTypes
  <1>6. ASSUME NEW k PROVE Outstanding(k)' = Outstanding(k)
    BY <1>1 DEF Outstanding, Count, One, FoundFor
  <1>7. A + 1 \notin DOMAIN pendingIDs
    BY <1>5
  <1>8. Outstanding(A + 1) = 0
    BY <1>7, BehindOrder, NothingOutstanding
  <1>9. ASSUME NEW k \in DOMAIN recorded
        PROVE  /\ recorded[k] \in Nat /\ k # A + 1
               /\ recorded[k] + Outstanding(k)' + NotInserted(k)' = Due(arrived'[k])
    <2>1. k \in 1 .. A /\ k # A + 1
      BY <1>5
    <2>2. arrived'[k] = arrived[k]
      BY <1>4, <2>1
    <2>3. NotInserted(k)' = 0
      BY <1>4, <2>1 DEF NotInserted
    <2>4. NotInserted(k) = 0
      <3>1. todo = <<>>
        BY DEF LoopInv, Place
      <3> QED BY <3>1, NoTotal DEF NotInserted
    <2> QED BY <1>6, <2>1, <2>2, <2>3, <2>4 DEF ResultsOK
  <1>10. Grouped(datas', ids') /\ Grouped(internalDatas', internalIDs')
    BY <1>1 DEF ResultsOK
  <1> QED BY <1>4, <1>6, <1>8, <1>9, <1>10

LEMMA ResultsRecorded ==
  ASSUME BlockTypes, LoopInv, ResultsOK, pc = "input", NEW c \in network, arrived' = Append(arrived, c),
         recorded' = Set(recorded, Len(arrived) + 1, 0), Total(todo') = Total(c), pc' # "direct",
         UNCHANGED <<engine, network, pass, sending, needInput, sent, stop>>
  PROVE  ResultsOK'
  <1>1. PICK A \in Nat : A = Len(arrived)
    BY Counts
  <1>2. DOMAIN recorded' = DOMAIN recorded \union {A + 1}
    BY <1>1 DEF Set
  <1>3. ASSUME NEW k \in DOMAIN recorded'
        PROVE  recorded'[k] \in Nat /\ recorded'[k] + Outstanding(k)' + NotInserted(k)' = Due(arrived'[k])
    <2>1. CASE k = A + 1
      <3>1. recorded'[k] = 0
        BY <1>1, <2>1 DEF Set
      <3>2. Outstanding(k)' = 0
        BY <1>1, <2>1, ResultsBefore
      <3>3. NotInserted(k)' = Total(todo')
        BY <1>1, <2>1, ResultsBefore DEF NotInserted, Total
      <3>4. Due(arrived'[k]) = Total(c)
        BY <1>1, <2>1, ResultsBefore DEF Due
      <3>5. c \in Seq(Nat)
        BY PacketAssumption DEF BlockTypes, DataTypes
      <3>6. PICK m \in Nat : m = Total(c)
        BY <3>5, TotalNat
      <3> QED BY <3>1, <3>2, <3>3, <3>4, <3>6
    <2>2. CASE k # A + 1
      <3>1. k \in DOMAIN recorded /\ recorded'[k] = recorded[k]
        BY <1>1, <1>2, <2>2 DEF Set
      <3> QED BY <1>1, <3>1, ResultsBefore
    <2> QED BY <2>1, <2>2
  <1>4. ASSUME NEW k PROVE Due(arrived'[k]) = Due(arrived[k])'
    BY DEF Due, Total
  <1>5. Grouped(datas', ids') /\ Grouped(internalDatas', internalIDs')
    BY <1>1, ResultsBefore
  <1>6. Grouped(datas, ids)' /\ Grouped(internalDatas, internalIDs)'
    BY <1>5 DEF Grouped, Sorted, Range
  <1> QED BY <1>3, <1>4, <1>6 DEF ResultsOK

LEMMA ResultsDirect ==
  ASSUME BlockTypes, LoopInv, ResultsOK, pc = "input", NEW c \in network, arrived' = Append(arrived, c),
         recorded' = recorded, c = <<>>,
         UNCHANGED <<engine, network, pass, sending, needInput, sent, stop>>
  PROVE  ResultsOK'
  <1>0. PICK A \in Nat : A = Len(arrived)
    BY Counts
  <1>1. ASSUME NEW k \in DOMAIN recorded'
        PROVE  recorded'[k] \in Nat /\ recorded'[k] + Outstanding(k)' + NotInserted(k)' = Due(arrived'[k])
    BY <1>0, ResultsBefore
  <1>2. ASSUME NEW k PROVE Due(arrived'[k]) = Due(arrived[k])'
    BY DEF Due, Total
  <1>3. Grouped(datas', ids') /\ Grouped(internalDatas', internalIDs')
    BY <1>0, ResultsBefore
  <1>4. Grouped(datas, ids)' /\ Grouped(internalDatas, internalIDs)'
    BY <1>3 DEF Grouped, Sorted, Range
  <1>5. arrived'[Len(arrived')] = <<>>
    BY <1>0, ResultsBefore
  <1> QED BY <1>1, <1>2, <1>4, <1>5 DEF ResultsOK

LEMMA ResultsAcquired ==
  ASSUME BlockTypes, LoopInv, ResultsOK, AcquireInput
  PROVE  ResultsOK'
  <1>1. PICK c \in network :
          /\ arrived' = Append(arrived, c)
          /\ \/ /\ c = <<>> /\ recorded' = recorded /\ pc' = "direct"
             \/ /\ recorded' = Set(recorded, Len(arrived) + 1, 0)
                /\ pc' # "direct"
                /\ \/ c = <<>> /\ todo' = todo
                   \/ todo' = c
    BY Zenon DEF AcquireInput, packets
  <1>2. /\ pc = "input"
        /\ UNCHANGED <<engine, network, pass, sending, needInput, sent, stop>>
    BY Zenon DEF AcquireInput
  <1>3. todo = <<>>
    BY <1>2 DEF LoopInv, Place
  <1>4. CASE c = <<>> /\ recorded' = recorded
    BY <1>1, <1>2, <1>4, ResultsDirect
  <1>5. CASE recorded' = Set(recorded, Len(arrived) + 1, 0) /\ pc' # "direct" /\ todo' = c
    BY <1>1, <1>2, <1>5, ResultsRecorded
  <1> QED BY <1>1, <1>3, <1>4, <1>5

-----------------------------------------------------------------------------
(* Packets are sent.                                                        *)

(* A packet of which no image is behind, when none is being inserted, has   *)
(* all its results.                                                         *)
LEMMA NothingMissing ==
  ASSUME BlockTypes, LoopInv, ResultsOK, pc # "insert", NEW k \in DOMAIN recorded, k \notin Range(Behind)
  PROVE  Get(recorded, k, 0) = Due(arrived[k])
  <1>1. Outstanding(k) = 0
    BY NothingOutstanding
  <1>2. NotInserted(k) = 0
    <2>1. todo = <<>>
      BY DEF LoopInv, Place
    <2> QED BY <2>1, NoTotal DEF NotInserted
  <1>3. recorded[k] \in Nat /\ recorded[k] + Outstanding(k) + NotInserted(k) = Due(arrived[k])
    BY DEF ResultsOK
  <1> QED BY <1>1, <1>2, <1>3 DEF Get

(* One more packet is sent.                                                 *)
LEMMA OneMoreSent ==
  ASSUME BlockTypes, SentComplete, NEW r, sent' = Append(sent, r), arrived' = arrived,
         r.results = Due(arrived[r.id])
  PROVE  SentComplete'
  <1>1. sent \in Seq(Range(sent))
    BY DEF BlockTypes, DataTypes
  <1>2. PICK n \in Nat : n = Len(sent) /\ DOMAIN sent = 1 .. n
    BY <1>1, LenProperties
  <1>3. DOMAIN sent' = 1 .. n + 1 /\ sent'[n + 1] = r /\ \A i \in 1 .. n : sent'[i] = sent[i]
    BY <1>2
  <1>4. ASSUME NEW i \in 1 .. n + 1 PROVE sent'[i].results = Due(arrived[sent'[i].id])
    <2>1. CASE i = n + 1
      BY <1>3, <2>1
    <2>2. CASE i # n + 1
      <3>1. i \in 1 .. n
        BY <2>2
      <3> QED BY <1>2, <1>3, <3>1 DEF SentComplete
    <2> QED BY <2>1, <2>2
  <1>5. ASSUME NEW k PROVE Due(arrived'[k]) = Due(arrived[k])'
    BY DEF Due, Total
  <1>6. \A i \in DOMAIN sent' : sent'[i].results = Due(arrived'[sent'[i].id])
    BY <1>3, <1>4
  <1> QED BY <1>6 DEF SentComplete, Due, Total

(* Packets may arrive meanwhile.                                            *)
LEMMA NoMoreSent ==
  ASSUME BlockTypes, Kept, SentComplete, sent' = sent, Len(sent) <= Len(arrived),
         NEW c, arrived' = Append(arrived, c)
  PROVE  SentComplete'
  <1>1. PICK A \in Nat, n \in Nat : A = Len(arrived) /\ n = Len(sent)
    BY Counts
  <1>2. DOMAIN sent = 1 .. n
    BY <1>1, LenProperties DEF BlockTypes, DataTypes
  <1>3. \A i \in 1 .. n : i \in 1 .. A /\ sent[i].id = i
    BY <1>1, <1>2 DEF Kept, SentInOrder
  <1>4. arrived \in Seq(network)
    BY DEF BlockTypes, DataTypes
  <1>5. \A i \in 1 .. A : arrived'[i] = arrived[i]
    BY <1>1, <1>4
  <1>6. \A i \in DOMAIN sent' : sent'[i].results = Due(arrived'[sent'[i].id])
    BY <1>2, <1>3, <1>5 DEF SentComplete
  <1> QED BY <1>6 DEF SentComplete, Due, Total

LEMMA SameSent ==
  ASSUME SentComplete, sent' = sent, arrived' = arrived
  PROVE  SentComplete'
  <1>1. \A i \in DOMAIN sent' : sent'[i].results = Due(arrived'[sent'[i].id])
    BY DEF SentComplete
  <1> QED BY <1>1 DEF SentComplete, Due, Total

LEMMA CompleteAcquired ==
  ASSUME BlockTypes, LoopInv, SentComplete, AcquireInput
  PROVE  SentComplete'
  <1>1. PICK c : arrived' = Append(arrived, c)
    BY DEF AcquireInput
  <1>2. pc = "input" /\ sent' = sent
    BY DEF AcquireInput
  <1>3. PICK A \in Nat, n \in Nat : A = Len(arrived) /\ n = Len(sent)
    BY Counts
  <1>4. n + 1 <= A + 1
    BY <1>2, <1>3, AtInput
  <1>5. n <= A
    BY <1>4
  <1> QED BY <1>1, <1>2, <1>3, <1>5, LoopKept, NoMoreSent

LEMMA CompleteDirect ==
  ASSUME BlockTypes, LoopInv, ResultsOK, SentComplete, SendDirect
  PROVE  ResultsOK' /\ SentComplete'
  <1>1. /\ pc = "direct" /\ pc' = "input" /\ sent' = Append(sent, [id |-> Len(arrived), results |-> 0])
        /\ UNCHANGED <<datas, ids, internalDatas, internalIDs, images, todo, arrived, recorded>>
    BY DEF SendDirect, engine, internal, outputs, packets
  <1>2. ResultsOK'
    BY <1>1, ResultsSame
  <1>3. Due(arrived[Len(arrived)]) = 0
    BY <1>1, NoTotal DEF ResultsOK, Due
  <1>4. PICK r : r = [id |-> Len(arrived), results |-> 0]
    OBVIOUS
  <1>5. r.results = Due(arrived[r.id])
    BY <1>3, <1>4
  <1> QED BY <1>1, <1>2, <1>4, <1>5, OneMoreSent

LEMMA CompleteSend ==
  ASSUME BlockTypes, LoopInv, ResultsOK, SentComplete, Send
  PROVE  ResultsOK' /\ SentComplete'
  <1>1. /\ pc = "send" /\ toSend > 0 /\ following = <<>>
        /\ sent' = Append(sent, [id |-> Head(hasOutputs), results |-> Get(recorded, Head(hasOutputs), 0)])
        /\ recorded' = Erase(recorded, Head(hasOutputs))
        /\ UNCHANGED <<datas, ids, internalDatas, internalIDs, images, todo, arrived, pc>>
    BY DEF Send, engine, internal, outputs
  <1>2. ResultsOK'
    <2>1. DOMAIN recorded' \subseteq DOMAIN recorded /\ \A k \in DOMAIN recorded' : recorded'[k] = recorded[k]
      BY <1>1 DEF Erase, Restrict
    <2> QED BY <1>1, <2>1, ResultsSame
  <1>3. PICK h \in Seq(Nat), b \in Seq(Nat), f \in Nat, m \in Nat :
          h = hasOutputs /\ b = Behind /\ f = First /\ m = Coming
    BY BehindType, Counts DEF BlockTypes, DataTypes
  <1>4. h # <<>> /\ (Len(h) = 1 => b = <<>>)
    <2>1. PICK a \in Nat, c \in Nat : a = Len(h) /\ c = toSend /\ c > 0 /\ c <= a
      BY <1>1, <1>3, Counts DEF BlockTypes, ControlTypes
    <2>2. h # <<>>
      BY <2>1, EmptySeq
    <2>3. a = 1 => c = a
      BY <2>1
    <2> QED BY <1>3, <2>1, <2>2, <2>3 DEF LoopInv, Place
  <1>5. PendingTyped(pendingIDs) /\ WayOK(pendingIDs, f, m, lastInferID, h, b)
    BY <1>3 DEF BlockTypes, DataTypes, LoopInv, InOrder
  <1>6. f \in DOMAIN pendingIDs /\ Head(h) = f
    BY <1>4, <1>5, WayFirst
  <1>7. f \notin Range(b)
    BY <1>4, <1>5, FirstNotBehind
  <1>8. f \in DOMAIN recorded
    BY <1>6, PendingRecorded
  <1>9. Get(recorded, f, 0) = Due(arrived[f])
    BY <1>1, <1>3, <1>7, <1>8, NothingMissing
  <1>10. PICK r : r = [id |-> Head(hasOutputs), results |-> Get(recorded, Head(hasOutputs), 0)]
    OBVIOUS
  <1>11. r.results = Due(arrived[r.id])
    BY <1>3, <1>6, <1>9, <1>10
  <1> QED BY <1>1, <1>2, <1>10, <1>11, OneMoreSent

LEMMA CompleteFollowing ==
  ASSUME BlockTypes, LoopInv, ResultsOK, SentComplete, SendFollowing
  PROVE  ResultsOK' /\ SentComplete'
  <1>1. /\ pc = "send" /\ following # <<>>
        /\ sent' = Append(sent, [id |-> Head(following), results |-> Get(recorded, Head(following), 0)])
        /\ recorded' = Erase(recorded, Head(following))
        /\ UNCHANGED <<datas, ids, internalDatas, internalIDs, images, todo, arrived, pc>>
    BY DEF SendFollowing, engine, internal, outputs
  <1>2. ResultsOK'
    <2>1. DOMAIN recorded' \subseteq DOMAIN recorded /\ \A k \in DOMAIN recorded' : recorded'[k] = recorded[k]
      BY <1>1 DEF Erase, Restrict
    <2> QED BY <1>1, <2>1, ResultsSame
  <1>3. PICK A \in Nat, n \in Nat, m \in Nat : A = Len(arrived) /\ n = Len(sent) /\ m = Len(following) /\ m > 0
    BY <1>1, Counts, EmptySeq DEF BlockTypes, DataTypes
  <1>4. Head(following) = n + 1
    <2>1. Head(following) = following[1]
      BY <1>1, HeadTailProperties DEF BlockTypes, DataTypes
    <2>2. 1 \in 1 .. m
      BY <1>3
    <2> QED BY <1>3, <2>1, <2>2 DEF LoopInv, InOrder
  <1>5. First = n + m + 1 /\ First <= Coming /\ Coming = A + 1
    BY <1>1, <1>3, FirstAtMost DEF First, Coming, Fresh, LoopInv
  <1>6. n + 1 < First /\ n + 1 <= A
    BY <1>3, <1>5
  <1>7. n + 1 \in DOMAIN recorded
    <2>1. DOMAIN recorded = n + 1 .. A
      BY <1>1, <1>3 DEF LoopInv, RecordedOK
    <2> QED BY <1>6, <2>1
  <1>8. n + 1 \notin Range(Behind)
    <2>1. PendingOK(pendingIDs, First, Coming)
      BY DEF LoopInv, InOrder, WayOK
    <2>2. \A k \in DOMAIN pendingIDs : k \in Nat /\ First <= k
      BY <2>1, PendingOne DEF PendingOK, BlockTypes, DataTypes
    <2>3. n + 1 \notin DOMAIN pendingIDs
      BY <1>3, <1>5, <1>6, <2>2
    <2> QED BY <2>3, BehindOrder
  <1>9. Get(recorded, n + 1, 0) = Due(arrived[n + 1])
    BY <1>1, <1>7, <1>8, NothingMissing
  <1>10. PICK r : r = [id |-> Head(following), results |-> Get(recorded, Head(following), 0)]
    OBVIOUS
  <1>11. r.results = Due(arrived[r.id])
    BY <1>4, <1>9, <1>10
  <1> QED BY <1>1, <1>2, <1>10, <1>11, OneMoreSent

(* The invariant: of each packet in the block, the results recorded, those  *)
(* of images inserted and those of images not inserted are all it is due.   *)
CompleteInv == BlockInv /\ SentComplete /\ (pc # "ended" => ResultsOK)

LEMMA CompleteStep ==
  ASSUME CompleteInv, [Next]_vars
  PROVE  CompleteInv'
  <1>1. BlockInv /\ BlockInv' /\ SentComplete
    BY BlockStep DEF CompleteInv
  <1>2. ASSUME AcquireInput \/ SendDirect \/ InsertWaits \/ Insert \/ Collect \/ Attach \/ Send \/ SendFollowing
        PROVE  ResultsOK' /\ SentComplete'
    <2>1. pc # "ended"
      BY <1>2 DEF AcquireInput, SendDirect, InsertWaits, Insert, Collect, Attach, Send, SendFollowing
    <2>2. BlockTypes /\ LoopInv /\ ResultsOK
      BY <1>1, <2>1 DEF BlockInv, CompleteInv
    <2>3. CASE AcquireInput
      BY <1>1, <2>2, <2>3, ResultsAcquired, CompleteAcquired
    <2>4. CASE SendDirect \/ Send \/ SendFollowing
      BY <1>1, <2>2, <2>4, CompleteDirect, CompleteSend, CompleteFollowing
    <2>5. CASE InsertWaits
      <3>1. pc' # "ended" /\ sent' = sent /\ arrived' = arrived
        BY <2>1, <2>5 DEF InsertWaits
      <3>2. BlockTypes' /\ LoopInv'
        BY <1>1, <3>1 DEF BlockInv
      <3> QED BY <1>1, <2>2, <2>5, <3>1, <3>2, ResultsWait, SameSent
    <2>6. CASE Insert
      BY <1>1, <2>2, <2>6, ResultsInsert, SameSent DEF Insert
    <2>7. CASE Collect
      <3>1. pc' # "ended" /\ sent' = sent /\ arrived' = arrived
        BY <2>7 DEF Collect
      <3>2. BlockTypes' /\ LoopInv'
        BY <1>1, <3>1 DEF BlockInv
      <3> QED BY <1>1, <2>2, <2>7, <3>1, <3>2, ResultsCollect, SameSent
    <2>8. CASE Attach
      BY <1>1, <2>2, <2>8, ResultsAttached, SameSent DEF Attach
    <2> QED BY <1>2, <2>3, <2>4, <2>5, <2>6, <2>7, <2>8
  <1>3. ASSUME Sent \/ Stop \/ Exit \/ (Device /\ UNCHANGED others) \/ UNCHANGED vars
        PROVE  SentComplete' /\ (pc' # "ended" => ResultsOK')
    <2>1. /\ UNCHANGED <<datas, ids, internalDatas, internalIDs, images, todo, arrived, recorded, sent>>
          /\ pc' # "ended" => pc # "ended"
          /\ pc' = "direct" => pc = "direct"
      BY <1>3 DEF Sent, Continue, Stop, Exit, Device, Complete, Fail, others, vars, engine, internal, outputs, packets
    <2>2. SentComplete'
      BY <1>1, <2>1, SameSent
    <2>3. ASSUME pc' # "ended" PROVE ResultsOK'
      BY <2>1, <2>3, ResultsSame DEF CompleteInv
    <2> QED BY <2>2, <2>3
  <1> QED BY <1>1, <1>2, <1>3 DEF CompleteInv, Next, Working

(* Every packet leaves the block with all the results of all its images,    *)
(* although they were in several batches and came from several calls of     *)
(* GetOutput: m_datas and the internal buffers are never attached short.    *)
THEOREM AllResultsAttached ==
  Spec => []SentComplete
  <1>1. Init => CompleteInv
    <2> SUFFICES ASSUME Init PROVE CompleteInv
      OBVIOUS
    <2>1. BlockInv
      BY InitBlock, LoopKept DEF BlockInv
    <2>2. SentComplete
      <3>1. DOMAIN sent = {}
        BY EmptySeq DEF Init
      <3> QED BY <3>1 DEF SentComplete
    <2> QED BY <2>1, <2>2, ResultsInit DEF CompleteInv
  <1>2. CompleteInv /\ [Next]_vars => CompleteInv'
    BY CompleteStep
  <1>3. CompleteInv => SentComplete
    BY DEF CompleteInv
  <1> QED BY <1>1, <1>2, <1>3, PTL DEF Spec

(* How many frames a sequence has, and when it has fewer than elements.     *)
Repeats(s) == \E i, j \in 1 .. Len(s) : i < j /\ s[i] = s[j]

LEMMA RangeSize ==
  ASSUME NEW s \in Seq(Nat)
  PROVE  /\ IsFiniteSet(Range(s)) /\ Cardinality(Range(s)) \in Nat /\ Cardinality(Range(s)) <= Len(s)
         /\ Repeats(s) => Cardinality(Range(s)) < Len(s)
  <1>1. PICK L \in Nat : L = Len(s) /\ DOMAIN s = 1 .. L
    BY LenProperties
  <1>2. PICK S : S = 1 .. L /\ IsFiniteSet(S) /\ Cardinality(S) = L
    <2>1. IsFiniteSet(1 .. L) /\ Cardinality(1 .. L) = IF 1 > L THEN 0 ELSE L - 1 + 1
      BY FS_Interval
    <2> QED BY <2>1
  <1>3. PICK R : R = Range(s)
    OBVIOUS
  <1>4. s \in Surjection(S, R)
    <2>1. s \in [S -> R]
      BY <1>1, <1>2, <1>3, RangeIs
    <2>2. \A t \in R : \E i \in S : s[i] = t
      BY <1>1, <1>2, <1>3, RangeIs
    <2> QED BY <2>1, <2>2 DEF Surjection
  <1>5. /\ IsFiniteSet(R) /\ Cardinality(R) <= Cardinality(S)
        /\ Cardinality(R) = Cardinality(S) <=> s \in Injection(S, R)
    BY <1>2, <1>4, FS_Surjection
  <1>6. Cardinality(R) \in Nat
    BY <1>5, FS_CardinalityType
  <1>7. ASSUME Repeats(s) PROVE s \notin Injection(S, R)
    <2>1. PICK i \in 1 .. L, j \in 1 .. L : i < j /\ s[i] = s[j]
      BY <1>1, <1>7 DEF Repeats
    <2>2. i # j
      BY <2>1
    <2> QED BY <1>2, <2>1, <2>2 DEF Injection, IsInjective
  <1>8. Repeats(s) => Cardinality(R) < L
    BY <1>2, <1>5, <1>6, <1>7
  <1> QED BY <1>1, <1>2, <1>3, <1>5, <1>6, <1>8

LEMMA RepeatsLonger ==
  ASSUME NEW s \in Seq(Nat), NEW t \in Seq(Nat), Repeats(s)
  PROVE  Repeats(s \o t)
  <1>1. PICK u \in Seq(Nat) : u = s \o t
    BY Concat
  <1>2. \A i \in 1 .. Len(s) : i \in 1 .. Len(u) /\ u[i] = s[i]
    BY <1>1, BothFirst
  <1> QED BY <1>1, <1>2 DEF Repeats

(* An element that is there already.                                        *)
LEMMA RepeatsAppended ==
  ASSUME NEW s \in Seq(Nat), NEW e \in Range(s)
  PROVE  Repeats(s \o <<e>>)
  <1>1. PICK L \in Nat : L = Len(s)
    BY LenProperties
  <1>2. PICK one \in Seq(Nat) : one = <<e>> /\ Len(one) = 1 /\ one[1] = e
    BY RangeIs, OneIn
  <1>0. PICK u \in Seq(Nat) : u = s \o one
    BY Concat
  <1>3. u = s \o one /\ Len(u) = L + 1
    <2>1. Len(s \o one) = Len(s) + Len(one)
      BY BothLength
    <2> QED BY <1>0, <1>1, <1>2, <2>1
  <1>4. PICK i \in 1 .. L : s[i] = e
    BY <1>1, RangeIs
  <1>5. u[i] = e /\ i \in 1 .. L + 1
    BY <1>1, <1>3, <1>4, BothFirst
  <1>6. u[L + 1] = e
    <2>1. 1 \in 1 .. Len(one)
      BY <1>2
    <2>2. u[Len(s) + 1] = one[1]
      BY <1>3, <2>1, BothSecond
    <2> QED BY <1>1, <1>2, <2>2
  <1>7. i < L + 1 /\ L + 1 \in 1 .. Len(u) /\ i \in 1 .. Len(u)
    BY <1>3, <1>5
  <1>8. Repeats(u)
    BY <1>5, <1>6, <1>7 DEF Repeats
  <1> QED BY <1>2, <1>3, <1>8

(* Without the first element.                                               *)
LEMMA RepeatsRest ==
  ASSUME NEW s \in Seq(Nat), NEW e \in Nat, Repeats(<<e>> \o s)
  PROVE  Repeats(s) \/ e \in Range(s)
  <1>1. PICK L \in Nat : L = Len(s)
    BY LenProperties
  <1>2. PICK one \in Seq(Nat) : one = <<e>> /\ Len(one) = 1 /\ one[1] = e
    BY OneIn
  <1>0. PICK u \in Seq(Nat) : u = one \o s
    BY Concat
  <1>3. u = one \o s /\ Len(u) = 1 + L /\ Repeats(u)
    <2>1. Len(one \o s) = Len(one) + Len(s)
      BY BothLength
    <2>2. Repeats(u)
      BY <1>0, <1>2
    <2> QED BY <1>0, <1>1, <1>2, <2>1, <2>2
  <1>4. u[1] = e
    <2>1. 1 \in 1 .. Len(one)
      BY <1>2
    <2> QED BY <1>2, <1>3, <2>1, BothFirst
  <1>5. ASSUME NEW i \in 1 .. 1 + L, i # 1 PROVE i - 1 \in 1 .. L /\ u[i] = s[i - 1]
    <2>1. PICK k \in 1 .. L : k = i - 1 /\ 1 + k = i
      <3>1. i - 1 \in 1 .. L /\ 1 + (i - 1) = i
        BY <1>5
      <3> QED BY <3>1
    <2>2. u[Len(one) + k] = s[k]
      BY <1>1, <1>3, BothSecond
    <2> QED BY <1>2, <2>1, <2>2
  <1>6. PICK i \in 1 .. 1 + L, j \in 1 .. 1 + L : i < j /\ u[i] = u[j]
    BY <1>3 DEF Repeats
  <1>7. j # 1
    BY <1>6
  <1>8. j - 1 \in 1 .. L /\ u[j] = s[j - 1]
    BY <1>5, <1>7
  <1>9. CASE i = 1
    <2>1. s[j - 1] \in Range(s)
      BY <1>1, <1>8, RangeIs
    <2> QED BY <1>4, <1>6, <1>8, <1>9, <2>1
  <1>10. CASE i # 1
    <2>1. i - 1 \in 1 .. L /\ u[i] = s[i - 1]
      BY <1>5, <1>10
    <2>2. i - 1 < j - 1 /\ s[i - 1] = s[j - 1]
      BY <1>6, <1>8, <2>1
    <2> QED BY <1>1, <1>8, <2>1, <2>2 DEF Repeats
  <1> QED BY <1>9, <1>10

-----------------------------------------------------------------------------
(* The frames whose images have left the engine, and those whose images are *)
(* in it.  If a request is missing, a frame has several places.             *)
Ahead   == Range(hasOutputs) \union Range(ids) \union Range(internalIDs)
Queued  == Range(IDs(images))
Gap     == \E x, y \in Ahead : x # y
Crowded == Repeats(IDs(images)) \/ Ahead \intersect Queued # {}

(* A packet with images is in pendingIDs, or it has just been taken.        *)
HasImages ==
  \A k \in DOMAIN recorded : arrived[k] # <<>> => k \in DOMAIN pendingIDs \/ (Fresh /\ k = Len(arrived))

RoomOK ==
  /\ HasImages
  /\ freeRequest = 0 /\ Gap => Crowded
  /\ Fresh /\ BatchNum = 1 /\ freeRequest = 1 /\ Gap => Crowded
  /\ Fresh /\ internalIDs # <<>> => batchIndex = 0 /\ freeRequest > 0
  /\ pc = "send" /\ needInput => freeRequest > 0 \/ Crowded
  /\ pc \in {"input", "direct"} \/ Fresh => freeRequest > 0 \/ Crowded

LEMMA AheadTypes ==
  ASSUME BlockTypes
  PROVE  /\ hasOutputs \in Seq(Nat) /\ ids \in Seq(Nat) /\ internalIDs \in Seq(Nat)
         /\ images \in Seq(Image) /\ IDs(images) \in Seq(Nat)
         /\ freeRequest \in Nat /\ batchIndex \in Nat /\ (freeRequest = 0 => batchIndex = 0)
  <1>1. images \in Seq(Image)
    BY DEF BlockTypes, EngineTypes
  <1>2. PICK A \in Nat, B \in Nat : A = AsyncDepth /\ B = BatchNum
    BY EngineAssumption
  <1>3. freeRequest \in Nat /\ batchIndex \in Nat /\ (freeRequest = 0 => batchIndex = 0)
    BY <1>2 DEF BlockTypes, EngineTypes, EngineOK
  <1> QED BY <1>1, <1>3, IDsType DEF BlockTypes, EngineTypes, DataTypes

LEMMA AheadOrQueued ==
  ASSUME BlockTypes, LoopInv
  PROVE  DOMAIN pendingIDs = Ahead \union Queued
  <1>1. PICK h \in Seq(Nat), b \in Seq(Nat) : h = hasOutputs /\ b = Behind
    BY BehindType DEF BlockTypes, DataTypes
  <1>2. PICK w : w = h \o b
    OBVIOUS
  <1>3. Range(w) = Range(h) \union Range(b)
    BY <1>2, NatRange
  <1>4. Range(w) = DOMAIN pendingIDs
    BY <1>1, <1>2 DEF LoopInv, InOrder, WayOK
  <1>5. Range(b) = Range(ids) \union Range(internalIDs) \union Range(IDs(images))
    BY <1>1, BehindOrder
  <1> QED BY <1>1, <1>3, <1>4, <1>5 DEF Ahead, Queued

LEMMA CrowdedSame ==
  ASSUME images' = images, Ahead' = Ahead
  PROVE  (Crowded' <=> Crowded) /\ (Gap' <=> Gap) /\ Queued' = Queued
  <1>1. IDs(images)' = IDs(images)
    BY DEF IDs
  <1>2. Queued' = Queued
    BY <1>1 DEF Queued
  <1>3. Repeats(IDs(images))' <=> Repeats(IDs(images))
    BY <1>1 DEF Repeats
  <1>4. Gap' <=> Gap
    BY DEF Gap
  <1> QED BY <1>2, <1>3, <1>4 DEF Crowded

(* At most one frame has left: hasOutputs has no other.                     *)
LEMMA NoGap ==
  ASSUME BlockTypes, ids = <<>>, internalIDs = <<>>, Len(hasOutputs) <= 1
  PROVE  Ahead = Range(hasOutputs) /\ ~Gap
  <1>1. Range(<<>>) = {}
    BY DEF Range
  <1>2. Ahead = Range(hasOutputs)
    BY <1>1 DEF Ahead
  <1>3. PICK h \in Seq(Nat), L \in Nat : h = hasOutputs /\ L = Len(h) /\ L <= 1
    BY LenProperties DEF BlockTypes, DataTypes
  <1>4. ASSUME NEW x \in Range(h), NEW y \in Range(h) PROVE x = y
    <2>1. PICK i \in 1 .. L : h[i] = x
      BY <1>3, RangeIs
    <2>2. PICK j \in 1 .. L : h[j] = y
      BY <1>3, RangeIs
    <2>3. i = j
      BY <1>3
    <2> QED BY <2>1, <2>2, <2>3
  <1> QED BY <1>2, <1>3, <1>4 DEF Gap

LEMMA RoomInit ==
  ASSUME Init, BlockTypes
  PROVE  RoomOK
  <1>1. ids = <<>> /\ internalIDs = <<>> /\ hasOutputs = <<>> /\ pc = "input" /\ freeRequest = AsyncDepth
    BY DEF Init, EngineInit
  <1>2. Len(hasOutputs) = 0 /\ DOMAIN recorded = {}
    BY EmptySeq DEF Init
  <1>3. ~Gap
    BY <1>1, <1>2, NoGap
  <1>4. freeRequest > 0
    BY <1>1, EngineAssumption
  <1>5. ~Fresh
    BY <1>1 DEF Fresh
  <1> QED BY <1>1, <1>2, <1>3, <1>4, <1>5 DEF RoomOK, HasImages

(* The engine, and what has left it, are as before.                         *)
LEMMA RoomKept ==
  ASSUME RoomOK, HasImages', UNCHANGED <<freeRequest, images, batchIndex, internalIDs>>, Ahead' = Ahead,
         Fresh' => Fresh \/ (pc = "input" /\ ~Gap /\ internalIDs = <<>>),
         pc' = "send" => pc = "send" /\ needInput' = needInput,
         pc' = "input" => pc \in {"input", "direct"} \/ (pc = "send" /\ needInput),
         pc' = "direct" => pc = "input" \/ pc = "direct"
  PROVE  RoomOK'
  <1>1. (Crowded' <=> Crowded) /\ (Gap' <=> Gap)
    BY CrowdedSame
  <1> QED BY <1>1 DEF RoomOK

(* The packets that are recorded, and how many images they have.            *)
LEMMA HasImagesKept ==
  ASSUME BlockTypes, HasImages, DOMAIN recorded' \subseteq DOMAIN recorded, arrived' = arrived,
         pendingIDs' = pendingIDs, pc' = pc
  PROVE  HasImages'
  BY DEF HasImages, Fresh

LEMMA StillThere ==
  ASSUME BlockTypes, NEW c \in network, arrived' = Append(arrived, c), NEW k \in DOMAIN recorded
  PROVE  arrived'[k] = arrived[k] /\ k \in Nat /\ k <= Len(arrived)
  <1>1. arrived \in Seq(network)
    BY DEF BlockTypes, DataTypes
  <1>2. k \in 1 .. Len(arrived)
    BY DEF BlockTypes, ControlTypes
  <1>3. PICK A \in Nat : A = Len(arrived)
    BY <1>1, LenProperties
  <1> QED BY <1>1, <1>2, <1>3, AppendProperties

LEMMA RoomAcquire ==
  ASSUME BlockTypes, LoopInv, RoomOK, AcquireInput
  PROVE  RoomOK'
  <1>1. PICK c \in network :
          /\ arrived' = Append(arrived, c)
          /\ \/ /\ c = <<>> /\ DOMAIN pendingIDs = {}
                /\ pc' = "direct"
                /\ UNCHANGED <<todo, packets>>
             \/ /\ c = <<>> /\ DOMAIN pendingIDs # {}
                /\ recorded' = Set(recorded, Len(arrived) + 1, 0)
                /\ pendingIDs' = Set(pendingIDs, lastInferID,
                                     Append(Get(pendingIDs, lastInferID, <<>>), Len(arrived) + 1))
                /\ pc' = "collect"
                /\ UNCHANGED <<todo, hasOutputs, lastInferID>>
             \/ /\ c # <<>>
                /\ recorded' = Set(recorded, Len(arrived) + 1, 0)
                /\ todo' = c
                /\ pc' = "insert"
                /\ UNCHANGED <<hasOutputs, pendingIDs, lastInferID>>
    BY Zenon DEF AcquireInput
  <1>2. /\ pc = "input"
        /\ UNCHANGED <<engine, network, pass, sending, needInput, sent, stop>>
    BY Zenon DEF AcquireInput
  <1>3. /\ Len(hasOutputs) <= 1 /\ ids = <<>> /\ internalIDs = <<>>
        /\ UNCHANGED <<freeRequest, images, batchIndex, internalIDs, ids>>
    BY <1>2, AtInput, AcquireSame
  <1>4. ~Gap
    BY <1>3, NoGap
  <1>5. PICK A \in Nat : A = Len(arrived)
    BY Counts
  <1>6. arrived'[A + 1] = c /\ Len(arrived') = A + 1
    <2>1. arrived \in Seq(network)
      BY DEF BlockTypes, DataTypes
    <2> QED BY <1>1, <1>5, <2>1, AppendProperties
  <1>7. hasOutputs' = hasOutputs /\ DOMAIN pendingIDs \subseteq DOMAIN pendingIDs'
    BY <1>1 DEF packets, Set
  <1>8. Ahead' = Ahead
    BY <1>3, <1>7 DEF Ahead
  <1>9. ~Fresh
    BY <1>2 DEF Fresh
  <1>10. \A k \in DOMAIN recorded' : k \in DOMAIN recorded \/ (k = A + 1 /\ c = <<>>) \/ (k = A + 1 /\ pc' = "insert")
    BY <1>1, <1>5 DEF packets, Set
  <1>11. pc' = "insert" => Fresh'
    <2>1. A + 1 \notin DOMAIN pendingIDs
      BY <1>5 DEF BlockTypes, ControlTypes
    <2>2. pc' = "insert" => pendingIDs' = pendingIDs
      BY <1>1
    <2> QED BY <1>6, <2>1, <2>2 DEF Fresh
  <1>12. HasImages'
    <2> SUFFICES ASSUME NEW k \in DOMAIN recorded', arrived'[k] # <<>>
                 PROVE  k \in DOMAIN pendingIDs' \/ (Fresh' /\ k = Len(arrived'))
      BY DEF HasImages
    <2>1. CASE k \in DOMAIN recorded
      <3>1. arrived[k] # <<>>
        BY <1>1, <2>1, StillThere
      <3>2. k \in DOMAIN pendingIDs
        BY <1>9, <2>1, <3>1 DEF RoomOK, HasImages
      <3> QED BY <1>7, <3>2
    <2>2. CASE k = A + 1 /\ c = <<>>
      BY <1>6, <2>2
    <2>3. CASE k = A + 1 /\ pc' = "insert"
      BY <1>6, <1>11, <2>3
    <2> QED BY <1>10, <2>1, <2>2, <2>3
  <1> QED BY <1>1, <1>2, <1>3, <1>4, <1>8, <1>12, RoomKept

(* Images move to the internal buffers.                                     *)
LEMMA RoomWaits ==
  ASSUME BlockTypes, LoopInv, RoomOK, InsertWaits
  PROVE  RoomOK'
  <1>1. /\ pc = "insert" /\ pc' = "insert" /\ MakeRoom /\ (Fresh' <=> Fresh)
        /\ UNCHANGED <<network, arrived, recorded, hasOutputs, pendingIDs>>
    BY DEF InsertWaits, packets, Fresh
  <1>2. PICK p \in Seq(Image), n \in Nat :
          /\ EngineTypes' /\ images = p \o images'
          /\ internalIDs' = internalIDs \o IDs(p)
          /\ n > 0 /\ freeRequest = 0 /\ freeRequest' = n /\ Len(p) = n * BatchNum /\ p # <<>>
          /\ batchIndex' = batchIndex /\ ids' = ids
    BY <1>1, RoomEffect DEF BlockTypes
  <1>3. HasImages'
    BY <1>1 DEF RoomOK, HasImages
  <1>4. batchIndex' = 0 /\ freeRequest' > 0
    BY <1>2, AheadTypes
  <1>5. ASSUME Fresh', BatchNum = 1, freeRequest' = 1, Gap' PROVE Crowded'
    <2>1. ids = <<>> /\ Len(hasOutputs) <= 1
      BY <1>1 DEF LoopInv, Place
    <2>2. internalIDs = <<>>
      BY <1>1, <1>2, <1>5 DEF RoomOK
    <2>3. Ahead = Range(hasOutputs) /\ ~Gap
      BY <2>1, <2>2, NoGap
    <2>4. Crowded
      BY <1>1, <1>2, <1>5 DEF RoomOK
    <2>5. Len(p) = 1
      BY <1>2, <1>5
    <2>6. PICK s \in Seq(Nat), t \in Seq(Nat) : s = IDs(p) /\ t = IDs(images') /\ Len(s) = 1
      BY <1>2, <2>5, IDsType, IDsLength DEF EngineTypes
    <2>7. PICK e \in Nat : e = s[1]
      <3>1. 1 \in 1 .. Len(s)
        BY <2>6
      <3> QED BY <3>1, ElementOfSeq
    <2>8. PICK one \in Seq(Nat) : one = <<e>> /\ Len(one) = 1 /\ one[1] = e
      BY OneIn
    <2>9. s = one
      <3>1. \A i \in 1 .. Len(s) : s[i] = one[i]
        BY <2>6, <2>7, <2>8
      <3> QED BY <2>6, <2>8, <3>1, SeqEqual
    <2>10. Range(s) = {e}
      <3>1. DOMAIN one = 1 .. 1
        BY <2>8, LenProperties
      <3> QED BY <2>8, <2>9, <3>1 DEF Range
    <2>11. IDs(images) = s \o t
      <3>1. images' \in Seq(Image)
        BY <1>2 DEF EngineTypes
      <3> QED BY <1>2, <2>6, <3>1, IDsOfBoth
    <2>12. PICK q : q = IDs(images) /\ q = s \o t /\ Range(q) = {e} \union Range(t)
      <3>1. PICK q : q = s \o t
        OBVIOUS
      <3>2. Range(q) = Range(s) \union Range(t)
        BY <3>1, NatRange
      <3> QED BY <2>10, <2>11, <3>1, <3>2
    <2>13. internalIDs' = s
      BY <1>2, <2>2, <2>6, Concat
    <2>14. Ahead' = Ahead \union {e}
      <3>1. Ahead' = Range(hasOutputs') \union Range(ids') \union Range(internalIDs')
        BY DEF Ahead, Range
      <3>2. Range(ids) = {}
        BY <2>1 DEF Range
      <3> QED BY <1>1, <1>2, <2>3, <2>10, <2>13, <3>1, <3>2
    <2>15. Queued' = Range(t) /\ IDs(images)' = t
      BY <2>6 DEF Queued, IDs, Range
    <2>16. e \notin Ahead
      <3> SUFFICES ASSUME e \in Ahead PROVE FALSE
        OBVIOUS
      <3>1. Ahead' = Ahead
        BY <2>14
      <3> QED BY <1>5, <2>3, <3>1 DEF Gap
    <2>17. CASE Repeats(q)
      <3>1. Repeats(one \o t)
        BY <2>9, <2>12, <2>17
      <3>2. Repeats(t) \/ e \in Range(t)
        BY <2>8, <3>1, RepeatsRest
      <3>3. Repeats(t) => Repeats(IDs(images))'
        BY <2>15 DEF Repeats
      <3> QED BY <2>14, <2>15, <3>2, <3>3 DEF Crowded
    <2>18. CASE Ahead \intersect Queued # {}
      <3>1. PICK x \in Ahead : x \in {e} \union Range(t)
        BY <2>12, <2>18 DEF Queued
      <3>2. x \in Range(t)
        BY <2>16, <3>1
      <3> QED BY <2>14, <2>15, <3>1, <3>2 DEF Crowded
    <2> QED BY <2>4, <2>12, <2>17, <2>18 DEF Crowded
  <1> QED BY <1>1, <1>2, <1>3, <1>4, <1>5 DEF RoomOK

(* One more image: if its frame has others here, the engine is crowded.     *)
LEMMA RoomInsert ==
  ASSUME BlockTypes, LoopInv, RoomOK, Insert
  PROVE  RoomOK'
  <1>1. /\ pc = "insert" /\ pc' \in {"insert", "collect"}
        /\ InsertImage([id |-> Len(arrived), found |-> Head(todo)])
        /\ pendingIDs' = Set(pendingIDs, Len(arrived), Get(pendingIDs, Len(arrived), <<>>))
        /\ UNCHANGED <<arrived, recorded, hasOutputs>>
    BY DEF Insert
  <1>2. PICK A \in Nat, L \in Nat : A = Len(arrived) /\ L = Len(todo) /\ L > 0
    BY <1>1, Counts, LenProperties, EmptySeq DEF BlockTypes, DataTypes, LoopInv, Place
  <1>3. PICK image \in Image : image = [id |-> A, found |-> Head(todo)]
    <2>1. todo \in Seq(Nat) /\ todo # <<>>
      BY <1>1 DEF BlockTypes, DataTypes, LoopInv, Place
    <2>2. Head(todo) \in Nat
      BY <2>1, HeadTailProperties
    <2> QED BY <2>2 DEF Image
  <1>4. images' = images \o <<image>> /\ image.id = A
    BY <1>1, <1>2, <1>3, InsertTypes DEF BlockTypes
  <1>5. UNCHANGED <<internalIDs, ids>> /\ ids = <<>> /\ Len(hasOutputs) <= 1
    BY <1>1 DEF InsertImage, internal, outputs, LoopInv, Place
  <1>6. Ahead' = Ahead /\ (Gap' <=> Gap)
    BY <1>1, <1>5 DEF Ahead, Gap
  <1>7. PICK s \in Seq(Nat), t \in Seq(Nat) : s = IDs(images) /\ t = <<A>> /\ IDs(images') = s \o t
    <2>1. PICK v \in Seq(Image) : v = <<image>> /\ Len(v) = 1 /\ v[1] = image
      BY OneIn
    <2>2. images \in Seq(Image) /\ IDs(images) \in Seq(Nat)
      BY AheadTypes
    <2>3. IDs(images') = IDs(images) \o IDs(v)
      BY <1>4, <2>1, <2>2, IDsOfBoth
    <2>4. PICK one \in Seq(Nat) : one = <<A>> /\ Len(one) = 1 /\ one[1] = A
      BY OneIn
    <2>5. IDs(v) = one
      <3>1. IDs(v) \in Seq(Nat) /\ Len(IDs(v)) = 1
        BY <2>1, IDsType, IDsLength
      <3>2. 1 \in 1 .. Len(v)
        BY <2>1
      <3>3. IDs(v)[1] = A
        BY <1>4, <2>1, <3>2, IDsElement
      <3>4. \A i \in 1 .. Len(IDs(v)) : IDs(v)[i] = one[i]
        BY <2>4, <3>1, <3>3
      <3> QED BY <2>4, <3>1, <3>4, SeqEqual
    <2> QED BY <2>2, <2>3, <2>4, <2>5
  <1>8. Range(t) = {A}
    BY <1>7 DEF Range
  <1>9. PICK q : q = s \o t /\ Range(q) = Range(s) \union {A}
    <2>1. PICK q : q = s \o t
      OBVIOUS
    <2>2. Range(q) = Range(s) \union Range(t)
      BY <2>1, NatRange
    <2> QED BY <1>8, <2>1, <2>2
  <1>10. Queued' = Queued \union {A} /\ (Repeats(q) => Repeats(IDs(images))')
    <2>1. IDs(images)' = q
      BY <1>7, <1>9 DEF IDs
    <2> QED BY <1>7, <1>9, <2>1 DEF Queued, Repeats
  <1>11. Crowded => Crowded'
    <2>1. Repeats(s) => Repeats(q)
      BY <1>9, RepeatsLonger
    <2> QED BY <1>6, <1>7, <1>10, <2>1 DEF Crowded
  <1>12. A \in Ahead \union Queued => Crowded'
    <2>1. CASE A \in Ahead
      BY <1>6, <1>10, <2>1 DEF Crowded
    <2>2. CASE A \in Range(s)
      <3>1. Repeats(s \o <<A>>)
        BY <2>2, RepeatsAppended
      <3> QED BY <1>7, <1>9, <1>10, <3>1 DEF Crowded
    <2> QED BY <1>7, <2>1, <2>2 DEF Queued
  <1>13. A \in DOMAIN pendingIDs' /\ DOMAIN pendingIDs' = DOMAIN pendingIDs \union {A}
    BY <1>1, <1>2 DEF Set
  <1>14. ~Fresh'
    BY <1>1, <1>2, <1>13 DEF Fresh
  <1>15. HasImages'
    BY <1>1, <1>2, <1>13 DEF RoomOK, HasImages
  <1>16. ASSUME freeRequest' = 0, Gap' PROVE Crowded'
    <2>1. CASE Fresh
      <3>1. internalIDs # <<>>
        BY <1>5, <1>6, <1>16, NoGap
      <3>2. batchIndex = 0 /\ freeRequest > 0
        BY <2>1, <3>1 DEF RoomOK
      <3>3. PICK B \in Nat, F \in Nat : B = BatchNum /\ F = freeRequest /\ B > 0
        <4>1. freeRequest \in Nat
          BY AheadTypes
        <4>2. BatchNum \in Nat /\ BatchNum > 0
          BY EngineAssumption
        <4> QED BY <4>1, <4>2
      <3>4. freeRequest' = IF 0 + 1 >= B THEN F - 1 ELSE F
        BY <1>1, <3>2, <3>3 DEF InsertImage, requests
      <3>5. B = 1 /\ F = 1
        BY <1>16, <3>2, <3>3, <3>4
      <3> QED BY <1>6, <1>11, <1>16, <2>1, <3>3, <3>5 DEF RoomOK
    <2>2. CASE ~Fresh
      <3>1. A \in DOMAIN pendingIDs
        BY <1>1, <1>2, <2>2 DEF Fresh
      <3> QED BY <1>12, <3>1, AheadOrQueued
    <2> QED BY <2>1, <2>2
  <1> QED BY <1>1, <1>14, <1>15, <1>16 DEF RoomOK

LEMMA RoomCollect ==
  ASSUME BlockTypes, LoopInv, RoomOK, Collect
  PROVE  RoomOK'
  <1>1. /\ pc = "collect" /\ GetOutput /\ pc' \in {"collect", "attach"}
        /\ UNCHANGED <<arrived, recorded, hasOutputs, pendingIDs>>
    BY DEF Collect, packets
  <1>2. EngineTypes /\ (internalIDs # <<>> => internalDatas # <<>>)
    BY DEF BlockTypes, LoopInv, FlagsOK
  <1>3. PICK p \in Seq(Image), n \in Nat :
           /\ EngineTypes' /\ images = p \o images'
           /\ ids' = (ids \o internalIDs) \o IDs(p)
           /\ internalIDs' = <<>>
           /\ freeRequest \in Nat /\ freeRequest' = freeRequest + n /\ Len(p) = n * BatchNum
    BY <1>1, <1>2, GetEffect
  <1>4. ~Fresh /\ ~Fresh'
    BY <1>1 DEF Fresh
  <1>5. HasImages'
    BY <1>1, <1>4 DEF RoomOK, HasImages
  <1>6. ASSUME freeRequest' = 0, Gap' PROVE Crowded'
    <2>1. freeRequest = 0 /\ n = 0
      BY <1>3, <1>6
    <2>2. Len(p) = 0
      BY <1>3, <2>1, EngineAssumption
    <2>3. p = <<>>
      BY <2>2, EmptySeq
    <2>4. images' = images
      <3>1. images' \in Seq(Image)
        BY <1>3 DEF EngineTypes
      <3> QED BY <1>3, <2>3, <3>1, Concat
    <2>5. PICK s, t, u : s = ids /\ t = internalIDs /\ u = s \o t /\ s \in Seq(Nat) /\ t \in Seq(Nat)
      BY AheadTypes
    <2>6. ids' = u
      <3>1. IDs(p) = <<>>
        BY <2>3, NothingTranslated
      <3>2. u \in Seq(Nat)
        BY <2>5, Concat
      <3> QED BY <1>3, <2>5, <3>1, <3>2, Concat
    <2>7. Range(u) = Range(s) \union Range(t)
      BY <2>5, NatRange
    <2>8. Range(internalIDs') = {}
      BY <1>3 DEF Range
    <2>9. Ahead' = Range(hasOutputs') \union Range(ids') \union Range(internalIDs')
      BY DEF Ahead, Range
    <2>10. Ahead' = Ahead
      BY <1>1, <2>5, <2>6, <2>7, <2>8, <2>9 DEF Ahead
    <2> QED BY <1>6, <2>1, <2>4, <2>10, CrowdedSame DEF RoomOK
  <1> QED BY <1>1, <1>4, <1>5, <1>6 DEF RoomOK

LEMMA RoomAttach ==
  ASSUME BlockTypes, LoopInv, BlockTypes', LoopInv', RoomOK, Attach
  PROVE  RoomOK'
  <1>0. PICK q : q = Pushed(hasOutputs, ids)
    OBVIOUS
  <1>1. PICK k \in {0, 1} :
          /\ q = Pushed(hasOutputs, ids)
          /\ k = IF flags.inferenceFree /\ ~flags.isPendingTasks THEN 0 ELSE 1
    BY <1>0
  <1>2. /\ pc = "attach" /\ hasOutputs' = q
        /\ IF q = <<>>
             THEN /\ Continue(flags.inferenceFree \/ ~flags.isAllWorkerBusy)
                  /\ UNCHANGED toSend
             ELSE /\ toSend' = Len(q) - k
                  /\ needInput' = ~(Len(q) - k = 0 /\ ~flags.inferenceFree /\ flags.isAllWorkerBusy)
                  /\ pc' = "send"
        /\ ids' = <<>>
        /\ UNCHANGED <<freeRequest, images, batchIndex, internalIDs, arrived, pendingIDs, sent>>
    BY <1>1 DEF Attach, requests, internal
  <1>3. PICK h \in Seq(Nat), i \in Seq(Nat) : h = hasOutputs /\ i = ids
    BY AheadTypes
  <1>4. q \in Seq(Nat) /\ Ascending(q) /\ Range(q) = Range(h) \union Range(i) /\ Len(q) \in Nat
    <2>1. WayOK(pendingIDs, First, Coming, lastInferID, hasOutputs, Behind)
      BY DEF LoopInv, InOrder
    <2>2. PICK t \in Seq(Nat) : t = internalIDs \o IDs(images)
      BY AheadTypes, Concat
    <2>3. Behind = i \o t
      BY <1>3, <2>2 DEF Behind
    <2>4. Ascending(h) /\ Sorted(h \o (i \o t))
      BY <1>3, <2>1, <2>3 DEF WayOK
    <2>5. Associate(h, i, t)
      BY Concat
    <2>6. PICK w \in Seq(Nat) : w = h \o i
      BY Concat
    <2>7. Sorted(w \o t)
      BY <2>4, <2>5, <2>6, Zenon DEF Associate
    <2>8. Sorted(h \o i)
      BY <2>6, <2>7, SortedParts
    <2> QED BY <1>1, <1>3, <2>4, <2>8, PushedInOrder
  <1>5. Ahead' = Ahead
    <2>1. Range(ids') = {}
      BY <1>2 DEF Range
    <2>2. Ahead' = Range(hasOutputs') \union Range(ids') \union Range(internalIDs')
      BY DEF Ahead, Range
    <2> QED BY <1>2, <1>3, <1>4, <2>1, <2>2 DEF Ahead
  <1>6. (Crowded' <=> Crowded) /\ (Gap' <=> Gap)
    BY <1>2, <1>5, CrowdedSame
  <1>7. pc' \in {"input", "collect", "send"}
    BY <1>2 DEF Continue
  <1>8. ~Fresh /\ ~Fresh'
    BY <1>2, <1>7 DEF Fresh
  <1>9. HasImages'
    <2>1. DOMAIN recorded' = DOMAIN recorded
      BY <1>2, <1>7 DEF LoopInv, RecordedOK
    <2> QED BY <1>2, <1>8, <2>1 DEF RoomOK, HasImages
  <1>10. (freeRequest = 0 => ~flags.inferenceFree /\ flags.isAllWorkerBusy)
    BY <1>2, AheadTypes DEF LoopInv, FlagsOK
  <1>11. ASSUME pc' = "send", needInput', freeRequest = 0 PROVE Crowded
    <2>1. q # <<>>
      BY <1>2, <1>10, <1>11 DEF Continue
    <2>2. k = 1
      BY <1>1, <1>10, <1>11
    <2>3. PICK L \in Nat : L = Len(q) /\ L # 0 /\ L - k # 0
      BY <1>2, <1>4, <1>10, <1>11, <2>1, EmptySeq
    <2>4. L >= 2 /\ 1 \in 1 .. L /\ 2 \in 1 .. L
      BY <2>2, <2>3
    <2>5. q[1] < q[2] /\ q[1] \in Range(q) /\ q[2] \in Range(q)
      BY <1>4, <2>3, <2>4, RangeIs DEF Ascending
    <2>6. q[1] # q[2]
      BY <1>4, <2>3, <2>4, <2>5, ElementOfSeq
    <2>7. Gap
      BY <1>3, <1>4, <2>5, <2>6 DEF Gap, Ahead
    <2> QED BY <1>11, <2>7 DEF RoomOK
  <1>12. ASSUME pc' = "input" PROVE freeRequest # 0
    <2>1. flags.inferenceFree \/ ~flags.isAllWorkerBusy
      BY <1>2, <1>12 DEF Continue
    <2> QED BY <1>10, <2>1
  <1>13. freeRequest \in Nat
    BY AheadTypes
  <1> QED BY <1>2, <1>6, <1>7, <1>8, <1>9, <1>11, <1>12, <1>13 DEF RoomOK

(* The frame that leaves has no image in the engine.                        *)
LEMMA FirstNotQueued ==
  ASSUME BlockTypes, LoopInv, pc = "send", toSend > 0
  PROVE  /\ hasOutputs \in Seq(Nat) /\ hasOutputs # <<>> /\ Head(hasOutputs) = First
         /\ First \in DOMAIN pendingIDs /\ First \notin Queued
  <1>1. PICK h \in Seq(Nat), b \in Seq(Nat) : h = hasOutputs /\ b = Behind
    BY AheadTypes, BehindType DEF BlockTypes
  <1>2. PICK L \in Nat : L = Len(h)
    BY LenProperties
  <1>3. h # <<>> /\ (L = 1 => b = <<>>)
    <2>1. toSend \in 1 .. L
      BY <1>1, <1>2 DEF BlockTypes, ControlTypes
    <2>2. L = 1 => toSend = L
      BY <2>1
    <2> QED BY <1>1, <1>2, <2>1, <2>2, EmptySeq DEF LoopInv, Place
  <1>4. PendingTyped(pendingIDs) /\ WayOK(pendingIDs, First, Coming, lastInferID, h, b)
    BY <1>1 DEF BlockTypes, DataTypes, LoopInv, InOrder
  <1>5. First \in Nat /\ Coming \in Nat
    BY Counts
  <1>6. First \in DOMAIN pendingIDs /\ Head(h) = First
    BY <1>3, <1>4, <1>5, WayFirst
  <1>7. Len(h) = 1 => b = <<>>
    BY <1>2, <1>3
  <1>8. First \notin Range(b)
    BY <1>3, <1>4, <1>5, <1>7, FirstNotBehind
  <1>9. First \notin Queued
    BY <1>1, <1>8, BehindOrder DEF Queued
  <1> QED BY <1>1, <1>3, <1>6, <1>9

LEMMA RoomSend ==
  ASSUME BlockTypes, LoopInv, BlockTypes', RoomOK, Send
  PROVE  RoomOK'
  <1>1. /\ pc = "send" /\ pc' = "send" /\ toSend > 0
        /\ hasOutputs' = Tail(hasOutputs)
        /\ recorded' = Erase(recorded, Head(hasOutputs))
        /\ pendingIDs' = Erase(pendingIDs, Head(hasOutputs))
        /\ UNCHANGED <<engine, arrived, needInput>>
    BY DEF Send
  <1>2. UNCHANGED <<freeRequest, images, batchIndex, internalIDs, ids>>
    BY <1>1 DEF engine, requests, internal, outputs
  <1>3. PICK h \in Seq(Nat) : h = hasOutputs /\ h # <<>> /\ Head(h) = First
    BY <1>1, FirstNotQueued
  <1>7. First \in DOMAIN pendingIDs /\ First \notin Queued
    BY <1>1, FirstNotQueued
  <1>8. Range(h) = {First} \union Range(hasOutputs')
    <2>1. Range(h) = {Head(h)} \union Range(Tail(h))
      BY <1>3, HeadAndTail
    <2> QED BY <1>1, <1>3, <2>1
  <1>9. Ahead' = Range(hasOutputs') \union Range(ids') \union Range(internalIDs')
    BY DEF Ahead, Range
  <1>10. Ahead = {First} \union Ahead'
    BY <1>2, <1>3, <1>8, <1>9 DEF Ahead
  <1>11. Gap' => Gap
    BY <1>10 DEF Gap
  <1>12. Crowded => Crowded'
    <2>1. IDs(images)' = IDs(images)
      BY <1>2 DEF IDs
    <2>2. Queued' = Queued
      BY <2>1 DEF Queued
    <2>3. Repeats(IDs(images))' <=> Repeats(IDs(images))
      BY <2>1 DEF Repeats
    <2> QED BY <1>7, <1>10, <2>2, <2>3 DEF Crowded
  <1>13. ~Fresh /\ ~Fresh'
    BY <1>1 DEF Fresh
  <1>14. HasImages'
    <2>1. DOMAIN recorded' = DOMAIN recorded \ {First} /\ DOMAIN pendingIDs' = DOMAIN pendingIDs \ {First}
      BY <1>1, <1>3 DEF Erase, Restrict
    <2> QED BY <1>1, <1>13, <2>1 DEF RoomOK, HasImages
  <1> QED BY <1>1, <1>2, <1>11, <1>12, <1>13, <1>14 DEF RoomOK

(* Steps that leave the engine and hasOutputs alone.                        *)
LEMMA RoomOthers ==
  ASSUME BlockTypes, LoopInv, RoomOK, pc' # "ended",
         SendDirect \/ SendFollowing \/ Sent \/ Stop \/ (Device /\ UNCHANGED others) \/ UNCHANGED vars
  PROVE  RoomOK'
  <1>1. /\ UNCHANGED <<freeRequest, images, batchIndex, internalIDs, ids, hasOutputs, arrived, pendingIDs>>
        /\ DOMAIN recorded' \subseteq DOMAIN recorded
    <2>1. CASE SendDirect \/ Sent \/ Stop \/ UNCHANGED vars
      BY <2>1 DEF SendDirect, Sent, Stop, vars, engine, requests, internal, outputs, packets
    <2>2. CASE SendFollowing
      BY <2>2 DEF SendFollowing, engine, requests, internal, outputs, Erase, Restrict
    <2>3. CASE Device /\ UNCHANGED others
      BY <2>3 DEF Device, Complete, Fail, others, internal, outputs, packets
    <2> QED BY <2>1, <2>2, <2>3
  <1>2. \/ pc' = pc /\ needInput' = needInput
        \/ pc = "direct" /\ pc' = "input"
        \/ pc = "send" /\ pc' = (IF needInput THEN "input" ELSE "collect")
    BY DEF SendDirect, SendFollowing, Sent, Continue, Stop, others, vars
  <1>3. Ahead' = Ahead
    BY <1>1 DEF Ahead
  <1>4. Fresh' <=> Fresh
    BY <1>1, <1>2 DEF Fresh
  <1>5. HasImages'
    BY <1>1, <1>4 DEF RoomOK, HasImages
  <1> QED BY <1>1, <1>2, <1>3, <1>4, <1>5, RoomKept

-----------------------------------------------------------------------------
Held == {id \in DOMAIN recorded : arrived[id] # <<>>}

LEMMA HeldFinite ==
  ASSUME BlockTypes
  PROVE  IsFiniteSet(Held) /\ Cardinality(Held) \in Nat
  <1>1. PICK A \in Nat : A = Len(arrived)
    BY Counts
  <1>2. IsFiniteSet(1 .. A)
    BY <1>1, FS_Interval
  <1>3. Held \in SUBSET (1 .. A)
    BY <1>1 DEF Held, BlockTypes, ControlTypes
  <1>4. IsFiniteSet(Held)
    BY <1>2, <1>3, FS_Subset
  <1> QED BY <1>4, FS_CardinalityType

LEMMA PlacesNat ==
  \E N \in Nat : N = AsyncDepth * BatchNum
  <1>1. PICK A \in Nat, B \in Nat : A = AsyncDepth /\ B = BatchNum
    BY EngineAssumption
  <1>2. A * B \in Nat
    BY <1>1
  <1> QED BY <1>1, <1>2

LEMMA HeldFewer ==
  ASSUME BlockTypes, HeldPackets, NEW H, H \subseteq Held
  PROVE  Cardinality(H) <= AsyncDepth * BatchNum + 1
  <1>1. PICK N \in Nat : N = AsyncDepth * BatchNum
    BY PlacesNat
  <1>2. IsFiniteSet(Held) /\ Cardinality(Held) <= N + 1
    BY <1>1, HeldFinite DEF HeldPackets, Held
  <1>3. IsFiniteSet(H) /\ Cardinality(H) <= Cardinality(Held)
    BY <1>2, FS_Subset
  <1>4. Cardinality(H) \in Nat /\ Cardinality(Held) \in Nat
    BY <1>2, <1>3, FS_CardinalityType
  <1> QED BY <1>1, <1>2, <1>3, <1>4

(* When the block asks for a packet, there is a place in the engine for     *)
(* each packet with images but one, or two of its images are of one packet. *)
LEMMA HeldAtInput ==
  ASSUME BlockTypes, LoopInv, RoomOK, pc = "input"
  PROVE  Cardinality(Held) <= AsyncDepth * BatchNum
  <1>1. PICK h \in Seq(Nat), s \in Seq(Nat) : h = hasOutputs /\ s = IDs(images) /\ Len(s) = Len(images)
    BY AheadTypes, IDsLength
  <1>2. PICK a \in Nat, m \in Nat : a = Len(h) /\ m = Len(s) /\ a <= 1
    BY <1>1, LenProperties, AtInput
  <1>3. Ahead = Range(h) /\ ~Gap /\ Queued = Range(s)
    BY <1>1, AtInput, NoGap DEF Queued
  <1>4. Held \subseteq Range(h) \union Range(s)
    <2>1. Held \subseteq DOMAIN pendingIDs
      BY DEF Held, RoomOK, HasImages, Fresh
    <2> QED BY <1>3, <2>1, AheadOrQueued
  <1>5. PICK R, Q : R = Range(h) /\ Q = Range(s)
    OBVIOUS
  <1>6. PICK r \in Nat : r = Cardinality(R) /\ r <= 1 /\ IsFiniteSet(R)
    BY <1>2, <1>5, RangeSize
  <1>7. PICK k \in Nat : k = Cardinality(Q) /\ k <= m /\ IsFiniteSet(Q) /\ (Repeats(s) => k < m)
    BY <1>2, <1>5, RangeSize
  <1>8. IsFiniteSet(R \union Q) /\ Cardinality(R \union Q) = r + k - Cardinality(R \intersect Q)
    BY <1>6, <1>7, FS_Union
  <1>9. PICK c \in Nat : c = Cardinality(R \intersect Q)
    <2>1. IsFiniteSet(R \intersect Q)
      BY <1>6, FS_Subset
    <2> QED BY <2>1, FS_CardinalityType
  <1>10. PICK N \in Nat : N = AsyncDepth * BatchNum /\ m <= N /\ (freeRequest > 0 => m < N)
    <2>1. PICK A \in Nat, B \in Nat, F \in Nat, L \in Nat, i \in Nat :
            A = AsyncDepth /\ B = BatchNum /\ F = freeRequest /\ L = Len(busyRequest) /\ i = batchIndex
      BY AheadTypes, EngineAssumption, LenProperties DEF BlockTypes, EngineTypes
    <2>2. F + L = A /\ m = L * B + i /\ i < B /\ (F = 0 => i = 0)
      BY <1>1, <1>2, <2>1, AheadTypes DEF BlockTypes, EngineTypes, EngineOK
    <2>3. L <= A /\ (F > 0 => L + 1 <= A) /\ L + 1 \in Nat
      BY <2>2
    <2>4. L * B \in Nat /\ A * B \in Nat /\ L * B <= A * B /\ (L + 1) * B = L * B + B
      BY <2>3, Shorter
    <2>5. F > 0 => (L + 1) * B <= A * B
      BY <2>3, Shorter
    <2>6. F > 0 => m < A * B
      BY <2>2, <2>4, <2>5
    <2>7. F = 0 => m = A * B
      BY <2>2
    <2>8. m <= A * B
      BY <2>4, <2>6, <2>7
    <2> QED BY <2>1, <2>4, <2>6, <2>8
  <1>11. Cardinality(R \union Q) <= N
    <2>1. CASE freeRequest > 0
      BY <1>6, <1>7, <1>8, <1>9, <1>10, <2>1
    <2>2. CASE Repeats(s)
      BY <1>6, <1>7, <1>8, <1>9, <1>10, <2>2
    <2>3. CASE R \intersect Q # {}
      <3>1. R \subseteq Q
        BY <1>3, <1>5, <2>3 DEF Gap
      <3>2. R \union Q = Q
        BY <3>1
      <3>3. Cardinality(R \union Q) = k
        BY <1>7, <3>2, Zenon
      <3> QED BY <1>7, <1>10, <3>3
    <2>4. freeRequest > 0 \/ Crowded
      BY DEF RoomOK
    <2> QED BY <1>1, <1>3, <1>5, <2>1, <2>2, <2>3, <2>4 DEF Crowded
  <1>12. Cardinality(Held) <= Cardinality(R \union Q) /\ IsFiniteSet(Held)
    BY <1>4, <1>5, <1>8, FS_Subset
  <1>13. Cardinality(Held) \in Nat /\ Cardinality(R \union Q) \in Nat
    BY <1>8, <1>12, FS_CardinalityType
  <1> QED BY <1>10, <1>11, <1>12, <1>13

LEMMA HeldStep ==
  ASSUME BlockTypes, BlockTypes', LoopInv, RoomOK, HeldPackets, AcquireInput
  PROVE  HeldPackets'
  <1>1. PICK c \in network :
          /\ pc = "input" /\ arrived' = Append(arrived, c)
          /\ DOMAIN recorded' \subseteq DOMAIN recorded \union {Len(arrived) + 1}
    <2>1. PICK c \in network :
          /\ arrived' = Append(arrived, c)
          /\ \/ UNCHANGED packets
             \/ recorded' = Set(recorded, Len(arrived) + 1, 0)
      BY Zenon DEF AcquireInput
    <2>2. DOMAIN recorded' \subseteq DOMAIN recorded \union {Len(arrived) + 1}
      BY <2>1 DEF packets, Set
    <2> QED BY <2>1, <2>2 DEF AcquireInput
  <1>2. PICK A \in Nat : A = Len(arrived)
    BY Counts
  <1>3. PICK H : H = {id \in DOMAIN recorded' : arrived'[id] # <<>>}
    OBVIOUS
  <1>4. H \subseteq Held \union {A + 1}
    BY <1>1, <1>2, <1>3, StillThere DEF Held
  <1>5. PICK N \in Nat : N = AsyncDepth * BatchNum
    BY PlacesNat
  <1>6. IsFiniteSet(Held) /\ Cardinality(Held) \in Nat /\ Cardinality(Held) <= N
    BY <1>1, <1>5, HeldFinite, HeldAtInput
  <1>7. PICK G : G = Held \union {A + 1} /\ IsFiniteSet(G) /\ Cardinality(G) <= N + 1
    <2>1. /\ IsFiniteSet(Held \union {A + 1})
          /\ Cardinality(Held \union {A + 1}) = IF A + 1 \in Held THEN Cardinality(Held) ELSE Cardinality(Held) + 1
      BY <1>6, FS_AddElement
    <2>2. Cardinality(Held \union {A + 1}) <= N + 1
      BY <1>5, <1>6, <2>1
    <2> QED BY <2>1, <2>2
  <1>8. IsFiniteSet(H) /\ Cardinality(H) <= Cardinality(G)
    BY <1>4, <1>7, FS_Subset
  <1>9. Cardinality(H) \in Nat /\ Cardinality(G) \in Nat
    BY <1>7, <1>8, FS_CardinalityType
  <1>10. Cardinality(H) <= N + 1
    BY <1>7, <1>8, <1>9
  <1> QED BY <1>3, <1>5, <1>10 DEF HeldPackets

(* Every other step leaves the packets that are recorded or sends one.      *)
LEMMA HeldOthers ==
  ASSUME BlockTypes, HeldPackets, arrived' = arrived, DOMAIN recorded' \subseteq DOMAIN recorded
  PROVE  HeldPackets'
  <1>1. PICK H : H = {id \in DOMAIN recorded' : arrived'[id] # <<>>}
    OBVIOUS
  <1>2. H \subseteq Held
    BY <1>1 DEF Held
  <1> QED BY <1>1, <1>2, HeldFewer DEF HeldPackets

(* The packets it holds have their places in the engine, and there is room, *)
(* or a packet with several places, when it takes another.                  *)
RoomInv == BlockInv /\ HeldPackets /\ (pc # "ended" => RoomOK)

LEMMA RoomStep ==
  ASSUME RoomInv, BlockInv', [Next]_vars
  PROVE  RoomInv'
  <1>1. BlockTypes /\ BlockTypes' /\ (pc # "ended" => LoopInv) /\ (pc' # "ended" => LoopInv')
    BY DEF RoomInv, BlockInv
  <1>2. ASSUME pc # "ended", AcquireInput PROVE RoomInv'
    BY <1>1, <1>2, RoomAcquire, HeldStep DEF RoomInv
  <1>3. ASSUME InsertWaits \/ Insert \/ Collect \/ Attach \/ Send
        PROVE  RoomInv'
    <2>1. pc # "ended" /\ pc' # "ended"
      BY <1>3 DEF InsertWaits, Insert, Collect, Attach, Send, Continue
    <2>2. arrived' = arrived
      BY <1>3 DEF InsertWaits, Insert, Collect, Attach, Send
    <2>3. DOMAIN recorded' \subseteq DOMAIN recorded
      <3>1. CASE InsertWaits \/ Insert \/ Collect
        BY <3>1 DEF InsertWaits, Insert, Collect, packets
      <3>2. CASE Attach
        <4>1. pc' # "direct" /\ pc # "direct" /\ sent' = sent
          BY <3>2 DEF Attach, Continue
        <4> QED BY <1>1, <2>1, <2>2, <4>1 DEF LoopInv, RecordedOK
      <3>3. CASE Send
        BY <3>3 DEF Send, Erase, Restrict
      <3> QED BY <1>3, <3>1, <3>2, <3>3
    <2>4. RoomOK'
      BY <1>1, <1>3, <2>1, RoomWaits, RoomInsert, RoomCollect, RoomAttach, RoomSend DEF RoomInv
    <2> QED BY <1>1, <2>2, <2>3, <2>4, HeldOthers DEF RoomInv
  <1>4. ASSUME SendDirect \/ SendFollowing \/ Sent \/ Stop \/ (Device /\ UNCHANGED others) \/ UNCHANGED vars
        PROVE  RoomInv'
    <2>1. arrived' = arrived /\ DOMAIN recorded' \subseteq DOMAIN recorded
      <3>1. CASE SendDirect \/ Sent \/ Stop \/ UNCHANGED vars \/ UNCHANGED others
        BY <3>1 DEF SendDirect, Sent, Stop, vars, others, packets
      <3>2. CASE SendFollowing
        BY <3>2 DEF SendFollowing, Erase, Restrict
      <3> QED BY <1>4, <3>1, <3>2
    <2>2. pc' # "ended" => pc # "ended"
      BY <1>4 DEF SendDirect, SendFollowing, Sent, Continue, Stop, others, vars
    <2>3. pc' # "ended" => RoomOK'
      BY <1>1, <1>4, <2>2, RoomOthers DEF RoomInv
    <2> QED BY <1>1, <2>1, <2>3, HeldOthers DEF RoomInv
  <1>5. ASSUME Exit PROVE RoomInv'
    <2>1. pc' = "ended" /\ arrived' = arrived /\ recorded' = recorded
      BY <1>5 DEF Exit, packets
    <2> QED BY <1>1, <2>1, HeldOthers DEF RoomInv
  <1>6. AcquireInput => pc # "ended"
    BY DEF AcquireInput
  <1> QED BY <1>2, <1>3, <1>4, <1>5, <1>6 DEF Next, Working

LEMMA RoomInvariant ==
  Spec => []RoomInv
  <1>1. ASSUME Init, BlockInv PROVE RoomInv
    <2>1. BlockTypes
      BY <1>1 DEF BlockInv
    <2>2. PICK H : H = {id \in DOMAIN recorded : arrived[id] # <<>>} /\ H = {}
      <3>1. DOMAIN recorded = {}
        BY <1>1, EmptySeq DEF Init
      <3> QED BY <3>1
    <2>3. PICK N \in Nat : N = AsyncDepth * BatchNum
      BY PlacesNat
    <2>4. Cardinality(H) = 0 /\ 0 <= N + 1
      <3>1. Cardinality(H) = 0
        BY <2>2, FS_EmptySet
      <3> QED BY <2>3, <3>1
    <2>5. HeldPackets
      BY <2>2, <2>3, <2>4 DEF HeldPackets
    <2> QED BY <1>1, <2>1, <2>5, RoomInit DEF RoomInv
  <1>2. ASSUME RoomInv, BlockInv', [Next]_vars PROVE RoomInv'
    BY <1>2, RoomStep
  <1> QED BY <1>1, <1>2, BlockInvariant, PTL DEF Spec

(* Of the packets with images that have arrived and were not sent there are *)
(* never more than the engine has places, and one: what the block keeps     *)
(* from the decoder is bounded, whatever order the results come back in.    *)
THEOREM FewPacketsHeld ==
  Spec => []HeldPackets
  <1>1. RoomInv => HeldPackets
    BY DEF RoomInv
  <1> QED BY <1>1, RoomInvariant, PTL

-----------------------------------------------------------------------------
(* The refinement of HoldingStage.                                          *)
(* How many images the packets after the k-th have, and how many of the     *)
(* images in the engine are theirs.                                         *)
Lens(a, k) == [i \in 1 .. Len(a) - k |-> Len(a[k + i])]
Rest(k) == Total(Lens(arrived, k))
Above(k) == [x \in Image |-> IF x.id > k THEN 1 ELSE 0]

LEMMA LensTyped ==
  ASSUME NEW a \in Seq(Seq(Nat)), NEW k \in 0 .. Len(a)
  PROVE  Lens(a, k) \in Seq(Nat) /\ Len(Lens(a, k)) = Len(a) - k
  <1>1. PICK A \in Nat, d \in Nat : A = Len(a) /\ d = A - k
    <2>1. PICK A \in Nat : A = Len(a)
      BY LenProperties
    <2>2. A - k \in Nat
      BY <2>1
    <2> QED BY <2>1, <2>2
  <1>2. \A i \in 1 .. d : Len(a[k + i]) \in Nat
    <2> SUFFICES ASSUME NEW i \in 1 .. d PROVE Len(a[k + i]) \in Nat
      OBVIOUS
    <2>1. k + i \in 1 .. Len(a)
      BY <1>1
    <2>2. a[k + i] \in Seq(Nat)
      BY <2>1, ElementOfSeq
    <2> QED BY <2>2, LenProperties
  <1>3. PICK s : s = [i \in 1 .. d |-> Len(a[k + i])]
    OBVIOUS
  <1>4. s \in Seq(Nat) /\ Len(s) = d
    BY <1>2, <1>3
  <1> QED BY <1>1, <1>3, <1>4 DEF Lens

LEMMA LensElement ==
  ASSUME NEW a \in Seq(Seq(Nat)), NEW k \in 0 .. Len(a), NEW i \in 1 .. Len(a) - k
  PROVE  Lens(a, k)[i] = Len(a[k + i])
  BY DEF Lens

LEMMA LensAppended ==
  ASSUME NEW a \in Seq(Seq(Nat)), NEW k \in 0 .. Len(a), NEW c \in Seq(Nat)
  PROVE  Lens(Append(a, c), k) = Append(Lens(a, k), Len(c))
  <1>1. PICK A \in Nat, n \in Nat : A = Len(a) /\ n = Len(c)
    BY LenProperties
  <1>2. PICK b \in Seq(Seq(Nat)) : b = Append(a, c) /\ Len(b) = A + 1 /\ b[A + 1] = c /\ \A i \in 1 .. A : b[i] = a[i]
    <2>1. PICK b : b = Append(a, c)
      OBVIOUS
    <2>2. b \in Seq(Seq(Nat)) /\ Len(b) = A + 1 /\ b[A + 1] = c /\ \A i \in 1 .. A : b[i] = a[i]
      BY <1>1, <2>1, AppendProperties
    <2> QED BY <2>1, <2>2
  <1>3. k \in 0 .. Len(b) /\ k \in 0 .. A
    BY <1>1, <1>2
  <1>4. PICK s \in Seq(Nat), t \in Seq(Nat) : s = Lens(a, k) /\ t = Lens(b, k) /\ Len(s) = A - k /\ Len(t) = A + 1 - k
    <2>1. Lens(a, k) \in Seq(Nat) /\ Len(Lens(a, k)) = A - k
      BY <1>1, LensTyped
    <2>2. Lens(b, k) \in Seq(Nat) /\ Len(Lens(b, k)) = A + 1 - k
      <3>1. Lens(b, k) \in Seq(Nat) /\ Len(Lens(b, k)) = Len(b) - k
        BY <1>3, LensTyped
      <3> QED BY <1>2, <3>1
    <2> QED BY <2>1, <2>2
  <1>5. PICK d \in Nat : d = A - k /\ d + 1 = A + 1 - k
    <2>1. A - k \in Nat /\ A - k + 1 = A + 1 - k
      BY <1>3
    <2> QED BY <2>1
  <1>6. PICK u \in Seq(Nat) : u = Append(s, n) /\ Len(u) = d + 1 /\ u[d + 1] = n /\ \A i \in 1 .. d : u[i] = s[i]
    <2>1. PICK u : u = Append(s, n)
      OBVIOUS
    <2>2. u \in Seq(Nat) /\ Len(u) = d + 1 /\ u[d + 1] = n /\ \A i \in 1 .. d : u[i] = s[i]
      <3>1. Len(s) = d
        BY <1>4, <1>5
      <3>2. u \in Seq(Nat) /\ Len(u) = Len(s) + 1 /\ u[Len(s) + 1] = n
        BY <2>1, AppendProperties
      <3>3. \A i \in 1 .. Len(s) : u[i] = s[i]
        BY <2>1, AppendProperties
      <3> QED BY <3>1, <3>2, <3>3
    <2> QED BY <2>1, <2>2
  <1>7. ASSUME NEW i \in 1 .. d + 1 PROVE t[i] = u[i]
    <2>1. t[i] = Len(b[k + i])
      <3>1. i \in 1 .. Len(b) - k
        BY <1>2, <1>5
      <3> QED BY <1>3, <1>4, <3>1, LensElement
    <2>2. CASE i = d + 1
      <3>1. k + i = A + 1
        BY <1>3, <1>5, <2>2
      <3> QED BY <1>1, <1>2, <1>6, <2>1, <2>2, <3>1
    <2>3. CASE i # d + 1
      <3>1. i \in 1 .. d /\ i \in 1 .. Len(a) - k /\ k + i \in 1 .. A
        <4>1. A = k + d /\ k \in Nat /\ i \in Nat /\ 1 <= i /\ i <= d + 1 /\ i # d + 1
          BY <1>3, <1>5, <2>3
        <4>2. i \in 1 .. d
          BY <4>1
        <4>3. k + i \in 1 .. A
          BY <4>1, <4>2
        <4>4. Len(a) - k = d
          BY <1>1, <1>5
        <4> QED BY <4>2, <4>3, <4>4
      <3>2. s[i] = Len(a[k + i])
        BY <1>4, <3>1, LensElement
      <3> QED BY <1>2, <1>6, <2>1, <3>1, <3>2
    <2> QED BY <2>2, <2>3
  <1>8. t = u
    BY <1>4, <1>5, <1>6, <1>7, SeqEqual
  <1> QED BY <1>1, <1>2, <1>4, <1>6, <1>8

LEMMA LensTail ==
  ASSUME NEW a \in Seq(Seq(Nat)), NEW k \in Nat, k < Len(a)
  PROVE  Lens(a, k) # <<>> /\ Tail(Lens(a, k)) = Lens(a, k + 1) /\ Head(Lens(a, k)) = Len(a[k + 1])
  <1>1. PICK A \in Nat : A = Len(a)
    BY LenProperties
  <1>2. k \in 0 .. Len(a) /\ k + 1 \in 0 .. Len(a)
    BY <1>1
  <1>3. PICK d \in Nat : A = k + d + 1
    <2>1. A - k - 1 \in Nat /\ A = k + (A - k - 1) + 1
      BY <1>1
    <2> QED BY <2>1
  <1>4. PICK s \in Seq(Nat) : s = Lens(a, k) /\ Len(s) = d + 1
    <2>1. Lens(a, k) \in Seq(Nat) /\ Len(Lens(a, k)) = A - k
      BY <1>1, <1>2, LensTyped
    <2>2. A - k = d + 1
      BY <1>3
    <2> QED BY <2>1, <2>2
  <1>5. PICK t \in Seq(Nat) : t = Lens(a, k + 1) /\ Len(t) = d
    <2>1. Lens(a, k + 1) \in Seq(Nat) /\ Len(Lens(a, k + 1)) = A - (k + 1)
      BY <1>1, <1>2, LensTyped
    <2>2. A - (k + 1) = d
      BY <1>3
    <2> QED BY <2>1, <2>2
  <1>6. s # <<>>
    BY <1>4, EmptySeq
  <1>7. PICK u \in Seq(Nat) : u = Tail(s) /\ Len(u) = d /\ \A i \in 1 .. d : u[i] = s[i + 1]
    <2>1. PICK u : u = Tail(s)
      OBVIOUS
    <2>2. u \in Seq(Nat) /\ Len(u) = Len(s) - 1 /\ \A i \in 1 .. Len(s) - 1 : u[i] = s[i + 1]
      BY <1>6, <2>1, HeadTailProperties
    <2>3. Len(s) - 1 = d
      BY <1>4
    <2> QED BY <2>1, <2>2, <2>3
  <1>8. ASSUME NEW i \in 1 .. d PROVE u[i] = t[i]
    <2>1. i + 1 \in 1 .. Len(a) - k /\ i \in 1 .. Len(a) - (k + 1) /\ k + (i + 1) = k + 1 + i
      BY <1>1, <1>3
    <2>2. s[i + 1] = Len(a[k + (i + 1)])
      BY <1>2, <1>4, <2>1, LensElement
    <2>3. t[i] = Len(a[k + 1 + i])
      BY <1>2, <1>5, <2>1, LensElement
    <2> QED BY <1>7, <2>1, <2>2, <2>3
  <1>9. u = t
    BY <1>5, <1>7, <1>8, SeqEqual
  <1>10. s[1] = Len(a[k + 1])
    <2>1. 1 \in 1 .. Len(a) - k
      BY <1>1, <1>3
    <2> QED BY <1>2, <1>4, <2>1, LensElement
  <1>11. Head(s) = s[1]
    BY <1>4, <1>6, HeadTailProperties
  <1> QED BY <1>4, <1>5, <1>6, <1>7, <1>9, <1>10, <1>11

LEMMA TotalAppended ==
  ASSUME NEW s \in Seq(Nat), NEW n \in Nat
  PROVE  Total(Append(s, n)) = Total(s) + n /\ Total(s) \in Nat
  <1>1. PICK w : w = Self
    OBVIOUS
  <1>2. \A q \in Nat : w[q] \in Nat
    BY <1>1 DEF Self
  <1>3. w[n] = n
    BY <1>1 DEF Self
  <1>4. Count(w, Append(s, n)) = Count(w, s) + w[n]
    BY <1>2, CountAppended
  <1>5. Append(s, n) \in Seq(Nat)
    BY AppendProperties
  <1>6. Total(s) = Count(w, s) /\ Total(Append(s, n)) = Count(w, Append(s, n))
    BY <1>1, <1>5, TotalIs
  <1>7. Total(s) \in Nat
    BY TotalNat
  <1> QED BY <1>3, <1>4, <1>6, <1>7

LEMMA AboveTyped ==
  ASSUME NEW k \in Nat
  PROVE  \A x \in Image : Above(k)[x] \in Nat
  BY DEF Above

LEMMA AboveIs ==
  ASSUME NEW k \in Nat, NEW x \in Image
  PROVE  Above(k)[x] = IF x.id > k THEN 1 ELSE 0
  BY DEF Above

LEMMA ModuloIs ==
  ASSUME NEW q \in Nat, NEW b \in Nat, b > 0, NEW r \in Nat, r < b
  PROVE  (q * b + r) % b = r
  BY SMTT(60)

LEMMA Divided ==
  ASSUME NEW n \in Nat, NEW b \in Nat, b > 0
  PROVE  \E q \in Nat, r \in Nat : r < b /\ n = q * b + r
  <1>1. n \div b \in Nat
    BY SMTT(30)
  <1>2. n % b \in Nat /\ n % b < b
    BY SMTT(30)
  <1>3. n = (n \div b) * b + (n % b)
    BY SMTT(30)
  <1> QED BY <1>1, <1>2, <1>3

-----------------------------------------------------------------------------
(* The images that were inserted are in whole batches but for batchIndex of *)
(* them; of the images in the engine, no more are of the packets after the  *)
(* k-th than those packets have.                                            *)
BatchOK ==
  /\ \E q \in Nat : Rest(0) = q * BatchNum + batchIndex + Len(todo)
  /\ \A k \in Nat : k < Len(arrived) => Count(Above(k), images) + Len(todo) <= Rest(k)

LEMMA ArrivedIs ==
  ASSUME BlockTypes
  PROVE  arrived \in Seq(Seq(Nat))
  <1>1. arrived \in Seq(network) /\ network \subseteq Seq(Nat)
    BY PacketAssumption DEF BlockTypes, DataTypes
  <1> QED BY <1>1, SeqOfFewer

LEMMA RestNat ==
  ASSUME BlockTypes, NEW k \in 0 .. Len(arrived)
  PROVE  Rest(k) \in Nat
  BY ArrivedIs, LensTyped, TotalNat DEF Rest

LEMMA QueuedBounds ==
  ASSUME BlockTypes, LoopInv, NEW x \in Queued
  PROVE  x \in Nat /\ First <= x /\ x <= Len(arrived)
  <1>1. x \in DOMAIN pendingIDs
    BY AheadOrQueued
  <1>2. PICK A \in Nat : A = Len(arrived)
    BY Counts
  <1>3. x \in 1 .. A
    BY <1>1, <1>2 DEF BlockTypes, ControlTypes
  <1>4. First <= x
    BY <1>1 DEF LoopInv, InOrder, WayOK, PendingOK
  <1> QED BY <1>2, <1>3, <1>4

LEMMA ImageQueued ==
  ASSUME BlockTypes, NEW i \in 1 .. Len(images)
  PROVE  images[i] \in Image /\ images[i].id \in Queued /\ images[i].id \in Nat
  <1>1. images \in Seq(Image) /\ IDs(images) \in Seq(Nat)
    BY AheadTypes
  <1>2. images[i] \in Image /\ Len(IDs(images)) = Len(images) /\ IDs(images)[i] = images[i].id
    BY <1>1, ElementOfSeq, IDsLength, IDsElement
  <1>3. IDs(images)[i] \in Range(IDs(images))
    BY <1>1, <1>2, RangeIs
  <1> QED BY <1>2, <1>3 DEF Queued, Image

LEMMA NoneAbove ==
  ASSUME BlockTypes, NEW k \in Nat, \A x \in Queued : x <= k
  PROVE  Count(Above(k), images) = 0
  <1>1. PICK w : w = Above(k)
    OBVIOUS
  <1>2. \A x \in Image : w[x] \in Nat
    BY <1>1, AboveTyped
  <1>3. images \in Seq(Image)
    BY AheadTypes
  <1>4. ASSUME NEW i \in 1 .. Len(images) PROVE w[images[i]] = 0
    <2>1. images[i] \in Image /\ images[i].id <= k /\ images[i].id \in Nat
      BY <1>4, ImageQueued
    <2>2. ~(images[i].id > k)
      BY <2>1
    <2> QED BY <1>1, <2>1, <2>2, AboveIs
  <1> QED BY <1>1, <1>2, <1>3, <1>4, CountNone

LEMMA AllAbove ==
  ASSUME BlockTypes, NEW k \in Nat, \A x \in Queued : x > k
  PROVE  Count(Above(k), images) = Len(images)
  <1>1. PICK w : w = Above(k)
    OBVIOUS
  <1>2. \A x \in Image : w[x] \in Nat
    BY <1>1, AboveTyped
  <1>3. images \in Seq(Image)
    BY AheadTypes
  <1>4. ASSUME NEW i \in 1 .. Len(images) PROVE w[images[i]] = 1
    <2>1. images[i] \in Image /\ images[i].id > k
      BY <1>4, ImageQueued
    <2> QED BY <1>1, <2>1, AboveIs
  <1> QED BY <1>1, <1>2, <1>3, <1>4, CountEach

LEMMA CountAboveNat ==
  ASSUME NEW s \in Seq(Image), NEW k \in Nat
  PROVE  Count(Above(k), s) \in Nat
  <1>1. PICK w : w = Above(k)
    OBVIOUS
  <1>2. \A x \in Image : w[x] \in Nat
    BY <1>1, AboveTyped
  <1> QED BY <1>1, <1>2, CountNat

LEMMA CountAboveBoth ==
  ASSUME NEW s \in Seq(Image), NEW t \in Seq(Image), NEW k \in Nat
  PROVE  Count(Above(k), s \o t) = Count(Above(k), s) + Count(Above(k), t)
  <1>1. PICK w : w = Above(k)
    OBVIOUS
  <1>2. \A x \in Image : w[x] \in Nat
    BY <1>1, AboveTyped
  <1> QED BY <1>1, <1>2, CountSum

LEMMA BatchInit ==
  ASSUME Init, BlockTypes
  PROVE  BatchOK
  <1>1. PICK e \in Seq(Nat) : e = <<>> /\ Len(e) = 0
    BY EmptySeq
  <1>2. arrived = <<>> /\ todo = <<>> /\ batchIndex = 0
    BY DEF Init, EngineInit
  <1>3. Len(arrived) = 0 /\ Len(todo) = 0
    BY <1>1, <1>2
  <1>4. Rest(0) = 0
    <2>1. Lens(arrived, 0) \in Seq(Nat) /\ Len(Lens(arrived, 0)) = 0 - 0
      <3>1. 0 \in 0 .. Len(arrived)
        BY <1>3
      <3>2. Lens(arrived, 0) \in Seq(Nat) /\ Len(Lens(arrived, 0)) = Len(arrived) - 0
        BY <3>1, ArrivedIs, LensTyped
      <3> QED BY <1>3, <3>2
    <2>2. Lens(arrived, 0) = <<>>
      BY <2>1, EmptySeq
    <2> QED BY <2>2, NoTotal DEF Rest
  <1>5. PICK B \in Nat : B = BatchNum
    BY EngineAssumption
  <1>6. Rest(0) = 0 * BatchNum + batchIndex + Len(todo)
    BY <1>2, <1>3, <1>4, <1>5
  <1> QED BY <1>3, <1>6 DEF BatchOK

(* A packet with the images c.                                              *)
LEMMA BatchAcquire ==
  ASSUME BlockTypes, LoopInv, BatchOK, AcquireInput
  PROVE  BatchOK'
  <1>1. PICK c \in network : arrived' = Append(arrived, c) /\ (todo' = c \/ (c = <<>> /\ todo' = todo))
    BY Zenon DEF AcquireInput
  <1>2. pc = "input" /\ UNCHANGED engine
    BY DEF AcquireInput
  <1>3. todo = <<>>
    BY <1>2, AtInput
  <1>4. c \in Seq(Nat)
    BY PacketAssumption DEF BlockTypes, DataTypes
  <1>5. todo' = c
    BY <1>1, <1>3
  <1>6. PICK A \in Nat, n \in Nat : A = Len(arrived) /\ n = Len(c)
    BY <1>4, LenProperties, Counts
  <1>7. Len(arrived') = A + 1 /\ Len(todo) = 0 /\ Len(todo') = n /\ arrived \in Seq(Seq(Nat))
    BY <1>1, <1>3, <1>4, <1>5, <1>6, ArrivedIs, AppendProperties, EmptySeq
  <1>8. ASSUME NEW k \in 0 .. A
        PROVE  Total(Lens(arrived', k)) = Rest(k) + n /\ Rest(k) \in Nat
    <2>1. Lens(arrived', k) = Append(Lens(arrived, k), n)
      BY <1>1, <1>4, <1>6, <1>7, LensAppended
    <2>2. Lens(arrived, k) \in Seq(Nat)
      BY <1>6, <1>7, LensTyped
    <2> QED BY <2>1, <2>2, TotalAppended DEF Rest
  <1>9. images' = images /\ batchIndex' = batchIndex /\ images \in Seq(Image)
    BY <1>2, AheadTypes DEF engine
  <1>10. PICK q \in Nat, x \in Nat, B \in Nat : Rest(0) = q * B + x + 0 /\ x = batchIndex /\ B = BatchNum
    BY <1>7, AheadTypes, EngineAssumption DEF BatchOK
  <1>11. Total(Lens(arrived', 0)) = q * B + x + n
    <2>1. q * B \in Nat
      OBVIOUS
    <2>2. Total(Lens(arrived', 0)) = Rest(0) + n
      BY <1>8
    <2> QED BY <1>10, <2>1, <2>2
  <1>12. ASSUME NEW k \in Nat, k < A + 1
         PROVE  Count(Above(k), images) + n <= Total(Lens(arrived', k))
    <2>0. k \in 0 .. A
      BY <1>12
    <2>1. PICK m \in Nat : m = Count(Above(k), images)
      BY <1>9, CountAboveNat
    <2>2. m <= Rest(k)
      <3>1. CASE k < A
        BY <1>6, <1>7, <2>1, <3>1 DEF BatchOK
      <3>2. CASE k = A
        <4>1. \A d \in Queued : d <= k
          BY <1>6, <3>2, QueuedBounds
        <4>2. m = 0
          BY <2>1, <4>1, NoneAbove
        <4> QED BY <1>8, <2>0, <4>2
      <3> QED BY <1>12, <3>1, <3>2
    <2> QED BY <1>8, <2>0, <2>1, <2>2
  <1> QED BY <1>7, <1>9, <1>10, <1>11, <1>12 DEF BatchOK, Rest

LEMMA BatchInsert ==
  ASSUME BlockTypes, LoopInv, BatchOK, Insert
  PROVE  BatchOK'
  <1>1. /\ pc = "insert" /\ todo' = Tail(todo) /\ arrived' = arrived
        /\ InsertImage([id |-> Len(arrived), found |-> Head(todo)])
    BY DEF Insert
  <1>2. PICK A \in Nat, L \in Nat : A = Len(arrived) /\ L = Len(todo) /\ L > 0
    BY <1>1, Counts, LenProperties, EmptySeq DEF BlockTypes, DataTypes, LoopInv, Place
  <1>3. todo \in Seq(Nat) /\ todo # <<>>
    BY <1>1 DEF BlockTypes, DataTypes, LoopInv, Place
  <1>4. Head(todo) \in Nat /\ Len(todo') = L - 1
    BY <1>1, <1>2, <1>3, HeadTailProperties
  <1>5. PICK image \in Image : image = [id |-> A, found |-> Head(todo)]
    BY <1>4 DEF Image
  <1>6. images' = images \o <<image>> /\ image.id = A /\ images \in Seq(Image)
    BY <1>1, <1>2, <1>5, InsertTypes, AheadTypes DEF BlockTypes
  <1>7. PICK q \in Nat, x \in Nat, B \in Nat :
          Rest(0) = q * B + x + L /\ x = batchIndex /\ B = BatchNum /\ B > 0 /\ x < B
    <2>1. batchIndex \in Nat /\ BatchNum \in Nat /\ BatchNum > 0 /\ batchIndex < BatchNum
      BY AheadTypes, EngineAssumption DEF BlockTypes, EngineTypes, EngineOK
    <2> QED BY <1>2, <2>1 DEF BatchOK
  <1>8. batchIndex' = IF x + 1 >= B THEN 0 ELSE x + 1
    BY <1>1, <1>7 DEF InsertImage
  <1>9. \E p \in Nat : Rest(0) = p * B + batchIndex' + (L - 1)
    <2>1. CASE x + 1 >= B
      <3>1. x + 1 = B /\ batchIndex' = 0
        BY <1>7, <1>8, <2>1
      <3>2. q * B \in Nat /\ (q + 1) * B = q * B + B /\ q + 1 \in Nat
        BY Shorter
      <3>3. Rest(0) = (q + 1) * B + 0 + (L - 1)
        BY <1>2, <1>7, <3>1, <3>2
      <3> QED BY <3>1, <3>2, <3>3
    <2>2. CASE ~(x + 1 >= B)
      <3>1. batchIndex' = x + 1 /\ q * B \in Nat
        BY <1>8, <2>2
      <3>2. Rest(0) = q * B + batchIndex' + (L - 1)
        BY <1>2, <1>7, <3>1
      <3> QED BY <3>2
    <2> QED BY <2>1, <2>2
  <1>10. ASSUME NEW k \in Nat, k < A
         PROVE  Count(Above(k), images') + (L - 1) <= Rest(k)
    <2>1. PICK one \in Seq(Image) : one = <<image>>
      BY OneIn
    <2>2. Count(Above(k), images') = Count(Above(k), images) + Count(Above(k), one)
      BY <1>6, <2>1, CountAboveBoth
    <2>3. Count(Above(k), one) = 1
      <3>1. PICK w : w = Above(k)
        OBVIOUS
      <3>2. \A y \in Image : w[y] \in Nat
        BY <3>1, AboveTyped
      <3>3. w[image] = 1
        BY <1>6, <1>10, <3>1, AboveIs
      <3>4. Count(w, <<image>>) = w[image]
        BY <3>2, CountOfOne
      <3> QED BY <2>1, <3>1, <3>3, <3>4
    <2>4. PICK m \in Nat : m = Count(Above(k), images) /\ m + L <= Rest(k)
      BY <1>2, <1>6, <1>10, CountAboveNat DEF BatchOK
    <2>5. Rest(k) \in Nat
      BY <1>2, <1>10, RestNat
    <2> QED BY <1>2, <2>2, <2>3, <2>4, <2>5
  <1>11. \A k : Rest(k)' = Rest(k)
    BY <1>1 DEF Rest
  <1>12. Rest(0)' = Rest(0)
    BY <1>11
  <1> QED BY <1>1, <1>2, <1>4, <1>7, <1>9, <1>10, <1>11, <1>12 DEF BatchOK, Rest

(* Images leave the engine.                                                 *)
LEMMA BatchPopped ==
  ASSUME BlockTypes, BlockTypes', BatchOK, NEW p \in Seq(Image), images = p \o images',
         UNCHANGED <<arrived, todo, batchIndex>>
  PROVE  BatchOK'
  <1>1. PICK A \in Nat, L \in Nat : A = Len(arrived) /\ L = Len(todo)
    BY Counts, LenProperties DEF BlockTypes, DataTypes
  <1>2. images' \in Seq(Image)
    BY DEF BlockTypes, EngineTypes
  <1>3. ASSUME NEW k \in Nat, k < A PROVE Count(Above(k), images') + L <= Rest(k)
    <2>1. Count(Above(k), images) = Count(Above(k), p) + Count(Above(k), images')
      BY <1>2, CountAboveBoth
    <2>2. Count(Above(k), p) \in Nat /\ Count(Above(k), images') \in Nat
      BY <1>2, CountAboveNat
    <2>3. Count(Above(k), images) + L <= Rest(k)
      BY <1>1, <1>3 DEF BatchOK
    <2>4. Rest(k) \in Nat
      BY <1>1, <1>3, RestNat
    <2> QED BY <1>1, <2>1, <2>2, <2>3, <2>4
  <1> QED BY <1>1, <1>3 DEF BatchOK, Rest

LEMMA BatchSame ==
  ASSUME BatchOK, UNCHANGED <<arrived, todo, images, batchIndex>>
  PROVE  BatchOK'
  BY DEF BatchOK, Rest

(* Unless a packet still has images in the engine, those of the batch that  *)
(* is not whole are of packets behind it.                                   *)
LEMMA BehindIsWhole ==
  ASSUME BlockTypes, LoopInv, BatchOK, todo = <<>>, NEW k \in 0 .. Len(arrived), \A x \in Queued : x > k
  PROVE  Rest(0) % BatchNum <= Rest(k)
  <1>1. PICK A \in Nat : A = Len(arrived)
    BY Counts
  <1>2. Len(todo) = 0
    BY EmptySeq
  <1>3. PICK q \in Nat, x \in Nat, B \in Nat :
          Rest(0) = q * B + x /\ x = batchIndex /\ B = BatchNum /\ B > 0 /\ x < B
    <2>1. batchIndex \in Nat /\ BatchNum \in Nat /\ BatchNum > 0 /\ batchIndex < BatchNum
      BY AheadTypes, EngineAssumption DEF BlockTypes, EngineTypes, EngineOK
    <2>2. PICK q \in Nat : Rest(0) = q * BatchNum + batchIndex + 0
      BY <1>2 DEF BatchOK
    <2>3. q * BatchNum \in Nat
      BY <2>1
    <2>4. Rest(0) = q * BatchNum + batchIndex
      BY <2>1, <2>2, <2>3
    <2> QED BY <2>1, <2>4
  <1>4. Rest(0) % BatchNum = x
    BY <1>3, ModuloIs
  <1>5. PICK M \in Nat, R \in Nat : M = Len(images) /\ R = Rest(k) /\ x <= M
    <2>1. PICK M \in Nat, W \in Nat : M = Len(images) /\ W = Len(busyRequest)
      BY LenProperties DEF BlockTypes, EngineTypes
    <2>2. W * B \in Nat /\ M = W * B + x
      BY <1>3, <2>1 DEF BlockTypes, EngineTypes, EngineOK
    <2>3. x <= M
      BY <2>2
    <2> QED BY <2>1, <2>3, RestNat
  <1>6. Count(Above(k), images) = M
    BY <1>5, AllAbove
  <1>7. CASE k < A
    <2>1. M + 0 <= R
      BY <1>1, <1>2, <1>5, <1>6, <1>7 DEF BatchOK
    <2> QED BY <1>3, <1>4, <1>5, <2>1
  <1>8. CASE k = A
    <2>1. \A d \in Queued : d <= k
      BY <1>1, <1>8, QueuedBounds
    <2>2. M = 0
      BY <1>6, <2>1, NoneAbove
    <2> QED BY <1>3, <1>4, <1>5, <2>2
  <1> QED BY <1>1, <1>7, <1>8

LEMMA PartIs ==
  ASSUME BlockTypes
  PROVE  [i \in DOMAIN arrived |-> Len(arrived[i])] = Lens(arrived, 0)
  <1>1. PICK A \in Nat : A = Len(arrived) /\ DOMAIN arrived = 1 .. A /\ A - 0 = A
    BY ArrivedIs, LenProperties
  <1>2. ASSUME NEW i \in 1 .. A PROVE 0 + i = i
    OBVIOUS
  <1>3. Lens(arrived, 0) = [i \in 1 .. A |-> Len(arrived[0 + i])]
    BY <1>1 DEF Lens
  <1>4. [i \in 1 .. A |-> Len(arrived[0 + i])] = [i \in 1 .. A |-> Len(arrived[i])]
    BY <1>2
  <1> QED BY <1>1, <1>3, <1>4

LEMMA PartNext ==
  (BlockTypes => [i \in DOMAIN arrived |-> Len(arrived[i])] = Lens(arrived, 0))'
  <1>1. BlockTypes => [i \in DOMAIN arrived |-> Len(arrived[i])] = Lens(arrived, 0)
    BY PartIs
  <1> QED BY <1>1, PTL

(* A packet leaves: of the images behind it there are enough.               *)
LEMMA StageReleases ==
  ASSUME BlockTypes, LoopInv, BatchOK, todo = <<>>, Len(sent) < Len(arrived), \A x \in Queued : x > Len(sent) + 1,
         arrived' = arrived, Len(sent') = Len(sent) + 1
  PROVE  Stage!Release
  <1>1. PICK A \in Nat, n \in Nat : A = Len(arrived) /\ n = Len(sent) /\ n < A
    BY Counts
  <1>2. arrived \in Seq(Seq(Nat)) /\ n + 1 \in 0 .. Len(arrived)
    BY <1>1, ArrivedIs
  <1>3. Inside = Lens(arrived, n) /\ Inside' = Lens(arrived, n + 1)
    BY <1>1 DEF Inside, Lens
  <1>4. Inside # <<>> /\ Tail(Inside) = Inside'
    BY <1>1, <1>2, <1>3, LensTail
  <1>5. Rest(0) % BatchNum <= Rest(n + 1)
    BY <1>1, <1>2, BehindIsWhole
  <1>6. Stage!Images(Tail(Inside)) = Total(Tail(Inside))
    BY DEF Stage!Images, Total
  <1>7. Total([i \in DOMAIN arrived |-> Len(arrived[i])]) = Rest(0)
    BY PartIs DEF Rest
  <1>8. PICK r \in Nat, p \in Nat : r = Rest(n + 1) /\ p = Rest(0) % BatchNum /\ p <= r
    <2>1. Rest(n + 1) \in Nat /\ Rest(0) \in Nat
      BY <1>1, RestNat
    <2>2. BatchNum \in Nat /\ BatchNum > 0
      BY EngineAssumption
    <2>3. Rest(0) % BatchNum \in Nat
      BY <2>1, <2>2, SMTT(30)
    <2> QED BY <1>5, <2>1, <2>3
  <1>9. Stage!Images(Tail(Inside)) = r
    BY <1>3, <1>4, <1>6, <1>8 DEF Rest
  <1>10. Stage!Images(Tail(Inside)) >= Total([i \in DOMAIN arrived |-> Len(arrived[i])]) % BatchNum
    BY <1>7, <1>8, <1>9
  <1> QED BY <1>4, <1>10 DEF Stage!Release, Stage!MayLeave

LEMMA StageAcquires ==
  ASSUME BlockTypes, BlockTypes', LoopInv, RoomOK, BatchOK, AcquireInput
  PROVE  Stage!Acquire
  <1>1. PICK c \in network : arrived' = Append(arrived, c) /\ pc = "input" /\ sent' = sent
    BY Zenon DEF AcquireInput
  <1>2. PICK A \in Nat, n \in Nat : A = Len(arrived) /\ n = Len(sent) /\ n <= A
    <2>1. First = Len(sent) + 1 /\ Coming = Len(arrived) + 1 /\ First <= Coming
      BY <1>1, AtInput
    <2> QED BY <2>1, Counts
  <1>3. arrived \in Seq(Seq(Nat)) /\ c \in Seq(Nat) /\ Len(c) \in 0 .. MostImages
    <2>1. c \in Seq(Nat) /\ Len(c) <= MostImages /\ MostImages \in Nat
      BY PacketAssumption, ImagesAssumption DEF BlockTypes, DataTypes
    <2>2. Len(c) \in Nat
      BY <2>1, LenProperties
    <2> QED BY <2>1, <2>2, ArrivedIs
  <1>4. PICK l \in 0 .. MostImages : l = Len(c) /\ l \in Nat
    BY <1>3
  <1>5. Inside = Lens(arrived, n) /\ Inside' = Lens(arrived', n)
    BY <1>1, <1>2 DEF Inside, Lens
  <1>6. Inside' = Append(Inside, l)
    <2>1. n \in 0 .. Len(arrived)
      BY <1>2
    <2>2. Lens(Append(arrived, c), n) = Append(Lens(arrived, n), Len(c))
      BY <1>3, <2>1, LensAppended
    <2> QED BY <1>1, <1>4, <1>5, <2>2
  <1>7. PICK B \in Nat : B = BatchNum /\ B > 0
    BY EngineAssumption
  <1>8. PICK t \in Nat : t = Rest(0)
    BY <1>2, RestNat
  <1>9. Total(Lens(arrived', 0)) = t + l
    <2>1. 0 \in 0 .. Len(arrived)
      BY <1>2
    <2>2. Lens(Append(arrived, c), 0) = Append(Lens(arrived, 0), Len(c))
      BY <1>3, <2>1, LensAppended
    <2>3. Lens(arrived, 0) \in Seq(Nat)
      BY <1>3, <2>1, LensTyped
    <2>4. Total(Append(Lens(arrived, 0), l)) = Total(Lens(arrived, 0)) + l
      BY <1>4, <2>3, TotalAppended
    <2> QED BY <1>1, <1>4, <1>8, <2>2, <2>4 DEF Rest
  <1>10. (t + l) % B = ((t % B) + l) % B
    <2>1. PICK q \in Nat, r \in Nat : r < B /\ t = q * B + r
      BY <1>7, Divided
    <2>2. t % B = r
      BY <1>7, <2>1, ModuloIs
    <2>3. r + l \in Nat
      BY <1>4
    <2>4. PICK p \in Nat, s \in Nat : s < B /\ r + l = p * B + s
      BY <1>7, <2>3, Divided
    <2>5. (r + l) % B = s
      BY <1>7, <2>4, ModuloIs
    <2>6. p * B \in Nat /\ q * B \in Nat /\ q * B + p * B = (q + p) * B
      OBVIOUS
    <2>7. t + l = (q + p) * B + s /\ q + p \in Nat
      BY <1>4, <2>1, <2>4, <2>6
    <2>8. (t + l) % B = s
      BY <1>7, <2>4, <2>7, ModuloIs
    <2> QED BY <2>2, <2>5, <2>8
  <1>11. (Total([i \in DOMAIN arrived |-> Len(arrived[i])]) % BatchNum)'
           = ((Total([i \in DOMAIN arrived |-> Len(arrived[i])]) % BatchNum) + l) % BatchNum
    <2>1. Total([i \in DOMAIN arrived |-> Len(arrived[i])]) = t
      BY <1>8, PartIs DEF Rest
    <2>2. Total([i \in DOMAIN arrived |-> Len(arrived[i])])' = t + l
      BY <1>9, PartNext
    <2> QED BY <1>7, <1>10, <2>1, <2>2
  <1>12. Stage!Waits
    <2>1. PICK W : W = {i \in DOMAIN Inside : Inside[i] > 0}
      OBVIOUS
    <2>2. n \in 0 .. Len(arrived)
      BY <1>2
    <2>3. DOMAIN Inside = 1 .. A - n /\ \A i \in 1 .. A - n : Inside[i] = Len(arrived[n + i])
      BY <1>2, <1>5 DEF Lens
    <2>4. DOMAIN recorded = n + 1 .. A
      BY <1>1, <1>2, AtInput
    <2>5. \A i \in W : i \in Int /\ n + i \in Held
      <3> SUFFICES ASSUME NEW i \in W PROVE i \in Int /\ n + i \in Held
        OBVIOUS
      <3>1. i \in 1 .. A - n /\ Len(arrived[n + i]) > 0
        BY <2>1, <2>3
      <3>2. n + i \in DOMAIN recorded
        BY <1>2, <2>4, <3>1
      <3>3. arrived[n + i] # <<>>
        BY <3>1
      <3> QED BY <3>1, <3>2, <3>3 DEF Held
    <2>6. PICK f : f = [i \in W |-> n + i]
      OBVIOUS
    <2>7. f \in Injection(W, Held)
      <3>1. f \in [W -> Held]
        BY <2>5, <2>6
      <3>2. \A i, j \in W : f[i] = f[j] => i = j
        BY <1>2, <2>5, <2>6
      <3> QED BY <3>1, <3>2 DEF Injection, IsInjective
    <2>8. IsFiniteSet(Held) /\ Cardinality(Held) \in Nat
      BY HeldFinite
    <2>9. IsFiniteSet(W) /\ Cardinality(W) <= Cardinality(Held)
      BY <2>7, <2>8, FS_Injection
    <2>10. Cardinality(W) \in Nat
      BY <2>9, FS_CardinalityType
    <2>11. PICK N \in Nat : N = AsyncDepth * BatchNum /\ Cardinality(Held) <= N
      BY <1>1, PlacesNat, HeldAtInput
    <2>12. Cardinality(W) <= AsyncDepth * BatchNum
      BY <2>8, <2>9, <2>10, <2>11
    <2>13. Stage!Cardinality(W) = Cardinality(W)
      BY DEF Stage!Cardinality, Cardinality
    <2>14. Stage!Cardinality(W) <= AsyncDepth * BatchNum
      BY <2>12, <2>13
    <2> QED BY <2>1, <2>14 DEF Stage!Waits
  <1> QED BY <1>4, <1>6, <1>11, <1>12 DEF Stage!Acquire

(* Images come in at the end, with a packet or one by one, and leave at the *)
(* head.                                                                    *)
LEMMA BatchStep ==
  ASSUME BlockTypes, BlockTypes', LoopInv, BatchOK, [Next]_vars
  PROVE  BatchOK'
  <1>1. CASE AcquireInput
    BY <1>1, BatchAcquire
  <1>2. CASE Insert
    BY <1>2, BatchInsert
  <1>3. CASE InsertWaits
    <2>1. MakeRoom /\ UNCHANGED <<arrived, todo>>
      BY <1>3 DEF InsertWaits
    <2>2. PICK p : p \in Seq(Image) /\ images = p \o images' /\ batchIndex' = batchIndex
      BY <2>1, RoomEffect DEF BlockTypes
    <2> QED BY <2>1, <2>2, BatchPopped
  <1>4. CASE Collect
    <2>1. GetOutput /\ UNCHANGED <<arrived, todo>>
      BY <1>4 DEF Collect
    <2>2. EngineTypes /\ (internalIDs # <<>> => internalDatas # <<>>)
      BY DEF BlockTypes, LoopInv, FlagsOK
    <2>3. PICK p : p \in Seq(Image) /\ images = p \o images' /\ batchIndex' = batchIndex
      BY <2>1, <2>2, GetEffect
    <2> QED BY <2>1, <2>3, BatchPopped
  <1>5. CASE SendDirect \/ Send \/ SendFollowing \/ Sent \/ Exit \/ Stop \/ UNCHANGED vars
    <2>1. UNCHANGED <<arrived, todo, images, batchIndex>>
      BY <1>5 DEF SendDirect, Send, SendFollowing, Sent, Exit, Stop, vars, engine
    <2> QED BY <2>1, BatchSame
  <1>6. CASE Attach
    <2>1. UNCHANGED <<arrived, todo, images, batchIndex>>
      BY <1>6 DEF Attach
    <2> QED BY <2>1, BatchSame
  <1>7. CASE Device /\ UNCHANGED others
    <2>1. UNCHANGED <<arrived, todo, images, batchIndex>>
      BY <1>7 DEF Device, Complete, Fail, others
    <2> QED BY <2>1, BatchSame
  <1> QED BY <1>1, <1>2, <1>3, <1>4, <1>5, <1>6, <1>7 DEF Next, Working

StageInv == RoomInv /\ (pc # "ended" => BatchOK)

LEMMA SentLonger ==
  ASSUME BlockTypes, NEW r, sent' = Append(sent, r)
  PROVE  Len(sent') = Len(sent) + 1
  <1>1. sent \in Seq(Range(sent))
    BY DEF BlockTypes, DataTypes
  <1>2. PICK S : S = Range(sent) \union {r}
    OBVIOUS
  <1>3. sent \in Seq(S) /\ r \in S
    BY <1>1, <1>2, SeqOfFewer
  <1> QED BY <1>3, AppendProperties

(* The images still in the engine are of packets behind the one that leaves. *)
LEMMA DirectReleases ==
  ASSUME BlockTypes, LoopInv, BatchOK, SendDirect
  PROVE  Stage!Release
  <1>1. PICK A \in Nat, n \in Nat : A = Len(arrived) /\ n = Len(sent)
    BY Counts
  <1>2. pc = "direct" /\ arrived' = arrived /\ todo = <<>> /\ following = <<>> /\ DOMAIN pendingIDs = {}
    BY DEF SendDirect, LoopInv, Place
  <1>3. Len(following) = 0
    BY <1>2, EmptySeq
  <1>4. First = n + 1 /\ Coming = A
    BY <1>1, <1>2, <1>3 DEF First, Coming
  <1>5. n < A
    BY <1>1, <1>4, FirstAtMost DEF LoopInv
  <1>6. Queued = {}
    BY <1>2, AheadOrQueued
  <1>7. Len(sent') = Len(sent) + 1
    <2>1. PICK r : sent' = Append(sent, r)
      BY DEF SendDirect
    <2> QED BY <2>1, SentLonger
  <1> QED BY <1>1, <1>2, <1>5, <1>6, <1>7, StageReleases

LEMMA SendReleases ==
  ASSUME BlockTypes, LoopInv, BatchOK, Send
  PROVE  Stage!Release
  <1>1. PICK A \in Nat, n \in Nat : A = Len(arrived) /\ n = Len(sent)
    BY Counts
  <1>2. pc = "send" /\ toSend > 0 /\ arrived' = arrived /\ following = <<>>
    BY DEF Send
  <1>3. Len(following) = 0 /\ todo = <<>>
    BY <1>2, EmptySeq DEF LoopInv, Place
  <1>4. First = n + 1 /\ Coming = A + 1
    BY <1>1, <1>2, <1>3 DEF First, Coming, Fresh
  <1>5. First \in DOMAIN pendingIDs /\ First \notin Queued
    BY <1>2, FirstNotQueued
  <1>6. n < A
    <2>1. First < Coming
      BY <1>5 DEF LoopInv, InOrder, WayOK, PendingOK
    <2> QED BY <1>1, <1>4, <2>1
  <1>7. ASSUME NEW x \in Queued PROVE x > n + 1
    <2>1. x \in Nat /\ First <= x /\ x # First
      BY <1>5, <1>7, QueuedBounds
    <2> QED BY <1>1, <1>4, <2>1
  <1>8. Len(sent') = Len(sent) + 1
    <2>1. PICK r : sent' = Append(sent, r)
      BY DEF Send
    <2> QED BY <2>1, SentLonger
  <1> QED BY <1>1, <1>2, <1>3, <1>6, <1>7, <1>8, StageReleases

LEMMA FollowingReleases ==
  ASSUME BlockTypes, LoopInv, BatchOK, SendFollowing
  PROVE  Stage!Release
  <1>1. PICK A \in Nat, n \in Nat, m \in Nat : A = Len(arrived) /\ n = Len(sent) /\ m = Len(following)
    BY Counts
  <1>2. pc = "send" /\ arrived' = arrived /\ following # <<>>
    BY DEF SendFollowing
  <1>3. m > 0 /\ todo = <<>>
    <2>1. following \in Seq(Nat)
      BY DEF BlockTypes, DataTypes
    <2>2. m # 0
      BY <1>1, <1>2, <2>1, EmptySeq
    <2> QED BY <1>2, <2>2 DEF LoopInv, Place
  <1>4. First = n + m + 1 /\ Coming = A + 1
    BY <1>1, <1>2 DEF First, Coming, Fresh
  <1>5. n < A
    <2>1. First <= Coming
      BY FirstAtMost DEF LoopInv
    <2> QED BY <1>1, <1>3, <1>4, <2>1
  <1>6. ASSUME NEW x \in Queued PROVE x > n + 1
    <2>1. x \in Nat /\ First <= x
      BY <1>6, QueuedBounds
    <2> QED BY <1>1, <1>3, <1>4, <2>1
  <1>7. Len(sent') = Len(sent) + 1
    <2>1. PICK r : sent' = Append(sent, r)
      BY DEF SendFollowing
    <2> QED BY <2>1, SentLonger
  <1> QED BY <1>1, <1>2, <1>3, <1>5, <1>6, <1>7, StageReleases

(* A step of the block is a step of the stage or none.                      *)
LEMMA StageStep ==
  ASSUME StageInv, BlockInv', [Next]_vars
  PROVE  [Stage!Next]_(Stage!vars)
  <1>1. BlockTypes /\ BlockTypes' /\ (pc # "ended" => LoopInv /\ RoomOK /\ BatchOK)
    BY DEF StageInv, RoomInv, BlockInv
  <1>2. ASSUME AcquireInput PROVE Stage!Next
    <2>1. pc # "ended"
      BY <1>2 DEF AcquireInput
    <2> QED BY <1>1, <1>2, <2>1, StageAcquires DEF Stage!Next
  <1>3. ASSUME SendDirect \/ Send \/ SendFollowing PROVE Stage!Next
    <2>1. pc # "ended"
      BY <1>3 DEF SendDirect, Send, SendFollowing
    <2> QED BY <1>1, <1>3, <2>1, DirectReleases, SendReleases, FollowingReleases DEF Stage!Next
  <1>4. ASSUME InsertWaits \/ Insert \/ Collect \/ Attach \/ Sent \/ Exit \/ Stop
                 \/ (Device /\ UNCHANGED others) \/ UNCHANGED vars
        PROVE  UNCHANGED (Stage!vars)
    <2>1. arrived' = arrived /\ sent' = sent
      BY <1>4 DEF InsertWaits, Insert, Collect, Attach, Sent, Exit, Stop, others, vars
    <2>2. Inside' = Inside
      BY <2>1 DEF Inside
    <2>3. (Total([i \in DOMAIN arrived |-> Len(arrived[i])]) % BatchNum)'
            = Total([i \in DOMAIN arrived |-> Len(arrived[i])]) % BatchNum
      BY <2>1
    <2> QED BY <2>2, <2>3 DEF Stage!vars
  <1> QED BY <1>2, <1>3, <1>4 DEF Next, Working

LEMMA StageInit ==
  ASSUME Init, BlockTypes
  PROVE  Stage!Init
  <1>1. arrived = <<>> /\ sent = <<>>
    BY DEF Init
  <1>2. Len(arrived) = 0 /\ Len(sent) = 0
    BY <1>1, EmptySeq
  <1>3. PICK l \in Seq(Nat) : l = Lens(arrived, 0) /\ Len(l) = 0 /\ l = <<>>
    <2>1. 0 \in 0 .. Len(arrived)
      BY <1>2
    <2>2. Lens(arrived, 0) \in Seq(Nat) /\ Len(Lens(arrived, 0)) = Len(arrived) - 0
      BY <2>1, ArrivedIs, LensTyped
    <2> QED BY <1>2, <2>2, EmptySeq
  <1>4. Inside = Lens(arrived, 0)
    BY <1>2 DEF Inside, Lens
  <1>5. Total([i \in DOMAIN arrived |-> Len(arrived[i])]) = 0
    BY <1>3, PartIs, NoTotal
  <1>6. PICK B \in Nat : B = BatchNum /\ B > 0
    BY EngineAssumption
  <1>7. 0 % B = 0
    BY <1>6
  <1> QED BY <1>3, <1>4, <1>5, <1>6, <1>7 DEF Stage!Init

(* The block is the stage that the blocks around it may rely on: packets    *)
(* leave one at a time and in order, none before its last image is in a     *)
(* batch that is whole, and the block waits for another packet only when it *)
(* holds no more of them than the engine has places.                        *)
THEOREM BlockIsStage ==
  Spec => StageSpec
  <1>1. ASSUME Init, RoomInv PROVE StageInv
    BY <1>1, BatchInit DEF StageInv, RoomInv, BlockInv
  <1>2. ASSUME StageInv, RoomInv', [Next]_vars PROVE StageInv'
    <2>1. BlockTypes /\ BlockTypes' /\ (pc # "ended" => LoopInv /\ BatchOK)
      BY <1>2 DEF StageInv, RoomInv, BlockInv
    <2>2. pc' # "ended" => pc # "ended"
      BY <1>2 DEF Next, Working, AcquireInput, SendDirect, InsertWaits, Insert, Collect, Attach,
           Send, SendFollowing, Sent, Exit, Stop, others, vars
    <2>3. pc' # "ended" => BatchOK'
      BY <1>2, <2>1, <2>2, BatchStep
    <2> QED BY <1>2, <2>3 DEF StageInv
  <1>3. ASSUME Init, BlockInv PROVE Stage!Init
    BY <1>3, StageInit DEF BlockInv
  <1>4. ASSUME StageInv, BlockInv', [Next]_vars PROVE [Stage!Next]_(Stage!vars)
    BY <1>4, StageStep
  <1> QED BY <1>1, <1>2, <1>3, <1>4, BlockInvariant, RoomInvariant, PTL DEF Spec, StageSpec, Stage!Spec
=============================================================================
