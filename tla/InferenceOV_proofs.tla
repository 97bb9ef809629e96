------------------------- MODULE InferenceOV_proofs -------------------------
(***************************************************************************)
(* What the operations of the engine keep, for the proofs about its two    *)
(* callers: the types, the numbers that hold between the requests, the     *)
(* images and the batch that is being filled (EngineOK of InferenceOV), and *)
(* where each operation moves the images.  Before them the facts about     *)
(* sequences that the proofs about queues need, with induction over the    *)
(* natural numbers as a fact about sets.                                   *)
(***************************************************************************)
EXTENDS InferenceOV, SequenceTheorems, WellFoundedInduction, TLAPS

(* Induction and sequences.                                                *)
LEMMA LessIsWellFounded ==
  \E R : IsWellFoundedOn(R, Nat) /\ \A m, n \in Nat : <<m, n>> \in R <=> m < n
  <1> DEFINE R == OpToRel(<, Nat)
  <1>1. IsWellFoundedOn(R, Nat)
    BY NatLessThanWellFounded
  <1>2. \A m, n \in Nat : <<m, n>> \in R <=> m < n
    BY DEF OpToRel
  <1> HIDE DEF R
  <1> QED BY <1>1, <1>2

LEMMA LeastNumber ==
  ASSUME NEW T \in SUBSET Nat, T # {}
  PROVE  \E n \in T : \A m \in T : n <= m
  <1>1. PICK R : IsWellFoundedOn(R, Nat) /\ \A m, n \in Nat : <<m, n>> \in R <=> m < n
    BY LessIsWellFounded
  <1>2. T \subseteq Nat
    OBVIOUS
  <1>3. IsWellFoundedOn(R, Nat)
    BY <1>1
  <1>4. PICK n \in T : \A m \in T : ~(<<m, n>> \in R)
    BY <1>2, <1>3, WFMin, Zenon
  <1>5. \A m \in T : ~(m < n)
    BY <1>1, <1>4
  <1>6. \A m \in T : n <= m
    BY <1>5
  <1> QED BY <1>6

LEMMA Induction ==
  ASSUME NEW T \in SUBSET Nat, 0 \in T, \A n \in T : n + 1 \in T
  PROVE  T = Nat
  <1> SUFFICES ASSUME Nat \ T # {} PROVE FALSE
    OBVIOUS
  <1>1. PICK n \in Nat \ T : \A m \in Nat \ T : n <= m
    BY LeastNumber
  <1>2. n # 0 /\ n - 1 \in Nat
    BY <1>1
  <1>3. n - 1 \in T
    BY <1>1, <1>2
  <1>4. (n - 1) + 1 = n
    BY <1>1
  <1> QED BY <1>1, <1>2, <1>3, <1>4

-----------------------------------------------------------------------------
(* Concatenation.                                                           *)
Associate(s, t, u) == (s \o t) \o u = s \o (t \o u)

LEMMA Concat ==
  ASSUME NEW S
  PROVE  /\ \A s, t \in Seq(S) : s \o t \in Seq(S)
         /\ \A s, t, u \in Seq(S) : Associate(s, t, u)
         /\ \A s \in Seq(S) : s \o <<>> = s /\ <<>> \o s = s
         /\ <<>> \in Seq(S)
  <1>1. ASSUME NEW s \in Seq(S), NEW t \in Seq(S), NEW u \in Seq(S)
        PROVE  Associate(s, t, u)
    <2>1. (s \o t) \o u = s \o (t \o u)
      BY ConcatAssociative
    <2> QED BY <2>1 DEF Associate
  <1>2. ASSUME NEW s \in Seq(S), NEW t \in Seq(S)
        PROVE  s \o t \in Seq(S)
    BY ConcatProperties
  <1>3. ASSUME NEW s \in Seq(S)
        PROVE  s \o <<>> = s /\ <<>> \o s = s
    BY ConcatEmptySeq
  <1> QED BY <1>1, <1>2, <1>3, EmptySeq

(* The range of a concatenation, for sequences that are given by their      *)
(* elements as well.                                                        *)
LEMMA RangeOfBoth ==
  ASSUME NEW S, NEW s \in Seq(S), NEW t \in Seq(S), NEW u, u = s \o t
  PROVE  Range(u) = Range(s) \union Range(t)
  BY RangeConcatenation, Zenon

LEMMA HeadAndTail ==
  ASSUME NEW S, NEW seq \in Seq(S), seq # <<>>
  PROVE  /\ seq = <<Head(seq)>> \o Tail(seq)
         /\ Head(seq) \in S /\ Tail(seq) \in Seq(S) /\ Len(Tail(seq)) = Len(seq) - 1
         /\ Range(seq) = {Head(seq)} \union Range(Tail(seq))
  <1>1. Head(seq) \in S /\ Tail(seq) \in Seq(S) /\ Len(Tail(seq)) = Len(seq) - 1
    BY HeadTailProperties
  <1>2. seq = <<Head(seq)>> \o Tail(seq)
    OBVIOUS
  <1>3. PICK one : one = <<Head(seq)>>
    OBVIOUS
  <1>4. one \in Seq(S) /\ Range(one) = {Head(seq)}
    BY <1>1, <1>3 DEF Range
  <1>5. one \in Seq(S) /\ Tail(seq) \in Seq(S) /\ seq = one \o Tail(seq)
    BY <1>1, <1>2, <1>3, <1>4
  <1>6. Range(seq) = Range(one) \union Range(Tail(seq))
    BY <1>5, RangeOfBoth, ZenonT(30)
  <1> QED BY <1>1, <1>2, <1>4, <1>6

LEMMA AppendedOne ==
  ASSUME NEW S, NEW seq \in Seq(S), NEW e \in S
  PROVE  /\ Append(seq, e) = seq \o <<e>> /\ Append(seq, e) \in Seq(S)
         /\ Len(Append(seq, e)) = Len(seq) + 1
         /\ Range(Append(seq, e)) = Range(seq) \union {e}
  <1>1. Append(seq, e) = seq \o <<e>> /\ Append(seq, e) \in Seq(S) /\ Len(Append(seq, e)) = Len(seq) + 1
    BY AppendProperties, AppendIsConcat
  <1>2. PICK one : one = <<e>>
    OBVIOUS
  <1>3. one \in Seq(S) /\ Range(one) = {e}
    BY <1>2 DEF Range
  <1>4. PICK longer : longer = Append(seq, e)
    OBVIOUS
  <1>5. seq \in Seq(S) /\ one \in Seq(S) /\ longer = seq \o one
    BY <1>1, <1>2, <1>3, <1>4
  <1>6. Range(longer) = Range(seq) \union Range(one)
    <2>1. Range(seq \o one) = Range(seq) \union Range(one)
      BY <1>5, RangeConcatenation, Zenon
    <2> QED BY <1>5, <2>1, Zenon
  <1> QED BY <1>1, <1>3, <1>4, <1>6

-----------------------------------------------------------------------------
(* Parts of sequences.                                                      *)
(* The longest beginning of a sequence whose elements are all the same.     *)
LEMMA LongestBeginning ==
  ASSUME NEW S, NEW s \in Seq(S), NEW e
  PROVE  \E n \in 0 .. Len(s) : (\A i \in 1 .. n : s[i] = e) /\ (n < Len(s) => s[n + 1] # e)
  <1>1. PICK L \in Nat : L = Len(s)
    BY LenProperties
  <1> DEFINE T == {n \in Nat : n <= L /\ (n = L \/ s[n + 1] # e)}
  <1>2. T \in SUBSET Nat /\ T # {}
    <2>1. L \in T
      OBVIOUS
    <2> QED BY <2>1
  <1>3. PICK n \in T : \A m \in T : n <= m
    BY <1>2, LeastNumber
  <1>4. ASSUME NEW i \in 1 .. n PROVE s[i] = e
    <2>1. i - 1 \in Nat /\ i - 1 < n /\ (i - 1) + 1 = i /\ n <= L /\ i - 1 # L
      OBVIOUS
    <2>2. i - 1 \notin T
      BY <1>3, <2>1
    <2> QED BY <2>1, <2>2
  <1> QED BY <1>1, <1>4

(* The requests that are popped, and the rest.                              *)
LEMMA Split ==
  ASSUME NEW S, NEW s \in Seq(S), NEW n \in 0 .. Len(s)
  PROVE  /\ SubSeq(s, 1, n) \in Seq(S) /\ SubSeq(s, n + 1, Len(s)) \in Seq(S)
         /\ Len(SubSeq(s, 1, n)) = n /\ Len(SubSeq(s, n + 1, Len(s))) = Len(s) - n
         /\ s = SubSeq(s, 1, n) \o SubSeq(s, n + 1, Len(s))
  <1>1. PICK L \in Nat : L = Len(s)
    BY LenProperties
  <1>2. /\ \A i \in 1 .. n : s[i] \in S
        /\ \A i \in n + 1 .. L : s[i] \in S
    BY <1>1, ElementOfSeq
  <1>3. SubSeq(s, 1, n) \in Seq(S) /\ Len(SubSeq(s, 1, n)) = n
    BY <1>1, <1>2, SubSeqProperties
  <1>4. SubSeq(s, n + 1, L) \in Seq(S) /\ Len(SubSeq(s, n + 1, L)) = L - n
    BY <1>1, <1>2, SubSeqProperties
  <1>5. SubSeq(s, 1, n) \o SubSeq(s, n + 1, Len(s)) = SubSeq(s, 1, Len(s))
    <2>1. 1 \in 1 .. L + 1 /\ n \in 1 - 1 .. L /\ L \in n .. L
      BY <1>1
    <2> QED BY <1>1, <2>1, ConcatAdjacentSubSeq
  <1> QED BY <1>1, <1>3, <1>4, <1>5, SubSeqFull

(* The elements of a concatenation.                                         *)
LEMMA BothLength ==
  ASSUME NEW S, NEW s \in Seq(S), NEW t \in Seq(S)
  PROVE  Len(s \o t) = Len(s) + Len(t)
  BY ConcatProperties

LEMMA BothFirst ==
  ASSUME NEW S, NEW s \in Seq(S), NEW t \in Seq(S), NEW i \in 1 .. Len(s)
  PROVE  i \in 1 .. Len(s \o t) /\ (s \o t)[i] = s[i]
  <1>1. PICK a \in Nat, b \in Nat : a = Len(s) /\ b = Len(t)
    BY LenProperties
  <1> QED BY <1>1, ConcatProperties

LEMMA BothSecond ==
  ASSUME NEW S, NEW s \in Seq(S), NEW t \in Seq(S), NEW i \in 1 .. Len(t)
  PROVE  Len(s) + i \in 1 .. Len(s \o t) /\ (s \o t)[Len(s) + i] = t[i]
  <1>1. PICK a \in Nat, b \in Nat : a = Len(s) /\ b = Len(t)
    BY LenProperties
  <1>2. Len(s) + i - Len(s) = i /\ ~(Len(s) + i <= Len(s)) /\ Len(s) + i \in 1 .. Len(s) + Len(t)
    BY <1>1
  <1> QED BY <1>2, ConcatProperties

(* A sequence with the elements of two.                                     *)
LEMMA IsBoth ==
  ASSUME NEW S, NEW s \in Seq(S), NEW t \in Seq(S), NEW u \in Seq(S),
         Len(u) = Len(s) + Len(t),
         \A i \in 1 .. Len(s) : u[i] = s[i],
         \A i \in 1 .. Len(t) : u[Len(s) + i] = t[i]
  PROVE  u = s \o t
  <1>1. PICK a \in Nat, b \in Nat : a = Len(s) /\ b = Len(t)
    BY LenProperties
  <1>2. PICK v \in Seq(S) : v = s \o t
    BY Concat
  <1>3. Len(v) = Len(u)
    BY <1>2, BothLength
  <1>4. ASSUME NEW i \in 1 .. Len(u) PROVE u[i] = v[i]
    <2>1. CASE i \in 1 .. a
      BY <1>1, <1>2, <2>1, BothFirst
    <2>2. CASE i \notin 1 .. a
      <3>1. PICK j \in 1 .. b : i = a + j
        <4>1. i - a \in 1 .. b /\ i = a + (i - a)
          BY <1>1, <2>2
        <4> QED BY <4>1
      <3> QED BY <1>1, <1>2, <3>1, BothSecond
    <2> QED BY <2>1, <2>2
  <1> QED BY <1>2, <1>3, <1>4, SeqEqual

LEMMA SeqOfFewer ==
  ASSUME NEW S, NEW T, S \subseteq T, NEW s \in Seq(S)
  PROVE  s \in Seq(T)
  <1>1. PICK L \in Nat : L = Len(s) /\ s \in [1 .. L -> S]
    BY LenProperties
  <1>2. s \in [1 .. L -> T]
    BY <1>1
  <1> QED BY <1>2, SeqDef

-----------------------------------------------------------------------------
(* What FlattenSeq computes, from the first sequence to the n-th.           *)
FlattenedTo(n, f, S, seq) ==
  /\ f \in [0 .. n -> Seq(S)] /\ f[0] = <<>>
  /\ \A m \in 1 .. n : f[m] = f[m - 1] \o seq[m]

LEMMA OneIn ==
  ASSUME NEW S, NEW e \in S
  PROVE  <<e>> \in Seq(S) /\ Len(<<e>>) = 1 /\ <<e>>[1] = e
  OBVIOUS

LEMMA FlattenedExists ==
  ASSUME NEW S, NEW seq \in Seq(Seq(S))
  PROVE  \E f : FlattenedTo(Len(seq), f, S, seq)
  <1> DEFINE T == {n \in Nat : n <= Len(seq) => \E f : FlattenedTo(n, f, S, seq)}
  <1>1. 0 \in T
    <2> DEFINE f == [m \in 0 .. 0 |-> <<>>]
    <2>1. f \in [0 .. 0 -> Seq(S)] /\ f[0] = <<>> /\ \A m \in 1 .. 0 : f[m] = f[m - 1] \o seq[m]
      BY Concat
    <2> HIDE DEF f
    <2>2. FlattenedTo(0, f, S, seq)
      BY <2>1 DEF FlattenedTo
    <2> QED BY <2>2
  <1>2. ASSUME NEW n \in T PROVE n + 1 \in T
    <2> SUFFICES ASSUME n + 1 <= Len(seq) PROVE \E f : FlattenedTo(n + 1, f, S, seq)
      BY <1>2
    <2>1. PICK f : FlattenedTo(n, f, S, seq)
      BY <1>2, LenProperties
    <2>2. n \in Nat /\ seq[n + 1] \in Seq(S) /\ f[n] \in Seq(S)
      BY <2>1, ElementOfSeq DEF FlattenedTo
    <2>3. PICK v \in Seq(S) : v = f[n] \o seq[n + 1]
      BY <2>2, Concat
    <2> DEFINE g == [m \in 0 .. n + 1 |-> IF m <= n THEN f[m] ELSE v]
    <2>4. g \in [0 .. n + 1 -> Seq(S)] /\ g[0] = <<>>
      BY <2>1, <2>2, <2>3 DEF FlattenedTo
    <2>5. \A m \in 0 .. n + 1 : g[m] = IF m <= n THEN f[m] ELSE v
      OBVIOUS
    <2> HIDE DEF g
    <2>7. ASSUME NEW m \in 1 .. n + 1 PROVE g[m] = g[m - 1] \o seq[m]
      <3>1. m \in 0 .. n + 1 /\ m - 1 \in 0 .. n + 1 /\ m - 1 <= n /\ n \in Nat
        BY <2>2
      <3>2. g[m - 1] = f[m - 1]
        BY <2>5, <3>1
      <3>3. CASE m <= n
        <4>1. m \in 1 .. n
          BY <2>2, <3>3
        <4>2. f[m] = f[m - 1] \o seq[m]
          BY <2>1, <4>1 DEF FlattenedTo
        <4>3. g[m] = f[m]
          BY <2>5, <3>1, <3>3
        <4> QED BY <3>2, <4>2, <4>3, Zenon
      <3>4. CASE m = n + 1
        <4>1. g[m] = v /\ m - 1 = n
          BY <2>5, <3>1, <3>4
        <4> QED BY <2>3, <3>2, <3>4, <4>1, Zenon
      <3>5. m <= n \/ m = n + 1
        BY <2>2
      <3> QED BY <3>3, <3>4, <3>5
    <2>6. FlattenedTo(n + 1, g, S, seq)
      BY <2>4, <2>7 DEF FlattenedTo
    <2> QED BY <2>6
  <1> HIDE DEF T
  <1>3. T \in SUBSET Nat
    BY DEF T
  <1>4. T = Nat
    BY <1>1, <1>2, <1>3, Induction
  <1>5. Len(seq) \in T
    BY <1>4, LenProperties
  <1> QED BY <1>5, LenProperties DEF T

LEMMA FlattenIs ==
  ASSUME NEW S, NEW seq \in Seq(Seq(S))
  PROVE  \E f : FlattenedTo(Len(seq), f, S, seq) /\ FlattenSeq(seq) = f[Len(seq)]
  <1> DEFINE u == CHOOSE g : g = [i \in 1 .. Len(seq) |-> IF i = 1 THEN seq[i] ELSE g[i - 1] \o seq[i]]
  <1>1. FlattenSeq(seq) = IF Len(seq) = 0 THEN seq ELSE u[Len(seq)]
    BY DEF FlattenSeq
  <1>2. PICK f : FlattenedTo(Len(seq), f, S, seq)
    BY FlattenedExists
  <1>3. PICK L \in Nat : L = Len(seq)
    BY LenProperties
  <1>4. CASE L = 0
    <2>1. seq = <<>>
      BY <1>3, <1>4, EmptySeq
    <2> QED BY <1>1, <1>2, <1>3, <1>4, <2>1 DEF FlattenedTo
  <1>5. CASE L # 0
    <2>1. f \in [0 .. L -> Seq(S)] /\ f[0] = <<>> /\ \A m \in 1 .. L : f[m] = f[m - 1] \o seq[m]
      BY <1>2, <1>3 DEF FlattenedTo
    <2>2. f[1] = seq[1] /\ seq[1] \in Seq(S)
      <3>1. seq[1] \in Seq(S) /\ f[1] = f[0] \o seq[1]
        <4>1. 1 \in 1 .. L /\ 1 - 1 = 0
          BY <1>5
        <4> QED BY <1>3, <2>1, <4>1, ElementOfSeq
      <3> QED BY <2>1, <3>1, Concat
    <2> DEFINE g == [i \in 1 .. L |-> f[i]]
    <2>3. g = [i \in 1 .. L |-> IF i = 1 THEN seq[i] ELSE g[i - 1] \o seq[i]]
      <3>1. ASSUME NEW i \in 1 .. L PROVE f[i] = IF i = 1 THEN seq[i] ELSE g[i - 1] \o seq[i]
        <4>1. CASE i = 1
          BY <2>2, <4>1
        <4>2. CASE i # 1
          <5>1. i - 1 \in 1 .. L
            BY <4>2
          <5> QED BY <2>1, <4>2, <5>1
        <4> QED BY <4>1, <4>2
      <3> QED BY <3>1
    <2> HIDE DEF g
    <2>4. u = [i \in 1 .. L |-> IF i = 1 THEN seq[i] ELSE u[i - 1] \o seq[i]]
      BY <1>3, <2>3
    <2> HIDE DEF u
    <2> DEFINE T == {n \in Nat : n + 1 <= L => u[n + 1] = f[n + 1]}
    <2>5. 0 \in T
      BY <1>5, <2>2, <2>4
    <2>6. ASSUME NEW n \in T PROVE n + 1 \in T
      <3> SUFFICES ASSUME (n + 1) + 1 <= L PROVE u[(n + 1) + 1] = f[(n + 1) + 1]
        OBVIOUS
      <3>1. PICK i \in 1 .. L : i = (n + 1) + 1 /\ i # 1 /\ i - 1 = n + 1
        OBVIOUS
      <3>2. u[i] = u[i - 1] \o seq[i] /\ f[i] = f[i - 1] \o seq[i]
        BY <2>1, <2>4, <3>1
      <3>3. u[n + 1] = f[n + 1]
        OBVIOUS
      <3> QED BY <3>1, <3>2, <3>3
    <2> HIDE DEF T
    <2>7. T \in SUBSET Nat
      BY DEF T
    <2>8. T = Nat
      BY <2>5, <2>6, <2>7, Induction
    <2>9. u[L] = f[L]
      <3>1. L - 1 \in T /\ (L - 1) + 1 = L
        BY <1>5, <2>8
      <3> QED BY <3>1 DEF T
    <2> QED BY <1>1, <1>2, <1>3, <1>5, <2>9
  <1> QED BY <1>4, <1>5

(* FlattenSeq of a sequence that became longer by one.                      *)
LEMMA FlattenOneMore ==
  ASSUME NEW S, NEW seq \in Seq(Seq(S)), NEW e \in Seq(S), NEW longer, longer = seq \o <<e>>
  PROVE  FlattenSeq(longer) = FlattenSeq(seq) \o e
  <1>1. PICK L \in Nat : L = Len(seq)
    BY LenProperties
  <1>2. PICK one \in Seq(Seq(S)) : one = <<e>> /\ Len(one) = 1 /\ one[1] = e
    <2>1. <<e>> \in Seq(Seq(S)) /\ Len(<<e>>) = 1 /\ <<e>>[1] = e
      BY OneIn, Zenon
    <2> QED BY <2>1, Zenon
  <1>3. /\ longer \in Seq(Seq(S)) /\ Len(longer) = L + 1
        /\ \A i \in 1 .. L + 1 : longer[i] = IF i <= L THEN seq[i] ELSE one[i - L]
    BY <1>1, <1>2, ConcatProperties
  <1>4. PICK f : FlattenedTo(L, f, S, seq) /\ FlattenSeq(seq) = f[L]
    BY <1>1, FlattenIs
  <1>5. PICK g : FlattenedTo(L + 1, g, S, longer) /\ FlattenSeq(longer) = g[L + 1]
    BY <1>3, FlattenIs
  <1> DEFINE T == {n \in Nat : n <= L => f[n] = g[n]}
  <1>6. 0 \in T
    BY <1>4, <1>5 DEF FlattenedTo
  <1>7. ASSUME NEW n \in T PROVE n + 1 \in T
    <2> SUFFICES ASSUME n + 1 <= L PROVE f[n + 1] = g[n + 1]
      OBVIOUS
    <2>0. n \in Nat /\ L \in Nat /\ n + 1 <= L
      BY <1>7
    <2>1. PICK i \in 1 .. L : i = n + 1 /\ i - 1 = n /\ i \in 1 .. L + 1
      BY <2>0
    <2>2. f[i] = f[i - 1] \o seq[i] /\ g[i] = g[i - 1] \o longer[i] /\ longer[i] = seq[i]
      BY <1>3, <1>4, <1>5, <2>1 DEF FlattenedTo
    <2>3. f[n] = g[n]
      BY <2>1
    <2> QED BY <2>1, <2>2, <2>3
  <1> HIDE DEF T
  <1>8. T \in SUBSET Nat
    BY DEF T
  <1>9. T = Nat
    BY <1>6, <1>7, <1>8, Induction
  <1>10. f[L] = g[L] /\ f[L] \in Seq(S)
    <2>1. f[L] = g[L]
      <3>1. L \in T
        BY <1>9
      <3> QED BY <3>1 DEF T
    <2>2. L \in 0 .. L /\ f \in [0 .. L -> Seq(S)]
      BY <1>4 DEF FlattenedTo
    <2>3. f[L] \in Seq(S)
      BY <2>2, Zenon
    <2> QED BY <2>1, <2>3
  <1>11. g[L + 1] = g[L] \o longer[L + 1] /\ longer[L + 1] = e
    <2>1. PICK i \in 1 .. L + 1 : i = L + 1 /\ i - 1 = L /\ ~(i <= L) /\ i - L = 1
      OBVIOUS
    <2> QED BY <1>2, <1>3, <1>5, <2>1 DEF FlattenedTo
  <1> QED BY <1>3, <1>4, <1>5, <1>10, <1>11

LEMMA FlattenNone ==
  FlattenSeq(<<>>) = <<>>
  BY DEF FlattenSeq

LEMMA FlattenType ==
  ASSUME NEW S, NEW s \in Seq(Seq(S))
  PROVE  FlattenSeq(s) \in Seq(S)
  <1>1. PICK f : FlattenedTo(Len(s), f, S, s) /\ FlattenSeq(s) = f[Len(s)]
    BY FlattenIs
  <1> QED BY <1>1, LenProperties DEF FlattenedTo

(* FlattenSeq of a concatenation, when its second part becomes longer.      *)
LEMMA FlattenStep ==
  ASSUME NEW S, NEW s \in Seq(Seq(S)), NEW w \in Seq(Seq(S)), NEW e \in Seq(S), FlattenSeq(s) \in Seq(S),
         FlattenSeq(s \o w) = FlattenSeq(s) \o FlattenSeq(w)
  PROVE  FlattenSeq(s \o (w \o <<e>>)) = FlattenSeq(s) \o FlattenSeq(w \o <<e>>)
  <1>1. PICK x \in Seq(Seq(S)) : x = s \o w
    BY Concat
  <1>2. PICK one \in Seq(Seq(S)) : one = <<e>>
    BY OneIn, Zenon
  <1>3. PICK y : y = x \o <<e>>
    OBVIOUS
  <1>4. FlattenSeq(y) = FlattenSeq(x) \o e
    BY <1>3, FlattenOneMore, Zenon
  <1>5. PICK z : z = w \o <<e>>
    OBVIOUS
  <1>6. FlattenSeq(z) = FlattenSeq(w) \o e
    BY <1>5, FlattenOneMore, Zenon
  <1>7. y = s \o z
    <2>1. Associate(s, w, one)
      BY Concat
    <2> QED BY <1>1, <1>2, <1>3, <1>5, <2>1 DEF Associate
  <1>8. Associate(FlattenSeq(s), FlattenSeq(w), e)
    BY FlattenType, Concat
  <1>9. FlattenSeq(y) = FlattenSeq(s) \o FlattenSeq(z)
    BY <1>1, <1>4, <1>6, <1>8, Zenon DEF Associate
  <1> QED BY <1>5, <1>7, <1>9, Zenon

LEMMA FlattenBoth ==
  ASSUME NEW S, NEW s \in Seq(Seq(S)), NEW t \in Seq(Seq(S))
  PROVE  FlattenSeq(s \o t) = FlattenSeq(s) \o FlattenSeq(t)
  <1> DEFINE T == {n \in Nat : \A v \in Seq(Seq(S)) :
                                 Len(v) = n => FlattenSeq(s \o v) = FlattenSeq(s) \o FlattenSeq(v)}
  <1>1. 0 \in T
    <2> SUFFICES ASSUME NEW v \in Seq(Seq(S)), Len(v) = 0
                 PROVE  FlattenSeq(s \o v) = FlattenSeq(s) \o FlattenSeq(v)
      OBVIOUS
    <2>1. v = <<>>
      BY EmptySeq
    <2> QED BY <2>1, FlattenType, FlattenNone, Concat
  <1>2. ASSUME NEW n \in T PROVE n + 1 \in T
    <2> SUFFICES ASSUME NEW v \in Seq(Seq(S)), Len(v) = n + 1
                 PROVE  FlattenSeq(s \o v) = FlattenSeq(s) \o FlattenSeq(v)
      OBVIOUS
    <2>1. PICK w \in Seq(Seq(S)), e \in Seq(S) : v = w \o <<e>> /\ Len(w) = n
      <3>1. v # <<>>
        BY EmptySeq
      <3>2. PICK w \in Seq(Seq(S)), e \in Seq(S) : v = Append(w, e)
        BY <3>1, SequenceEmptyOrAppend
      <3>3. v = w \o <<e>> /\ Len(v) = Len(w) + 1
        BY <3>2, AppendedOne
      <3>4. Len(w) = n
        BY <3>3, LenProperties
      <3> QED BY <3>3, <3>4
    <2>2. FlattenSeq(s \o w) = FlattenSeq(s) \o FlattenSeq(w)
      BY <2>1
    <2>3. FlattenSeq(s) \in Seq(S)
      BY FlattenType
    <2> HIDE DEF T
    <2> QED BY <2>1, <2>2, <2>3, FlattenStep
  <1> HIDE DEF T
  <1>3. T \in SUBSET Nat
    BY DEF T
  <1>4. T = Nat
    BY <1>1, <1>2, <1>3, Induction
  <1>5. Len(t) \in T
    BY <1>4, LenProperties
  <1> QED BY <1>5 DEF T

-----------------------------------------------------------------------------
(* The engine.                                                             *)
Image == [id : Nat, found : Nat]
States == {"running", "done", "failed"}

EngineTypes ==
  /\ EngineOK
  /\ busyRequest \in Seq(States) /\ images \in Seq(Image)
  /\ internalDatas \in Seq(Nat) /\ internalIDs \in Seq(Nat)
  /\ datas \in Seq(Nat) /\ ids \in Seq(Nat)

LEMMA FinishedIs ==
  ASSUME EngineTypes
  PROVE  Finished \in 0 .. Len(busyRequest)
  <1>1. busyRequest \in Seq(States)
    BY DEF EngineTypes
  <1>2. \E n \in 0 .. Len(busyRequest) :
          (\A i \in 1 .. n : busyRequest[i] = "done") /\ (n < Len(busyRequest) => busyRequest[n + 1] # "done")
    BY <1>1, LongestBeginning
  <1> QED BY <1>2 DEF Finished

LEMMA Shorter ==
  ASSUME NEW n \in Nat, NEW l \in Nat, n <= l, NEW b \in Nat
  PROVE  /\ n * b \in Nat /\ l * b \in Nat /\ n * b <= l * b
         /\ (l - n) * b = l * b - n * b /\ (l + 1) * b = l * b + b
  <1>1. PICK m \in Nat : l = n + m
    BY l - n \in Nat
  <1>2. m * b \in Nat /\ n * b \in Nat
    OBVIOUS
  <1>3. (n + m) * b = n * b + m * b
    OBVIOUS
  <1> QED BY <1>1, <1>2, <1>3

LEMMA PopSplits ==
  ASSUME EngineTypes, NEW n \in 0 .. Len(busyRequest), Pop(n), batchIndex' = batchIndex,
         internalDatas' \in Seq(Nat), internalIDs' \in Seq(Nat), datas' \in Seq(Nat), ids' \in Seq(Nat)
  PROVE  EngineTypes' /\ Popped(n) \in Seq(Image) /\ images = Popped(n) \o images'
  <1>1. PICK L \in Nat, M \in Nat, N \in Nat, F \in Nat, B \in Nat :
          L = Len(busyRequest) /\ M = Len(images) /\ N = n * BatchNum /\ F = freeRequest /\ B = BatchNum
    BY EngineAssumption, LenProperties DEF EngineTypes, EngineOK
  <1>2. M = L * B + batchIndex /\ batchIndex \in Nat /\ n \in Nat /\ n <= L /\ N = n * B
    BY <1>1, EngineAssumption DEF EngineTypes, EngineOK
  <1>3. N <= L * B /\ (L - n) * B = L * B - N /\ L * B \in Nat
    <2>1. n * B <= L * B /\ (L - n) * B = L * B - n * B /\ L * B \in Nat
      <3>1. n \in Nat /\ L \in Nat /\ n <= L /\ B \in Nat
        BY <1>2
      <3> QED BY <3>1, Shorter
    <2> QED BY <1>2, <2>1
  <1>4. N \in 0 .. M
    BY <1>1, <1>2, <1>3
  <1>5. /\ Popped(n) \in Seq(Image) /\ images' \in Seq(Image) /\ Len(images') = M - N
        /\ images = Popped(n) \o images'
    BY <1>1, <1>4, Split DEF EngineTypes, Pop, Popped
  <1>6. busyRequest' \in Seq(States) /\ Len(busyRequest') = L - n
    BY <1>1, Split DEF EngineTypes, Pop
  <1>7. M - N = (L - n) * B + batchIndex
    BY <1>2, <1>3
  <1>8. /\ freeRequest' \in 0 .. AsyncDepth /\ freeRequest' + Len(busyRequest') = AsyncDepth
        /\ batchIndex' > 0 => freeRequest' > 0
    <2>1. freeRequest' = F + n /\ F + L = AsyncDepth /\ (batchIndex > 0 => F > 0)
      BY <1>1 DEF EngineTypes, EngineOK, Pop
    <2>2. AsyncDepth \in Nat
      BY EngineAssumption
    <2>3. Len(busyRequest') = L - n /\ n \in Nat /\ n <= L /\ F \in Nat /\ L \in Nat
      BY <1>2, <1>6
    <2>4. freeRequest' \in 0 .. AsyncDepth /\ freeRequest' + Len(busyRequest') = AsyncDepth
      BY <2>1, <2>2, <2>3
    <2>5. batchIndex' > 0 => freeRequest' > 0
      BY <2>1, <2>3
    <2> QED BY <2>4, <2>5
  <1>9. \A i \in DOMAIN busyRequest' : busyRequest'[i] \in States
    BY <1>6, LenProperties, ElementOfSeq
  <1>10. EngineOK'
    BY <1>1, <1>5, <1>6, <1>7, <1>8, <1>9 DEF EngineTypes, EngineOK, States
  <1> QED BY <1>5, <1>6, <1>10 DEF EngineTypes

LEMMA InsertTypes ==
  ASSUME EngineTypes, NEW image \in Image, InsertImage(image)
  PROVE  EngineTypes' /\ images' = images \o <<image>>
  <1>1. PICK L \in Nat, M \in Nat, B \in Nat, i \in Nat, F \in Nat :
          L = Len(busyRequest) /\ M = Len(images) /\ B = BatchNum /\ i = batchIndex /\ F = freeRequest
    BY EngineAssumption, LenProperties DEF EngineTypes, EngineOK
  <1>2. images' = images \o <<image>> /\ images' \in Seq(Image) /\ Len(images') = M + 1
    BY <1>1, AppendedOne DEF EngineTypes, InsertImage
  <1>3. M = L * B + i /\ i <= B - 1 /\ F > 0 /\ F + L = AsyncDepth /\ L * B \in Nat
    BY <1>1, EngineAssumption DEF EngineTypes, EngineOK, InsertImage
  <1>4. CASE i + 1 >= B
    <2>1. batchIndex' = 0 /\ busyRequest' = Append(busyRequest, "running") /\ freeRequest' = F - 1
      BY <1>1, <1>4 DEF InsertImage
    <2>2. busyRequest' \in Seq(States) /\ Len(busyRequest') = L + 1
      BY <1>1, <2>1, AppendedOne DEF EngineTypes, States
    <2>3. M + 1 = (L + 1) * B
      BY <1>3, <1>4, Shorter
    <2>4. \A k \in DOMAIN busyRequest' : busyRequest'[k] \in States
      BY <2>2, LenProperties, ElementOfSeq
    <2>5. EngineOK'
      <3>1. /\ freeRequest' \in 0 .. AsyncDepth /\ freeRequest' + Len(busyRequest') = AsyncDepth
            /\ 0 \in 0 .. BatchNum - 1
        BY <1>1, <1>3, <2>1, <2>2, EngineAssumption
      <3>2. Len(images') = Len(busyRequest') * BatchNum + 0
        BY <1>1, <1>2, <2>2, <2>3, <1>3
      <3> QED BY <2>1, <2>4, <3>1, <3>2 DEF EngineOK, States
    <2> QED BY <1>2, <2>2, <2>5 DEF EngineTypes, InsertImage, internal, outputs
  <1>5. CASE ~(i + 1 >= B)
    <2>1. batchIndex' = i + 1 /\ busyRequest' = busyRequest /\ freeRequest' = F
      BY <1>1, <1>5 DEF InsertImage, requests
    <2>2. EngineOK'
      BY <1>1, <1>2, <1>3, <1>5, <2>1, EngineAssumption DEF EngineTypes, EngineOK
    <2> QED BY <1>2, <2>1, <2>2 DEF EngineTypes, InsertImage, internal, outputs
  <1> QED BY <1>4, <1>5

LEMMA DeviceTypes ==
  ASSUME EngineTypes, Device
  PROVE  EngineTypes' /\ UNCHANGED <<images, internal, outputs>>
  <1>1. PICK i \in DOMAIN busyRequest, state \in States :
          busyRequest' = [busyRequest EXCEPT ![i] = state] /\ UNCHANGED <<freeRequest, images, batchIndex, internal, outputs>>
    BY DEF Device, Complete, Fail, States
  <1>2. busyRequest' \in Seq(States) /\ Len(busyRequest') = Len(busyRequest)
    BY <1>1, ExceptSeq, LenProperties DEF EngineTypes
  <1>3. \A k \in DOMAIN busyRequest' : busyRequest'[k] \in States
    BY <1>2, LenProperties, ElementOfSeq
  <1>4. EngineOK'
    BY <1>1, <1>2, <1>3 DEF EngineTypes, EngineOK, States
  <1> QED BY <1>1, <1>2, <1>4 DEF EngineTypes, internal, outputs

-----------------------------------------------------------------------------
(* The results of an image, and of each image of a batch: what Translate    *)
(* flattens.                                                                *)
FoundIn(image) == [k \in 1 .. image.found |-> image.id]
Lists(batch) == [i \in DOMAIN batch |-> FoundIn(batch[i])]

LEMMA ResultsType ==
  ASSUME NEW image \in Image
  PROVE  FoundIn(image) \in Seq(Nat)
  <1>1. PICK f \in Nat, d \in Nat : f = image.found /\ d = image.id
    BY DEF Image
  <1>2. FoundIn(image) = [k \in 1 .. f |-> d]
    BY <1>1 DEF FoundIn
  <1>3. [k \in 1 .. f |-> d] \in [1 .. f -> Nat]
    OBVIOUS
  <1> QED BY <1>2, <1>3, SeqDef

LEMMA ResultsLength ==
  ASSUME NEW image \in Image
  PROVE  Len(FoundIn(image)) = image.found
  <1>1. PICK f \in Nat : f = image.found
    BY DEF Image
  <1>2. DOMAIN FoundIn(image) = 1 .. f
    BY <1>1 DEF FoundIn
  <1> QED BY <1>1, <1>2, ResultsType, LenProperties

LEMMA ListsType ==
  ASSUME NEW s \in Seq(Image)
  PROVE  Lists(s) \in Seq(Seq(Nat))
  <1>1. PICK L \in Nat : L = Len(s) /\ DOMAIN s = 1 .. L
    BY LenProperties
  <1>2. ASSUME NEW i \in 1 .. L PROVE FoundIn(s[i]) \in Seq(Nat)
    BY <1>1, ElementOfSeq, ResultsType
  <1>3. Lists(s) \in [1 .. L -> Seq(Nat)]
    <2>1. Lists(s) = [i \in 1 .. L |-> FoundIn(s[i])]
      BY <1>1, Zenon DEF Lists
    <2> QED BY <1>2, <2>1, Zenon
  <1> DEFINE T == Seq(Nat)
  <1>4. Lists(s) \in [1 .. L -> T]
    BY <1>3
  <1> HIDE DEF T
  <1>5. Lists(s) \in Seq(T)
    BY <1>4, SeqDef
  <1> QED BY <1>5 DEF T

LEMMA ListsLength ==
  ASSUME NEW s \in Seq(Image)
  PROVE  Len(Lists(s)) = Len(s)
  <1>1. PICK L \in Nat : L = Len(s) /\ DOMAIN s = 1 .. L
    BY LenProperties
  <1>2. DOMAIN Lists(s) = 1 .. L
    BY <1>1, Zenon DEF Lists
  <1>3. Lists(s) \in Seq(Seq(Nat))
    BY ListsType
  <1>4. Len(Lists(s)) \in Nat /\ 1 .. L = 1 .. Len(Lists(s))
    BY <1>2, <1>3, LenProperties, Zenon
  <1> QED BY <1>1, <1>4

LEMMA ListsElement ==
  ASSUME NEW s \in Seq(Image), NEW i \in 1 .. Len(s)
  PROVE  Lists(s)[i] = FoundIn(s[i])
  <1>1. DOMAIN s = 1 .. Len(s)
    BY LenProperties
  <1> QED BY <1>1, Zenon DEF Lists

LEMMA IDsType ==
  ASSUME NEW s \in Seq(Image)
  PROVE  IDs(s) \in Seq(Nat)
  <1>1. PICK L \in Nat : L = Len(s) /\ DOMAIN s = 1 .. L
    BY LenProperties
  <1>2. ASSUME NEW i \in 1 .. L PROVE s[i].id \in Nat
    <2>1. s[i] \in Image
      BY <1>1, ElementOfSeq
    <2> QED BY <2>1 DEF Image
  <1>3. IDs(s) \in [1 .. L -> Nat]
    BY <1>1, <1>2 DEF IDs
  <1> QED BY <1>1, <1>3, SeqDef

LEMMA IDsLength ==
  ASSUME NEW s \in Seq(Image)
  PROVE  Len(IDs(s)) = Len(s)
  <1>1. PICK L \in Nat : L = Len(s) /\ DOMAIN s = 1 .. L
    BY LenProperties
  <1>2. DOMAIN IDs(s) = 1 .. L
    BY <1>1, Zenon DEF IDs
  <1>3. IDs(s) \in Seq(Nat)
    BY IDsType
  <1>4. Len(IDs(s)) \in Nat /\ 1 .. L = 1 .. Len(IDs(s))
    BY <1>2, <1>3, LenProperties, Zenon
  <1> QED BY <1>1, <1>4

LEMMA IDsElement ==
  ASSUME NEW s \in Seq(Image), NEW i \in 1 .. Len(s)
  PROVE  IDs(s)[i] = s[i].id
  <1>1. DOMAIN s = 1 .. Len(s)
    BY LenProperties
  <1> QED BY <1>1, Zenon DEF IDs

LEMMA IDsOfBoth ==
  ASSUME NEW s \in Seq(Image), NEW t \in Seq(Image)
  PROVE  IDs(s \o t) = IDs(s) \o IDs(t)
  <1>1. PICK u \in Seq(Image) : u = s \o t
    BY Concat
  <1>2. IDs(u) \in Seq(Nat) /\ IDs(s) \in Seq(Nat) /\ IDs(t) \in Seq(Nat)
    BY IDsType
  <1>3. Len(IDs(u)) = Len(IDs(s)) + Len(IDs(t))
    <2>1. Len(u) = Len(s) + Len(t)
      BY <1>1, BothLength
    <2> QED BY <2>1, IDsLength
  <1>4. ASSUME NEW i \in 1 .. Len(IDs(s)) PROVE IDs(u)[i] = IDs(s)[i]
    <2>1. i \in 1 .. Len(s) /\ i \in 1 .. Len(u) /\ u[i] = s[i]
      BY <1>1, IDsLength, BothFirst
    <2> QED BY <2>1, IDsElement
  <1>5. ASSUME NEW i \in 1 .. Len(IDs(t)) PROVE IDs(u)[Len(IDs(s)) + i] = IDs(t)[i]
    <2>1. Len(IDs(s)) = Len(s) /\ Len(IDs(t)) = Len(t)
      BY IDsLength
    <2>2. PICK j : j = Len(s) + i
      OBVIOUS
    <2>3. j \in 1 .. Len(u) /\ u[j] = t[i]
      BY <1>1, <2>1, <2>2, BothSecond
    <2>4. IDs(u)[j] = u[j].id /\ IDs(t)[i] = t[i].id
      BY <2>1, <2>3, IDsElement
    <2> QED BY <2>1, <2>2, <2>3, <2>4
  <1>6. IDs(u) = IDs(s) \o IDs(t)
    BY <1>2, <1>3, <1>4, <1>5, IsBoth
  <1> QED BY <1>1, <1>6

LEMMA ListsOfBoth ==
  ASSUME NEW s \in Seq(Image), NEW t \in Seq(Image)
  PROVE  Lists(s \o t) = Lists(s) \o Lists(t)
  <1>1. PICK u \in Seq(Image) : u = s \o t
    BY Concat
  <1>2. Lists(u) \in Seq(Seq(Nat)) /\ Lists(s) \in Seq(Seq(Nat)) /\ Lists(t) \in Seq(Seq(Nat))
    BY ListsType
  <1>3. Len(Lists(u)) = Len(Lists(s)) + Len(Lists(t))
    <2>1. Len(u) = Len(s) + Len(t)
      BY <1>1, BothLength
    <2> QED BY <2>1, ListsLength
  <1>4. ASSUME NEW i \in 1 .. Len(Lists(s)) PROVE Lists(u)[i] = Lists(s)[i]
    <2>1. i \in 1 .. Len(s) /\ i \in 1 .. Len(u) /\ u[i] = s[i]
      BY <1>1, ListsLength, BothFirst
    <2> QED BY <2>1, ListsElement
  <1>5. ASSUME NEW i \in 1 .. Len(Lists(t)) PROVE Lists(u)[Len(Lists(s)) + i] = Lists(t)[i]
    <2>1. Len(Lists(s)) = Len(s) /\ Len(Lists(t)) = Len(t)
      BY ListsLength
    <2>2. PICK j : j = Len(s) + i
      OBVIOUS
    <2>3. j \in 1 .. Len(u) /\ u[j] = t[i]
      BY <1>1, <2>1, <2>2, BothSecond
    <2>4. Lists(u)[j] = FoundIn(u[j]) /\ Lists(t)[i] = FoundIn(t[i])
      BY <2>1, <2>3, ListsElement
    <2> QED BY <2>1, <2>2, <2>3, <2>4
  <1>6. Lists(u) = Lists(s) \o Lists(t)
    <2> DEFINE T == Seq(Nat)
    <2>1. Lists(u) \in Seq(T) /\ Lists(s) \in Seq(T) /\ Lists(t) \in Seq(T)
      BY <1>2
    <2> HIDE DEF T
    <2> QED BY <1>3, <1>4, <1>5, <2>1, IsBoth
  <1> QED BY <1>1, <1>6

LEMMA TranslateIs ==
  ASSUME NEW s \in Seq(Image)
  PROVE  Translate(s) = FlattenSeq(Lists(s))
  BY DEF Translate, Lists, FoundIn

LEMMA TranslateType ==
  ASSUME NEW s \in Seq(Image)
  PROVE  Translate(s) \in Seq(Nat)
  BY TranslateIs, ListsType, FlattenType, Zenon

(* Two batches give the results of the first and then those of the second.  *)
LEMMA TranslateBoth ==
  ASSUME NEW s \in Seq(Image), NEW t \in Seq(Image)
  PROVE  Translate(s \o t) = Translate(s) \o Translate(t)
  <1>1. PICK u \in Seq(Image) : u = s \o t
    BY Concat
  <1>2. Lists(s) \in Seq(Seq(Nat)) /\ Lists(t) \in Seq(Seq(Nat))
    BY ListsType
  <1>3. Lists(u) = Lists(s) \o Lists(t)
    BY <1>1, ListsOfBoth
  <1>4. FlattenSeq(Lists(s) \o Lists(t)) = FlattenSeq(Lists(s)) \o FlattenSeq(Lists(t))
    BY <1>2, FlattenBoth, Zenon
  <1>5. Translate(u) = FlattenSeq(Lists(u)) /\ Translate(s) = FlattenSeq(Lists(s)) /\ Translate(t) = FlattenSeq(Lists(t))
    BY TranslateIs, Zenon
  <1> QED BY <1>1, <1>3, <1>4, <1>5, Zenon

LEMMA NothingTranslated ==
  Translate(<<>>) = <<>> /\ IDs(<<>>) = <<>>
  <1>1. PICK s \in Seq(Image) : s = <<>>
    BY EmptySeq
  <1>2. Len(Lists(s)) = 0 /\ Len(IDs(s)) = 0
    BY <1>1, ListsLength, IDsLength
  <1>3. Lists(s) = <<>>
    BY <1>2, ListsType, EmptySeq
  <1>4. IDs(s) = <<>>
    BY <1>2, IDsType, EmptySeq
  <1> QED BY <1>1, <1>3, <1>4, TranslateIs, FlattenNone

(* If every image has a result, only no images have none.                   *)
LEMMA SomethingTranslated ==
  ASSUME NEW s \in Seq(Image), \A i \in 1 .. Len(s) : s[i].found > 0, Translate(s) = <<>>
  PROVE  s = <<>>
  <1> SUFFICES ASSUME s # <<>> PROVE FALSE
    OBVIOUS
  <1>1. PICK L \in Nat : L = Len(s) /\ L > 0
    BY EmptySeq, LenProperties
  <1>2. PICK f : FlattenedTo(L, f, Nat, Lists(s)) /\ Translate(s) = f[L]
    BY <1>1, ListsType, ListsLength, FlattenIs, TranslateIs
  <1>3. PICK e \in Seq(Nat) : e = FoundIn(s[L]) /\ Len(e) > 0
    <2>1. s[L] \in Image /\ s[L].found > 0
      BY <1>1, ElementOfSeq
    <2> QED BY <2>1, ResultsType, ResultsLength
  <1>4. PICK g \in Seq(Nat) : f[L] = g \o e
    <2>1. L - 1 \in 0 .. L /\ L \in 1 .. L
      BY <1>1
    <2>2. f[L - 1] \in Seq(Nat)
      BY <1>2, <2>1 DEF FlattenedTo
    <2>3. f[L] = f[L - 1] \o Lists(s)[L]
      BY <1>2, <2>1 DEF FlattenedTo
    <2>4. Lists(s)[L] = e
      BY <1>1, <1>3, <2>1, ListsElement
    <2> QED BY <2>2, <2>3, <2>4
  <1>5. Len(g \o e) = Len(g) + Len(e)
    BY BothLength
  <1>6. Len(g) \in Nat /\ Len(e) \in Nat
    BY LenProperties
  <1>7. Len(g \o e) = 0
    BY <1>2, <1>4, EmptySeq
  <1> QED BY <1>3, <1>5, <1>6, <1>7

LEMMA PoppedType ==
  ASSUME EngineTypes, NEW n \in 0 .. Len(busyRequest)
  PROVE  Popped(n) \in Seq(Image)
  <1>1. PICK L \in Nat, M \in Nat, N \in Nat, B \in Nat :
          L = Len(busyRequest) /\ M = Len(images) /\ N = n * BatchNum /\ B = BatchNum
    BY LenProperties, EngineAssumption DEF EngineTypes
  <1>2. N <= L * B
    BY <1>1, Shorter
  <1>3. L * B \in Nat
    BY <1>1, Shorter
  <1>4. batchIndex \in Nat /\ M = L * B + batchIndex
    BY <1>1, EngineAssumption DEF EngineTypes, EngineOK
  <1>5. N \in 0 .. Len(images)
    BY <1>1, <1>2, <1>3, <1>4
  <1>6. images \in Seq(Image)
    BY DEF EngineTypes
  <1>7. SubSeq(images, 1, N) \in Seq(Image)
    BY <1>5, <1>6, Split
  <1> QED BY <1>1, <1>7 DEF Popped
=============================================================================
