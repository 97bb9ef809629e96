--------------------------- MODULE Pipeline_proofs ---------------------------
(***************************************************************************)
(* Proofs about Pipeline, for every application AppAssumption admits:      *)
(*   PipelineTyped        Spec => []TypeOK                                 *)
(*   NoPacketIsForgotten  Spec => []PacketsConserved                       *)
(*   SurfacesComeBack     Spec => []SurfacesConserved                      *)
(*   FramesStayInOrder    Spec => []InOrder                                *)
(* Each comes from an inductive invariant: TInv (the types, with what a thread*)
(* holds at each place of its loop), PacketsInv, SurfacesInv with LimitsOK, and*)
(* OrderInv.  Every step is first reduced to its effect on the line of packets*)
(* (Effect for the blocks, DecoderEffect for the decoders), so that the last*)
(* two need no case for each action.                                       *)
(***************************************************************************)
EXTENDS Pipeline, FiniteSetTheorems, SequenceTheorems, WellFoundedInduction, TLAPS

(* Induction over the natural numbers as a fact about sets, and sequences. *)
LEMMA LessIsWellFounded ==
  \E R : IsWellFoundedOn(R, Nat) /\ \A m, n \in Nat : <<m, n>> \in R <=> m < n
  <1> DEFINE R == OpToRel(<, Nat)
  <1>1. IsWellFoundedOn(R, Nat)
    BY NatLessThanWellFounded
  <1>2. \A m, n \in Nat : <<m, n>> \in R <=> m < n
    BY DEF OpToRel
  <1> HIDE DEF R
  <1> QED BY <1>1, <1>2

LEMMA LeastNumber ==
  ASSUME NEW T \in SUBSET Nat, T # {}
  PROVE  \E n \in T : \A m \in T : n <= m
  <1>1. PICK R : IsWellFoundedOn(R, Nat) /\ \A m, n \in Nat : <<m, n>> \in R <=> m < n
    BY LessIsWellFounded
  <1>2. T \subseteq Nat
    OBVIOUS
  <1>3. IsWellFoundedOn(R, Nat)
    BY <1>1
  <1>4. PICK n \in T : \A m \in T : ~(<<m, n>> \in R)
    BY <1>2, <1>3, WFMin, Zenon
  <1>5. \A m \in T : ~(m < n)
    BY <1>1, <1>4
  <1>6. \A m \in T : n <= m
    BY <1>5
  <1> QED BY <1>6

LEMMA Induction ==
  ASSUME NEW T \in SUBSET Nat, 0 \in T, \A n \in T : n + 1 \in T
  PROVE  T = Nat
  <1> SUFFICES ASSUME Nat \ T # {} PROVE FALSE
    OBVIOUS
  <1>1. PICK n \in Nat \ T : \A m \in Nat \ T : n <= m
    BY LeastNumber
  <1>2. n # 0 /\ n - 1 \in Nat
    BY <1>1
  <1>3. n - 1 \in T
    BY <1>1, <1>2
  <1>4. (n - 1) + 1 = n
    BY <1>1
  <1> QED BY <1>1, <1>2, <1>3, <1>4

-----------------------------------------------------------------------------
(* Concatenation.                                                           *)
Associate(s, t, u) == (s \o t) \o u = s \o (t \o u)

LEMMA Concat ==
  ASSUME NEW S
  PROVE  /\ \A s, t \in Seq(S) : s \o t \in Seq(S)
         /\ \A s, t, u \in Seq(S) : Associate(s, t, u)
         /\ \A s \in Seq(S) : s \o <<>> = s /\ <<>> \o s = s
         /\ <<>> \in Seq(S)
  <1>1. ASSUME NEW s \in Seq(S), NEW t \in Seq(S), NEW u \in Seq(S)
        PROVE  Associate(s, t, u)
    <2>1. (s \o t) \o u = s \o (t \o u)
      BY ConcatAssociative
    <2> QED BY <2>1 DEF Associate
  <1>2. ASSUME NEW s \in Seq(S), NEW t \in Seq(S)
        PROVE  s \o t \in Seq(S)
    BY ConcatProperties
  <1>3. ASSUME NEW s \in Seq(S)
        PROVE  s \o <<>> = s /\ <<>> \o s = s
    BY ConcatEmptySeq
  <1> QED BY <1>1, <1>2, <1>3, EmptySeq

(* The range of a concatenation, for sequences that are given by their      *)
(* elements as well.                                                        *)
LEMMA RangeOfBoth ==
  ASSUME NEW S, NEW s \in Seq(S), NEW t \in Seq(S), NEW u, u = s \o t
  PROVE  Range(u) = Range(s) \union Range(t)
  BY RangeConcatenation, Zenon

LEMMA HeadAndTail ==
  ASSUME NEW S, NEW seq \in Seq(S), seq # <<>>
  PROVE  /\ seq = <<Head(seq)>> \o Tail(seq)
         /\ Head(seq) \in S /\ Tail(seq) \in Seq(S) /\ Len(Tail(seq)) = Len(seq) - 1
         /\ Range(seq) = {Head(seq)} \union Range(Tail(seq))
  <1>1. Head(seq) \in S /\ Tail(seq) \in Seq(S) /\ Len(Tail(seq)) = Len(seq) - 1
    BY HeadTailProperties
  <1>2. seq = <<Head(seq)>> \o Tail(seq)
    OBVIOUS
  <1>3. PICK one : one = <<Head(seq)>>
    OBVIOUS
  <1>4. one \in Seq(S) /\ Range(one) = {Head(seq)}
    BY <1>1, <1>3 DEF Range
  <1>5. one \in Seq(S) /\ Tail(seq) \in Seq(S) /\ seq = one \o Tail(seq)
    BY <1>1, <1>2, <1>3, <1>4
  <1>6. Range(seq) = Range(one) \union Range(Tail(seq))
    BY <1>5, RangeOfBoth, ZenonT(30)
  <1> QED BY <1>1, <1>2, <1>4, <1>6

LEMMA AppendedOne ==
  ASSUME NEW S, NEW seq \in Seq(S), NEW e \in S
  PROVE  /\ Append(seq, e) = seq \o <<e>> /\ Append(seq, e) \in Seq(S)
         /\ Len(Append(seq, e)) = Len(seq) + 1
         /\ Range(Append(seq, e)) = Range(seq) \union {e}
  <1>1. Append(seq, e) = seq \o <<e>> /\ Append(seq, e) \in Seq(S) /\ Len(Append(seq, e)) = Len(seq) + 1
    BY AppendProperties, AppendIsConcat
  <1>2. PICK one : one = <<e>>
    OBVIOUS
  <1>3. one \in Seq(S) /\ Range(one) = {e}
    BY <1>2 DEF Range
  <1>4. PICK longer : longer = Append(seq, e)
    OBVIOUS
  <1>5. seq \in Seq(S) /\ one \in Seq(S) /\ longer = seq \o one
    BY <1>1, <1>2, <1>3, <1>4
  <1>6. Range(longer) = Range(seq) \union Range(one)
    <2>1. Range(seq \o one) = Range(seq) \union Range(one)
      BY <1>5, RangeConcatenation, Zenon
    <2> QED BY <1>5, <2>1, Zenon
  <1> QED BY <1>1, <1>3, <1>4, <1>6

-----------------------------------------------------------------------------
(***************************************************************************)
(* Counting and ordering sequences of packets.  Count(w, seq) is a CHOOSE of*)
(* a recursive function: that the function exists, and that Count of a     *)
(* concatenation is the sum, is shown by induction over the length         *)
(* (Induction: a set of numbers with 0 and, with n, n + 1).                *)
(***************************************************************************)

(* The recursive function of Count exists, so that CHOOSE finds one that    *)
(* satisfies its equations.                                                 *)
CountedTo(n, f, w, seq) ==
  /\ f \in [0 .. n -> Nat] /\ f[0] = 0
  /\ \A m \in 1 .. n : f[m] = f[m - 1] + w[seq[m]]

Counted(f, w, seq) == CountedTo(Len(seq), f, w, seq)

LEMMA CountedExists ==
  ASSUME NEW S, NEW seq \in Seq(S), NEW w, \A p \in S : w[p] \in Nat
  PROVE  \E f : Counted(f, w, seq)
  <1> DEFINE T == {n \in Nat : n <= Len(seq) => \E f : CountedTo(n, f, w, seq)}
  <1>1. 0 \in T
    <2> DEFINE f == [m \in 0 .. 0 |-> 0]
    <2>1. f \in [0 .. 0 -> Nat] /\ f[0] = 0 /\ \A m \in 1 .. 0 : f[m] = f[m - 1] + w[seq[m]]
      OBVIOUS
    <2> HIDE DEF f
    <2>2. CountedTo(0, f, w, seq)
      BY <2>1 DEF CountedTo
    <2> QED BY <2>2
  <1>2. ASSUME NEW n \in T PROVE n + 1 \in T
    <2> SUFFICES ASSUME n + 1 <= Len(seq) PROVE \E f : CountedTo(n + 1, f, w, seq)
      BY <1>2
    <2>1. PICK f : CountedTo(n, f, w, seq)
      BY <1>2, LenProperties
    <2> DEFINE g == [m \in 0 .. n + 1 |-> IF m <= n THEN f[m] ELSE f[n] + w[seq[n + 1]]]
    <2>2. n \in Nat /\ seq[n + 1] \in S /\ w[seq[n + 1]] \in Nat /\ f[n] \in Nat
      BY <2>1, ElementOfSeq DEF CountedTo
    <2>3. g \in [0 .. n + 1 -> Nat] /\ g[0] = 0
      BY <2>1, <2>2 DEF CountedTo
    <2>4. ASSUME NEW m \in 1 .. n + 1 PROVE g[m] = g[m - 1] + w[seq[m]]
      <3>1. CASE m <= n
        BY <2>1, <2>2, <3>1 DEF CountedTo
      <3>2. CASE m = n + 1
        BY <2>1, <2>2, <3>2
      <3> QED BY <3>1, <3>2, <2>2
    <2> HIDE DEF g
    <2>5. CountedTo(n + 1, g, w, seq)
      BY <2>3, <2>4 DEF CountedTo
    <2> QED BY <2>5
  <1> HIDE DEF T
  <1>3. T \in SUBSET Nat
    BY DEF T
  <1>4. T = Nat
    BY <1>1, <1>2, <1>3, Induction
  <1>5. Len(seq) \in T
    BY <1>4, LenProperties
  <1> QED BY <1>5, LenProperties DEF T, Counted

(* Two such functions are the same as far as the sequences are.             *)
LEMMA CountedSame ==
  ASSUME NEW S, NEW s \in Seq(S), NEW t \in Seq(S), NEW w, \A p \in S : w[p] \in Nat,
         NEW f, Counted(f, w, s), NEW g, Counted(g, w, t),
         NEW k \in Nat, k <= Len(s), k <= Len(t), \A i \in 1 .. k : s[i] = t[i]
  PROVE  f[k] = g[k]
  <1> DEFINE T == {n \in Nat : n <= k => f[n] = g[n]}
  <1>1. 0 \in T
    BY DEF Counted, CountedTo
  <1>2. ASSUME NEW n \in T PROVE n + 1 \in T
    <2> SUFFICES ASSUME n + 1 <= k PROVE f[n + 1] = g[n + 1]
      OBVIOUS
    <2>1. f[n] = g[n] /\ s[n + 1] = t[n + 1] /\ n + 1 \in 1 .. Len(s) /\ n + 1 \in 1 .. Len(t)
      BY LenProperties
    <2> QED BY <2>1, SMTT(30) DEF Counted, CountedTo
  <1> HIDE DEF T
  <1>3. T \in SUBSET Nat
    BY DEF T
  <1>4. T = Nat
    BY <1>1, <1>2, <1>3, Induction
  <1> QED BY <1>4 DEF T

LEMMA CountIs ==
  ASSUME NEW S, NEW seq \in Seq(S), NEW w, \A p \in S : w[p] \in Nat
  PROVE  \E f : Counted(f, w, seq) /\ Count(w, seq) = f[Len(seq)]
  <1> DEFINE u == CHOOSE g : g = [n \in 0 .. Len(seq) |-> IF n = 0 THEN 0 ELSE g[n - 1] + w[seq[n]]]
  <1>1. Count(w, seq) = u[Len(seq)]
    BY DEF Count
  <1>2. PICK f : Counted(f, w, seq)
    BY CountedExists
  <1>3. f = [n \in 0 .. Len(seq) |-> IF n = 0 THEN 0 ELSE f[n - 1] + w[seq[n]]]
    BY <1>2, LenProperties DEF Counted, CountedTo
  <1>4. u = [n \in 0 .. Len(seq) |-> IF n = 0 THEN 0 ELSE u[n - 1] + w[seq[n]]]
    BY <1>3
  <1> HIDE DEF u
  <1> DEFINE T == {n \in Nat : n <= Len(seq) => u[n] = f[n]}
  <1>5. 0 \in T
    BY <1>2, <1>4, LenProperties DEF Counted, CountedTo
  <1>6. ASSUME NEW n \in T PROVE n + 1 \in T
    <2> SUFFICES ASSUME n + 1 <= Len(seq) PROVE u[n + 1] = f[n + 1]
      OBVIOUS
    <2>1. u[n] = f[n] /\ n + 1 \in 1 .. Len(seq) /\ n + 1 \in 0 .. Len(seq) /\ n + 1 # 0 /\ n + 1 - 1 = n
      BY LenProperties
    <2>2. u[n + 1] = u[n + 1 - 1] + w[seq[n + 1]]
      BY <1>4, <2>1
    <2> QED BY <1>2, <2>1, <2>2 DEF Counted, CountedTo
  <1> HIDE DEF T
  <1>7. T \in SUBSET Nat
    BY DEF T
  <1>8. T = Nat
    BY <1>5, <1>6, <1>7, Induction
  <1>9. u[Len(seq)] = f[Len(seq)]
    BY <1>8, LenProperties DEF T
  <1> QED BY <1>1, <1>2, <1>9

(* What is in two sequences is in the first and in the second.              *)
LEMMA CountOfBoth ==
  ASSUME NEW S, NEW s \in Seq(S), NEW t \in Seq(S), NEW w, \A p \in S : w[p] \in Nat
  PROVE  Count(w, s \o t) = Count(w, s) + Count(w, t) /\ Count(w, s) \in Nat
  <1>1. PICK u : u = s \o t
    OBVIOUS
  <1>2. PICK a \in Nat, b \in Nat : a = Len(s) /\ b = Len(t)
    BY LenProperties
  <1>3. /\ s \in Seq(S) /\ t \in Seq(S) /\ u \in Seq(S) /\ Len(u) = a + b
        /\ \A i \in 1 .. a + b : u[i] = IF i <= a THEN s[i] ELSE t[i - a]
    BY <1>1, <1>2, ConcatProperties
  <1>4. PICK f : Counted(f, w, u) /\ Count(w, u) = f[a + b]
    BY <1>3, CountIs
  <1>5. PICK g : Counted(g, w, s) /\ Count(w, s) = g[a]
    BY <1>2, CountIs
  <1>6. PICK h : Counted(h, w, t) /\ Count(w, t) = h[b]
    BY <1>2, CountIs
  <1>7. f[a] = g[a] /\ g[a] \in Nat
    <2>1. \A i \in 1 .. a : u[i] = s[i]
      BY <1>3
    <2>2. a <= Len(u) /\ a <= Len(s)
      BY <1>2, <1>3
    <2>3. f[a] = g[a]
      BY <1>3, <1>4, <1>5, <2>1, <2>2, CountedSame, SMTT(30)
    <2> QED BY <1>2, <1>5, <2>3 DEF Counted, CountedTo
  <1> DEFINE T == {n \in Nat : n <= b => f[a + n] = g[a] + h[n]}
  <1>8. 0 \in T
    BY <1>6, <1>7 DEF Counted, CountedTo
  <1>9. ASSUME NEW n \in T PROVE n + 1 \in T
    <2> SUFFICES ASSUME n + 1 <= b PROVE f[a + (n + 1)] = g[a] + h[n + 1]
      OBVIOUS
    <2>1. n \in Nat /\ f[a + n] = g[a] + h[n]
      OBVIOUS
    <2>2. PICK i \in 1 .. b, j \in 1 .. a + b : i = n + 1 /\ j = a + (n + 1)
      BY <2>1
    <2>3. i - 1 = n /\ j - 1 = a + n /\ j - a = i /\ ~(j <= a)
      BY <2>1, <2>2
    <2>4. f[j] = f[a + n] + w[u[j]] /\ h[i] = h[n] + w[t[i]]
      BY <1>2, <1>3, <1>4, <1>6, <2>2, <2>3 DEF Counted, CountedTo
    <2>5. u[j] = t[i] /\ t[i] \in S
      BY <1>2, <1>3, <2>2, <2>3, ElementOfSeq
    <2>6. w[t[i]] \in Nat /\ h[n] \in Nat
      BY <1>2, <1>6, <2>1, <2>2, <2>5 DEF Counted, CountedTo
    <2> QED BY <1>7, <2>1, <2>2, <2>4, <2>5, <2>6
  <1> HIDE DEF T
  <1>10. T \in SUBSET Nat
    BY DEF T
  <1>11. T = Nat
    BY <1>8, <1>9, <1>10, Induction
  <1>12. b \in T
    BY <1>11
  <1>13. f[a + b] = g[a] + h[b]
    BY <1>12 DEF T
  <1> QED BY <1>1, <1>4, <1>5, <1>6, <1>7, <1>13

LEMMA EmptyCount ==
  ASSUME NEW S, NEW w, \A q \in S : w[q] \in Nat
  PROVE  Count(w, <<>>) = 0
  <1>1. PICK none : none = <<>>
    OBVIOUS
  <1>2. none \in Seq(S) /\ Len(none) = 0
    BY <1>1
  <1>3. PICK f : Counted(f, w, none) /\ Count(w, none) = f[0]
    BY <1>2, CountIs
  <1>4. Count(w, none) = 0
    BY <1>2, <1>3 DEF Counted, CountedTo
  <1> QED BY <1>1, <1>4

LEMMA CountOfOne ==
  ASSUME NEW S, NEW p \in S, NEW w, \A q \in S : w[q] \in Nat
  PROVE  Count(w, <<p>>) = w[p]
  <1>1. PICK one : one = <<p>>
    OBVIOUS
  <1>2. one \in Seq(S) /\ Len(one) = 1 /\ one[1] = p
    BY <1>1
  <1>3. PICK f : Counted(f, w, one) /\ Count(w, one) = f[1]
    BY <1>2, CountIs
  <1>4. Count(w, one) = w[p]
    <2>1. f[0] = 0 /\ f[1] = f[1 - 1] + w[one[1]] /\ w[p] \in Nat
      BY <1>2, <1>3 DEF Counted, CountedTo
    <2> QED BY <1>2, <1>3, <2>1
  <1> QED BY <1>1, <1>4

(* The packets of a sequence keep their order in two parts of it.           *)
Before(s, t) ==
  \A p \in Range(s), q \in Range(t) : p.chan = q.chan => p.frame < q.frame

LEMMA OrderedBoth ==
  ASSUME NEW S, NEW s \in Seq(S), NEW t \in Seq(S), NEW u, u = s \o t
  PROVE  Ordered(u) <=> Ordered(s) /\ Ordered(t) /\ Before(s, t)
  <1>1. PICK a \in Nat, b \in Nat : a = Len(s) /\ b = Len(t)
    BY LenProperties
  <1>2. /\ s \in Seq(S) /\ t \in Seq(S) /\ u \in Seq(S) /\ Len(u) = a + b
        /\ \A i \in 1 .. a + b : u[i] = IF i <= a THEN s[i] ELSE t[i - a]
    BY <1>1, ConcatProperties
  <1>3. /\ DOMAIN s = 1 .. a /\ DOMAIN t = 1 .. b /\ DOMAIN u = 1 .. a + b
        /\ Range(s) = {s[i] : i \in 1 .. a} /\ Range(t) = {t[i] : i \in 1 .. b}
    BY <1>1, <1>2, LenProperties, RangeEquality
  <1>4. \A j \in 1 .. b : u[a + j] = t[j]
    <2> SUFFICES ASSUME NEW j \in 1 .. b PROVE u[a + j] = t[j]
      OBVIOUS
    <2>1. PICK k \in 1 .. a + b : k = a + j
      OBVIOUS
    <2>2. ~(k <= a) /\ k - a = j
      BY <2>1
    <2> QED BY <1>2, <2>1, <2>2
  <1>7. \A i \in 1 .. a : u[i] = s[i] /\ i \in 1 .. a + b
    BY <1>2
  <1>8. \A j \in 1 .. a + b : j <= a \/ j - a \in 1 .. b
    OBVIOUS
  <1>9. \A j \in 1 .. a + b : j <= a => j \in 1 .. a
    OBVIOUS
  <1>5. ASSUME Ordered(u) PROVE Ordered(s) /\ Ordered(t) /\ Before(s, t)
    <2>1. Ordered(s)
      BY <1>3, <1>5, <1>7 DEF Ordered
    <2>2. Ordered(t)
      <3> SUFFICES ASSUME NEW i \in 1 .. b, NEW j \in 1 .. b, i < j, t[i].chan = t[j].chan
                   PROVE  t[i].frame < t[j].frame
        BY <1>3 DEF Ordered
      <3>1. a + i \in 1 .. a + b /\ a + j \in 1 .. a + b /\ a + i < a + j
        OBVIOUS
      <3>2. u[a + i] = t[i] /\ u[a + j] = t[j]
        BY <1>4
      <3> QED BY <1>3, <1>5, <3>1, <3>2 DEF Ordered
    <2>3. Before(s, t)
      <3> SUFFICES ASSUME NEW i \in 1 .. a, NEW j \in 1 .. b, s[i].chan = t[j].chan
                   PROVE  s[i].frame < t[j].frame
        BY <1>3 DEF Before
      <3>1. i \in 1 .. a + b /\ a + j \in 1 .. a + b /\ i < a + j
        OBVIOUS
      <3>2. u[i] = s[i] /\ u[a + j] = t[j]
        BY <1>2, <1>4
      <3> QED BY <1>3, <1>5, <3>1, <3>2 DEF Ordered
    <2> QED BY <2>1, <2>2, <2>3
  <1>6. ASSUME Ordered(s), Ordered(t), Before(s, t) PROVE Ordered(u)
    <2> SUFFICES ASSUME NEW i \in 1 .. a + b, NEW j \in 1 .. a + b, i < j, u[i].chan = u[j].chan
                 PROVE  u[i].frame < u[j].frame
      BY <1>3 DEF Ordered
    <2>1. CASE j <= a
      <3>1. i \in 1 .. a /\ j \in 1 .. a
        BY <2>1
      <3>2. u[i] = s[i] /\ u[j] = s[j]
        BY <1>7, <3>1
      <3> QED BY <1>3, <1>6, <3>1, <3>2 DEF Ordered
    <2>2. CASE i <= a /\ ~(j <= a)
      <3>1. PICK k \in 1 .. b : j = a + k
        BY <1>8, <2>2
      <3>2. u[i] = s[i] /\ u[j] = t[k] /\ i \in 1 .. a
        BY <1>4, <1>7, <1>9, <2>2, <3>1
      <3> QED BY <1>3, <1>6, <3>2 DEF Before
    <2>3. CASE ~(i <= a)
      <3>1. PICK k \in 1 .. b : i = a + k
        BY <1>8, <2>3
      <3>2. PICK l \in 1 .. b : j = a + l
        BY <1>8, <2>3
      <3>3. u[a + k] = t[k] /\ u[a + l] = t[l]
        BY <1>4
      <3>4. u[i] = t[k] /\ u[j] = t[l]
        BY <3>1, <3>2, <3>3
      <3>5. k < l
        BY <3>1, <3>2
      <3> QED BY <1>3, <1>6, <3>4, <3>5 DEF Ordered
    <2> QED BY <2>1, <2>2, <2>3
  <1> QED BY <1>5, <1>6

LEMMA OrderedOne ==
  ASSUME NEW S, NEW p \in S
  PROVE  /\ <<p>> \in Seq(S) /\ Range(<<p>>) = {p} /\ Ordered(<<p>>)
         /\ <<>> \in Seq(S) /\ Range(<<>>) = {} /\ Ordered(<<>>)
  <1>1. PICK one : one = <<p>>
    OBVIOUS
  <1>2. one \in Seq(S) /\ DOMAIN one = 1 .. 1 /\ Range(one) = {p} /\ Ordered(one)
    BY <1>1 DEF Range, Ordered
  <1>3. PICK none : none = <<>>
    OBVIOUS
  <1>4. none \in Seq(S) /\ DOMAIN none = {} /\ Range(none) = {} /\ Ordered(none)
    BY <1>3 DEF Range, Ordered
  <1> QED BY <1>1, <1>2, <1>3, <1>4

(* Three parts make a line.  When something changes in one of them, what is *)
(* before it and what is after it stays the same.                           *)
InThird(S, u, v, a, b) ==
  \E head, end \in Seq(S) : \A x \in Seq(S) : (u \o v) \o (a \o (x \o b)) = head \o (x \o end)

InSecond(S, u, v, a, b) ==
  \E head, end \in Seq(S) : \A x \in Seq(S) : (u \o (a \o (x \o b))) \o v = head \o (x \o end)

InFirst(S, u, v, a, b) ==
  \E head, end \in Seq(S) : \A x \in Seq(S) : ((a \o (x \o b)) \o u) \o v = head \o (x \o end)

LEMMA InLine ==
  ASSUME NEW S
  PROVE  \A u, v, a, b \in Seq(S) : InThird(S, u, v, a, b) /\ InSecond(S, u, v, a, b) /\ InFirst(S, u, v, a, b)
  <1> SUFFICES ASSUME NEW u \in Seq(S), NEW v \in Seq(S), NEW a \in Seq(S), NEW b \in Seq(S)
               PROVE  InThird(S, u, v, a, b) /\ InSecond(S, u, v, a, b) /\ InFirst(S, u, v, a, b)
    OBVIOUS
  <1>1. \A s, t, w \in Seq(S) : Associate(s, t, w)
    BY Concat
  <1>2. PICK uv \in Seq(S), uva \in Seq(S), buv \in Seq(S), ua \in Seq(S), bv \in Seq(S), bu \in Seq(S) :
          uv = u \o v /\ uva = uv \o a /\ bu = b \o u /\ buv = bu \o v /\ ua = u \o a /\ bv = b \o v
    BY Concat
  <1>3. ASSUME NEW x \in Seq(S)
        PROVE  /\ (u \o v) \o (a \o (x \o b)) = uva \o (x \o b)
               /\ (u \o (a \o (x \o b))) \o v = ua \o (x \o bv)
               /\ ((a \o (x \o b)) \o u) \o v = a \o (x \o buv)
    <2>1. PICK axb \in Seq(S), xb \in Seq(S), xbu \in Seq(S) : xb = x \o b /\ axb = a \o xb /\ xbu = xb \o u
      BY Concat
    <2>2. uva \o xb = uv \o axb
      <3>1. Associate(uv, a, xb)
        BY <1>1
      <3> QED BY <1>2, <2>1, <3>1 DEF Associate
    <2>3. (u \o axb) \o v = ua \o (x \o bv)
      <3>1. Associate(u, a, xb) /\ Associate(ua, xb, v) /\ Associate(x, b, v)
        BY <1>1
      <3>2. u \o axb = ua \o xb /\ (ua \o xb) \o v = ua \o (xb \o v) /\ xb \o v = x \o bv
        BY <1>2, <2>1, <3>1 DEF Associate
      <3> QED BY <3>2
    <2>4. (axb \o u) \o v = a \o (x \o buv)
      <3>1. Associate(a, xb, u) /\ Associate(a, xbu, v) /\ Associate(x, b, u) /\ Associate(x, bu, v)
        BY <1>1
      <3>2. axb \o u = a \o xbu /\ (a \o xbu) \o v = a \o (xbu \o v) /\ xbu = x \o bu /\ (x \o bu) \o v = x \o buv
        BY <1>2, <2>1, <3>1 DEF Associate
      <3> QED BY <3>2
    <2> QED BY <1>2, <2>1, <2>2, <2>3, <2>4
  <1>4. InThird(S, u, v, a, b)
    <2>1. \A x \in Seq(S) : (u \o v) \o (a \o (x \o b)) = uva \o (x \o b)
      BY <1>3
    <2> QED BY <2>1 DEF InThird
  <1>5. InSecond(S, u, v, a, b)
    <2>1. \A x \in Seq(S) : (u \o (a \o (x \o b))) \o v = ua \o (x \o bv)
      BY <1>3
    <2> QED BY <2>1 DEF InSecond
  <1>6. InFirst(S, u, v, a, b)
    <2>1. \A x \in Seq(S) : ((a \o (x \o b)) \o u) \o v = a \o (x \o buv)
      BY <1>3
    <2> QED BY <2>1 DEF InFirst
  <1> QED BY <1>4, <1>5, <1>6

(* Laid one behind the other, the parts of l and of m differ in x and y.    *)
Differ(S, l, m, x, y) ==
  \E head, end \in Seq(S) : /\ l[3] \o l[2] \o l[1] = head \o (x \o end)
                           /\ m[3] \o m[2] \o m[1] = head \o (y \o end)

LEMMA OnePart ==
  ASSUME NEW S, NEW l \in [1 .. 3 -> Seq(S)], NEW m \in [1 .. 3 -> Seq(S)], NEW k \in 1 .. 3,
         \A r \in 1 .. 3 : r # k => m[r] = l[r],
         NEW a \in Seq(S), NEW b \in Seq(S), NEW x \in Seq(S), NEW y \in Seq(S),
         l[k] = a \o (x \o b), m[k] = a \o (y \o b)
  PROVE  Differ(S, l, m, x, y)
  <1> USE DEF Differ
  <1>1. CASE k = 1
    <2>1. PICK u \in Seq(S), v \in Seq(S) : u = l[3] /\ v = l[2]
      OBVIOUS
    <2>5. InThird(S, u, v, a, b)
      BY InLine
    <2>2. PICK head \in Seq(S), end \in Seq(S) : \A z \in Seq(S) : (u \o v) \o (a \o (z \o b)) = head \o (z \o end)
      BY <2>5 DEF InThird
    <2>3. (u \o v) \o (a \o (x \o b)) = head \o (x \o end) /\ (u \o v) \o (a \o (y \o b)) = head \o (y \o end)
      BY <2>2
    <2>4. m[3] = u /\ m[2] = v
      BY <1>1, <2>1
    <2> QED BY <1>1, <2>1, <2>3, <2>4
  <1>2. CASE k = 2
    <2>1. PICK u \in Seq(S), v \in Seq(S) : u = l[3] /\ v = l[1]
      OBVIOUS
    <2>5. InSecond(S, u, v, a, b)
      BY InLine
    <2>2. PICK head \in Seq(S), end \in Seq(S) : \A z \in Seq(S) : (u \o (a \o (z \o b))) \o v = head \o (z \o end)
      BY <2>5 DEF InSecond
    <2>3. (u \o (a \o (x \o b))) \o v = head \o (x \o end) /\ (u \o (a \o (y \o b))) \o v = head \o (y \o end)
      BY <2>2
    <2>4. m[3] = u /\ m[1] = v
      BY <1>2, <2>1
    <2> QED BY <1>2, <2>1, <2>3, <2>4
  <1>3. CASE k = 3
    <2>1. PICK u \in Seq(S), v \in Seq(S) : u = l[2] /\ v = l[1]
      OBVIOUS
    <2>5. InFirst(S, u, v, a, b)
      BY InLine
    <2>2. PICK head \in Seq(S), end \in Seq(S) : \A z \in Seq(S) : ((a \o (z \o b)) \o u) \o v = head \o (z \o end)
      BY <2>5 DEF InFirst
    <2>3. ((a \o (x \o b)) \o u) \o v = head \o (x \o end) /\ ((a \o (y \o b)) \o u) \o v = head \o (y \o end)
      BY <2>2
    <2>4. m[2] = u /\ m[1] = v
      BY <1>3, <2>1
    <2> QED BY <1>3, <2>1, <2>3, <2>4
  <1>4. k = 1 \/ k = 2 \/ k = 3
    OBVIOUS
  <1> QED BY <1>1, <1>2, <1>3, <1>4, Zenon

(* What leaves a part at its beginning is put at the end of the one before. *)
LEMMA TwoParts ==
  ASSUME NEW S, NEW l \in [1 .. 3 -> Seq(S)], NEW m \in [1 .. 3 -> Seq(S)], NEW k \in 1 .. 2,
         \A r \in 1 .. 3 : r \notin {k, k + 1} => m[r] = l[r],
         NEW b \in Seq(S), NEW x \in Seq(S), NEW y \in Seq(S),
         l[k] = x \o b, m[k] = b, m[k + 1] = l[k + 1] \o y
  PROVE  Differ(S, l, m, x, y)
  <1> USE DEF Differ
  <1>1. \A s, t, w \in Seq(S) : Associate(s, t, w)
    BY Concat
  <1>2. PICK u \in Seq(S), v \in Seq(S), w \in Seq(S) : u = l[3] /\ v = l[2] /\ w = l[1]
    OBVIOUS
  <1>3. CASE k = 1
    <2>1. m[3] = u /\ m[2] = v \o y /\ m[1] = b /\ w = x \o b
      BY <1>2, <1>3
    <2>2. PICK p \in Seq(S) : p = u \o v
      BY Concat
    <2>3. Associate(u, v, y) /\ Associate(p, y, b)
      BY <1>1
    <2>4. u \o (v \o y) = p \o y /\ (p \o y) \o b = p \o (y \o b)
      BY <2>2, <2>3 DEF Associate
    <2>5. l[3] \o l[2] \o l[1] = p \o (x \o b) /\ m[3] \o m[2] \o m[1] = p \o (y \o b)
      BY <1>2, <2>1, <2>2, <2>4
    <2> QED BY <2>5
  <1>4. CASE k = 2
    <2>1. m[3] = u \o y /\ m[2] = b /\ m[1] = w /\ v = x \o b
      BY <1>2, <1>4
    <2>2. PICK none \in Seq(S) : none = <<>> /\ \A s \in Seq(S) : none \o s = s
      BY Concat
    <2>10. InSecond(S, u, w, none, b)
      BY InLine
    <2>3. PICK head \in Seq(S), end \in Seq(S) : \A z \in Seq(S) : (u \o (none \o (z \o b))) \o w = head \o (z \o end)
      BY <2>10 DEF InSecond
    <2>4. PICK xb \in Seq(S), yb \in Seq(S) : xb = x \o b /\ yb = y \o b
      BY Concat
    <2>5. none \o xb = xb /\ none \o yb = yb
      BY <2>2
    <2>6. (u \o xb) \o w = head \o (x \o end) /\ (u \o yb) \o w = head \o (y \o end)
      BY <2>3, <2>4, <2>5
    <2>7. Associate(u, y, b)
      BY <1>1
    <2>8. (u \o y) \o b = u \o yb
      BY <2>4, <2>7 DEF Associate
    <2>9. l[3] \o l[2] \o l[1] = (u \o xb) \o w /\ m[3] \o m[2] \o m[1] = (u \o yb) \o w
      BY <1>2, <2>1, <2>4, <2>8
    <2> QED BY <2>6, <2>9
  <1>5. k = 1 \/ k = 2
    OBVIOUS
  <1> QED BY <1>3, <1>4, <1>5, Zenon

-----------------------------------------------------------------------------
(***************************************************************************)
(* The applications and their threads.                                     *)
(***************************************************************************)

LEMMA AppFacts ==
  ASSUME app \in Apps
  PROVE  /\ app.channels \in Nat /\ app.channels > 0 /\ app.frames \in Nat
         /\ app.surfaces \in Nat /\ app.surfaces > 0 /\ app.packets \in Nat /\ app.packets > 0
         /\ app.ratio \in Nat /\ app.ratio > 0 /\ app.dec \in {0, 1}
         /\ app.vpp \in BOOLEAN /\ app.vpl \in BOOLEAN /\ app.rois \subseteq Nat
         /\ app.dec = 1 \/ app.vpp
         /\ Len(app.blocks) \in 1 .. 3
         /\ Len(app.blocks) > 1 => app.dec = 1
         /\ app.vpl => app.blocks[1] = "dummy"
         /\ app.blocks[1] = "dummy" => app.vpl \/ app.ratio = 1
         /\ app.order \in Bijection(Blocks, Blocks)
  <1>1. app.blocks \in {<<"detector">>, <<"detector", "crop", "classifier">>, <<"upscaler", "encoder">>, <<"dummy", "crop">>}
    BY AppAssumption DEF AppAssumption
  <1>2. Len(app.blocks) \in 1 .. 3 /\ DOMAIN app.blocks = Blocks
    BY <1>1 DEF Blocks
  <1> QED BY <1>2, AppAssumption DEF AppAssumption

LEMMA Order ==
  ASSUME app \in Apps
  PROVE  /\ app.order \in [Blocks -> Blocks]
         /\ \A r, s \in Blocks : app.order[r] = app.order[s] => r = s
         /\ \A s \in Blocks : \E r \in Blocks : app.order[r] = s
  BY AppFacts DEF Bijection, Injection, Surjection, IsInjective

LEMMA Kinds ==
  ASSUME app \in Apps, NEW s \in Blocks
  PROVE  /\ app.blocks[s] \in {"detector", "classifier", "upscaler", "crop", "encoder", "dummy"}
         /\ s \in 1 .. 3
         /\ IsLast(s) \/ s + 1 \in Blocks
         /\ app.blocks[s] = "detector" => s = 1
         /\ app.blocks[s] = "classifier" => s = 3 /\ IsLast(s)
         /\ app.blocks[s] = "upscaler" => s = 1 /\ ~IsLast(s) /\ app.vpp
         /\ app.blocks[s] = "dummy" => s = 1 /\ ~IsLast(s) /\ (app.vpl \/ app.ratio = 1)
         /\ app.blocks[s] = "crop" => s = 2 /\ (IsLast(s) <=> app.blocks[1] = "dummy")
         /\ app.blocks[s] = "encoder" => s = 2 /\ IsLast(s)
         /\ IsLast(s) <=> s + 1 \notin Blocks
  <1>1. app.blocks \in {<<"detector">>, <<"detector", "crop", "classifier">>, <<"upscaler", "encoder">>, <<"dummy", "crop">>}
    BY AppAssumption DEF AppAssumption
  <1>2. app.blocks[1] = "upscaler" => app.vpp
    BY AppAssumption DEF AppAssumption
  <1>3. CASE app.blocks = <<"detector">>
    BY <1>3 DEF Blocks, IsLast
  <1>4. CASE app.blocks = <<"detector", "crop", "classifier">>
    <2>1. s = 1 \/ s = 2 \/ s = 3
      BY <1>4 DEF Blocks
    <2> QED BY <1>4, <2>1 DEF Blocks, IsLast
  <1>5. CASE app.blocks = <<"upscaler", "encoder">>
    <2>1. s = 1 \/ s = 2
      BY <1>5 DEF Blocks
    <2> QED BY <1>2, <1>5, <2>1 DEF Blocks, IsLast
  <1>6. CASE app.blocks = <<"dummy", "crop">>
    <2>1. s = 1 \/ s = 2
      BY <1>6 DEF Blocks
    <2> QED BY AppFacts, <1>6, <2>1 DEF Blocks, IsLast
  <1> QED BY <1>1, <1>3, <1>4, <1>5, <1>6

LEMMA ThreadFacts ==
  ASSUME app \in Apps
  PROVE  /\ Threads = Channels \union {BlockOf(s) : s \in Blocks}
         /\ \A s \in Blocks : BlockOf(s) \in Threads /\ BlockOf(s) \notin Channels
         /\ \A r, s \in Blocks : BlockOf(r) = BlockOf(s) => r = s
         /\ Cardinality(Threads) = app.channels + Len(app.blocks)
         /\ Channels \subseteq Nat \ {0} /\ 0 \notin Channels
  <1>1. Blocks = 1 .. Len(app.blocks) /\ Len(app.blocks) \in Nat
    BY AppFacts DEF Blocks
  <1>7. PICK n \in Nat, b \in Nat : n = app.channels /\ b = Len(app.blocks) /\ Blocks = 1 .. b
    BY AppFacts, <1>1
  <1>2. ASSUME NEW s \in Blocks PROVE BlockOf(s) \in Threads /\ BlockOf(s) \notin Channels
    <2>1. PICK o \in 1 .. b : app.order[s] = o
      BY <1>7, Order
    <2> QED BY <1>7, <2>1 DEF BlockOf, Threads, Channels
  <1>3. ASSUME NEW r \in Blocks, NEW s \in Blocks, BlockOf(r) = BlockOf(s) PROVE r = s
    <2>1. PICK o \in 1 .. b, q \in 1 .. b : app.order[r] = o /\ app.order[s] = q
      BY <1>7, Order
    <2>2. o = q
      BY <1>3, <1>7, <2>1 DEF BlockOf
    <2> QED BY <2>1, <2>2, Order
  <1>4. ASSUME NEW t \in Threads, t \notin Channels PROVE \E s \in Blocks : BlockOf(s) = t
    <2>1. t - app.channels \in Blocks
      BY AppFacts, <1>1, <1>4 DEF Threads, Channels
    <2>2. PICK s \in Blocks : app.order[s] = t - app.channels
      BY Order, <2>1
    <2> QED BY AppFacts, <2>2 DEF BlockOf, Threads
  <1>5. Threads = Channels \union {BlockOf(s) : s \in Blocks}
    <2>1. Channels \subseteq Threads
      BY AppFacts, <1>1 DEF Channels, Threads
    <2> QED BY <1>2, <1>4, <2>1
  <1>6. Cardinality(Threads) = app.channels + Len(app.blocks)
    <2>1. PICK k \in Nat : k = app.channels + Len(app.blocks)
      BY AppFacts
    <2>2. Cardinality(1 .. k) = k
      BY FS_Interval, 1 \in Int, k \in Int, Z3
    <2> QED BY <2>1, <2>2 DEF Threads
  <1> QED BY <1>2, <1>3, <1>5, <1>6, AppFacts DEF Channels

-----------------------------------------------------------------------------
(***************************************************************************)
(* The types of the state (TInv) and what a step leaves alone.             *)
(***************************************************************************)

(***************************************************************************)
(* The types.  GoodPackets are those of a frame; a thread has one in its   *)
(* hands where the loop says so.                                           *)
(***************************************************************************)
GoodPackets == {p \in Packets : p.chan \in Channels /\ p.frame \in 1 .. app.frames}

DecoderPlaces == {"top", "dequeue", "vpp", "enqueue", "last", "ended", "crashed"}

OwnPlaces(kind) == {"input", "output", "ended"} \union
  (IF kind = "crop" THEN {"crop"} ELSE IF kind = "dummy" THEN {"send"}
   ELSE IF kind = "encoder" THEN {"encode"} ELSE {})

PlacesOK ==
  /\ app \in Apps /\ DOMAIN pc = Threads
  /\ \A c \in Channels : pc[c] \in DecoderPlaces
  /\ \A s \in Blocks : pc[BlockOf(s)] \in OwnPlaces(app.blocks[s])

(* What a decoder has in its hands is the frame that it decoded last.       *)
Carries(c, place, p, n) ==
  /\ place \in {"dequeue", "vpp", "enqueue", "last"} => n > 0
  /\ p # NoFrame => /\ p \in GoodPackets /\ place \in {"vpp", "enqueue", "last", "ended"}
                    /\ p.chan = c /\ p.rois = 0 /\ p.crops = 0 /\ p.res = 0
  /\ place \in {"vpp", "enqueue", "last"} =>
       /\ p # NoFrame /\ p.frame = n
       /\ p.dec = IF app.vpl \/ Selected(n) THEN app.dec ELSE 0
       /\ place = "vpp" => p.vp = 0 /\ app.vpp
       /\ ~app.vpl => IF place = "enqueue" THEN p.vp = 1 => app.vpp /\ Selected(n)
                      ELSE Selected(n)

BlockCarries(place, p, objects) ==
  /\ p \in GoodPackets \union {NoFrame}
  /\ place = "input" => p = NoFrame
  /\ place \in {"output", "crop", "send", "encode"} => p # NoFrame
  /\ place = "crop" => objects <= p.rois

HandsOK ==
  /\ DOMAIN hand = Threads
  /\ \A c \in Channels : Carries(c, pc[c], hand[c], decoded[c])
  /\ \A s \in Blocks : ~IsInference(s) => BlockCarries(pc[BlockOf(s)], hand[BlockOf(s)], todo)

CountersOK ==
  /\ decoded \in [Channels -> 0 .. app.frames] /\ delivered \in [Channels -> Nat]
  /\ decUsed \in [Channels -> Int] /\ vpUsed \in [Channels -> Int] /\ cropUsed \in Int /\ todo \in Nat
  /\ image \in 0 .. app.frames

QueuesOK ==
  /\ free \in [Blocks -> Nat]
  /\ filled \in [Blocks -> Seq(GoodPackets)] /\ inside \in [Blocks -> Seq(GoodPackets)]
  /\ lost \in Seq(GoodPackets)
  /\ stops \in 0 .. Cardinality(Threads) /\ joined \in 0 .. stops

TInv == PlacesOK /\ HandsOK /\ CountersOK /\ QueuesOK

LEMMA PacketFacts ==
  ASSUME app \in Apps, NEW p \in GoodPackets
  PROVE  /\ p \in Packets /\ p # NoFrame /\ p.chan \in Channels /\ p.frame \in 1 .. app.frames
         /\ p.dec \in {0, 1} /\ p.vp \in {0, 1} /\ p.rois \in Nat /\ p.crops \in Nat /\ p.res \in {0, 1}
  BY ThreadFacts DEF GoodPackets, Packets, NoFrame

LEMMA PacketChanges ==
  ASSUME app \in Apps, NEW p \in GoodPackets
  PROVE  /\ [p EXCEPT !.dec = 0] \in GoodPackets
         /\ [p EXCEPT !.vp = 1] \in GoodPackets
         /\ \A n \in Nat : [p EXCEPT !.rois = n] \in GoodPackets
         /\ [p EXCEPT !.crops = @ + 1] \in GoodPackets
         /\ [p EXCEPT !.res = p.vp] \in GoodPackets
  BY PacketFacts DEF GoodPackets, Packets

LEMMA SameApp ==
  ASSUME app' = app
  PROVE  /\ Channels' = Channels /\ Blocks' = Blocks /\ Threads' = Threads
         /\ \A s \in Blocks : (BlockOf(s))' = BlockOf(s)
         /\ \A s \in Blocks : (IsInference(s))' <=> IsInference(s)
         /\ GoodPackets' = GoodPackets
         /\ \A n : (Selected(n))' <=> Selected(n)
  BY DEF Channels, Blocks, Threads, BlockOf, IsInference, GoodPackets, Selected

(* The two functions differ at most in t. *)
Only(f, g, t) == DOMAIN g = DOMAIN f /\ \A x \in DOMAIN f : x # t => g[x] = f[x]

LEMMA DecoderStep ==
  ASSUME TInv, app' = app, NEW c \in Channels, Only(pc, pc', c), Only(hand, hand', c),
         decoded' \in [Channels -> 0 .. app.frames], Only(decoded, decoded', c), todo' = todo,
         pc'[c] \in DecoderPlaces, Carries(c, pc'[c], hand'[c], decoded'[c])
  PROVE  PlacesOK' /\ HandsOK'
  <1>1. app \in Apps /\ DOMAIN pc = Threads /\ DOMAIN hand = Threads /\ DOMAIN decoded = Channels
    BY DEF TInv, PlacesOK, HandsOK, CountersOK
  <1>2. \A s \in Blocks : BlockOf(s) \in Threads /\ BlockOf(s) # c
    BY <1>1, ThreadFacts
  <1>3. \A d \in Channels : d \in Threads /\ (d # c => pc'[d] = pc[d] /\ hand'[d] = hand[d] /\ decoded'[d] = decoded[d])
    BY <1>1, ThreadFacts DEF Only
  <1>4. \A s \in Blocks : pc'[BlockOf(s)] = pc[BlockOf(s)] /\ hand'[BlockOf(s)] = hand[BlockOf(s)]
    BY <1>1, <1>2 DEF Only
  <1>5. PlacesOK'
    <2>1. \A d \in Channels : pc'[d] \in DecoderPlaces
      BY <1>3 DEF TInv, PlacesOK
    <2>2. \A s \in Blocks : pc'[BlockOf(s)] \in OwnPlaces(app.blocks[s])
      BY <1>4 DEF TInv, PlacesOK
    <2> QED BY <1>1, <2>1, <2>2, SameApp DEF PlacesOK, Only, OwnPlaces, DecoderPlaces
  <1>6. HandsOK'
    <2>1. \A d \in Channels : Carries(d, pc'[d], hand'[d], decoded'[d])
      BY <1>3 DEF TInv, HandsOK
    <2>2. \A s \in Blocks : ~IsInference(s) => BlockCarries(pc'[BlockOf(s)], hand'[BlockOf(s)], todo')
      BY <1>4 DEF TInv, HandsOK
    <2> QED BY <1>1, <2>1, <2>2, SameApp DEF HandsOK, Only, Carries, BlockCarries, NoFrame
  <1> QED BY <1>5, <1>6

LEMMA BlockStep ==
  ASSUME TInv, app' = app, NEW s \in Blocks, Only(pc, pc', BlockOf(s)), Only(hand, hand', BlockOf(s)),
         decoded' = decoded, todo' = todo \/ app.blocks[s] = "crop", todo' \in Nat,
         pc'[BlockOf(s)] \in OwnPlaces(app.blocks[s]),
         IsInference(s) \/ BlockCarries(pc'[BlockOf(s)], hand'[BlockOf(s)], todo')
  PROVE  PlacesOK' /\ HandsOK'
  <1>1. app \in Apps /\ DOMAIN pc = Threads /\ DOMAIN hand = Threads
    BY DEF TInv, PlacesOK, HandsOK
  <1>2. \A c \in Channels : c \in Threads /\ c # BlockOf(s)
    BY <1>1, ThreadFacts
  <1>3. \A c \in Channels : pc'[c] = pc[c] /\ hand'[c] = hand[c]
    BY <1>1, <1>2 DEF Only
  <1>4. \A r \in Blocks : r # s => pc'[BlockOf(r)] = pc[BlockOf(r)] /\ hand'[BlockOf(r)] = hand[BlockOf(r)]
    BY <1>1, ThreadFacts DEF Only
  <1>5. PlacesOK'
    <2>1. \A c \in Channels : pc'[c] \in DecoderPlaces
      BY <1>3 DEF TInv, PlacesOK
    <2>2. \A r \in Blocks : pc'[BlockOf(r)] \in OwnPlaces(app.blocks[r])
      BY <1>4 DEF TInv, PlacesOK
    <2> QED BY <1>1, <2>1, <2>2, SameApp DEF PlacesOK, Only, OwnPlaces, DecoderPlaces
  <1>6. HandsOK'
    <2>1. \A c \in Channels : Carries(c, pc'[c], hand'[c], decoded'[c])
      BY <1>3 DEF TInv, HandsOK
    <2>2. ASSUME NEW r \in Blocks, ~IsInference(r)
          PROVE  BlockCarries(pc'[BlockOf(r)], hand'[BlockOf(r)], todo')
      <3>1. CASE r = s
        BY <2>2, <3>1
      <3>2. CASE r # s
        <4>1. BlockCarries(pc[BlockOf(r)], hand[BlockOf(r)], todo) /\ pc[BlockOf(r)] \in OwnPlaces(app.blocks[r])
          BY <2>2 DEF TInv, PlacesOK, HandsOK
        <4>2. app.blocks[s] = "crop" => app.blocks[r] # "crop"
          BY <1>1, <3>2, Kinds
        <4>3. BlockCarries(pc[BlockOf(r)], hand[BlockOf(r)], todo')
          BY <4>1, <4>2 DEF BlockCarries, OwnPlaces
        <4> QED BY <1>4, <3>2, <4>3
      <3> QED BY <3>1, <3>2
    <2> QED BY <1>1, <2>1, <2>2, SameApp DEF HandsOK, Only, Carries, BlockCarries, NoFrame
  <1> QED BY <1>5, <1>6

-----------------------------------------------------------------------------
(***************************************************************************)
(* TInv is preserved: the steps of the decoders.                           *)
(***************************************************************************)

LEMMA ExceptOnly ==
  ASSUME NEW f, NEW t, NEW v
  PROVE  Only(f, [f EXCEPT ![t] = v], t) /\ (t \in DOMAIN f => [f EXCEPT ![t] = v][t] = v) /\ Only(f, f, t)
  BY DEF Only

(* What the type invariant says of a decoder and of its packet.             *)
LEMMA DecoderFacts ==
  ASSUME TInv, NEW c \in Channels
  PROVE  /\ app \in Apps /\ c \in Threads /\ c \in DOMAIN pc /\ c \in DOMAIN hand /\ c \in DOMAIN decoded
         /\ pc[c] \in DecoderPlaces /\ Carries(c, pc[c], hand[c], decoded[c])
         /\ decoded[c] \in 0 .. app.frames /\ app.frames \in Nat /\ c # 0
         /\ app.dec \in {0, 1} /\ app.vpp \in BOOLEAN /\ app.vpl \in BOOLEAN
         /\ decUsed[c] \in Int /\ vpUsed[c] \in Int
         /\ pc[c] \in {"dequeue", "vpp", "enqueue", "last"} => decoded[c] \in 1 .. app.frames
         /\ hand[c] # NoFrame => hand[c] \in GoodPackets /\ hand[c].chan = c
         /\ pc[c] \in {"vpp", "enqueue", "last"} => hand[c] # NoFrame /\ hand[c].frame = decoded[c]
         /\ pc[c] \in {"top", "dequeue", "crashed"} => hand[c] = NoFrame
  <1>1. app \in Apps /\ c \in Threads /\ c \in DOMAIN pc /\ c \in DOMAIN hand /\ c \in DOMAIN decoded
    BY ThreadFacts DEF TInv, PlacesOK, HandsOK, CountersOK
  <1>2. pc[c] \in DecoderPlaces /\ Carries(c, pc[c], hand[c], decoded[c])
    BY DEF TInv, PlacesOK, HandsOK
  <1>3. decoded[c] \in 0 .. app.frames /\ decUsed[c] \in Int /\ vpUsed[c] \in Int
    BY DEF TInv, CountersOK
  <1>4. app.frames \in Nat /\ c # 0 /\ app.dec \in {0, 1} /\ app.vpp \in BOOLEAN /\ app.vpl \in BOOLEAN
    BY <1>1, AppFacts, ThreadFacts
  <1> QED BY <1>1, <1>2, <1>3, <1>4 DEF Carries

(* The packet that the decoder fills.                                       *)
New(c, dec) == [NoFrame EXCEPT !.chan = c, !.frame = decoded[c], !.dec = dec]

LEMMA NewPacket ==
  ASSUME TInv, NEW c \in Channels, pc[c] = "dequeue", NEW dec \in {0, 1}
  PROVE  /\ New(c, dec) \in GoodPackets /\ New(c, dec) # NoFrame
         /\ New(c, dec).chan = c /\ New(c, dec).frame = decoded[c] /\ New(c, dec).dec = dec
         /\ New(c, dec).vp = 0 /\ New(c, dec).rois = 0 /\ New(c, dec).crops = 0 /\ New(c, dec).res = 0
  <1>1. decoded[c] \in 1 .. app.frames /\ decoded[c] \in Nat /\ c \in Nat /\ c # 0
    BY DecoderFacts, ThreadFacts
  <1> QED BY <1>1 DEF New, NoFrame, GoodPackets, Packets

UnchangedQueues == /\ free' = free /\ filled' = filled /\ inside' = inside
                   /\ lost' = lost /\ stops' = stops /\ joined' = joined

LEMMA QueuesSame ==
  ASSUME TInv, app' = app, UnchangedQueues
  PROVE  QueuesOK'
  BY SameApp DEF TInv, QueuesOK, UnchangedQueues

LEMMA CountersStep ==
  ASSUME TInv, app' = app, image' = image, delivered' \in [Channels -> Nat],
         decoded' \in [Channels -> 0 .. app.frames], decUsed' \in [Channels -> Int],
         vpUsed' \in [Channels -> Int], cropUsed' \in Int, todo' \in Nat
  PROVE  CountersOK'
  BY SameApp DEF TInv, CountersOK

LEMMA QueuesStep ==
  ASSUME TInv, app' = app, free' \in [Blocks -> Nat],
         filled' \in [Blocks -> Seq(GoodPackets)], inside' \in [Blocks -> Seq(GoodPackets)],
         lost' \in Seq(GoodPackets), stops' = stops, joined' = joined
  PROVE  QueuesOK'
  BY SameApp DEF TInv, QueuesOK

LEMMA Types ==
  ASSUME TInv
  PROVE  /\ app \in Apps /\ DOMAIN pc = Threads /\ DOMAIN hand = Threads
         /\ decoded \in [Channels -> 0 .. app.frames] /\ delivered \in [Channels -> Nat]
         /\ decUsed \in [Channels -> Int] /\ vpUsed \in [Channels -> Int] /\ cropUsed \in Int /\ todo \in Nat
         /\ image \in 0 .. app.frames
         /\ free \in [Blocks -> Nat]
         /\ filled \in [Blocks -> Seq(GoodPackets)] /\ inside \in [Blocks -> Seq(GoodPackets)]
         /\ lost \in Seq(GoodPackets) /\ 1 \in Blocks
  <1>1. app \in Apps
    BY DEF TInv, PlacesOK
  <1>2. 1 \in Blocks
    <2>1. PICK b \in 1 .. 3 : b = Len(app.blocks)
      BY <1>1, AppFacts
    <2> QED BY <2>1 DEF Blocks
  <1> QED BY <1>1, <1>2 DEF TInv, PlacesOK, HandsOK, CountersOK, QueuesOK

LEMMA DecodeFrame_Types ==
  ASSUME TInv, NEW c \in Channels, DecodeFrame(c) \/ DecodeVpl(c)
  PROVE  TInv'
  <1>1. /\ pc[c] = "top" /\ decoded[c] < app.frames /\ app' = app /\ hand' = hand /\ todo' = todo
        /\ decoded' = [decoded EXCEPT ![c] = @ + 1] /\ pc' = [pc EXCEPT ![c] = "dequeue"]
        /\ UNCHANGED <<pools, image, delivered>> /\ UnchangedQueues
    BY DEF DecodeFrame, DecodeVpl, At, UnchangedQueues, pipes, stage, main
  <1>2. decoded' \in [Channels -> 0 .. app.frames]
    BY <1>1, DecoderFacts DEF TInv, CountersOK
  <1>3. Carries(c, pc'[c], hand'[c], decoded'[c]) /\ pc'[c] \in DecoderPlaces
    BY <1>1, DecoderFacts DEF Carries, DecoderPlaces
  <1>4. PlacesOK' /\ HandsOK'
    BY <1>1, <1>2, <1>3, DecoderStep, ExceptOnly
  <1>5. CountersOK'
    BY <1>1, <1>2, SameApp DEF TInv, CountersOK, pools
  <1> QED BY <1>1, <1>4, <1>5, QueuesSame DEF TInv

LEMMA FillPacket_Types ==
  ASSUME TInv, NEW c \in Channels, \/ ~app.vpl /\ FillPacket(c)
                                   \/ app.vpl /\ FillVpl(c)
  PROVE  TInv'
  <1>1. /\ pc[c] = "dequeue" /\ free[1] > 0 /\ app' = app /\ todo' = todo /\ decoded' = decoded
        /\ UNCHANGED <<vpUsed, cropUsed, filled, stage, image, delivered, lost, main>>
        /\ free' = [free EXCEPT ![1] = @ - 1]
    BY DEF FillPacket, FillVpl
  <1>2. PICK dec \in {0, 1} :
          /\ dec = IF app.vpl \/ Selected(decoded[c]) THEN app.dec ELSE 0
          /\ hand' = [hand EXCEPT ![c] = New(c, dec)]
          /\ decUsed' = [decUsed EXCEPT ![c] = @ + dec]
    BY DecoderFacts DEF FillPacket, FillVpl, New
  <1>3. PICK place \in {"vpp", "enqueue"} :
          /\ pc' = [pc EXCEPT ![c] = place]
          /\ place = "vpp" => app.vpp
          /\ ~app.vpl => (place = "vpp" <=> app.vpp /\ Selected(decoded[c]))
    BY DecoderFacts DEF FillPacket, FillVpl, At
  <1>4. decoded' \in [Channels -> 0 .. app.frames]
    BY <1>1 DEF TInv, CountersOK
  <1>5. pc'[c] = place /\ hand'[c] = New(c, dec) /\ place \in DecoderPlaces
    BY <1>2, <1>3, DecoderFacts DEF DecoderPlaces
  <1>6. Carries(c, place, New(c, dec), decoded[c])
    BY <1>1, <1>2, <1>3, NewPacket, DecoderFacts DEF Carries
  <1>7. PlacesOK' /\ HandsOK'
    BY <1>1, <1>2, <1>3, <1>4, <1>5, <1>6, DecoderStep, ExceptOnly
  <1>8. CountersOK'
    <2>1. decUsed' \in [Channels -> Int]
      BY <1>2, Types
    <2> QED BY <1>1, <1>4, <2>1, Types, CountersStep
  <1>9. QueuesOK'
    <2>1. free' \in [Blocks -> Nat]
      BY <1>1, Types
    <2> QED BY <1>1, <2>1, Types, QueuesStep DEF stage, main
  <1> QED BY <1>7, <1>8, <1>9 DEF TInv

LEMMA Scale_Types ==
  ASSUME TInv, NEW c \in Channels, \/ ~app.vpl /\ Scale(c)
                                   \/ app.vpl /\ CopyVpl(c)
  PROVE  TInv'
  <1>1. /\ pc[c] = "vpp" /\ app' = app /\ todo' = todo /\ decoded' = decoded
        /\ hand' = [hand EXCEPT ![c].vp = 1] /\ vpUsed' = [vpUsed EXCEPT ![c] = @ + 1]
        /\ UNCHANGED <<decUsed, cropUsed, pipes, stage, image, delivered, lost, main>>
    BY DEF Scale, CopyVpl
  <1>2. PICK place \in {"enqueue", "last"} : pc' = [pc EXCEPT ![c] = place] /\ (app.vpl => place = "enqueue")
    BY DecoderFacts DEF Scale, CopyVpl, At
  <1>3. PICK p \in GoodPackets : p = [hand[c] EXCEPT !.vp = 1]
    BY <1>1, DecoderFacts, PacketChanges
  <1>4. pc'[c] = place /\ hand'[c] = p /\ place \in DecoderPlaces /\ Only(hand, hand', c)
    BY <1>1, <1>2, <1>3, DecoderFacts DEF DecoderPlaces, Only
  <1>5. Carries(c, place, p, decoded[c])
    <2>1. /\ p.chan = hand[c].chan /\ p.frame = hand[c].frame /\ p.dec = hand[c].dec /\ p.vp = 1
          /\ p.rois = hand[c].rois /\ p.crops = hand[c].crops /\ p.res = hand[c].res
      BY <1>1, <1>3, DecoderFacts DEF GoodPackets, Packets
    <2>2. p # NoFrame
      BY DecoderFacts, PacketFacts
    <2> QED BY <1>1, <2>1, <2>2, DecoderFacts DEF Carries
  <1>6. PlacesOK' /\ HandsOK'
    <2>1. decoded' \in [Channels -> 0 .. app.frames]
      BY <1>1 DEF TInv, CountersOK
    <2> QED BY <1>1, <1>2, <1>4, <1>5, <2>1, DecoderStep, ExceptOnly
  <1>7. CountersOK'
    <2>1. vpUsed' \in [Channels -> Int]
      BY <1>1, Types
    <2> QED BY <1>1, <2>1, Types, CountersStep
  <1>8. QueuesOK'
    BY <1>1, QueuesSame DEF UnchangedQueues, stage, main, pipes
  <1> QED BY <1>6, <1>7, <1>8 DEF TInv

(* The packet is lost. *)
LEMMA Lose_Types ==
  ASSUME TInv, NEW c \in Channels, pc[c] = "vpp", app' = app, NEW place \in {"top", "ended"},
         pc' = [pc EXCEPT ![c] = place], hand' = [hand EXCEPT ![c] = NoFrame], lost' = Append(lost, hand[c]),
         UNCHANGED <<app, decoded, pools, todo, pipes, stage, image, delivered, main>>
  PROVE  TInv'
  <1>1. pc'[c] = place /\ hand'[c] = NoFrame /\ place \in DecoderPlaces
    BY DecoderFacts DEF DecoderPlaces
  <1>2. Carries(c, place, NoFrame, decoded[c])
    BY DecoderFacts DEF Carries
  <1>3. PlacesOK' /\ HandsOK'
    <2>1. Only(pc, pc', c) /\ Only(hand, hand', c) /\ Only(decoded, decoded', c)
      BY ExceptOnly
    <2>2. decoded' \in [Channels -> 0 .. app.frames]
      BY Types
    <2> QED BY <1>1, <1>2, <2>1, <2>2, DecoderStep
  <1>4. CountersOK'
    BY Types, CountersStep DEF pools
  <1>5. QueuesOK'
    <2>1. lost' \in Seq(GoodPackets)
      BY Types, DecoderFacts, AppendProperties
    <2> QED BY <2>1, Types, QueuesStep DEF pipes, stage, main
  <1> QED BY <1>3, <1>4, <1>5 DEF TInv

(* Only the place of a decoder changes. *)
LEMMA Place_Types ==
  ASSUME TInv, NEW c \in Channels, NEW place, pc' = [pc EXCEPT ![c] = place],
         \/ place = "ended"
         \/ place = "crashed" /\ pc[c] = "dequeue"
         \/ place \in {"enqueue", "last"} /\ pc[c] = "vpp",
         UNCHANGED <<app, hand, decoded, pools, todo, pipes, stage, image, delivered, lost, main>>
  PROVE  TInv'
  <1>1. pc'[c] = place /\ hand'[c] = hand[c] /\ place \in DecoderPlaces
    BY DecoderFacts DEF DecoderPlaces
  <1>2. Carries(c, place, hand[c], decoded[c])
    BY DecoderFacts DEF Carries
  <1>3. PlacesOK' /\ HandsOK'
    <2>1. Only(pc, pc', c) /\ Only(hand, hand', c) /\ Only(decoded, decoded', c)
      BY ExceptOnly
    <2>2. decoded' \in [Channels -> 0 .. app.frames]
      BY Types
    <2> QED BY <1>1, <1>2, <2>1, <2>2, DecoderStep
  <1>4. CountersOK'
    BY Types, CountersStep DEF pools
  <1>5. QueuesOK'
    BY QueuesSame DEF UnchangedQueues, pipes, stage, main
  <1> QED BY <1>3, <1>4, <1>5 DEF TInv

(* EnqueueOutput keeps the queues well-formed.                              *)
LEMMA EnqueueTypes ==
  ASSUME TInv, NEW t \in Threads, NEW s, s \in Blocks \/ Stopped(t), NEW p \in GoodPackets, EnqueueOutput(t, s, p)
  PROVE  filled' \in [Blocks -> Seq(GoodPackets)]
  <1>1. CASE Stopped(t)
    BY <1>1, Types DEF EnqueueOutput
  <1>2. CASE ~Stopped(t)
    <2>1. s \in Blocks /\ filled' = [filled EXCEPT ![s] = Append(@, p)]
      BY <1>2 DEF EnqueueOutput
    <2>2. Append(filled[s], p) \in Seq(GoodPackets)
      BY <2>1, Types, AppendProperties
    <2> QED BY <2>1, <2>2, Types
  <1> QED BY <1>1, <1>2

LEMMA SendFrame_Types ==
  ASSUME TInv, NEW c \in Channels, SendFrame(c)
  PROVE  TInv'
  <1>1. /\ pc[c] \in {"enqueue", "last"} /\ EnqueueOutput(c, 1, hand[c])
        /\ hand' = [hand EXCEPT ![c] = NoFrame]
        /\ UNCHANGED <<app, decoded, pools, todo, free, stage, image, delivered, lost, main>>
    BY DEF SendFrame
  <1>2. PICK place \in {"ended", "top"} : pc' = [pc EXCEPT ![c] = place]
    BY DEF SendFrame, At
  <1>3. pc'[c] = place /\ hand'[c] = NoFrame /\ place \in DecoderPlaces
    BY <1>1, <1>2, DecoderFacts DEF DecoderPlaces
  <1>4. Carries(c, place, NoFrame, decoded[c])
    BY <1>1, DecoderFacts DEF Carries
  <1>5. PlacesOK' /\ HandsOK'
    <2>1. Only(pc, pc', c) /\ Only(hand, hand', c) /\ Only(decoded, decoded', c)
      BY <1>1, <1>2, ExceptOnly
    <2>2. decoded' \in [Channels -> 0 .. app.frames] /\ app' = app /\ todo' = todo
      BY <1>1, Types
    <2>3. Carries(c, pc'[c], hand'[c], decoded'[c])
      BY <1>1, <1>3, <1>4
    <2> QED BY <1>3, <2>1, <2>2, <2>3, DecoderStep
  <1>6. CountersOK'
    BY <1>1, Types, CountersStep DEF pools
  <1>7. QueuesOK'
    <2>1. filled' \in [Blocks -> Seq(GoodPackets)]
      BY <1>1, DecoderFacts, Types, EnqueueTypes
    <2> QED BY <1>1, <2>1, Types, QueuesStep DEF stage, main
  <1> QED BY <1>5, <1>6, <1>7 DEF TInv

LEMMA Decoder_Types ==
  ASSUME TInv, NEW c \in Channels, Decoder(c)
  PROVE  TInv'
  <1>1. CASE DecodeFrame(c) \/ DecodeVpl(c)
    BY <1>1, DecodeFrame_Types
  <1>2. CASE \/ ~app.vpl /\ FillPacket(c)
             \/ app.vpl /\ FillVpl(c)
    BY <1>2, FillPacket_Types
  <1>3. CASE \/ ~app.vpl /\ Scale(c)
             \/ app.vpl /\ CopyVpl(c)
    BY <1>3, Scale_Types
  <1>4. CASE ScaleWantsMore(c)
    BY <1>4, Lose_Types DEF ScaleWantsMore, At
  <1>5. CASE ScaleFails(c)
    BY <1>5, Lose_Types, Place_Types DEF ScaleFails, At
  <1>6. CASE NoPacketVpl(c) \/ EndDecoding(c) \/ ScaleWantsSurface(c)
    BY <1>6, Place_Types DEF NoPacketVpl, EndDecoding, ScaleWantsSurface, At
  <1>7. CASE SendFrame(c)
    BY <1>7, SendFrame_Types
  <1> QED BY <1>1, <1>2, <1>3, <1>4, <1>5, <1>6, <1>7 DEF Decoder

-----------------------------------------------------------------------------
(***************************************************************************)
(* TInv is preserved: the stage of an inference block.                     *)
(***************************************************************************)

LEMMA BlockFacts ==
  ASSUME TInv, NEW s \in Blocks
  PROVE  /\ app \in Apps /\ BlockOf(s) \in Threads /\ BlockOf(s) \in DOMAIN pc /\ BlockOf(s) \in DOMAIN hand
         /\ pc[BlockOf(s)] \in OwnPlaces(app.blocks[s])
         /\ ~IsInference(s) => BlockCarries(pc[BlockOf(s)], hand[BlockOf(s)], todo)
         /\ filled[s] \in Seq(GoodPackets) /\ inside[s] \in Seq(GoodPackets) /\ free[s] \in Nat
  <1>1. app \in Apps
    BY DEF TInv, PlacesOK
  <1>2. BlockOf(s) \in Threads /\ BlockOf(s) \in DOMAIN pc /\ BlockOf(s) \in DOMAIN hand
    BY <1>1, ThreadFacts DEF TInv, PlacesOK, HandsOK
  <1>3. pc[BlockOf(s)] \in OwnPlaces(app.blocks[s])
    BY DEF TInv, PlacesOK
  <1>4. ~IsInference(s) => BlockCarries(pc[BlockOf(s)], hand[BlockOf(s)], todo)
    BY DEF TInv, HandsOK
  <1> QED BY <1>1, <1>2, <1>3, <1>4, Types

LEMMA LeavesFirst ==
  ASSUME TInv, NEW s \in Blocks, MayLeave(s)
  PROVE  /\ inside[s] # <<>> /\ Head(inside[s]) \in GoodPackets /\ Tail(inside[s]) \in Seq(GoodPackets)
  <1>1. Images(s) # <<>>
    BY DEF MayLeave, Stage!MayLeave, OneByOne!MayLeave
  <1>2. inside[s] # <<>>
    BY <1>1 DEF Images
  <1> QED BY <1>2, BlockFacts, HeadTailProperties

LEMMA ResultFacts ==
  ASSUME TInv, NEW s \in Blocks, NEW p \in GoodPackets, NEW q \in WithResults(s, p)
  PROVE  /\ q \in GoodPackets /\ q.chan = p.chan /\ q.frame = p.frame
         /\ q.dec = p.dec /\ q.vp = p.vp /\ q.crops = p.crops
         /\ IsEmpty(p) => q = p
  <1>1. app \in Apps /\ app.rois \subseteq Nat
    BY AppFacts DEF TInv, PlacesOK
  <1>2. CASE app.blocks[s] = "detector" /\ ImagesFor("detector", p) > 0
    <2>1. PICK n \in Nat : q = [p EXCEPT !.rois = n]
      BY <1>1, <1>2 DEF WithResults
    <2>4. p.dec \in Nat /\ p.vp \in Nat /\ p.rois \in Nat /\ p.crops \in Nat /\ p.res \in Nat
      BY <1>1, PacketFacts
    <2>5. p.vp > 0 \/ p.dec > 0
      BY <1>2 DEF ImagesFor
    <2>2. ~IsEmpty(p)
      BY <2>4, <2>5 DEF IsEmpty
    <2>3. q \in GoodPackets
      BY <1>1, <2>1, PacketChanges
    <2> QED BY <2>1, <2>2, <2>3 DEF GoodPackets, Packets
  <1>3. CASE IsUpscaler(s)
    <2>1. q = [p EXCEPT !.res = p.vp]
      BY <1>3 DEF WithResults, Upscaled, IsUpscaler
    <2>2. q \in GoodPackets
      BY <1>1, <2>1, PacketChanges
    <2>3. IsEmpty(p) => p.res = p.vp
      BY <1>1, PacketFacts DEF IsEmpty
    <2>4. p.res = p.vp => q = p
      BY <2>1 DEF GoodPackets, Packets
    <2> QED BY <2>1, <2>2, <2>3, <2>4 DEF GoodPackets, Packets
  <1>4. CASE ~(app.blocks[s] = "detector" /\ ImagesFor("detector", p) > 0) /\ ~IsUpscaler(s)
    BY <1>4 DEF WithResults
  <1> QED BY <1>2, <1>3, <1>4

LEMMA SinkTypes ==
  ASSUME TInv, NEW p \in GoodPackets, Sink(p)
  PROVE  /\ decUsed' \in [Channels -> Int] /\ vpUsed' \in [Channels -> Int] /\ cropUsed' \in Int
         /\ delivered' \in [Channels -> Nat] /\ filled' = filled /\ free' = free
         /\ filled' \in [Blocks -> Seq(GoodPackets)] /\ free' \in [Blocks -> Nat]
  <1>1. p.chan \in Channels /\ p.frame \in Nat /\ p.dec \in Int /\ p.vp \in Int /\ p.crops \in Int
    BY Types, PacketFacts
  <1>2. decUsed' \in [Channels -> Int]
    BY <1>1, Types, SMTT(30) DEF Sink
  <1>3. vpUsed' \in [Channels -> Int]
    BY <1>1, Types, SMTT(30) DEF Sink
  <1>4. cropUsed' \in Int
    BY <1>1, Types DEF Sink
  <1>5. delivered' \in [Channels -> Nat]
    BY <1>1, Types DEF Sink
  <1>6. filled' = filled /\ free' = free
    BY DEF Sink, pipes
  <1> QED BY <1>2, <1>3, <1>4, <1>5, <1>6, Types

LEMMA Acquire_Types ==
  ASSUME TInv, NEW s \in Blocks, IsInference(s), Acquire(s)
  PROVE  TInv'
  <1>1. /\ filled[s] # <<>> /\ filled' = [filled EXCEPT ![s] = Tail(@)]
        /\ free' = [free EXCEPT ![s] = @ + 1]
        /\ inside' = inside \/ inside' = [inside EXCEPT ![s] = Append(@, Head(filled[s]))]
        /\ UNCHANGED <<app, pc, hand, decoded, pools, todo, image, delivered, lost, main>>
    BY DEF Acquire, stage
  <1>2. Head(filled[s]) \in GoodPackets /\ Tail(filled[s]) \in Seq(GoodPackets)
    BY <1>1, BlockFacts, HeadTailProperties
  <1>3. Append(inside[s], Head(filled[s])) \in Seq(GoodPackets)
    BY <1>2, BlockFacts, AppendProperties
  <1>8. filled' \in [Blocks -> Seq(GoodPackets)]
    BY <1>1, <1>2, Types
  <1>9. inside' \in [Blocks -> Seq(GoodPackets)]
    BY <1>1, <1>3, Types
  <1>10. free' \in [Blocks -> Nat]
    BY <1>1, Types
  <1>4. /\ filled' \in [Blocks -> Seq(GoodPackets)] /\ inside' \in [Blocks -> Seq(GoodPackets)]
        /\ free' \in [Blocks -> Nat]
    BY <1>8, <1>9, <1>10
  <1>5. QueuesOK'
    BY <1>1, <1>4, Types, QueuesStep DEF main
  <1>6. CountersOK'
    BY <1>1, Types, CountersStep DEF pools
  <1>7. PlacesOK' /\ HandsOK'
    BY <1>1, BlockFacts, BlockStep, ExceptOnly, Types
  <1> QED BY <1>5, <1>6, <1>7 DEF TInv

(* A step in which a block moves on, and nothing but its packet changes.    *)
LEMMA PlaceOfBlock_Types ==
  ASSUME TInv, NEW s \in Blocks, NEW place, pc' = [pc EXCEPT ![BlockOf(s)] = place], hand' = hand,
         place \in OwnPlaces(app.blocks[s]),
         IsInference(s) \/ place = "ended" \/ (place \in {"send", "encode"} /\ pc[BlockOf(s)] = "output"),
         image' \in 0 .. app.frames, free' \in [Blocks -> Nat],
         UNCHANGED <<app, decoded, pools, todo, filled, stage, delivered, lost, main>>
  PROVE  TInv'
  <1>1. pc'[BlockOf(s)] = place
    BY BlockFacts
  <1>2. IsInference(s) \/ BlockCarries(place, hand[BlockOf(s)], todo)
    BY BlockFacts DEF BlockCarries
  <1>3. Only(pc, pc', BlockOf(s)) /\ Only(hand, hand', BlockOf(s)) /\ todo' \in Nat
    BY ExceptOnly, Types
  <1>4. PlacesOK' /\ HandsOK'
    BY <1>1, <1>2, <1>3, BlockStep
  <1>5. CountersOK'
    BY SameApp DEF TInv, CountersOK, pools
  <1>6. QueuesOK'
    BY Types, QueuesStep DEF stage, main
  <1> QED BY <1>4, <1>5, <1>6 DEF TInv

LEMMA Release_Types ==
  ASSUME TInv, NEW s \in Blocks, IsInference(s), Release(s)
  PROVE  TInv'
  <1>1. /\ MayLeave(s) /\ ~Stopped(BlockOf(s)) /\ inside' = [inside EXCEPT ![s] = Tail(@)]
        /\ pc' = [pc EXCEPT ![BlockOf(s)] = "input"]
        /\ UNCHANGED <<app, hand, decoded, todo, part, image, lost, main>>
    BY DEF Release, At
  <1>2. PICK p \in WithResults(s, Head(inside[s])) :
          \/ IsLast(s) /\ Sink(p)
          \/ ~IsLast(s) /\ free[s + 1] > 0 /\ free' = [free EXCEPT ![s + 1] = @ - 1]
             /\ EnqueueOutput(BlockOf(s), s + 1, p) /\ UNCHANGED <<pools, delivered>>
    BY DEF Release
  <1>3. Head(inside[s]) \in GoodPackets /\ Tail(inside[s]) \in Seq(GoodPackets)
    BY <1>1, LeavesFirst
  <1>4. p \in GoodPackets
    BY <1>2, <1>3, ResultFacts
  <1>5. inside' \in [Blocks -> Seq(GoodPackets)]
    BY <1>1, <1>3, Types
  <1>6. /\ decUsed' \in [Channels -> Int] /\ vpUsed' \in [Channels -> Int] /\ cropUsed' \in Int
        /\ delivered' \in [Channels -> Nat]
        /\ filled' \in [Blocks -> Seq(GoodPackets)] /\ free' \in [Blocks -> Nat]
    <2>1. CASE IsLast(s) /\ Sink(p)
      BY <1>4, <2>1, SinkTypes
    <2>2. CASE ~IsLast(s) /\ free[s + 1] > 0 /\ free' = [free EXCEPT ![s + 1] = @ - 1]
               /\ EnqueueOutput(BlockOf(s), s + 1, p) /\ UNCHANGED <<pools, delivered>>
      <3>1. s + 1 \in Blocks /\ BlockOf(s) \in Threads
        BY <2>2, BlockFacts, Kinds
      <3>2. filled' \in [Blocks -> Seq(GoodPackets)]
        BY <1>4, <2>2, <3>1, EnqueueTypes
      <3>3. free' \in [Blocks -> Nat]
        BY <2>2, <3>1, Types, SMTT(30)
      <3> QED BY <2>2, <3>2, <3>3, Types DEF pools
    <2> QED BY <1>2, <2>1, <2>2
  <1>7. PlacesOK' /\ HandsOK'
    <2>1. Only(pc, pc', BlockOf(s)) /\ Only(hand, hand', BlockOf(s)) /\ todo' \in Nat
      BY <1>1, ExceptOnly, Types
    <2>2. pc'[BlockOf(s)] \in OwnPlaces(app.blocks[s])
      BY <1>1, BlockFacts DEF OwnPlaces
    <2> QED BY <1>1, <2>1, <2>2, BlockStep
  <1>8. CountersOK'
    BY <1>1, <1>6, Types, CountersStep
  <1>9. QueuesOK'
    BY <1>1, <1>5, <1>6, Types, QueuesStep DEF main
  <1> QED BY <1>7, <1>8, <1>9 DEF TInv

LEMMA Inference_Types ==
  ASSUME TInv, NEW s \in Blocks, IsInference(s), Inference(s)
  PROVE  TInv'
  <1>1. CASE Translate(s)
    <2>1. /\ MayLeave(s) /\ image' = Head(inside[s]).frame /\ pc' = [pc EXCEPT ![BlockOf(s)] = "output"]
          /\ UNCHANGED <<app, hand, decoded, pools, todo, pipes, stage, delivered, lost, main>>
      BY <1>1 DEF Translate, At
    <2>2. image' \in 0 .. app.frames
      BY <2>1, LeavesFirst, PacketFacts, Types
    <2>3. "output" \in OwnPlaces(app.blocks[s])
      BY DEF OwnPlaces
    <2> QED BY <2>1, <2>2, <2>3, PlaceOfBlock_Types, Types DEF pipes
  <1>2. CASE EndInference(s)
    <2>1. "ended" \in OwnPlaces(app.blocks[s])
      BY DEF OwnPlaces
    <2> QED BY <1>2, <2>1, PlaceOfBlock_Types, Types DEF EndInference, At, pipes
  <1> QED BY <1>1, <1>2, Acquire_Types, Release_Types DEF Inference

-----------------------------------------------------------------------------
(***************************************************************************)
(* TInv is preserved: the other blocks, the stop and Init.                 *)
(***************************************************************************)

LEMMA TakeInput_Types ==
  ASSUME TInv, NEW s \in Blocks, ~IsInference(s), TakeInput(s)
  PROVE  TInv'
  <1>1. /\ filled[s] # <<>> /\ filled' = [filled EXCEPT ![s] = Tail(@)]
        /\ hand' = [hand EXCEPT ![BlockOf(s)] = Head(filled[s])]
        /\ pc' = [pc EXCEPT ![BlockOf(s)] = "output"]
        /\ UNCHANGED <<app, decoded, pools, todo, free, stage, image, delivered, lost, main>>
    BY DEF TakeInput, At
  <1>2. Head(filled[s]) \in GoodPackets /\ Tail(filled[s]) \in Seq(GoodPackets)
    BY <1>1, BlockFacts, HeadTailProperties
  <1>3. filled' \in [Blocks -> Seq(GoodPackets)]
    BY <1>1, <1>2, Types
  <1>4. PlacesOK' /\ HandsOK'
    <2>1. Only(pc, pc', BlockOf(s)) /\ Only(hand, hand', BlockOf(s)) /\ todo' \in Nat
      BY <1>1, ExceptOnly, Types
    <2>2. pc'[BlockOf(s)] = "output" /\ hand'[BlockOf(s)] = Head(filled[s])
      BY <1>1, BlockFacts
    <2>3. "output" \in OwnPlaces(app.blocks[s])
      BY DEF OwnPlaces
    <2>4. BlockCarries("output", Head(filled[s]), todo)
      BY <1>2, Types, PacketFacts DEF BlockCarries
    <2> QED BY <1>1, <2>1, <2>2, <2>3, <2>4, BlockStep
  <1>5. CountersOK'
    BY <1>1, Types, CountersStep DEF pools
  <1>6. QueuesOK'
    BY <1>1, <1>3, Types, QueuesStep DEF stage, main
  <1> QED BY <1>4, <1>5, <1>6 DEF TInv

LEMMA SwappedTypes ==
  ASSUME TInv, NEW s \in Blocks, HasOutput(s)
  PROVE  Swapped(s) \in [Blocks -> Nat]
  <1>1. ASSUME NEW n \in Blocks
        PROVE  free[n] + (IF n = s THEN 1 ELSE 0) - (IF n = s + 1 THEN 1 ELSE 0) \in Nat
    <2>1. free[n] \in Nat /\ s \in Nat
      BY BlockFacts, Kinds
    <2>2. n = s + 1 => free[n] > 0
      BY BlockFacts, Kinds DEF HasOutput
    <2> QED BY <2>1, <2>2
  <1> QED BY <1>1 DEF Swapped

LEMMA CropOutput_Types ==
  ASSUME TInv, NEW s \in Blocks, app.blocks[s] = "crop", CropOutput(s)
  PROVE  TInv'
  <1>1. /\ pc[BlockOf(s)] = "output" /\ HasOutput(s) /\ free' = Swapped(s) /\ todo' = hand[BlockOf(s)].rois
        /\ pc' = [pc EXCEPT ![BlockOf(s)] = "crop"]
        /\ UNCHANGED <<app, hand, decoded, pools, filled, stage, image, delivered, lost, main>>
    BY DEF CropOutput, At
  <1>2. ~IsInference(s) /\ hand[BlockOf(s)] \in GoodPackets
    BY <1>1, BlockFacts DEF IsInference, BlockCarries
  <1>3. todo' \in Nat
    BY <1>1, <1>2, Types, PacketFacts
  <1>4. PlacesOK' /\ HandsOK'
    <2>1. Only(pc, pc', BlockOf(s)) /\ Only(hand, hand', BlockOf(s))
      BY <1>1, ExceptOnly
    <2>2. pc'[BlockOf(s)] = "crop" /\ hand'[BlockOf(s)] = hand[BlockOf(s)]
      BY <1>1, BlockFacts
    <2>3. "crop" \in OwnPlaces(app.blocks[s])
      BY DEF OwnPlaces
    <2>4. BlockCarries("crop", hand[BlockOf(s)], todo')
      BY <1>1, <1>2, <1>3, Types, PacketFacts DEF BlockCarries
    <2> QED BY <1>1, <1>3, <2>1, <2>2, <2>3, <2>4, BlockStep
  <1>5. CountersOK'
    BY <1>1, <1>3, Types, CountersStep DEF pools
  <1>6. QueuesOK'
    BY <1>1, SwappedTypes, Types, QueuesStep DEF stage, main
  <1> QED BY <1>4, <1>5, <1>6 DEF TInv

LEMMA CropRoi_Types ==
  ASSUME TInv, NEW s \in Blocks, app.blocks[s] = "crop", CropRoi(s)
  PROVE  TInv'
  <1>1. /\ pc[BlockOf(s)] = "crop" /\ todo > 0 /\ todo' = todo - 1 /\ cropUsed' = cropUsed + 1
        /\ hand' = [hand EXCEPT ![BlockOf(s)].crops = @ + 1]
        /\ UNCHANGED <<app, pc, decoded, decUsed, vpUsed, pipes, stage, image, delivered, lost, main>>
    BY DEF CropRoi
  <1>2. ~IsInference(s) /\ hand[BlockOf(s)] \in GoodPackets /\ todo <= hand[BlockOf(s)].rois
    BY <1>1, BlockFacts DEF IsInference, BlockCarries
  <1>3. todo' \in Nat /\ todo' <= todo
    BY <1>1, Types
  <1>4. PICK p \in GoodPackets : p = [hand[BlockOf(s)] EXCEPT !.crops = @ + 1]
    BY <1>2, Types, PacketChanges
  <1>5. PlacesOK' /\ HandsOK'
    <2>1. hand' = [hand EXCEPT ![BlockOf(s)] = p]
      BY <1>1, <1>4
    <2>7. Only(hand, hand', BlockOf(s)) /\ hand'[BlockOf(s)] = p
      BY <2>1, BlockFacts, ExceptOnly
    <2>8. pc' = pc
      BY <1>1
    <2>2. Only(pc, pc', BlockOf(s)) /\ Only(hand, hand', BlockOf(s))
      BY <2>7, <2>8, ExceptOnly
    <2>3. pc'[BlockOf(s)] = "crop" /\ hand'[BlockOf(s)] = p
      BY <1>1, <2>7
    <2>4. "crop" \in OwnPlaces(app.blocks[s])
      BY DEF OwnPlaces
    <2>5. p.rois = hand[BlockOf(s)].rois /\ p.rois \in Nat /\ p # NoFrame
      BY <1>2, <1>4, Types, PacketFacts DEF GoodPackets, Packets
    <2>6. BlockCarries("crop", p, todo')
      BY <1>2, <1>3, <2>5, Types DEF BlockCarries
    <2> QED BY <1>1, <1>3, <2>2, <2>3, <2>4, <2>6, BlockStep
  <1>6. CountersOK'
    BY <1>1, <1>3, Types, CountersStep
  <1>7. QueuesOK'
    BY <1>1, QueuesSame DEF pipes, stage, main, UnchangedQueues
  <1> QED BY <1>5, <1>6, <1>7 DEF TInv

(* A block sends its packet, gives it to the sink or drops it.              *)
LEMMA HandedOn_Types ==
  ASSUME TInv, NEW s \in Blocks, ~IsInference(s),
         hand' = [hand EXCEPT ![BlockOf(s)] = NoFrame], pc' = [pc EXCEPT ![BlockOf(s)] = "input"],
         decUsed' \in [Channels -> Int], vpUsed' \in [Channels -> Int], cropUsed' \in Int,
         delivered' \in [Channels -> Nat], filled' \in [Blocks -> Seq(GoodPackets)], free' \in [Blocks -> Nat],
         UNCHANGED <<app, decoded, todo, stage, image, lost, main>>
  PROVE  TInv'
  <1>1. PlacesOK' /\ HandsOK'
    <2>1. Only(pc, pc', BlockOf(s)) /\ Only(hand, hand', BlockOf(s)) /\ todo' \in Nat
      BY ExceptOnly, Types
    <2>2. pc'[BlockOf(s)] = "input" /\ hand'[BlockOf(s)] = NoFrame
      BY BlockFacts
    <2>3. "input" \in OwnPlaces(app.blocks[s])
      BY DEF OwnPlaces
    <2>4. BlockCarries("input", NoFrame, todo)
      BY DEF BlockCarries
    <2> QED BY <2>1, <2>2, <2>3, <2>4, BlockStep
  <1>2. CountersOK'
    BY Types, CountersStep
  <1>3. QueuesOK'
    BY Types, QueuesStep DEF stage, main
  <1> QED BY <1>1, <1>2, <1>3 DEF TInv

LEMMA CropSend_Types ==
  ASSUME TInv, NEW s \in Blocks, app.blocks[s] = "crop", CropSend(s)
  PROVE  TInv'
  <1>1. /\ pc[BlockOf(s)] = "crop" /\ hand' = [hand EXCEPT ![BlockOf(s)] = NoFrame]
        /\ pc' = [pc EXCEPT ![BlockOf(s)] = "input"]
        /\ UNCHANGED <<app, decoded, todo, stage, image, lost, main>>
    BY DEF CropSend, At
  <1>2. ~IsInference(s)
    BY DEF IsInference
  <1>3. PICK p \in GoodPackets : p = hand[BlockOf(s)]
    BY <1>1, <1>2, BlockFacts DEF BlockCarries
  <1>4. CASE IsLast(s) /\ ~Stopped(BlockOf(s))
    <2>1. Sink(p)
      BY <1>3, <1>4 DEF CropSend
    <2> QED BY <1>1, <1>2, <2>1, SinkTypes, HandedOn_Types
  <1>5. CASE ~(IsLast(s) /\ ~Stopped(BlockOf(s)))
    <2>1. PICK q \in GoodPackets : q = [p EXCEPT !.dec = 0]
      BY Types, PacketChanges
    <2>2. /\ decUsed' = [decUsed EXCEPT ![p.chan] = @ - p.dec] /\ EnqueueOutput(BlockOf(s), s + 1, q)
          /\ UNCHANGED <<vpUsed, cropUsed, delivered, free>>
      BY <1>3, <1>5, <2>1 DEF CropSend
    <2>3. s + 1 \in Blocks \/ Stopped(BlockOf(s))
      BY <1>5, Types, Kinds
    <2>4. filled' \in [Blocks -> Seq(GoodPackets)]
      BY <2>2, <2>3, BlockFacts, EnqueueTypes
    <2>5. p.dec \in Int /\ p.chan \in Channels
      BY Types, PacketFacts
    <2>6. decUsed' \in [Channels -> Int]
      BY <2>2, <2>5, Types, SMTT(30)
    <2> QED BY <1>1, <1>2, <2>2, <2>4, <2>6, Types, HandedOn_Types
  <1> QED BY <1>4, <1>5

LEMMA Crop_Types ==
  ASSUME TInv, NEW s \in Blocks, app.blocks[s] = "crop", Crop(s)
  PROVE  TInv'
  <1>1. CASE EndCrop(s)
    <2>1. "ended" \in OwnPlaces(app.blocks[s])
      BY DEF OwnPlaces
    <2> QED BY <1>1, <2>1, PlaceOfBlock_Types, Types DEF EndCrop, At, pipes
  <1>2. CASE TakeInput(s)
    BY <1>2, TakeInput_Types DEF IsInference
  <1> QED BY <1>1, <1>2, CropOutput_Types, CropRoi_Types, CropSend_Types DEF Crop

LEMMA Dummy_Types ==
  ASSUME TInv, NEW s \in Blocks, app.blocks[s] = "dummy", Dummy(s)
  PROVE  TInv'
  <1>1. ~IsInference(s)
    BY DEF IsInference
  <1>2. CASE TakeInput(s)
    BY <1>1, <1>2, TakeInput_Types
  <1>3. CASE DetectOutput(s)
    <2>1. /\ pc[BlockOf(s)] = "output" /\ HasOutput(s) /\ free' = Swapped(s)
          /\ hand' = [hand EXCEPT ![BlockOf(s)].rois = 1]
          /\ pc' = [pc EXCEPT ![BlockOf(s)] = "send"]
          /\ UNCHANGED <<app, decoded, pools, todo, filled, stage, image, delivered, lost, main>>
      BY <1>3 DEF DetectOutput, At
    <2>2. hand[BlockOf(s)] \in GoodPackets
      BY <1>1, <2>1, BlockFacts DEF BlockCarries
    <2>3. PICK p \in GoodPackets : p = [hand[BlockOf(s)] EXCEPT !.rois = 1]
      BY <2>2, Types, PacketChanges
    <2>4. hand' = [hand EXCEPT ![BlockOf(s)] = p]
      BY <2>1, <2>3
    <2>5. PlacesOK' /\ HandsOK'
      <3>5. Only(hand, hand', BlockOf(s)) /\ hand'[BlockOf(s)] = p
        BY <2>4, BlockFacts, ExceptOnly
      <3>6. Only(pc, pc', BlockOf(s))
        <4>1. pc' = [pc EXCEPT ![BlockOf(s)] = "send"]
          BY <2>1
        <4> QED BY <4>1, ExceptOnly
      <3>1. Only(pc, pc', BlockOf(s)) /\ Only(hand, hand', BlockOf(s)) /\ todo' \in Nat
        BY <2>1, <3>5, <3>6, Types
      <3>2. pc'[BlockOf(s)] = "send" /\ hand'[BlockOf(s)] = p
        BY <2>1, <3>5, BlockFacts
      <3>3. "send" \in OwnPlaces(app.blocks[s])
        BY DEF OwnPlaces
      <3>4. BlockCarries("send", p, todo)
        BY Types, PacketFacts DEF BlockCarries
      <3> QED BY <2>1, <3>1, <3>2, <3>3, <3>4, BlockStep
    <2>6. CountersOK'
      BY <2>1, Types, CountersStep DEF pools
    <2>7. QueuesOK'
      BY <2>1, SwappedTypes, Types, QueuesStep DEF stage, main
    <2> QED BY <2>5, <2>6, <2>7 DEF TInv
  <1>4. CASE DetectSend(s)
    <2>1. /\ pc[BlockOf(s)] = "send" /\ EnqueueOutput(BlockOf(s), s + 1, hand[BlockOf(s)])
          /\ hand' = [hand EXCEPT ![BlockOf(s)] = NoFrame]
          /\ pc' = [pc EXCEPT ![BlockOf(s)] = "input"]
          /\ UNCHANGED <<app, decoded, pools, todo, free, stage, image, delivered, lost, main>>
      BY <1>4 DEF DetectSend, At
    <2>2. hand[BlockOf(s)] \in GoodPackets /\ s + 1 \in Blocks
      BY <1>1, <2>1, BlockFacts, Types, Kinds DEF BlockCarries
    <2>3. filled' \in [Blocks -> Seq(GoodPackets)]
      BY <2>1, <2>2, BlockFacts, EnqueueTypes
    <2> QED BY <1>1, <2>1, <2>3, Types, HandedOn_Types DEF pools
  <1>5. CASE EndDetect(s)
    <2>1. "ended" \in OwnPlaces(app.blocks[s])
      BY DEF OwnPlaces
    <2> QED BY <1>5, <2>1, PlaceOfBlock_Types, Types DEF EndDetect, At, pipes
  <1> QED BY <1>2, <1>3, <1>4, <1>5 DEF Dummy

LEMMA Encoder_Types ==
  ASSUME TInv, NEW s \in Blocks, app.blocks[s] = "encoder", Encoder(s)
  PROVE  TInv'
  <1>1. ~IsInference(s)
    BY DEF IsInference
  <1>2. CASE TakeInput(s)
    BY <1>1, <1>2, TakeInput_Types
  <1>3. CASE EncodeOutput(s)
    <2>1. "encode" \in OwnPlaces(app.blocks[s])
      BY DEF OwnPlaces
    <2>2. free' \in [Blocks -> Nat]
      BY <1>3, Types DEF EncodeOutput
    <2> QED BY <1>3, <2>1, <2>2, PlaceOfBlock_Types, Types DEF EncodeOutput, At
  <1>4. CASE Encode(s)
    <2>1. /\ pc[BlockOf(s)] = "encode" /\ hand' = [hand EXCEPT ![BlockOf(s)] = NoFrame]
          /\ pc' = [pc EXCEPT ![BlockOf(s)] = "input"]
          /\ UNCHANGED <<app, decoded, todo, stage, image, lost, main>>
      BY <1>4 DEF Encode, At
    <2>2. hand[BlockOf(s)] \in GoodPackets
      BY <1>1, <2>1, BlockFacts DEF BlockCarries
    <2>3. CASE Stopped(BlockOf(s))
      <3>1. UNCHANGED <<pools, delivered, pipes>>
        BY <1>4, <2>3 DEF Encode
      <3> QED BY <1>1, <2>1, <3>1, Types, HandedOn_Types DEF pools, pipes
    <2>4. CASE ~Stopped(BlockOf(s))
      <3>1. Sink(hand[BlockOf(s)])
        BY <1>4, <2>4 DEF Encode
      <3> QED BY <1>1, <2>1, <2>2, <3>1, SinkTypes, HandedOn_Types
    <2> QED BY <2>3, <2>4
  <1>5. CASE EncodeFails(s) \/ EndEncode(s)
    <2>1. "ended" \in OwnPlaces(app.blocks[s])
      BY DEF OwnPlaces
    <2> QED BY <1>5, <2>1, PlaceOfBlock_Types, Types DEF EncodeFails, EndEncode, At, pipes
  <1> QED BY <1>2, <1>3, <1>4, <1>5 DEF Encoder

LEMMA Main_Types ==
  ASSUME TInv, Stop \/ Join
  PROVE  TInv'
  <1>1. UNCHANGED <<app, pc, hand, decoded, pools, todo, pipes, stage, image, delivered, lost>>
    BY DEF Stop, Join
  <1>2. stops \in 0 .. Cardinality(Threads) /\ joined \in 0 .. stops /\ Cardinality(Threads) \in Nat
    BY Types, ThreadFacts, AppFacts, SMTT(30) DEF TInv, QueuesOK
  <1>3. stops' \in 0 .. Cardinality(Threads) /\ joined' \in 0 .. stops'
    BY <1>2 DEF Stop, Join
  <1>4. PlacesOK' /\ HandsOK'
    BY <1>1, SameApp DEF TInv, PlacesOK, HandsOK, OwnPlaces, DecoderPlaces, Carries, BlockCarries, NoFrame
  <1>5. CountersOK'
    BY <1>1, Types, CountersStep DEF pools
  <1>6. QueuesOK'
    BY <1>1, <1>3, Types, SameApp DEF QueuesOK, pipes, stage
  <1> QED BY <1>4, <1>5, <1>6 DEF TInv

LEMMA Init_Types ==
  ASSUME Init
  PROVE  TInv
  <1>1. app \in Apps
    BY DEF Init
  <1>2. PlacesOK
    BY <1>1, ThreadFacts DEF Init, PlacesOK, DecoderPlaces, OwnPlaces
  <1>3. HandsOK
    BY <1>1, ThreadFacts DEF Init, HandsOK, Carries, BlockCarries
  <1>4. CountersOK
    BY <1>1, AppFacts DEF Init, CountersOK
  <1>5. QueuesOK
    BY <1>1, AppFacts, ThreadFacts, EmptySeq DEF Init, QueuesOK
  <1> QED BY <1>2, <1>3, <1>4, <1>5 DEF TInv

-----------------------------------------------------------------------------
(***************************************************************************)
(* What a connector counts.  PacketsInv adds to PacketsConserved what the  *)
(* threads may hold at each place of their loops.                          *)
(***************************************************************************)

LEMMA SomeStopped ==
  ASSUME TInv
  PROVE  /\ stops \in Nat
         /\ \A t \in Threads : Stopped(t) => stops > 0
         /\ \A s \in Blocks : Closed(s) => stops > 0
  <1>1. stops \in Nat
    BY Types, ThreadFacts, AppFacts DEF TInv, QueuesOK
  <1>2. \A t \in Threads : Stopped(t) => stops > 0
    BY <1>1, Types, AppFacts DEF Stopped, Threads
  <1>3. ASSUME NEW s \in Blocks, Closed(s) PROVE stops > 0
    <2>4. app.channels \in Nat /\ app.channels > 0
      BY Types, AppFacts
    <2>5. 1 \in Channels
      BY <2>4 DEF Channels
    <2>1. BlockOf(s) \in Threads /\ 1 \in Channels /\ 1 \in Threads
      BY <2>5, Types, ThreadFacts
    <2>2. CASE s = 1
      BY <1>2, <1>3, <2>1, <2>2 DEF Closed
    <2>3. CASE s # 1
      <3>1. s - 1 \in Blocks
        BY <2>3, Types, AppFacts DEF Blocks
      <3>2. BlockOf(s - 1) \in Threads
        BY <3>1, Types, ThreadFacts
      <3> QED BY <1>2, <1>3, <2>1, <2>3, <3>2 DEF Closed
    <2> QED BY <2>2, <2>3
  <1> QED BY <1>1, <1>2, <1>3

LEMMA AccountTypes ==
  ASSUME TInv
  PROVE  /\ IsFiniteSet(FillOne) /\ Cardinality(FillOne) \in Nat
         /\ \A s \in Blocks : /\ free[s] \in Nat /\ Len(filled[s]) \in Nat
                              /\ Takes(s) \in {0, 1} /\ Fills(s) \in Nat
         /\ Len(lost) \in Nat
  <1>1. IsFiniteSet(Channels)
    <2>1. PICK n \in Int : n = app.channels
      BY Types, AppFacts
    <2>2. IsFiniteSet(1 .. n)
      BY FS_Interval, 1 \in Int
    <2> QED BY <2>1, <2>2 DEF Channels
  <1>2. IsFiniteSet(FillOne)
    BY <1>1, FS_Subset DEF FillOne
  <1>3. Cardinality(FillOne) \in Nat
    BY <1>2, FS_CardinalityType
  <1>4. Len(lost) \in Nat
    BY Types, LenProperties
  <1>5. ASSUME NEW s \in Blocks PROVE free[s] \in Nat /\ Len(filled[s]) \in Nat
    BY BlockFacts, LenProperties
  <1>6. ASSUME NEW s \in Blocks PROVE Takes(s) \in {0, 1} /\ Fills(s) \in Nat
    BY <1>3 DEF Takes, Fills
  <1> QED BY <1>2, <1>3, <1>4, <1>5, <1>6

One(b) == IF b THEN 1 ELSE 0

(* What a decoder does changes only what it holds itself.                   *)
LEMMA DecoderAccount ==
  ASSUME TInv, app' = app, NEW c \in Channels, Only(pc, pc', c), Only(hand, hand', c)
  PROVE  /\ \A s \in Blocks : Takes(s)' = Takes(s) /\ (s # 1 => Fills(s)' = Fills(s))
         /\ Fills(1)' = Fills(1) + One(hand'[c] # NoFrame) - One(hand[c] # NoFrame)
  <1>1. \A s \in Blocks : pc'[BlockOf(s)] = pc[BlockOf(s)]
    BY Types, ThreadFacts DEF Only
  <1>2. \A d \in Channels : d # c => hand'[d] = hand[d]
    BY Types, ThreadFacts DEF Only
  <1>3. ASSUME NEW s \in Blocks PROVE Takes(s)' = Takes(s)
    BY <1>1, SameApp DEF Takes
  <1>4. ASSUME NEW s \in Blocks, s # 1 PROVE Fills(s)' = Fills(s)
    <2>1. s - 1 \in Blocks
      BY <1>4, Types, AppFacts DEF Blocks
    <2> QED BY <1>1, <1>4, <2>1, SameApp DEF Fills
  <1>5. FillOne' = {d \in Channels : hand'[d] # NoFrame}
    BY SameApp DEF FillOne, NoFrame
  <1>6. CASE hand'[c] # NoFrame
    <2>1. FillOne' = FillOne \union {c}
      BY <1>2, <1>5, <1>6 DEF FillOne
    <2>2. Cardinality(FillOne') = IF c \in FillOne THEN Cardinality(FillOne) ELSE Cardinality(FillOne) + 1
      BY <2>1, AccountTypes, FS_AddElement
    <2>3. c \in FillOne <=> hand[c] # NoFrame
      BY DEF FillOne
    <2> QED BY <1>3, <1>4, <1>6, <2>2, <2>3, AccountTypes DEF Fills, One
  <1>7. CASE hand'[c] = NoFrame
    <2>1. FillOne' = FillOne \ {c}
      BY <1>2, <1>5, <1>7 DEF FillOne
    <2>2. Cardinality(FillOne') = IF c \in FillOne THEN Cardinality(FillOne) - 1 ELSE Cardinality(FillOne)
      BY <2>1, AccountTypes, FS_RemoveElement
    <2>3. c \in FillOne <=> hand[c] # NoFrame
      BY DEF FillOne
    <2> QED BY <1>3, <1>4, <1>7, <2>2, <2>3, AccountTypes DEF Fills, One
  <1> QED BY <1>6, <1>7

(* And what a block does changes what it holds of its input and its output. *)
LEMMA BlockAccount ==
  ASSUME TInv, app' = app, NEW s \in Blocks, Only(pc, pc', BlockOf(s)), Only(hand, hand', BlockOf(s))
  PROVE  /\ \A r \in Blocks : (r # s => Takes(r)' = Takes(r)) /\ (r # s + 1 => Fills(r)' = Fills(r))
         /\ Takes(s) = One(~IsInference(s) /\ pc[BlockOf(s)] = "output")
         /\ Takes(s)' = One(~IsInference(s) /\ pc'[BlockOf(s)] = "output")
         /\ s + 1 \in Blocks => /\ Fills(s + 1) = One(pc[BlockOf(s)] \in {"crop", "send"})
                                /\ Fills(s + 1)' = One(pc'[BlockOf(s)] \in {"crop", "send"})
  <1>1. \A r \in Blocks : r # s => pc'[BlockOf(r)] = pc[BlockOf(r)]
    BY Types, ThreadFacts DEF Only
  <1>2. \A c \in Channels : hand'[c] = hand[c]
    BY Types, ThreadFacts DEF Only
  <1>3. FillOne' = FillOne
    BY <1>2, SameApp DEF FillOne, NoFrame
  <1>4. ASSUME NEW r \in Blocks, r # s PROVE Takes(r)' = Takes(r)
    BY <1>1, <1>4, SameApp DEF Takes
  <1>5. ASSUME NEW r \in Blocks, r # s + 1 PROVE Fills(r)' = Fills(r)
    <2>1. CASE r = 1
      BY <1>3, <2>1 DEF Fills
    <2>2. CASE r # 1
      <3>1. r - 1 \in Blocks /\ r - 1 # s
        BY <1>5, <2>2, Types, AppFacts DEF Blocks
      <3> QED BY <1>1, <2>2, <3>1, SameApp DEF Fills
    <2> QED BY <2>1, <2>2
  <1>6. Takes(s) = One(~IsInference(s) /\ pc[BlockOf(s)] = "output")
    BY DEF Takes, One
  <1>7. Takes(s)' = One(~IsInference(s) /\ pc'[BlockOf(s)] = "output")
    BY SameApp DEF Takes, One
  <1>8. s + 1 # 1 /\ (s + 1) - 1 = s
    <2>1. s \in 1 .. 3
      BY Types, Kinds
    <2> QED BY <2>1
  <1>9. Fills(s + 1) = One(pc[BlockOf(s)] \in {"crop", "send"}) /\ Fills(s + 1)' = One(pc'[BlockOf(s)] \in {"crop", "send"})
    BY <1>8, SameApp DEF Fills, One
  <1> QED BY <1>4, <1>5, <1>6, <1>7, <1>9

PacketsInv ==
  /\ \A s \in Blocks : Accounted(s) <= app.packets
  /\ PacketsConserved

(* No step makes a packet, and none loses one unless something is stopped.  *)
Keeps(s) == /\ Accounted(s)' \in Int /\ Accounted(s)' <= Accounted(s)
            /\ stops = 0 => Accounted(s)' = Accounted(s)

LEMMA AccountedIs ==
  ASSUME TInv, NEW s \in Blocks
  PROVE  /\ Accounted(s) \in Nat
         /\ Accounted(s) = free[s] + Len(filled[s]) + Takes(s) + Fills(s) + (IF s = 1 THEN Len(lost) ELSE 0)
  <1>1. free[s] \in Nat /\ Len(filled[s]) \in Nat /\ Takes(s) \in Nat /\ Fills(s) \in Nat /\ Len(lost) \in Nat
    BY AccountTypes
  <1> QED BY <1>1 DEF Accounted

(* What a step adds to the free and filled packets of connector s, to what   *)
(* is taken from it and to what fills it, and to those that are lost.        *)
Changed(s, f, q, t, b, l) ==
  /\ f \in Int /\ q \in Int /\ t \in Int /\ b \in Int /\ l \in Int
  /\ free'[s] = free[s] + f /\ Len(filled'[s]) = Len(filled[s]) + q
  /\ Takes(s)' = Takes(s) + t /\ Fills(s)' = Fills(s) + b /\ Len(lost') = Len(lost) + l

AddsUp(s, f, q, t, b, l) == f + q + t + b + (IF s = 1 THEN l ELSE 0)

LEMMA KeepsIf ==
  ASSUME TInv, NEW s \in Blocks, NEW f, NEW q, NEW t, NEW b, NEW l, Changed(s, f, q, t, b, l),
         AddsUp(s, f, q, t, b, l) <= 0, stops = 0 => AddsUp(s, f, q, t, b, l) = 0
  PROVE  Keeps(s)
  <1> USE DEF Changed, AddsUp
  <1>1. PICK x \in Nat, y \in Nat, z \in Nat, w \in Nat, v \in Nat :
          x = free[s] /\ y = Len(filled[s]) /\ z = Takes(s) /\ w = Fills(s) /\ v = Len(lost)
    BY AccountTypes
  <1>2. Accounted(s) = x + y + z + w + (IF s = 1 THEN v ELSE 0)
    BY <1>1, AccountedIs
  <1>3. Accounted(s)' = (x + f) + (y + q) + (z + t) + (w + b) + (IF s = 1 THEN v + l ELSE 0)
    BY <1>1 DEF Accounted
  <1>4. /\ Accounted(s)' \in Int
        /\ Accounted(s)' = Accounted(s) + f + q + t + b + (IF s = 1 THEN l ELSE 0)
    BY <1>2, <1>3
  <1>5. Accounted(s) \in Int
    BY <1>2
  <1> QED BY <1>4, <1>5 DEF Keeps

LEMMA PacketsStep ==
  ASSUME TInv, PacketsInv, app' = app, \A s \in Blocks : Keeps(s), stops' \in Nat, stops' >= stops
  PROVE  PacketsInv'
  <1>1. stops \in Nat /\ app.packets \in Nat
    BY SomeStopped, Types, AppFacts
  <1>2. ASSUME NEW s \in Blocks
        PROVE  Accounted(s)' <= app.packets /\ (stops' = 0 => Accounted(s)' = app.packets)
    <2>1. Accounted(s) \in Nat
      BY AccountedIs
    <2>2. Accounted(s) <= app.packets /\ (stops = 0 => Accounted(s) = app.packets)
      BY DEF PacketsInv, PacketsConserved
    <2>3. Accounted(s)' \in Int /\ Accounted(s)' <= Accounted(s) /\ (stops = 0 => Accounted(s)' = Accounted(s))
      BY DEF Keeps
    <2>4. stops' = 0 => stops = 0
      BY <1>1
    <2>5. PICK x \in Int, y \in Int : x = Accounted(s) /\ y = Accounted(s)'
      BY <2>1, <2>3
    <2>6. y <= app.packets
      BY <1>1, <2>2, <2>3, <2>5
    <2>7. stops' = 0 => y = app.packets
      BY <2>2, <2>3, <2>4, <2>5
    <2> QED BY <2>5, <2>6, <2>7
  <1> QED BY <1>2, SameApp DEF PacketsInv, PacketsConserved

-----------------------------------------------------------------------------
(***************************************************************************)
(* What a step does not touch keeps its count.                             *)
(***************************************************************************)

(* What a decoder changes of the free, filled and lost packets balances what *)
(* it has in its hands.                                                      *)
DecoderBalance(c, f, q, l) ==
  /\ f \in Int /\ q \in Int /\ l \in Int
  /\ free'[1] = free[1] + f /\ Len(filled'[1]) = Len(filled[1]) + q /\ Len(lost') = Len(lost) + l
  /\ \A r \in Blocks : r # 1 => free'[r] = free[r] /\ filled'[r] = filled[r]
  /\ f + q + l + One(hand'[c] # NoFrame) - One(hand[c] # NoFrame) <= 0
  /\ stops = 0 => f + q + l + One(hand'[c] # NoFrame) - One(hand[c] # NoFrame) = 0

LEMMA DecoderKeeps ==
  ASSUME TInv, app' = app, NEW c \in Channels, Only(pc, pc', c), Only(hand, hand', c),
         NEW f, NEW q, NEW l, DecoderBalance(c, f, q, l)
  PROVE  \A r \in Blocks : Keeps(r)
  <1> USE DEF DecoderBalance
  <1>3. One(hand'[c] # NoFrame) \in Int /\ One(hand[c] # NoFrame) \in Int
    BY DEF One
  <1>1. PICK b \in Int : b = One(hand'[c] # NoFrame) - One(hand[c] # NoFrame)
    BY <1>3
  <1>2. ASSUME NEW r \in Blocks PROVE Keeps(r)
    <2>1. Takes(r)' = Takes(r) + 0
      BY DecoderAccount, AccountTypes
    <2>2. CASE r = 1
      <3>1. Fills(1)' = Fills(1) + b
        <4>1. PICK n \in Nat : n = Fills(1)
          BY <2>2, AccountTypes
        <4>2. Fills(1)' = n + One(hand'[c] # NoFrame) - One(hand[c] # NoFrame)
          BY <4>1, DecoderAccount
        <4>3. One(hand'[c] # NoFrame) \in Int /\ One(hand[c] # NoFrame) \in Int
          BY DEF One
        <4> QED BY <1>1, <4>1, <4>2, <4>3
      <3>2. One(hand'[c] # NoFrame) \in Int /\ One(hand[c] # NoFrame) \in Int
        BY DEF One
      <3>3. AddsUp(1, f, q, 0, b, l) <= 0 /\ (stops = 0 => AddsUp(1, f, q, 0, b, l) = 0)
        BY <1>1, <3>2, SMTT(30) DEF AddsUp
      <3>4. Changed(1, f, q, 0, b, l)
        BY <2>1, <2>2, <3>1 DEF Changed
      <3> QED BY <2>2, <3>3, <3>4, KeepsIf
    <2>3. CASE r # 1
      <3>1. Fills(r)' = Fills(r) + 0
        BY <2>3, DecoderAccount, AccountTypes
      <3>2. free'[r] = free[r] + 0 /\ Len(filled'[r]) = Len(filled[r]) + 0
        BY <2>3, AccountTypes
      <3>3. AddsUp(r, 0, 0, 0, 0, l) = 0
        BY <2>3 DEF AddsUp
      <3>4. Changed(r, 0, 0, 0, 0, l)
        BY <2>1, <3>1, <3>2 DEF Changed
      <3> QED BY <3>3, <3>4, KeepsIf
    <2> QED BY <2>2, <2>3
  <1> QED BY <1>2

(* What a block holds of its input packet and of its output packet.          *)
HeldBefore(s, t, b) ==
  /\ t = IF ~IsInference(s) /\ pc[BlockOf(s)] = "output" THEN 1 ELSE 0
  /\ b = IF pc[BlockOf(s)] \in {"crop", "send"} THEN 1 ELSE 0

HeldAfter(s, t, b) ==
  /\ t = IF ~IsInference(s) /\ pc'[BlockOf(s)] = "output" THEN 1 ELSE 0
  /\ b = IF pc'[BlockOf(s)] \in {"crop", "send"} THEN 1 ELSE 0

Moved(s, f, q) ==
  /\ f \in Int /\ q \in Int
  /\ free'[s] = free[s] + f /\ Len(filled'[s]) = Len(filled[s]) + q

Balance(f, q, before, after) ==
  /\ f + q + after - before <= 0
  /\ stops = 0 => f + q + after - before = 0

LEMMA BlockKeeps ==
  ASSUME TInv, app' = app, lost' = lost, NEW s \in Blocks,
         Only(pc, pc', BlockOf(s)), Only(hand, hand', BlockOf(s)),
         \A n \in Blocks : n \notin {s, s + 1} => free'[n] = free[n] /\ filled'[n] = filled[n],
         NEW t0, NEW t1, NEW b0, NEW b1, HeldBefore(s, t0, b0), HeldAfter(s, t1, b1),
         NEW f, NEW q, Moved(s, f, q), Balance(f, q, t0, t1),
         NEW g, NEW r, s + 1 \in Blocks => Moved(s + 1, g, r) /\ Balance(g, r, b0, b1)
  PROVE  \A n \in Blocks : Keeps(n)
  <1>6. t0 \in Int /\ t1 \in Int /\ b0 \in Int /\ b1 \in Int
    BY DEF HeldBefore, HeldAfter
  <1>7. PICK t \in Int : t = t1 - t0
    BY <1>6
  <1>8. PICK b \in Int : b = b1 - b0
    BY <1>6
  <1>9. /\ f + q + t <= 0 /\ (stops = 0 => f + q + t = 0)
        /\ f \in Int /\ q \in Int
        /\ free'[s] = free[s] + f /\ Len(filled'[s]) = Len(filled[s]) + q
    BY <1>6, <1>7 DEF Moved, Balance
  <1>10. s + 1 \in Blocks =>
           /\ g \in Int /\ r \in Int
           /\ free'[s + 1] = free[s + 1] + g /\ Len(filled'[s + 1]) = Len(filled[s + 1]) + r
           /\ g + r + b <= 0
           /\ stops = 0 => g + r + b = 0
    BY <1>6, <1>8 DEF Moved, Balance
  <1>1. Len(lost') = Len(lost) + 0
    BY AccountTypes
  <1>2. 0 \in Int /\ s \in 1 .. 3
    <2>1. app \in Apps
      BY Types
    <2>2. s \in 1 .. 3
      BY <2>1, Kinds
    <2> QED BY <2>2
  <1>3. Keeps(s)
    <2>1. Takes(s)' = Takes(s) + t
      <3>1. Takes(s)' = t1
        BY BlockAccount DEF HeldAfter, One
      <3>2. Takes(s) = t0
        BY BlockAccount DEF HeldBefore, One
      <3> QED BY <1>6, <1>7, <3>1, <3>2
    <2>2. s # s + 1
      BY <1>2
    <2>3. Fills(s)' = Fills(s) + 0
      BY <2>2, BlockAccount, AccountTypes
    <2>4. AddsUp(s, f, q, t, 0, 0) <= 0 /\ (stops = 0 => AddsUp(s, f, q, t, 0, 0) = 0)
      BY <1>9 DEF AddsUp
    <2>5. Changed(s, f, q, t, 0, 0)
      BY <1>1, <1>2, <1>9, <2>1, <2>3 DEF Changed
    <2> QED BY <2>4, <2>5, KeepsIf
  <1>4. ASSUME NEW n \in Blocks, n = s + 1 PROVE Keeps(n)
    <2>1. Fills(n)' = Fills(n) + b
      <3>1. Fills(s + 1)' = b1
        BY <1>4, BlockAccount DEF HeldAfter, One
      <3>2. Fills(s + 1) = b0
        BY <1>4, BlockAccount DEF HeldBefore, One
      <3> QED BY <1>4, <1>6, <1>8, <3>1, <3>2
    <2>2. n # s
      BY <1>2, <1>4
    <2>3. Takes(n)' = Takes(n) + 0
      BY <2>2, BlockAccount, AccountTypes
    <2>4. AddsUp(n, g, r, 0, b, 0) <= 0 /\ (stops = 0 => AddsUp(n, g, r, 0, b, 0) = 0)
      BY <1>4, <1>9, <1>10 DEF AddsUp
    <2>5. free'[n] = free[n] + g /\ Len(filled'[n]) = Len(filled[n]) + r
      BY <1>4, <1>10
    <2>6. Changed(n, g, r, 0, b, 0)
      BY <1>1, <1>2, <1>8, <1>10, <1>4, <2>1, <2>3, <2>5 DEF Changed
    <2> QED BY <2>4, <2>6, KeepsIf
  <1>5. ASSUME NEW n \in Blocks, n \notin {s, s + 1} PROVE Keeps(n)
    <2>1. Takes(n)' = Takes(n) + 0 /\ Fills(n)' = Fills(n) + 0
      BY <1>5, BlockAccount, AccountTypes
    <2>2. free'[n] = free[n] + 0 /\ Len(filled'[n]) = Len(filled[n]) + 0
      BY <1>5, AccountTypes
    <2>3. AddsUp(n, 0, 0, 0, 0, 0) = 0
      BY DEF AddsUp
    <2>4. Changed(n, 0, 0, 0, 0, 0)
      BY <1>1, <1>2, <2>1, <2>2 DEF Changed
    <2> QED BY <2>3, <2>4, KeepsIf
  <1> QED BY <1>3, <1>4, <1>5

-----------------------------------------------------------------------------
(***************************************************************************)
(* The decoders keep the packets of the first connector.                   *)
(***************************************************************************)

AllKept == \A r \in Blocks : Keeps(r)

LEMMA DecoderMoves ==
  ASSUME TInv, NEW c \in Channels, Decoder(c)
  PROVE  app' = app /\ Only(pc, pc', c) /\ \E place : pc' = [pc EXCEPT ![c] = place]
  <1>1. PICK place : pc' = [pc EXCEPT ![c] = place]
    <2>1. CASE DecodeFrame(c) \/ DecodeVpl(c)
      BY <2>1 DEF DecodeFrame, DecodeVpl, At
    <2>2. CASE FillPacket(c) \/ FillVpl(c)
      BY <2>2, Zenon DEF FillPacket, FillVpl, At
    <2>3. CASE Scale(c) \/ CopyVpl(c) \/ NoPacketVpl(c) \/ EndDecoding(c)
      BY <2>3, Zenon DEF Scale, CopyVpl, NoPacketVpl, EndDecoding, At
    <2>4. CASE ScaleFails(c) \/ ScaleWantsMore(c) \/ ScaleWantsSurface(c)
      BY <2>4, Zenon DEF ScaleFails, ScaleWantsMore, ScaleWantsSurface, At
    <2>5. CASE SendFrame(c)
      BY <2>5, Zenon DEF SendFrame, At
    <2> QED BY <2>1, <2>2, <2>3, <2>4, <2>5 DEF Decoder
  <1>2. app' = app
    BY DEF Decoder, DecodeFrame, DecodeVpl, FillPacket, FillVpl, Scale, CopyVpl, NoPacketVpl,
           EndDecoding, ScaleFails, ScaleWantsMore, ScaleWantsSurface, SendFrame
  <1>3. Only(pc, pc', c)
    BY <1>1, ExceptOnly
  <1> QED BY <1>1, <1>2, <1>3

LEMMA DecoderKeepsAll ==
  ASSUME TInv, NEW c \in Channels, Decoder(c)
  PROVE  AllKept
  <1>1. app' = app /\ free[1] \in Nat /\ Len(filled[1]) \in Nat /\ Len(lost) \in Nat
    BY DecoderMoves, Types, AccountTypes
  <1>2. Only(pc, pc', c)
    BY DecoderMoves
  <1>3. CASE \/ DecodeFrame(c) \/ DecodeVpl(c) \/ NoPacketVpl(c) \/ EndDecoding(c) \/ ScaleWantsSurface(c)
             \/ ScaleFails(c) /\ hand' = hand /\ lost' = lost
    <2>1. hand' = hand /\ lost' = lost /\ free' = free /\ filled' = filled
      BY <1>3 DEF DecodeFrame, DecodeVpl, NoPacketVpl, EndDecoding, ScaleWantsSurface, ScaleFails, pipes
    <2>2. free'[1] = free[1] + 0 /\ Len(filled'[1]) = Len(filled[1]) + 0 /\ Len(lost') = Len(lost) + 0
      BY <1>1, <2>1
    <2>3. 0 + 0 + 0 + One(hand'[c] # NoFrame) - One(hand[c] # NoFrame) = 0
      BY <2>1 DEF One
    <2>4. Only(hand, hand', c)
      BY <2>1, ExceptOnly
    <2>5. DecoderBalance(c, 0, 0, 0)
      BY <2>1, <2>2, <2>3 DEF DecoderBalance
    <2> QED BY <1>1, <1>2, <2>4, <2>5, DecoderKeeps DEF AllKept
  <1>4. CASE \/ ~app.vpl /\ FillPacket(c)
             \/ app.vpl /\ FillVpl(c)
    <2>1. pc[c] = "dequeue" /\ free' = [free EXCEPT ![1] = @ - 1] /\ UNCHANGED <<filled, lost>>
      BY <1>4 DEF FillPacket, FillVpl
    <2>2. PICK dec \in {0, 1} : hand' = [hand EXCEPT ![c] = New(c, dec)]
      BY <1>4, DecoderFacts DEF FillPacket, FillVpl, New
    <2>3. Only(hand, hand', c) /\ hand'[c] = New(c, dec) /\ hand[c] = NoFrame /\ New(c, dec) # NoFrame
      BY <2>1, <2>2, ExceptOnly, DecoderFacts, NewPacket
    <2>4. free'[1] = free[1] + (-1) /\ Len(filled'[1]) = Len(filled[1]) + 0 /\ Len(lost') = Len(lost) + 0
      BY <1>1, <2>1, Types
    <2>5. -1 + 0 + 0 + One(hand'[c] # NoFrame) - One(hand[c] # NoFrame) = 0
      BY <2>3 DEF One
    <2>6. \A r \in Blocks : r # 1 => free'[r] = free[r] /\ filled'[r] = filled[r]
      BY <2>1, Types
    <2>7. DecoderBalance(c, -1, 0, 0)
      BY <2>4, <2>5, <2>6 DEF DecoderBalance
    <2> QED BY <1>1, <1>2, <2>3, <2>7, DecoderKeeps DEF AllKept
  <1>5. CASE \/ ~app.vpl /\ Scale(c)
             \/ app.vpl /\ CopyVpl(c)
    <2>1. pc[c] = "vpp" /\ hand' = [hand EXCEPT ![c].vp = 1] /\ UNCHANGED <<free, filled, lost>>
      BY <1>5 DEF Scale, CopyVpl, pipes
    <2>2. PICK p \in GoodPackets : p = [hand[c] EXCEPT !.vp = 1]
      BY <2>1, DecoderFacts, PacketChanges
    <2>3. hand' = [hand EXCEPT ![c] = p] /\ hand[c] # NoFrame /\ p # NoFrame
      BY <2>1, <2>2, DecoderFacts, PacketFacts
    <2>4. Only(hand, hand', c) /\ hand'[c] = p
      BY <2>3, DecoderFacts, ExceptOnly
    <2>5. free'[1] = free[1] + 0 /\ Len(filled'[1]) = Len(filled[1]) + 0 /\ Len(lost') = Len(lost) + 0
      BY <1>1, <2>1
    <2>6. 0 + 0 + 0 + One(hand'[c] # NoFrame) - One(hand[c] # NoFrame) = 0
      BY <2>3, <2>4 DEF One
    <2>7. DecoderBalance(c, 0, 0, 0)
      BY <2>1, <2>5, <2>6 DEF DecoderBalance
    <2> QED BY <1>1, <1>2, <2>4, <2>7, DecoderKeeps DEF AllKept
  <1>6. CASE ScaleWantsMore(c) \/ (ScaleFails(c) /\ ~(hand' = hand /\ lost' = lost))
    <2>1. /\ pc[c] = "vpp" /\ hand' = [hand EXCEPT ![c] = NoFrame] /\ lost' = Append(lost, hand[c])
          /\ UNCHANGED <<free, filled>>
      BY <1>6 DEF ScaleWantsMore, ScaleFails, pipes
    <2>2. Only(hand, hand', c) /\ hand'[c] = NoFrame /\ hand[c] # NoFrame /\ hand[c] \in GoodPackets
      BY <2>1, DecoderFacts, ExceptOnly
    <2>3. Len(lost') = Len(lost) + 1
      BY <2>1, <2>2, Types, AppendProperties
    <2>4. free'[1] = free[1] + 0 /\ Len(filled'[1]) = Len(filled[1]) + 0
      BY <1>1, <2>1
    <2>5. 0 + 0 + 1 + One(hand'[c] # NoFrame) - One(hand[c] # NoFrame) = 0
      BY <2>2 DEF One
    <2>6. DecoderBalance(c, 0, 0, 1)
      BY <2>1, <2>3, <2>4, <2>5 DEF DecoderBalance
    <2> QED BY <1>1, <1>2, <2>2, <2>6, DecoderKeeps DEF AllKept
  <1>7. CASE SendFrame(c)
    <2>1. /\ pc[c] \in {"enqueue", "last"} /\ EnqueueOutput(c, 1, hand[c])
          /\ hand' = [hand EXCEPT ![c] = NoFrame] /\ UNCHANGED <<free, lost>>
      BY <1>7 DEF SendFrame
    <2>2. Only(hand, hand', c) /\ hand'[c] = NoFrame /\ hand[c] # NoFrame /\ hand[c] \in GoodPackets
      BY <2>1, DecoderFacts, ExceptOnly
    <2>3. PICK q \in {0, 1} : /\ Len(filled'[1]) = Len(filled[1]) + q
                              /\ stops = 0 => q = 1
                              /\ \A r \in Blocks : r # 1 => filled'[r] = filled[r]
      <3>1. CASE Stopped(c)
        <4>1. filled' = filled /\ stops > 0
          BY <2>1, <3>1, SomeStopped, DecoderFacts DEF EnqueueOutput
        <4>2. Len(filled'[1]) = Len(filled[1]) + 0 /\ stops # 0
          BY <1>1, <4>1, SomeStopped
        <4> QED BY <4>1, <4>2
      <3>2. CASE ~Stopped(c)
        <4>1. filled' = [filled EXCEPT ![1] = Append(@, hand[c])]
          BY <2>1, <3>2 DEF EnqueueOutput
        <4>2. Len(filled'[1]) = Len(filled[1]) + 1
          BY <2>2, <4>1, Types, AppendProperties
        <4> QED BY <4>1, <4>2, Types
      <3> QED BY <3>1, <3>2
    <2>4. free'[1] = free[1] + 0 /\ Len(lost') = Len(lost) + 0
      BY <1>1, <2>1
    <2>5. /\ 0 + q + 0 + One(hand'[c] # NoFrame) - One(hand[c] # NoFrame) <= 0
          /\ stops = 0 => 0 + q + 0 + One(hand'[c] # NoFrame) - One(hand[c] # NoFrame) = 0
      BY <2>2, <2>3 DEF One
    <2>6. DecoderBalance(c, 0, q, 0)
      BY <2>1, <2>3, <2>4, <2>5 DEF DecoderBalance
    <2> QED BY <1>1, <1>2, <2>2, <2>6, DecoderKeeps DEF AllKept
  <1> QED BY <1>3, <1>4, <1>5, <1>6, <1>7 DEF Decoder

-----------------------------------------------------------------------------
(***************************************************************************)
(* The blocks keep the packets of the connectors on both sides.            *)
(***************************************************************************)

LEMMA EnqueueCounts ==
  ASSUME TInv, NEW t \in Threads, NEW s \in Blocks, NEW p \in GoodPackets, EnqueueOutput(t, s, p)
  PROVE  \E r \in {0, 1} : /\ Len(filled'[s]) = Len(filled[s]) + r
                           /\ stops = 0 => r = 1
                           /\ \A n \in Blocks : n # s => filled'[n] = filled[n]
  <1>1. CASE Stopped(t)
    <2>1. filled' = filled /\ stops # 0
      BY <1>1, SomeStopped DEF EnqueueOutput
    <2>2. Len(filled'[s]) = Len(filled[s]) + 0
      BY <2>1, AccountTypes
    <2> QED BY <2>1, <2>2
  <1>2. CASE ~Stopped(t)
    <2>1. filled' = [filled EXCEPT ![s] = Append(@, p)]
      BY <1>2 DEF EnqueueOutput
    <2>2. Len(filled'[s]) = Len(filled[s]) + 1
      BY <2>1, Types, AppendProperties
    <2> QED BY <2>1, <2>2, Types
  <1> QED BY <1>1, <1>2

BlockStepOf(s) ==
  \/ IsInference(s) /\ Inference(s)
  \/ app.blocks[s] = "crop" /\ Crop(s)
  \/ app.blocks[s] = "encoder" /\ Encoder(s)
  \/ app.blocks[s] = "dummy" /\ Dummy(s)

LEMMA BlockMoves ==
  ASSUME TInv, NEW s \in Blocks, BlockStepOf(s)
  PROVE  /\ app' = app /\ lost' = lost /\ unscaled' = unscaled
         /\ stops' = stops /\ joined' = joined /\ decoded' = decoded
         /\ Only(pc, pc', BlockOf(s)) /\ Only(hand, hand', BlockOf(s))
         /\ pc' = pc \/ \E place : pc' = [pc EXCEPT ![BlockOf(s)] = place]
  <1>1. \/ pc' = pc
        \/ \E place : pc' = [pc EXCEPT ![BlockOf(s)] = place]
    <2>1. CASE Inference(s)
      BY <2>1, Zenon DEF Inference, Acquire, Translate, Release, EndInference, At
    <2>2. CASE Crop(s)
      BY <2>2, Zenon DEF Crop, TakeInput, CropOutput, CropRoi, CropSend, EndCrop, At
    <2>3. CASE Encoder(s)
      BY <2>3, Zenon DEF Encoder, TakeInput, EncodeOutput, Encode, EncodeFails, EndEncode, At
    <2>4. CASE Dummy(s)
      BY <2>4, Zenon DEF Dummy, TakeInput, DetectOutput, DetectSend, EndDetect, At
    <2> QED BY <2>1, <2>2, <2>3, <2>4 DEF BlockStepOf
  <1>2. \/ hand' = hand
        \/ \E p : hand' = [hand EXCEPT ![BlockOf(s)] = p]
    <2>1. CASE Inference(s)
      BY <2>1 DEF Inference, Acquire, Translate, Release, EndInference
    <2>2. CASE Crop(s)
      BY <2>2, Zenon DEF Crop, TakeInput, CropOutput, CropRoi, CropSend, EndCrop
    <2>3. CASE Encoder(s)
      BY <2>3, Zenon DEF Encoder, TakeInput, EncodeOutput, Encode, EncodeFails, EndEncode
    <2>4. CASE Dummy(s)
      BY <2>4, Zenon DEF Dummy, TakeInput, DetectOutput, DetectSend, EndDetect
    <2> QED BY <2>1, <2>2, <2>3, <2>4 DEF BlockStepOf
  <1>3. /\ app' = app /\ lost' = lost /\ unscaled' = unscaled
        /\ stops' = stops /\ joined' = joined /\ decoded' = decoded
    <2>1. CASE Inference(s)
      BY <2>1 DEF Inference, Acquire, Translate, Release, EndInference, main
    <2>2. CASE Crop(s)
      BY <2>2 DEF Crop, TakeInput, CropOutput, CropRoi, CropSend, EndCrop, main
    <2>3. CASE Encoder(s)
      BY <2>3 DEF Encoder, TakeInput, EncodeOutput, Encode, EncodeFails, EndEncode, main
    <2>4. CASE Dummy(s)
      BY <2>4 DEF Dummy, TakeInput, DetectOutput, DetectSend, EndDetect, main
    <2> QED BY <2>1, <2>2, <2>3, <2>4 DEF BlockStepOf
  <1>4. Only(pc, pc', BlockOf(s))
    <2>1. CASE pc' = pc
      BY <2>1, ExceptOnly
    <2>2. CASE \E place : pc' = [pc EXCEPT ![BlockOf(s)] = place]
      <3>1. PICK place : pc' = [pc EXCEPT ![BlockOf(s)] = place]
        BY <2>2
      <3> QED BY <3>1, ExceptOnly
    <2> QED BY <1>1, <2>1, <2>2
  <1>5. Only(hand, hand', BlockOf(s))
    <2>1. CASE hand' = hand
      BY <2>1, ExceptOnly
    <2>2. CASE \E p : hand' = [hand EXCEPT ![BlockOf(s)] = p]
      <3>1. PICK p : hand' = [hand EXCEPT ![BlockOf(s)] = p]
        BY <2>2
      <3> QED BY <3>1, ExceptOnly
    <2> QED BY <1>2, <2>1, <2>2
  <1> QED BY <1>1, <1>3, <1>4, <1>5

(* The cases of a step of block s, for the packets of its connectors.        *)
LEMMA KeptByBlock ==
  ASSUME TInv, NEW s \in Blocks, BlockStepOf(s),
         \A n \in Blocks : n \notin {s, s + 1} => free'[n] = free[n] /\ filled'[n] = filled[n],
         NEW t0, NEW t1, NEW b0, NEW b1, HeldBefore(s, t0, b0), HeldAfter(s, t1, b1),
         NEW f, NEW q, Moved(s, f, q), Balance(f, q, t0, t1),
         NEW g, NEW r, s + 1 \in Blocks => Moved(s + 1, g, r) /\ Balance(g, r, b0, b1)
  PROVE  AllKept
  BY BlockMoves, BlockKeeps DEF AllKept

LEMMA NotMoved ==
  ASSUME TInv, NEW s \in Blocks, free'[s] = free[s], filled'[s] = filled[s]
  PROVE  Moved(s, 0, 0)
  BY AccountTypes DEF Moved

(* Nothing is taken or sent: the block only moves on, or ends.               *)
LEMMA StayedPackets ==
  ASSUME TInv, NEW s \in Blocks, BlockStepOf(s), free' = free, filled' = filled,
         NEW old, old = pc[BlockOf(s)], NEW place, place = pc'[BlockOf(s)],
         \/ place = old
         \/ /\ old \notin {"crop", "send"} /\ place \notin {"crop", "send"}
            /\ IsInference(s) \/ (old # "output" /\ place # "output")
         \/ place = "ended" /\ stops # 0
  PROVE  AllKept
  <1>1. PICK t0 \in {0, 1}, b0 \in {0, 1} : HeldBefore(s, t0, b0)
    BY DEF HeldBefore
  <1>2. PICK t1 \in {0, 1}, b1 \in {0, 1} : HeldAfter(s, t1, b1)
    BY DEF HeldAfter
  <1>3. t1 <= t0 /\ b1 <= b0 /\ (stops = 0 => t1 = t0 /\ b1 = b0)
    BY <1>1, <1>2 DEF HeldBefore, HeldAfter
  <1>4. Balance(0, 0, t0, t1) /\ Balance(0, 0, b0, b1)
    BY <1>1, <1>2, <1>3 DEF Balance
  <1>5. Moved(s, 0, 0) /\ (s + 1 \in Blocks => Moved(s + 1, 0, 0))
    BY NotMoved
  <1> QED BY <1>1, <1>2, <1>4, <1>5, KeptByBlock

LEMMA Acquire_Packets ==
  ASSUME TInv, NEW s \in Blocks, IsInference(s), Acquire(s)
  PROVE  AllKept
  <1>1. /\ filled[s] # <<>> /\ filled' = [filled EXCEPT ![s] = Tail(@)]
        /\ free' = [free EXCEPT ![s] = @ + 1] /\ pc' = pc
    BY DEF Acquire
  <1>2. s \in 1 .. 3
    BY Types, Kinds
  <1>3. Moved(s, 1, -1)
    BY <1>1, Types, AccountTypes, HeadTailProperties DEF Moved
  <1>4. s + 1 \in Blocks => Moved(s + 1, 0, 0)
    BY <1>1, <1>2, Types, NotMoved, SMTT(30)
  <1>5. PICK b \in {0, 1} : HeldBefore(s, 0, b) /\ HeldAfter(s, 0, b)
    BY <1>1 DEF HeldBefore, HeldAfter
  <1>6. Balance(1, -1, 0, 0) /\ Balance(0, 0, b, b)
    BY DEF Balance
  <1>7. \A n \in Blocks : n \notin {s, s + 1} => free'[n] = free[n] /\ filled'[n] = filled[n]
    BY <1>1, Types
  <1>8. BlockStepOf(s)
    BY DEF BlockStepOf, Inference
  <1> QED BY <1>3, <1>4, <1>5, <1>6, <1>7, <1>8, KeptByBlock

LEMMA TakeInput_Packets ==
  ASSUME TInv, NEW s \in Blocks, ~IsInference(s), BlockStepOf(s), TakeInput(s)
  PROVE  AllKept
  <1>1. /\ pc[BlockOf(s)] = "input" /\ filled[s] # <<>> /\ filled' = [filled EXCEPT ![s] = Tail(@)]
        /\ free' = free /\ pc' = [pc EXCEPT ![BlockOf(s)] = "output"]
    BY DEF TakeInput, At
  <1>2. pc'[BlockOf(s)] = "output" /\ s \in 1 .. 3
    BY <1>1, BlockFacts, Types, Kinds
  <1>3. Moved(s, 0, -1)
    BY <1>1, Types, AccountTypes, HeadTailProperties DEF Moved
  <1>4. s + 1 \in Blocks => Moved(s + 1, 0, 0)
    BY <1>1, <1>2, Types, NotMoved
  <1>5. HeldBefore(s, 0, 0) /\ HeldAfter(s, 1, 0)
    BY <1>1, <1>2 DEF HeldBefore, HeldAfter
  <1>6. Balance(0, -1, 0, 1) /\ Balance(0, 0, 0, 0)
    BY DEF Balance
  <1>7. \A n \in Blocks : n \notin {s, s + 1} => free'[n] = free[n] /\ filled'[n] = filled[n]
    BY <1>1, Types
  <1> QED BY <1>3, <1>4, <1>5, <1>6, <1>7, KeptByBlock

(* Both packets are in the hands of the block.                               *)
LEMMA Output_Packets ==
  ASSUME TInv, NEW s \in Blocks, ~IsInference(s), BlockStepOf(s), pc[BlockOf(s)] = "output",
         free' = Swapped(s), filled' = filled, pc'[BlockOf(s)] \in {"crop", "send"}
  PROVE  AllKept
  <1>1. s \in 1 .. 3
    BY Types, Kinds
  <1>2. \A n \in Blocks : free'[n] = free[n] + (IF n = s THEN 1 ELSE 0) - (IF n = s + 1 THEN 1 ELSE 0)
    BY DEF Swapped
  <1>3. Moved(s, 1, 0)
    BY <1>1, <1>2, AccountTypes DEF Moved
  <1>4. s + 1 \in Blocks => Moved(s + 1, -1, 0)
    BY <1>1, <1>2, AccountTypes DEF Moved
  <1>5. HeldBefore(s, 1, 0) /\ HeldAfter(s, 0, 1)
    BY DEF HeldBefore, HeldAfter
  <1>6. Balance(1, 0, 1, 0) /\ Balance(-1, 0, 0, 1)
    BY DEF Balance
  <1>7. \A n \in Blocks : n \notin {s, s + 1} => free'[n] = free[n] /\ filled'[n] = filled[n]
    BY <1>2, AccountTypes
  <1> QED BY <1>3, <1>4, <1>5, <1>6, <1>7, KeptByBlock

(* The input packet is given back, and the output is the sink's.             *)
LEMMA EncodeOutput_Packets ==
  ASSUME TInv, NEW s \in Blocks, app.blocks[s] = "encoder", EncodeOutput(s)
  PROVE  AllKept
  <1>1. /\ pc[BlockOf(s)] = "output" /\ free' = [free EXCEPT ![s] = @ + 1] /\ filled' = filled
        /\ pc' = [pc EXCEPT ![BlockOf(s)] = "encode"]
    BY DEF EncodeOutput, At
  <1>2. pc'[BlockOf(s)] = "encode" /\ s + 1 \notin Blocks
    BY <1>1, BlockFacts, Types, Kinds
  <1>3. Moved(s, 1, 0)
    BY <1>1, Types, AccountTypes DEF Moved
  <1>4. HeldBefore(s, 1, 0) /\ HeldAfter(s, 0, 0)
    BY <1>1, <1>2 DEF HeldBefore, HeldAfter, IsInference
  <1>5. Balance(1, 0, 1, 0)
    BY DEF Balance
  <1>6. \A n \in Blocks : n \notin {s, s + 1} => free'[n] = free[n] /\ filled'[n] = filled[n]
    BY <1>1, Types
  <1>7. BlockStepOf(s)
    BY DEF BlockStepOf, Encoder
  <1> QED BY <1>2, <1>3, <1>4, <1>5, <1>6, <1>7, KeptByBlock

(* The packet goes into the next connector, to the sink, or nowhere.         *)
LEMMA Handed_Packets ==
  ASSUME TInv, NEW s \in Blocks, ~IsInference(s), BlockStepOf(s),
         pc[BlockOf(s)] \in {"crop", "send", "encode"}, free' = free, pc'[BlockOf(s)] = "input",
         s + 1 \in Blocks => pc[BlockOf(s)] \in {"crop", "send"},
         \/ filled' = filled /\ s + 1 \notin Blocks
         \/ s + 1 \in Blocks /\ \E p \in GoodPackets : EnqueueOutput(BlockOf(s), s + 1, p)
  PROVE  AllKept
  <1>1. s \in 1 .. 3
    BY Types, Kinds
  <1>2. PICK b \in {0, 1} : HeldBefore(s, 0, b) /\ HeldAfter(s, 0, 0) /\ (s + 1 \in Blocks => b = 1)
    BY DEF HeldBefore, HeldAfter
  <1>3. Balance(0, 0, 0, 0)
    BY DEF Balance
  <1>4. CASE filled' = filled /\ s + 1 \notin Blocks
    <2>1. Moved(s, 0, 0)
      BY <1>4, NotMoved
    <2> QED BY <1>2, <1>3, <1>4, <2>1, KeptByBlock
  <1>5. ASSUME s + 1 \in Blocks, NEW p \in GoodPackets, EnqueueOutput(BlockOf(s), s + 1, p)
        PROVE  AllKept
    <2>1. PICK r \in {0, 1} : /\ Len(filled'[s + 1]) = Len(filled[s + 1]) + r
                              /\ stops = 0 => r = 1
                              /\ \A n \in Blocks : n # s + 1 => filled'[n] = filled[n]
      BY <1>5, BlockFacts, EnqueueCounts
    <2>2. Moved(s, 0, 0)
      BY <1>1, <2>1, NotMoved
    <2>3. Moved(s + 1, 0, r)
      BY <1>5, <2>1, AccountTypes DEF Moved
    <2>4. Balance(0, r, 1, 0)
      BY <2>1 DEF Balance
    <2> QED BY <1>2, <1>3, <1>5, <2>1, <2>2, <2>3, <2>4, KeptByBlock
  <1> QED BY <1>4, <1>5

LEMMA Release_Packets ==
  ASSUME TInv, NEW s \in Blocks, IsInference(s), Release(s)
  PROVE  AllKept
  <1>1. pc' = [pc EXCEPT ![BlockOf(s)] = "input"] /\ MayLeave(s) /\ s \in 1 .. 3
    BY Types, Kinds DEF Release, At
  <1>2. pc[BlockOf(s)] \notin {"crop", "send"} /\ pc'[BlockOf(s)] = "input"
    BY <1>1, BlockFacts DEF OwnPlaces, IsInference
  <1>3. PICK p \in GoodPackets :
          \/ IsLast(s) /\ Sink(p)
          \/ ~IsLast(s) /\ free' = [free EXCEPT ![s + 1] = @ - 1] /\ EnqueueOutput(BlockOf(s), s + 1, p)
    BY <1>1, LeavesFirst, ResultFacts DEF Release
  <1>4. BlockStepOf(s)
    BY DEF BlockStepOf, Inference
  <1>5. CASE IsLast(s) /\ Sink(p)
    BY <1>2, <1>4, <1>5, StayedPackets DEF Sink, pipes
  <1>6. CASE ~IsLast(s) /\ free' = [free EXCEPT ![s + 1] = @ - 1] /\ EnqueueOutput(BlockOf(s), s + 1, p)
    <2>1. s + 1 \in Blocks
      BY <1>6, Types, Kinds
    <2>2. PICK r \in {0, 1} : /\ Len(filled'[s + 1]) = Len(filled[s + 1]) + r
                              /\ stops = 0 => r = 1
                              /\ \A n \in Blocks : n # s + 1 => filled'[n] = filled[n]
      BY <1>6, <2>1, BlockFacts, EnqueueCounts
    <2>3. Moved(s, 0, 0)
      BY <1>1, <1>6, <2>2, Types, NotMoved
    <2>4. Moved(s + 1, -1, r)
      BY <1>6, <2>1, <2>2, Types, AccountTypes DEF Moved
    <2>5. HeldBefore(s, 0, 0) /\ HeldAfter(s, 0, 0)
      BY <1>2 DEF HeldBefore, HeldAfter
    <2>6. Balance(0, 0, 0, 0) /\ Balance(-1, r, 0, 0)
      BY <2>2 DEF Balance
    <2>7. \A n \in Blocks : n \notin {s, s + 1} => free'[n] = free[n] /\ filled'[n] = filled[n]
      BY <1>6, <2>2, Types
    <2> QED BY <1>4, <2>3, <2>4, <2>5, <2>6, <2>7, KeptByBlock
  <1> QED BY <1>3, <1>5, <1>6

-----------------------------------------------------------------------------
(***************************************************************************)
(* Every step keeps every count, while nothing has been stopped.           *)
(***************************************************************************)

LEMMA Inference_Packets ==
  ASSUME TInv, NEW s \in Blocks, IsInference(s), Inference(s)
  PROVE  AllKept
  <1>1. BlockStepOf(s)
    BY DEF BlockStepOf
  <1>2. CASE Translate(s) \/ EndInference(s)
    <2>1. free' = free /\ filled' = filled
      BY <1>2 DEF Translate, EndInference, pipes
    <2>2. pc[BlockOf(s)] \in {"input", "output"} /\ \E place \in {"output", "ended"} : pc' = [pc EXCEPT ![BlockOf(s)] = place]
      BY <1>2 DEF Translate, EndInference, At
    <2>3. pc'[BlockOf(s)] \in {"output", "ended"}
      BY <2>2, BlockFacts
    <2> QED BY <1>1, <2>1, <2>2, <2>3, StayedPackets
  <1> QED BY <1>2, Acquire_Packets, Release_Packets DEF Inference

LEMMA NoOutputStopped ==
  ASSUME TInv, NEW s \in Blocks, NoOutput(s) \/ Closed(s) \/ Stopped(BlockOf(s))
  PROVE  stops # 0
  <1>1. Stopped(BlockOf(s)) \/ Closed(s) \/ (~IsLast(s) /\ Closed(s + 1))
    BY DEF NoOutput
  <1>2. IsLast(s) \/ s + 1 \in Blocks
    BY Types, Kinds
  <1> QED BY <1>1, <1>2, SomeStopped, BlockFacts

LEMMA End_Packets ==
  ASSUME TInv, NEW s \in Blocks, BlockStepOf(s), pc' = [pc EXCEPT ![BlockOf(s)] = "ended"],
         free' = free, filled' = filled, stops # 0
  PROVE  AllKept
  <1>1. pc'[BlockOf(s)] = "ended"
    BY BlockFacts
  <1> QED BY <1>1, StayedPackets

LEMMA Crop_Packets ==
  ASSUME TInv, NEW s \in Blocks, app.blocks[s] = "crop", Crop(s)
  PROVE  AllKept
  <1>1. BlockStepOf(s) /\ ~IsInference(s)
    BY DEF BlockStepOf, IsInference
  <1>2. CASE TakeInput(s)
    BY <1>1, <1>2, TakeInput_Packets
  <1>3. CASE CropOutput(s)
    <2>1. /\ pc[BlockOf(s)] = "output" /\ free' = Swapped(s) /\ filled' = filled
          /\ pc' = [pc EXCEPT ![BlockOf(s)] = "crop"]
      BY <1>3 DEF CropOutput, At
    <2>2. pc'[BlockOf(s)] = "crop"
      BY <2>1, BlockFacts
    <2> QED BY <1>1, <2>1, <2>2, Output_Packets
  <1>4. CASE CropRoi(s)
    BY <1>1, <1>4, StayedPackets DEF CropRoi, pipes
  <1>5. CASE CropSend(s)
    <2>1. pc[BlockOf(s)] = "crop" /\ pc' = [pc EXCEPT ![BlockOf(s)] = "input"]
      BY <1>5 DEF CropSend, At
    <2>2. PICK p \in GoodPackets : p = hand[BlockOf(s)]
      BY <1>1, <2>1, BlockFacts DEF BlockCarries
    <2>3. PICK q \in GoodPackets : q = [p EXCEPT !.dec = 0]
      BY Types, PacketChanges
    <2>4. \/ IsLast(s) /\ free' = free /\ filled' = filled
          \/ free' = free /\ EnqueueOutput(BlockOf(s), s + 1, q) /\ (IsLast(s) => Stopped(BlockOf(s)))
      BY <1>5, <2>2, <2>3 DEF CropSend, Sink, pipes
    <2>5. pc'[BlockOf(s)] = "input" /\ (IsLast(s) <=> s + 1 \notin Blocks)
      BY <2>1, BlockFacts, Types, Kinds
    <2>6. \/ filled' = filled /\ s + 1 \notin Blocks
          \/ s + 1 \in Blocks /\ \E r \in GoodPackets : EnqueueOutput(BlockOf(s), s + 1, r)
      BY <2>4, <2>5 DEF EnqueueOutput
    <2> QED BY <1>1, <2>1, <2>4, <2>5, <2>6, Handed_Packets
  <1>6. CASE EndCrop(s)
    <2>1. NoOutput(s) \/ Closed(s) \/ Stopped(BlockOf(s))
      BY <1>6 DEF EndCrop
    <2> QED BY <1>1, <1>6, <2>1, NoOutputStopped, End_Packets DEF EndCrop, At, pipes
  <1> QED BY <1>2, <1>3, <1>4, <1>5, <1>6 DEF Crop

LEMMA Dummy_Packets ==
  ASSUME TInv, NEW s \in Blocks, app.blocks[s] = "dummy", Dummy(s)
  PROVE  AllKept
  <1>1. BlockStepOf(s) /\ ~IsInference(s)
    BY DEF BlockStepOf, IsInference
  <1>2. CASE TakeInput(s)
    BY <1>1, <1>2, TakeInput_Packets
  <1>3. CASE DetectOutput(s)
    <2>1. /\ pc[BlockOf(s)] = "output" /\ free' = Swapped(s) /\ filled' = filled
          /\ pc' = [pc EXCEPT ![BlockOf(s)] = "send"]
      BY <1>3 DEF DetectOutput, At
    <2>2. pc'[BlockOf(s)] = "send"
      BY <2>1, BlockFacts
    <2> QED BY <1>1, <2>1, <2>2, Output_Packets
  <1>4. CASE DetectSend(s)
    <2>1. /\ pc[BlockOf(s)] = "send" /\ pc' = [pc EXCEPT ![BlockOf(s)] = "input"]
          /\ free' = free /\ EnqueueOutput(BlockOf(s), s + 1, hand[BlockOf(s)])
      BY <1>4 DEF DetectSend, At
    <2>2. hand[BlockOf(s)] \in GoodPackets
      BY <1>1, <2>1, BlockFacts DEF BlockCarries
    <2>3. pc'[BlockOf(s)] = "input" /\ s + 1 \in Blocks
      BY <2>1, BlockFacts, Types, Kinds
    <2> QED BY <1>1, <2>1, <2>2, <2>3, Handed_Packets
  <1>5. CASE EndDetect(s)
    <2>1. NoOutput(s) \/ Closed(s) \/ Stopped(BlockOf(s))
      BY <1>5 DEF EndDetect
    <2> QED BY <1>1, <1>5, <2>1, NoOutputStopped, End_Packets DEF EndDetect, At, pipes
  <1> QED BY <1>2, <1>3, <1>4, <1>5 DEF Dummy

LEMMA Encoder_Packets ==
  ASSUME TInv, NEW s \in Blocks, app.blocks[s] = "encoder", Encoder(s)
  PROVE  AllKept
  <1>1. BlockStepOf(s) /\ ~IsInference(s) /\ s + 1 \notin Blocks
    BY Types, Kinds DEF BlockStepOf, IsInference
  <1>2. CASE TakeInput(s)
    BY <1>1, <1>2, TakeInput_Packets
  <1>3. CASE Encode(s)
    <2>1. /\ pc[BlockOf(s)] = "encode" /\ pc' = [pc EXCEPT ![BlockOf(s)] = "input"]
          /\ free' = free /\ filled' = filled
      BY <1>3 DEF Encode, At, Sink, pipes
    <2>2. pc'[BlockOf(s)] = "input"
      BY <2>1, BlockFacts
    <2> QED BY <1>1, <2>1, <2>2, Handed_Packets
  <1>4. CASE EncodeFails(s)
    <2>1. /\ pc[BlockOf(s)] = "encode" /\ pc' = [pc EXCEPT ![BlockOf(s)] = "ended"]
          /\ free' = free /\ filled' = filled
      BY <1>4 DEF EncodeFails, At, pipes
    <2>2. pc'[BlockOf(s)] = "ended"
      BY <2>1, BlockFacts
    <2> QED BY <1>1, <2>1, <2>2, StayedPackets
  <1>5. CASE EndEncode(s)
    <2>1. NoOutput(s) \/ Closed(s) \/ Stopped(BlockOf(s))
      BY <1>5 DEF EndEncode
    <2> QED BY <1>1, <1>5, <2>1, NoOutputStopped, End_Packets DEF EndEncode, At, pipes
  <1> QED BY <1>2, <1>3, <1>4, <1>5, EncodeOutput_Packets DEF Encoder

LEMMA Next_Types ==
  ASSUME TInv, [Next]_vars
  PROVE  TInv'
  <1>1. ASSUME NEW c \in Channels, Decoder(c) PROVE TInv'
    BY <1>1, Decoder_Types
  <1>2. ASSUME NEW s \in Blocks, BlockStepOf(s) PROVE TInv'
    BY <1>2, Inference_Types, Crop_Types, Dummy_Types, Encoder_Types DEF BlockStepOf
  <1>3. CASE Stop \/ Join
    BY <1>3, Main_Types
  <1>4. CASE UNCHANGED vars
    BY <1>4, SameApp DEF vars, pools, pipes, stage, main, TInv, PlacesOK, HandsOK, OwnPlaces, DecoderPlaces, Carries,
         BlockCarries, NoFrame, CountersOK, QueuesOK
  <1> QED BY <1>1, <1>2, <1>3, <1>4 DEF Next, BlockStepOf

(* The packets of the main thread's steps, and of no step.                   *)
LEMMA Idle_Packets ==
  ASSUME TInv, UNCHANGED <<app, pc, hand, decoded, pools, todo, pipes, stage, image, delivered, lost>>
  PROVE  AllKept
  <1>1. FillOne' = FillOne
    BY SameApp DEF FillOne, NoFrame
  <1>2. ASSUME NEW s \in Blocks PROVE Keeps(s)
    <2>1. Takes(s)' = Takes(s)
      BY SameApp DEF Takes
    <2>2. Fills(s)' = Fills(s)
      <3>1. CASE s = 1
        BY <1>1, <3>1 DEF Fills
      <3>2. CASE s # 1
        <4>1. s - 1 \in Blocks
          BY <3>2, Types, AppFacts DEF Blocks
        <4> QED BY <3>2, <4>1, SameApp DEF Fills
      <3> QED BY <3>1, <3>2
    <2>3. free' = free /\ filled' = filled /\ lost' = lost
      BY DEF pipes
    <2>4. Changed(s, 0, 0, 0, 0, 0)
      BY <2>1, <2>2, <2>3, AccountTypes DEF Changed
    <2>5. AddsUp(s, 0, 0, 0, 0, 0) = 0
      BY DEF AddsUp
    <2> QED BY <2>4, <2>5, KeepsIf
  <1> QED BY <1>2 DEF AllKept

LEMMA StopsGrow ==
  ASSUME TInv, [Next]_vars
  PROVE  app' = app /\ stops' \in Nat /\ stops' >= stops
  <1>1. stops \in Nat
    BY SomeStopped
  <1>2. ASSUME NEW c \in Channels, Decoder(c) PROVE app' = app /\ stops' = stops
    BY <1>2, DecoderMoves DEF Decoder, DecodeFrame, DecodeVpl, FillPacket, FillVpl, Scale, CopyVpl, NoPacketVpl,
           EndDecoding, ScaleFails, ScaleWantsMore, ScaleWantsSurface, SendFrame, main
  <1>3. ASSUME NEW s \in Blocks, BlockStepOf(s) PROVE app' = app /\ stops' = stops
    BY <1>3, BlockMoves
  <1>4. CASE Stop
    BY <1>1, <1>4 DEF Stop
  <1>5. CASE Join \/ UNCHANGED vars
    BY <1>1, <1>5 DEF Join, vars, main
  <1> QED BY <1>1, <1>2, <1>3, <1>4, <1>5 DEF Next, BlockStepOf

LEMMA Next_Packets ==
  ASSUME TInv, PacketsInv, [Next]_vars
  PROVE  PacketsInv'
  <1>1. AllKept
    <2>1. ASSUME NEW c \in Channels, Decoder(c) PROVE AllKept
      BY <2>1, DecoderKeepsAll
    <2>2. ASSUME NEW s \in Blocks, BlockStepOf(s) PROVE AllKept
      BY <2>2, Inference_Packets, Crop_Packets, Dummy_Packets, Encoder_Packets DEF BlockStepOf
    <2>3. CASE Stop \/ Join \/ UNCHANGED vars
      BY <2>3, Idle_Packets DEF Stop, Join, vars
    <2> QED BY <2>1, <2>2, <2>3 DEF Next, BlockStepOf
  <1> QED BY <1>1, StopsGrow, PacketsStep DEF AllKept

LEMMA Init_Packets ==
  ASSUME Init
  PROVE  PacketsInv
  <1>1. TInv /\ app.packets \in Nat
    BY Init_Types, Types, AppFacts
  <1>2. FillOne = {}
    BY <1>1, Types, ThreadFacts DEF FillOne, Init
  <1>3. ASSUME NEW s \in Blocks PROVE Accounted(s) = app.packets
    <2>1. free[s] = app.packets /\ filled[s] = <<>> /\ Len(lost) = 0
      BY DEF Init
    <2>2. Takes(s) = 0
      BY <1>1, BlockFacts, Types, ThreadFacts DEF Takes, Init
    <2>3. Fills(s) = 0
      <3>1. CASE s = 1
        BY <1>2, <3>1, FS_EmptySet DEF Fills
      <3>2. CASE s # 1
        <4>1. s - 1 \in Blocks
          BY <1>1, <3>2, Types, AppFacts DEF Blocks
        <4> QED BY <1>1, <3>2, <4>1, BlockFacts, Types, ThreadFacts DEF Fills, Init
      <3> QED BY <3>1, <3>2
    <2> QED BY <1>1, <2>1, <2>2, <2>3 DEF Accounted
  <1> QED BY <1>1, <1>3 DEF PacketsInv, PacketsConserved

(* Until the first stop each packet of a connector is free, queued, in the  *)
(* hands of one thread, or lost by a decoder (never by another block).      *)
THEOREM NoPacketIsForgotten == Spec => []PacketsConserved
  <1>1. Init => TInv /\ PacketsInv
    BY Init_Types, Init_Packets
  <1>2. TInv /\ PacketsInv /\ [Next]_vars => (TInv /\ PacketsInv)'
    BY Next_Types, Next_Packets
  <1>3. TInv /\ PacketsInv => PacketsConserved
    BY DEF PacketsInv
  <1> QED BY <1>1, <1>2, <1>3, PTL DEF Spec

-----------------------------------------------------------------------------
(***************************************************************************)
(* The line of packets behind the decoders, and what a step may do to it:  *)
(* one packet in it may change, leave it, enter at its tail or leave at its*)
(* head.                                                                   *)
(***************************************************************************)

(* The line of packets, and what a step does to it.                          *)
HeldIs(p) == IF p = NoFrame THEN <<>> ELSE <<p>>

LEMMA OneGood ==
  ASSUME NEW p \in GoodPackets
  PROVE  <<p>> \in Seq(GoodPackets)
  BY OrderedOne

LEMMA HeldTypes ==
  ASSUME NEW p \in GoodPackets \union {NoFrame}
  PROVE  HeldIs(p) \in Seq(GoodPackets)
  <1>1. <<>> \in Seq(GoodPackets)
    BY EmptySeq
  <1> QED BY <1>1, OneGood DEF HeldIs

LEMMA PlaceIs ==
  /\ \A s \in Blocks : Place(s) = (IF IsInference(s) THEN inside[s] ELSE HeldIs(hand[BlockOf(s)])) \o filled[s]
  /\ \A s : s \notin Blocks => Place(s) = <<>>
  BY DEF Place, In, Held, HeldIs

LEMMA PlaceBecomes ==
  ASSUME app' = app
  PROVE  /\ \A s \in Blocks : Place(s)' = (IF IsInference(s) THEN inside'[s] ELSE HeldIs(hand'[BlockOf(s)])) \o filled'[s]
         /\ \A s : s \notin Blocks => Place(s)' = <<>>
  BY SameApp DEF Place, In, Held, HeldIs, NoFrame

LEMMA PlaceTypes ==
  ASSUME TInv
  PROVE  \A r \in 1 .. 3 : Place(r) \in Seq(GoodPackets)
  <1> SUFFICES ASSUME NEW r \in 1 .. 3 PROVE Place(r) \in Seq(GoodPackets)
    OBVIOUS
  <1>1. CASE r \notin Blocks
    BY <1>1, PlaceIs, EmptySeq
  <1>2. CASE r \in Blocks
    <2>1. filled[r] \in Seq(GoodPackets) /\ inside[r] \in Seq(GoodPackets)
      BY <1>2, BlockFacts
    <2>2. ~IsInference(r) => HeldIs(hand[BlockOf(r)]) \in Seq(GoodPackets)
      BY <1>2, BlockFacts, HeldTypes DEF BlockCarries
    <2>3. PICK a \in Seq(GoodPackets), b \in Seq(GoodPackets) : Place(r) = a \o b
      BY <1>2, <2>1, <2>2, PlaceIs
    <2> QED BY <2>3, Concat
  <1> QED BY <1>1, <1>2

(* Somewhere in the line x is replaced by y.                                 *)
Changes(x, y) ==
  \E head, end \in Seq(GoodPackets) : Line = head \o (x \o end) /\ Line' = head \o (y \o end)

(* The parts of the line that a step leaves alone.                           *)
Leaves(T) == \A r \in 1 .. 3 : r \notin T => Place(r)' = Place(r)

LEMMA ChangedPart ==
  ASSUME TInv, NEW k \in 1 .. 3, Leaves({k}),
         NEW a \in Seq(GoodPackets), NEW b \in Seq(GoodPackets),
         NEW x \in Seq(GoodPackets), NEW y \in Seq(GoodPackets),
         Place(k) = a \o (x \o b), Place(k)' = a \o (y \o b)
  PROVE  Changes(x, y)
  <1>1. PICK l : l = [r \in 1 .. 3 |-> Place(r)]
    OBVIOUS
  <1>2. PICK m : m = [r \in 1 .. 3 |-> Place(r)']
    OBVIOUS
  <1>3. l \in [1 .. 3 -> Seq(GoodPackets)]
    BY <1>1, PlaceTypes
  <1>4. y \o b \in Seq(GoodPackets)
    BY Concat
  <1>5. Place(k)' \in Seq(GoodPackets)
    BY <1>4, Concat
  <1>6. m \in [1 .. 3 -> Seq(GoodPackets)]
    BY <1>2, <1>5, PlaceTypes DEF Leaves
  <1>7. (\A r \in 1 .. 3 : r # k => m[r] = l[r]) /\ l[k] = a \o (x \o b) /\ m[k] = a \o (y \o b)
    BY <1>1, <1>2 DEF Leaves
  <1>8. Differ(GoodPackets, l, m, x, y)
    BY <1>3, <1>6, <1>7, OnePart
  <1>9. Line = l[3] \o l[2] \o l[1] /\ Line' = m[3] \o m[2] \o m[1]
    BY <1>1, <1>2 DEF Line
  <1> QED BY <1>8, <1>9 DEF Changes, Differ

LEMMA MovedOn ==
  ASSUME TInv, NEW k \in 1 .. 2, Leaves({k, k + 1}),
         NEW b \in Seq(GoodPackets), NEW x \in Seq(GoodPackets), NEW y \in Seq(GoodPackets),
         Place(k) = x \o b, Place(k)' = b, Place(k + 1)' = Place(k + 1) \o y
  PROVE  Changes(x, y)
  <1>1. PICK l : l = [r \in 1 .. 3 |-> Place(r)]
    OBVIOUS
  <1>2. PICK m : m = [r \in 1 .. 3 |-> Place(r)']
    OBVIOUS
  <1>3. l \in [1 .. 3 -> Seq(GoodPackets)]
    BY <1>1, PlaceTypes
  <1>4. k + 1 \in 1 .. 3 /\ k \in 1 .. 3
    OBVIOUS
  <1>5. Place(k)' \in Seq(GoodPackets) /\ Place(k + 1)' \in Seq(GoodPackets)
    BY <1>4, PlaceTypes, Concat, ZenonT(30)
  <1>6. m \in [1 .. 3 -> Seq(GoodPackets)]
    BY <1>2, <1>5, PlaceTypes DEF Leaves
  <1>7. /\ \A r \in 1 .. 3 : r \notin {k, k + 1} => m[r] = l[r]
        /\ l[k] = x \o b /\ m[k] = b /\ m[k + 1] = l[k + 1] \o y
    BY <1>1, <1>2, <1>4 DEF Leaves
  <1>8. Differ(GoodPackets, l, m, x, y)
    BY <1>3, <1>6, <1>7, TwoParts
  <1>9. Line = l[3] \o l[2] \o l[1] /\ Line' = m[3] \o m[2] \o m[1]
    BY <1>1, <1>2 DEF Line
  <1> QED BY <1>8, <1>9 DEF Changes, Differ

LEMMA LineSame ==
  ASSUME Leaves({})
  PROVE  Line' = Line
  BY DEF Leaves, Line

LEMMA LineTypes ==
  ASSUME TInv
  PROVE  Line \in Seq(GoodPackets) /\ Range(Line) \subseteq GoodPackets
  <1>1. PICK u \in Seq(GoodPackets), v \in Seq(GoodPackets), w \in Seq(GoodPackets) :
          u = Place(3) /\ v = Place(2) /\ w = Place(1)
    BY PlaceTypes
  <1>2. Line \in Seq(GoodPackets)
    BY <1>1, Concat DEF Line
  <1>3. Range(Line) \subseteq GoodPackets
    BY <1>2, SeqDef DEF Range
  <1> QED BY <1>2, <1>3

(* What arrives at the end of the line, and what leaves it at its head.      *)
LEMMA LineSent ==
  ASSUME TInv, Leaves({1}), NEW y \in Seq(GoodPackets), Place(1)' = Place(1) \o y
  PROVE  Line' = Line \o y
  <1>1. PICK u \in Seq(GoodPackets), v \in Seq(GoodPackets), w \in Seq(GoodPackets) :
          u = Place(3) /\ v = Place(2) /\ w = Place(1)
    BY PlaceTypes
  <1>2. Place(3)' = u /\ Place(2)' = v
    BY <1>1 DEF Leaves
  <1>3. u \o v \in Seq(GoodPackets) /\ Associate(u \o v, w, y)
    BY Concat
  <1>4. Line = (u \o v) \o w /\ Line' = (u \o v) \o (w \o y)
    BY <1>1, <1>2 DEF Line
  <1> QED BY <1>3, <1>4 DEF Associate

LEMMA LineSunk ==
  ASSUME TInv, NEW s \in Blocks, IsLast(s), Leaves({s}), NEW p \in GoodPackets, NEW b \in Seq(GoodPackets),
         Place(s) = <<p>> \o b, Place(s)' = b
  PROVE  Line = <<p>> \o Line' /\ Line' \in Seq(GoodPackets)
  <1>1. PICK u \in Seq(GoodPackets), v \in Seq(GoodPackets), w \in Seq(GoodPackets) :
          u = Place(3) /\ v = Place(2) /\ w = Place(1)
    BY PlaceTypes
  <1>2. s = 1 \/ s = 2 \/ s = 3
    BY Types, Kinds
  <1>3. \A r \in 1 .. 3 : r > s => Place(r) = <<>> /\ Place(r)' = <<>>
    <2>1. PICK n \in 1 .. 3 : n = Len(app.blocks)
      BY Types, AppFacts
    <2>2. \A r \in 1 .. 3 : r > s => r \notin Blocks /\ r # s
      BY <1>2, <2>1 DEF IsLast, Blocks
    <2> QED BY <2>2, PlaceIs DEF Leaves
  <1>4. PICK x \in Seq(GoodPackets) : x = <<p>>
    BY OneGood
  <1>5. <<>> \in Seq(GoodPackets) /\ \A t \in Seq(GoodPackets) : <<>> \o t = t
    BY Concat
  <1>6. CASE s = 1
    <2>1. u = <<>> /\ v = <<>> /\ Place(3)' = <<>> /\ Place(2)' = <<>> /\ Place(1)' = b /\ w = x \o b
      BY <1>1, <1>3, <1>4, <1>6
    <2>2. Line = w /\ Line' = b
      BY <1>1, <1>5, <2>1 DEF Line
    <2> QED BY <1>4, <2>1, <2>2
  <1>7. CASE s = 2
    <2>1. u = <<>> /\ Place(3)' = <<>> /\ Place(2)' = b /\ v = x \o b /\ Place(1)' = w
      BY <1>1, <1>3, <1>4, <1>7 DEF Leaves
    <2>2. Line = (x \o b) \o w /\ Line' = b \o w
      BY <1>1, <1>4, <1>5, <2>1 DEF Line
    <2>3. Associate(x, b, w) /\ b \o w \in Seq(GoodPackets)
      BY Concat
    <2> QED BY <1>4, <2>2, <2>3 DEF Associate
  <1>8. CASE s = 3
    <2>1. u = x \o b /\ Place(3)' = b /\ Place(2)' = v /\ Place(1)' = w
      BY <1>1, <1>4, <1>8 DEF Leaves
    <2>2. Line = ((x \o b) \o v) \o w /\ Line' = (b \o v) \o w
      BY <1>1, <2>1 DEF Line
    <2>3. Associate(x, b, v) /\ b \o v \in Seq(GoodPackets)
      BY Concat
    <2>4. Associate(x, b \o v, w) /\ (b \o v) \o w \in Seq(GoodPackets)
      BY <2>3, Concat
    <2> QED BY <1>4, <2>2, <2>3, <2>4 DEF Associate
  <1> QED BY <1>2, <1>6, <1>7, <1>8

-----------------------------------------------------------------------------
(***************************************************************************)
(* What a block leaves in its place, and which surfaces it frees.          *)
(***************************************************************************)

LEMMA LeavesOthers ==
  ASSUME TInv, app' = app, NEW T,
         \A r \in Blocks : r \notin T => /\ filled'[r] = filled[r] /\ inside'[r] = inside[r]
                                         /\ hand'[BlockOf(r)] = hand[BlockOf(r)]
  PROVE  Leaves(T)
  <1> SUFFICES ASSUME NEW r \in 1 .. 3, r \notin T PROVE Place(r)' = Place(r)
    BY DEF Leaves
  <1>1. CASE r \notin Blocks
    BY <1>1, PlaceIs, PlaceBecomes
  <1>2. CASE r \in Blocks
    BY <1>2, PlaceIs, PlaceBecomes, Zenon
  <1> QED BY <1>1, <1>2

LEMMA BlockLeaves ==
  ASSUME TInv, NEW s \in Blocks, BlockStepOf(s), NEW T, s \in T,
         \A r \in Blocks : r \notin T => filled'[r] = filled[r] /\ inside'[r] = inside[r]
  PROVE  Leaves(T)
  <1>1. app' = app /\ Only(hand, hand', BlockOf(s))
    BY BlockMoves
  <1>2. \A r \in Blocks : r # s => hand'[BlockOf(r)] = hand[BlockOf(r)]
    BY <1>1, Types, ThreadFacts DEF Only
  <1> QED BY <1>1, <1>2, LeavesOthers

LEMMA DecoderLeaves ==
  ASSUME TInv, NEW c \in Channels, app' = app, Only(hand, hand', c), NEW T,
         \A r \in Blocks : r \notin T => filled'[r] = filled[r] /\ inside'[r] = inside[r]
  PROVE  Leaves(T)
  <1>2. \A r \in Blocks : hand'[BlockOf(r)] = hand[BlockOf(r)]
    BY Types, ThreadFacts DEF Only
  <1> QED BY <1>2, LeavesOthers

(* What the pools get back.                                                  *)
Frees(c, dec, vp, crops) ==
  /\ \A d \in Channels : /\ decUsed'[d] = decUsed[d] - (IF d = c THEN dec ELSE 0)
                         /\ vpUsed'[d] = vpUsed[d] - (IF d = c THEN vp ELSE 0)
  /\ cropUsed' = cropUsed - crops

(* q is what a block makes of p.                                             *)
Follows(p, q) ==
  /\ q.chan = p.chan /\ q.frame = p.frame /\ q.vp = p.vp
  /\ q.dec = p.dec \/ (q.dec = 0 /\ ~app.vpl /\ Len(app.blocks) > 1)
  /\ IsEmpty(p) => IsEmpty(q) \/ app.vpl \/ app.ratio = 1

StaysInLine == Line' = Line /\ UNCHANGED <<pools, delivered>>

ChangesInLine ==
  \E p, q \in GoodPackets :
    /\ Changes(<<p>>, <<q>>) /\ Follows(p, q) /\ delivered' = delivered
    /\ Frees(p.chan, p.dec - q.dec, 0, p.crops - q.crops)
    /\ q.crops = p.crops \/ (cropUsed < CropBuffers /\ q.crops = p.crops + 1)

Drops ==
  \E p \in GoodPackets : \E n \in {0, p.dec} :
    /\ Changes(<<p>>, <<>>) /\ (IsEmpty(p) \/ stops # 0)
    /\ delivered' = delivered /\ Frees(p.chan, n, 0, 0)

Delivers ==
  \E p \in GoodPackets :
    /\ Line = <<p>> \o Line' /\ Line' \in Seq(GoodPackets) /\ Frees(p.chan, p.dec, p.vp, p.crops)
    /\ delivered' = [delivered EXCEPT ![p.chan] = p.frame]

Effect == StaysInLine \/ ChangesInLine \/ Drops \/ Delivers

LEMMA SinkFrees ==
  ASSUME TInv, NEW p \in GoodPackets, Sink(p)
  PROVE  Frees(p.chan, p.dec, p.vp, p.crops) /\ delivered' = [delivered EXCEPT ![p.chan] = p.frame]
  <1>1. /\ decUsed' = [decUsed EXCEPT ![p.chan] = @ - p.dec] /\ vpUsed' = [vpUsed EXCEPT ![p.chan] = @ - p.vp]
        /\ cropUsed' = cropUsed - p.crops /\ p.chan \in Channels
    BY Types, PacketFacts DEF Sink
  <1>2. \A d \in Channels : decUsed[d] \in Int /\ vpUsed[d] \in Int
    BY Types
  <1>3. \A d \in Channels : decUsed'[d] = decUsed[d] - (IF d = p.chan THEN p.dec ELSE 0)
    BY <1>1, <1>2, Types
  <1>4. \A d \in Channels : vpUsed'[d] = vpUsed[d] - (IF d = p.chan THEN p.vp ELSE 0)
    BY <1>1, <1>2, Types
  <1> QED BY <1>1, <1>3, <1>4 DEF Sink, Frees

LEMMA NothingFreed ==
  ASSUME TInv, UNCHANGED pools, NEW c
  PROVE  Frees(c, 0, 0, 0)
  <1>1. \A d \in Channels : decUsed[d] \in Int /\ vpUsed[d] \in Int
    BY Types
  <1> QED BY <1>1, Types DEF Frees, pools

LEMMA StaysIf ==
  ASSUME TInv, NEW s \in Blocks, BlockStepOf(s), hand' = hand, filled' = filled, inside' = inside,
         UNCHANGED <<pools, delivered>>
  PROVE  Effect
  <1>1. Leaves({})
    BY BlockMoves, LeavesOthers
  <1> QED BY <1>1, LineSame DEF Effect, StaysInLine

-----------------------------------------------------------------------------
(***************************************************************************)
(* The effect of a step of a block on the line.                            *)
(***************************************************************************)

LEMMA Acquire_Effect ==
  ASSUME TInv, NEW s \in Blocks, IsInference(s), Acquire(s)
  PROVE  Effect
  <1>1. BlockStepOf(s)
    BY DEF BlockStepOf, Inference
  <1>2. PICK p : p = Head(filled[s])
    OBVIOUS
  <1>3. PICK old : old = inside[s]
    OBVIOUS
  <1>4. PICK rest : rest = Tail(filled[s])
    OBVIOUS
  <1>5. /\ filled[s] # <<>> /\ filled' = [filled EXCEPT ![s] = Tail(@)] /\ UNCHANGED <<pools, delivered>>
        /\ IF IsEmpty(p) THEN inside' = inside ELSE inside' = [inside EXCEPT ![s] = Append(@, p)]
    BY <1>2 DEF Acquire, stage
  <1>6. /\ filled[s] = <<p>> \o rest /\ p \in GoodPackets /\ rest \in Seq(GoodPackets) /\ old \in Seq(GoodPackets)
        /\ filled'[s] = rest
    BY <1>2, <1>3, <1>4, <1>5, BlockFacts, HeadAndTail, Types
  <1>7. \A r \in Blocks : r \notin {s} => filled'[r] = filled[r] /\ inside'[r] = inside[r]
    BY <1>5, Types
  <1>8. Leaves({s})
    BY <1>1, <1>7, BlockLeaves
  <1>9. Place(s) = old \o (<<p>> \o rest) /\ Place(s)' = inside'[s] \o rest
    BY <1>1, <1>3, <1>6, PlaceIs, PlaceBecomes, BlockMoves
  <1>10. CASE IsEmpty(p)
    <2>1. Place(s)' = old \o rest
      BY <1>3, <1>5, <1>9, <1>10
    <2>2. <<>> \in Seq(GoodPackets) /\ <<>> \o rest = rest /\ <<p>> \in Seq(GoodPackets)
      BY <1>6, Concat, OneGood
    <2>3. Place(s)' = old \o (<<>> \o rest)
      BY <2>1, <2>2
    <2>4. s \in 1 .. 3
      BY Types, Kinds
    <2>5. Changes(<<p>>, <<>>)
      BY <1>6, <1>8, <1>9, <2>2, <2>3, <2>4, ChangedPart
    <2>6. Frees(p.chan, 0, 0, 0)
      BY <1>5, NothingFreed
    <2> QED BY <1>5, <1>6, <1>10, <2>5, <2>6 DEF Effect, Drops
  <1>11. CASE ~IsEmpty(p)
    <2>1. inside'[s] = Append(old, p)
      BY <1>3, <1>5, <1>11, Types
    <2>2. Append(old, p) = old \o <<p>> /\ <<p>> \in Seq(GoodPackets)
      BY <1>6, AppendedOne, OneGood
    <2>3. PICK x \in Seq(GoodPackets) : x = <<p>>
      BY <2>2
    <2>4. Place(s) = old \o (x \o rest) /\ Place(s)' = (old \o x) \o rest
      BY <1>9, <2>1, <2>2, <2>3
    <2>5. Associate(old, x, rest)
      BY <1>6, Concat
    <2>6. Place(s)' = Place(s)
      BY <2>4, <2>5 DEF Associate
    <2>7. Leaves({})
      BY <1>8, <2>6 DEF Leaves
    <2> QED BY <1>5, <2>7, LineSame DEF Effect, StaysInLine
  <1> QED BY <1>10, <1>11

(* A block that is not one for inference holds p and gets q.                 *)
LEMMA HeldPlace ==
  ASSUME TInv, app' = app, NEW s \in Blocks, ~IsInference(s)
  PROVE  Place(s) = HeldIs(hand[BlockOf(s)]) \o filled[s] /\ Place(s)' = HeldIs(hand'[BlockOf(s)]) \o filled'[s]
  BY PlaceIs, PlaceBecomes

LEMMA TakeInput_Effect ==
  ASSUME TInv, NEW s \in Blocks, ~IsInference(s), BlockStepOf(s), TakeInput(s)
  PROVE  Effect
  <1>1. /\ pc[BlockOf(s)] = "input" /\ filled[s] # <<>> /\ filled' = [filled EXCEPT ![s] = Tail(@)]
        /\ hand' = [hand EXCEPT ![BlockOf(s)] = Head(filled[s])] /\ inside' = inside /\ UNCHANGED <<pools, delivered>>
    BY DEF TakeInput, stage
  <1>2. PICK p \in GoodPackets, rest \in Seq(GoodPackets) :
          p = Head(filled[s]) /\ rest = Tail(filled[s]) /\ filled[s] = <<p>> \o rest
    BY <1>1, BlockFacts, HeadAndTail
  <1>3. hand[BlockOf(s)] = NoFrame /\ hand'[BlockOf(s)] = p /\ filled'[s] = rest /\ p # NoFrame
    BY <1>1, <1>2, BlockFacts, Types, PacketFacts DEF BlockCarries
  <1>4. \A r \in Blocks : r \notin {s} => filled'[r] = filled[r] /\ inside'[r] = inside[r]
    BY <1>1, Types
  <1>5. Leaves({s})
    BY <1>4, BlockLeaves
  <1>6. Place(s) = <<>> \o filled[s] /\ Place(s)' = <<p>> \o rest
    BY <1>3, HeldPlace, BlockMoves DEF HeldIs
  <1>7. filled[s] \in Seq(GoodPackets)
    BY BlockFacts
  <1>8. Place(s)' = Place(s)
    BY <1>2, <1>6, <1>7, Concat
  <1>9. Leaves({})
    BY <1>5, <1>8 DEF Leaves
  <1> QED BY <1>1, <1>9, LineSame DEF Effect, StaysInLine

(* The packet in the hands of a block is changed.                            *)
LEMMA HandChanges ==
  ASSUME TInv, NEW s \in Blocks, ~IsInference(s), BlockStepOf(s), NEW p \in GoodPackets, NEW q \in GoodPackets,
         hand[BlockOf(s)] = p, hand'[BlockOf(s)] = q, filled' = filled, inside' = inside
  PROVE  Changes(<<p>>, <<q>>)
  <1>1. p # NoFrame /\ q # NoFrame
    BY Types, PacketFacts
  <1>2. Leaves({s})
    BY BlockLeaves
  <1>3. PICK x \in Seq(GoodPackets), y \in Seq(GoodPackets), b \in Seq(GoodPackets), a \in Seq(GoodPackets) :
          x = <<p>> /\ y = <<q>> /\ b = filled[s] /\ a = <<>>
    BY OneGood, BlockFacts, EmptySeq
  <1>4. Place(s) = x \o b /\ Place(s)' = y \o b
    BY <1>1, <1>3, HeldPlace, BlockMoves DEF HeldIs
  <1>5. x \o b \in Seq(GoodPackets) /\ y \o b \in Seq(GoodPackets)
    BY Concat
  <1>6. Place(s) = a \o (x \o b) /\ Place(s)' = a \o (y \o b)
    BY <1>3, <1>4, <1>5, Concat
  <1>7. s \in 1 .. 3
    BY Types, Kinds
  <1> QED BY <1>2, <1>3, <1>6, <1>7, ChangedPart

(* It is dropped.                                                            *)
LEMMA HandDropped ==
  ASSUME TInv, NEW s \in Blocks, ~IsInference(s), BlockStepOf(s), NEW p \in GoodPackets,
         hand[BlockOf(s)] = p, hand'[BlockOf(s)] = NoFrame, filled' = filled, inside' = inside
  PROVE  Changes(<<p>>, <<>>) /\ (IsLast(s) => Line = <<p>> \o Line' /\ Line' \in Seq(GoodPackets))
  <1>1. p # NoFrame
    BY Types, PacketFacts
  <1>2. Leaves({s})
    BY BlockLeaves
  <1>3. PICK x \in Seq(GoodPackets), b \in Seq(GoodPackets), a \in Seq(GoodPackets) :
          x = <<p>> /\ b = filled[s] /\ a = <<>>
    BY OneGood, BlockFacts, EmptySeq
  <1>4. Place(s) = x \o b /\ Place(s)' = a \o b
    BY <1>1, <1>3, HeldPlace, BlockMoves DEF HeldIs
  <1>5. x \o b \in Seq(GoodPackets) /\ a \o b = b
    BY <1>3, Concat
  <1>6. Place(s) = a \o (x \o b) /\ Place(s)' = a \o (a \o b)
    BY <1>3, <1>4, <1>5, Concat
  <1>7. s \in 1 .. 3
    BY Types, Kinds
  <1>8. Changes(<<p>>, <<>>)
    BY <1>2, <1>3, <1>6, <1>7, ChangedPart
  <1>9. IsLast(s) => Line = <<p>> \o Line' /\ Line' \in Seq(GoodPackets)
    BY <1>2, <1>3, <1>4, <1>5, LineSunk
  <1> QED BY <1>8, <1>9

(* It goes into the next queue, as q.                                        *)
LEMMA HandSent ==
  ASSUME TInv, NEW s \in Blocks, ~IsInference(s), BlockStepOf(s), NEW p \in GoodPackets, NEW q \in GoodPackets,
         hand[BlockOf(s)] = p, hand'[BlockOf(s)] = NoFrame, s + 1 \in Blocks,
         filled' = [filled EXCEPT ![s + 1] = Append(@, q)], inside' = inside
  PROVE  Changes(<<p>>, <<q>>)
  <1>1. p # NoFrame /\ s \in 1 .. 3 /\ s + 1 \in 1 .. 3
    BY Types, PacketFacts, Kinds
  <1>2. \A r \in Blocks : r \notin {s, s + 1} => filled'[r] = filled[r] /\ inside'[r] = inside[r]
    BY Types
  <1>3. Leaves({s, s + 1})
    BY <1>2, BlockLeaves
  <1>4. PICK x \in Seq(GoodPackets), y \in Seq(GoodPackets), b \in Seq(GoodPackets), f \in Seq(GoodPackets) :
          x = <<p>> /\ y = <<q>> /\ b = filled[s] /\ f = filled[s + 1]
    BY OneGood, BlockFacts
  <1>5. filled'[s] = b /\ filled'[s + 1] = f \o y
    <2>1. Append(f, q) = f \o <<q>>
      BY <1>4, AppendedOne
    <2>2. s # s + 1
      BY <1>1
    <2> QED BY <1>4, <2>1, <2>2, Types
  <1>6. Place(s) = x \o b /\ Place(s)' = <<>> \o b /\ <<>> \o b = b
    BY <1>1, <1>4, <1>5, HeldPlace, BlockMoves, Concat DEF HeldIs
  <1>7. PICK i \in Seq(GoodPackets) : i = IF IsInference(s + 1) THEN inside[s + 1] ELSE HeldIs(hand[BlockOf(s + 1)])
    BY BlockFacts, HeldTypes DEF BlockCarries
  <1>8. hand'[BlockOf(s + 1)] = hand[BlockOf(s + 1)]
    BY <1>1, BlockMoves, Types, ThreadFacts, SMTT(30) DEF Only
  <1>9. Place(s + 1) = i \o f /\ Place(s + 1)' = i \o (f \o y)
    BY <1>4, <1>5, <1>7, <1>8, PlaceIs, PlaceBecomes, BlockMoves
  <1>10. Associate(i, f, y)
    BY Concat
  <1>11. Place(s + 1)' = Place(s + 1) \o y
    BY <1>9, <1>10 DEF Associate
  <1>12. s \in 1 .. 2
    BY <1>1
  <1> QED BY <1>3, <1>4, <1>6, <1>11, <1>12, MovedOn

-----------------------------------------------------------------------------
(***************************************************************************)
(* The effects of the steps of the blocks, one by one.  Effect is the      *)
(* disjunction of what any of them does.                                   *)
(***************************************************************************)

LEMMA PacketNumbers ==
  ASSUME TInv
  PROVE  \A p \in GoodPackets :
           /\ p.chan \in Channels /\ p.frame \in Nat /\ p.dec \in Nat /\ p.vp \in Nat /\ p.rois \in Nat
           /\ p.crops \in Nat /\ p.res \in Nat /\ p.dec \in {0, 1} /\ p.vp \in {0, 1}
  <1>1. app \in Apps
    BY Types
  <1>2. \A p \in GoodPackets : p.chan \in Channels /\ p.frame \in Nat
    BY DEF GoodPackets, Packets
  <1> QED BY <1>1, <1>2, PacketFacts

LEMMA SameNumbers ==
  ASSUME TInv, NEW p \in GoodPackets, NEW q \in GoodPackets, q.dec = p.dec
  PROVE  p.dec - q.dec = 0 /\ (q.crops = p.crops => p.crops - q.crops = 0)
                          /\ (q.crops = p.crops + 1 => p.crops - q.crops = -1)
  <1>1. p.dec \in Nat /\ p.crops \in Nat
    BY PacketNumbers
  <1> QED BY <1>1

(* A packet of the engine leaves it.                                         *)
LEMMA Release_Effect ==
  ASSUME TInv, NEW s \in Blocks, IsInference(s), Release(s)
  PROVE  Effect
  <1>1. BlockStepOf(s)
    BY DEF BlockStepOf, Inference
  <1>2. /\ MayLeave(s) /\ ~Stopped(BlockOf(s)) /\ inside' = [inside EXCEPT ![s] = Tail(@)] /\ hand' = hand
    BY DEF Release
  <1>3. PICK p \in GoodPackets, rest \in Seq(GoodPackets) :
          p = Head(inside[s]) /\ rest = Tail(inside[s]) /\ inside[s] = <<p>> \o rest
    BY <1>2, LeavesFirst, BlockFacts, HeadAndTail
  <1>4. PICK q \in WithResults(s, p) :
          \/ IsLast(s) /\ Sink(q)
          \/ ~IsLast(s) /\ EnqueueOutput(BlockOf(s), s + 1, q) /\ UNCHANGED <<pools, delivered>>
    BY <1>3 DEF Release
  <1>5. /\ q \in GoodPackets /\ q.chan = p.chan /\ q.frame = p.frame /\ q.dec = p.dec /\ q.vp = p.vp
        /\ q.crops = p.crops /\ (IsEmpty(p) => q = p)
    BY <1>3, <1>4, ResultFacts
  <1>6. PICK x \in Seq(GoodPackets), y \in Seq(GoodPackets), f \in Seq(GoodPackets), b \in Seq(GoodPackets) :
          x = <<p>> /\ y = <<q>> /\ f = filled[s] /\ b = rest \o f
    BY <1>3, <1>5, OneGood, BlockFacts, Concat
  <1>7. Place(s) = x \o b
    <2>1. Place(s) = (x \o rest) \o f
      BY <1>3, <1>6, PlaceIs
    <2>2. Associate(x, rest, f)
      BY <1>3, Concat
    <2> QED BY <1>6, <2>1, <2>2 DEF Associate
  <1>8. inside'[s] = rest /\ s \in 1 .. 3
    BY <1>2, <1>3, Types, Kinds
  <1>9. CASE IsLast(s) /\ Sink(q)
    <2>1. filled' = filled
      BY <1>9 DEF Sink, pipes
    <2>2. \A r \in Blocks : r \notin {s} => filled'[r] = filled[r] /\ inside'[r] = inside[r]
      BY <1>2, <2>1, Types
    <2>3. Leaves({s})
      BY <1>1, <2>2, BlockLeaves
    <2>4. Place(s)' = b
      BY <1>1, <1>6, <1>8, <2>1, PlaceBecomes, BlockMoves
    <2>5. Line = <<p>> \o Line' /\ Line' \in Seq(GoodPackets)
      BY <1>3, <1>6, <1>7, <1>9, <2>3, <2>4, LineSunk
    <2>6. Frees(p.chan, p.dec, p.vp, p.crops) /\ delivered' = [delivered EXCEPT ![p.chan] = p.frame]
      BY <1>5, <1>9, SinkFrees
    <2> QED BY <1>3, <2>5, <2>6 DEF Effect, Delivers
  <1>10. CASE ~IsLast(s) /\ EnqueueOutput(BlockOf(s), s + 1, q) /\ UNCHANGED <<pools, delivered>>
    <2>1. s + 1 \in Blocks /\ s + 1 # s /\ s \in 1 .. 2
      <3>1. s + 1 \in Blocks
        BY <1>10, Types, Kinds
      <3>2. s + 1 \in 1 .. 3
        BY <3>1, Types, Kinds
      <3> QED BY <1>8, <3>1, <3>2
    <2>2. filled' = [filled EXCEPT ![s + 1] = Append(@, q)]
      BY <1>2, <1>10 DEF EnqueueOutput
    <2>3. \A r \in Blocks : r \notin {s, s + 1} => filled'[r] = filled[r] /\ inside'[r] = inside[r]
      BY <1>2, <2>2, Types
    <2>4. Leaves({s, s + 1})
      BY <1>1, <2>3, BlockLeaves
    <2>5. PICK g \in Seq(GoodPackets) : g = filled[s + 1]
      BY <2>1, BlockFacts
    <2>6. Append(g, q) = g \o y
      BY <1>5, <1>6, AppendedOne
    <2>7. filled'[s] = f /\ filled'[s + 1] = g \o y /\ inside'[s + 1] = inside[s + 1]
      BY <1>2, <1>6, <2>1, <2>2, <2>5, <2>6, Types
    <2>8. Place(s)' = b
      BY <1>1, <1>6, <1>8, <2>7, PlaceBecomes, BlockMoves
    <2>9. PICK i \in Seq(GoodPackets) : i = IF IsInference(s + 1) THEN inside[s + 1] ELSE HeldIs(hand[BlockOf(s + 1)])
      BY <2>1, BlockFacts, HeldTypes DEF BlockCarries
    <2>10. Place(s + 1) = i \o g /\ Place(s + 1)' = i \o (g \o y)
      BY <1>1, <1>2, <2>1, <2>5, <2>7, <2>9, PlaceIs, PlaceBecomes, BlockMoves
    <2>11. Associate(i, g, y)
      BY Concat
    <2>12. Place(s + 1)' = Place(s + 1) \o y
      BY <2>10, <2>11 DEF Associate
    <2>13. Changes(<<p>>, <<q>>)
      BY <1>6, <1>7, <2>1, <2>4, <2>8, <2>12, MovedOn
    <2>14. Follows(p, q)
      BY <1>5 DEF Follows
    <2>15. p.dec - q.dec = 0 /\ p.crops - q.crops = 0
      BY <1>3, <1>5, SameNumbers
    <2>16. Frees(p.chan, p.dec - q.dec, 0, p.crops - q.crops)
      BY <1>10, <2>15, NothingFreed
    <2> QED BY <1>3, <1>5, <1>10, <2>13, <2>14, <2>16 DEF Effect, ChangesInLine
  <1> QED BY <1>4, <1>9, <1>10

LEMMA Inference_Effect ==
  ASSUME TInv, NEW s \in Blocks, IsInference(s), Inference(s)
  PROVE  Effect
  <1>1. BlockStepOf(s)
    BY DEF BlockStepOf
  <1>2. CASE Translate(s) \/ EndInference(s)
    BY <1>1, <1>2, StaysIf DEF Translate, EndInference, pipes, stage
  <1> QED BY <1>2, Acquire_Effect, Release_Effect DEF Inference

LEMMA CropRoi_Effect ==
  ASSUME TInv, NEW s \in Blocks, app.blocks[s] = "crop", CropRoi(s)
  PROVE  Effect
  <1>1. BlockStepOf(s) /\ ~IsInference(s)
    BY DEF BlockStepOf, Crop, IsInference
  <1>2. /\ pc[BlockOf(s)] = "crop" /\ todo > 0 /\ cropUsed < CropBuffers /\ cropUsed' = cropUsed + 1
        /\ hand' = [hand EXCEPT ![BlockOf(s)].crops = @ + 1]
        /\ UNCHANGED <<decUsed, vpUsed, filled, inside, delivered>>
    BY DEF CropRoi, pipes, stage
  <1>3. PICK p \in GoodPackets : p = hand[BlockOf(s)] /\ todo <= p.rois
    BY <1>1, <1>2, BlockFacts DEF BlockCarries
  <1>4. PICK q \in GoodPackets : q = [p EXCEPT !.crops = @ + 1]
    BY Types, PacketChanges
  <1>5. q.chan = p.chan /\ q.frame = p.frame /\ q.dec = p.dec /\ q.vp = p.vp /\ q.crops = p.crops + 1
    BY <1>4 DEF GoodPackets, Packets
  <1>6. hand'[BlockOf(s)] = q
    BY <1>2, <1>3, <1>4, BlockFacts
  <1>7. Changes(<<p>>, <<q>>)
    BY <1>1, <1>2, <1>3, <1>6, HandChanges
  <1>8. ~IsEmpty(p)
    <2>1. p.dec \in Nat /\ p.vp \in Nat /\ p.rois \in Nat /\ p.crops \in Nat /\ p.res \in Nat /\ todo \in Nat
      BY Types, PacketNumbers
    <2> QED BY <1>2, <1>3, <2>1 DEF IsEmpty
  <1>9. Follows(p, q)
    BY <1>5, <1>8 DEF Follows
  <1>10. p.dec - q.dec = 0 /\ p.crops - q.crops = -1
    BY <1>5, SameNumbers
  <1>11. Frees(p.chan, 0, 0, -1)
    <2>1. \A d \in Channels : decUsed[d] \in Int /\ vpUsed[d] \in Int
      BY Types
    <2> QED BY <1>2, <2>1, Types DEF Frees
  <1> QED BY <1>2, <1>5, <1>7, <1>9, <1>10, <1>11 DEF Effect, ChangesInLine

LEMMA CropSend_Effect ==
  ASSUME TInv, NEW s \in Blocks, app.blocks[s] = "crop", CropSend(s)
  PROVE  Effect
  <1>1. BlockStepOf(s) /\ ~IsInference(s)
    BY DEF BlockStepOf, Crop, IsInference
  <1>2. pc[BlockOf(s)] = "crop" /\ hand' = [hand EXCEPT ![BlockOf(s)] = NoFrame] /\ inside' = inside
    BY DEF CropSend, stage
  <1>3. PICK p \in GoodPackets : p = hand[BlockOf(s)]
    BY <1>1, <1>2, BlockFacts DEF BlockCarries
  <1>4. hand'[BlockOf(s)] = NoFrame
    BY <1>2, BlockFacts
  <1>5. CASE IsLast(s) /\ ~Stopped(BlockOf(s))
    <2>1. Sink(p) /\ filled' = filled
      BY <1>3, <1>5 DEF CropSend, Sink, pipes
    <2>2. Line = <<p>> \o Line' /\ Line' \in Seq(GoodPackets)
      BY <1>1, <1>2, <1>3, <1>4, <1>5, <2>1, HandDropped
    <2> QED BY <2>1, <2>2, SinkFrees DEF Effect, Delivers
  <1>6. CASE ~(IsLast(s) /\ ~Stopped(BlockOf(s)))
    <2>1. PICK q \in GoodPackets : q = [p EXCEPT !.dec = 0]
      BY Types, PacketChanges
    <2>2. /\ decUsed' = [decUsed EXCEPT ![p.chan] = @ - p.dec] /\ EnqueueOutput(BlockOf(s), s + 1, q)
          /\ UNCHANGED <<vpUsed, cropUsed, delivered>>
      BY <1>3, <1>6, <2>1 DEF CropSend
    <2>3. Frees(p.chan, p.dec, 0, 0)
      <3>1. \A d \in Channels : decUsed[d] \in Int /\ vpUsed[d] \in Int
        BY Types
      <3>2. \A d \in Channels : decUsed'[d] = decUsed[d] - (IF d = p.chan THEN p.dec ELSE 0)
        BY <2>2, <3>1, Types, PacketFacts, SMTT(30)
      <3>3. cropUsed' = cropUsed - 0
        BY <2>2, Types
      <3> QED BY <2>2, <3>1, <3>2, <3>3 DEF Frees
    <2>4. CASE Stopped(BlockOf(s))
      <3>1. filled' = filled /\ stops # 0
        BY <2>2, <2>4, SomeStopped, BlockFacts DEF EnqueueOutput
      <3>2. Changes(<<p>>, <<>>)
        BY <1>1, <1>2, <1>3, <1>4, <3>1, HandDropped
      <3> QED BY <2>2, <2>3, <3>1, <3>2 DEF Effect, Drops
    <2>5. CASE ~Stopped(BlockOf(s))
      <3>1. s + 1 \in Blocks /\ ~app.vpl /\ Len(app.blocks) > 1
        <4>1. app \in Apps /\ ~IsLast(s)
          BY <1>6, <2>5, Types
        <4>2. s = 2 /\ s + 1 \in Blocks /\ app.blocks[1] # "dummy"
          BY <4>1, Kinds
        <4>3. ~app.vpl
          BY <4>1, <4>2, AppFacts
        <4>4. Len(app.blocks) > 1
          BY <4>1, <4>2, AppFacts DEF Blocks
        <4> QED BY <4>2, <4>3, <4>4
      <3>2. filled' = [filled EXCEPT ![s + 1] = Append(@, q)]
        BY <2>2, <2>5 DEF EnqueueOutput
      <3>3. Changes(<<p>>, <<q>>)
        BY <1>1, <1>2, <1>3, <1>4, <3>1, <3>2, HandSent
      <3>4. /\ q.chan = p.chan /\ q.frame = p.frame /\ q.dec = 0 /\ q.vp = p.vp /\ q.rois = p.rois
            /\ q.crops = p.crops /\ q.res = p.res
        BY <2>1 DEF GoodPackets, Packets
      <3>5. p.dec \in Nat /\ p.vp \in Nat /\ p.rois \in Nat /\ p.crops \in Nat /\ p.res \in Nat
        BY PacketNumbers
      <3>6. IsEmpty(p) => IsEmpty(q)
        BY <3>4, <3>5 DEF IsEmpty
      <3>7. Follows(p, q)
        BY <3>1, <3>4, <3>6 DEF Follows
      <3>8. p.dec - q.dec = p.dec /\ p.crops - q.crops = 0
        BY <3>4, <3>5
      <3> QED BY <2>2, <2>3, <3>3, <3>4, <3>7, <3>8 DEF Effect, ChangesInLine
    <2> QED BY <2>4, <2>5
  <1> QED BY <1>5, <1>6

LEMMA Crop_Effect ==
  ASSUME TInv, NEW s \in Blocks, app.blocks[s] = "crop", Crop(s)
  PROVE  Effect
  <1>1. BlockStepOf(s) /\ ~IsInference(s)
    BY DEF BlockStepOf, IsInference
  <1>2. CASE CropOutput(s) \/ EndCrop(s)
    BY <1>1, <1>2, StaysIf DEF CropOutput, EndCrop, pipes, stage
  <1> QED BY <1>1, <1>2, TakeInput_Effect, CropRoi_Effect, CropSend_Effect DEF Crop

LEMMA Dummy_Effect ==
  ASSUME TInv, NEW s \in Blocks, app.blocks[s] = "dummy", Dummy(s)
  PROVE  Effect
  <1>1. BlockStepOf(s) /\ ~IsInference(s) /\ s + 1 \in Blocks /\ (app.vpl \/ app.ratio = 1)
    BY Types, Kinds DEF BlockStepOf, IsInference
  <1>2. CASE TakeInput(s)
    BY <1>1, <1>2, TakeInput_Effect
  <1>3. CASE DetectOutput(s)
    <2>1. /\ pc[BlockOf(s)] = "output" /\ hand' = [hand EXCEPT ![BlockOf(s)].rois = 1]
          /\ UNCHANGED <<pools, filled, inside, delivered>>
      BY <1>3 DEF DetectOutput, stage
    <2>2. PICK p \in GoodPackets : p = hand[BlockOf(s)]
      BY <1>1, <2>1, BlockFacts DEF BlockCarries
    <2>3. PICK q \in GoodPackets : q = [p EXCEPT !.rois = 1]
      BY Types, PacketChanges
    <2>4. q.chan = p.chan /\ q.frame = p.frame /\ q.dec = p.dec /\ q.vp = p.vp /\ q.crops = p.crops
      BY <2>3 DEF GoodPackets, Packets
    <2>5. hand'[BlockOf(s)] = q
      BY <2>1, <2>2, <2>3, BlockFacts
    <2>6. Changes(<<p>>, <<q>>)
      BY <1>1, <2>1, <2>2, <2>5, HandChanges
    <2>7. Follows(p, q)
      BY <1>1, <2>4 DEF Follows
    <2>8. p.dec - q.dec = 0 /\ p.crops - q.crops = 0
      BY <2>4, SameNumbers
    <2>9. Frees(p.chan, 0, 0, 0)
      BY <2>1, NothingFreed
    <2> QED BY <2>1, <2>4, <2>6, <2>7, <2>8, <2>9 DEF Effect, ChangesInLine
  <1>4. CASE DetectSend(s)
    <2>1. /\ pc[BlockOf(s)] = "send" /\ hand' = [hand EXCEPT ![BlockOf(s)] = NoFrame]
          /\ EnqueueOutput(BlockOf(s), s + 1, hand[BlockOf(s)]) /\ UNCHANGED <<pools, inside, delivered>>
      BY <1>4 DEF DetectSend, stage
    <2>2. PICK p \in GoodPackets : p = hand[BlockOf(s)]
      BY <1>1, <2>1, BlockFacts DEF BlockCarries
    <2>3. hand'[BlockOf(s)] = NoFrame
      BY <2>1, BlockFacts
    <2>4. CASE Stopped(BlockOf(s))
      <3>1. filled' = filled /\ stops # 0
        BY <2>1, <2>4, SomeStopped, BlockFacts DEF EnqueueOutput
      <3>2. Changes(<<p>>, <<>>)
        BY <1>1, <2>1, <2>2, <2>3, <3>1, HandDropped
      <3> QED BY <2>1, <3>1, <3>2, NothingFreed DEF Effect, Drops
    <2>5. CASE ~Stopped(BlockOf(s))
      <3>1. filled' = [filled EXCEPT ![s + 1] = Append(@, p)]
        BY <2>1, <2>2, <2>5 DEF EnqueueOutput
      <3>2. Changes(<<p>>, <<p>>)
        BY <1>1, <2>1, <2>2, <2>3, <3>1, HandSent
      <3>3. Follows(p, p)
        BY DEF Follows
      <3>4. p.dec - p.dec = 0 /\ p.crops - p.crops = 0
        BY SameNumbers
      <3>5. Frees(p.chan, 0, 0, 0)
        BY <2>1, NothingFreed
      <3> QED BY <2>1, <3>2, <3>3, <3>4, <3>5 DEF Effect, ChangesInLine
    <2> QED BY <2>4, <2>5
  <1>5. CASE EndDetect(s)
    BY <1>1, <1>5, StaysIf DEF EndDetect, pipes, stage
  <1> QED BY <1>2, <1>3, <1>4, <1>5 DEF Dummy

LEMMA Encoder_Effect ==
  ASSUME TInv, NEW s \in Blocks, app.blocks[s] = "encoder", Encoder(s)
  PROVE  Effect
  <1>1. BlockStepOf(s) /\ ~IsInference(s) /\ IsLast(s)
    BY Types, Kinds DEF BlockStepOf, IsInference
  <1>2. CASE TakeInput(s)
    BY <1>1, <1>2, TakeInput_Effect
  <1>3. CASE Encode(s)
    <2>1. pc[BlockOf(s)] = "encode" /\ hand' = [hand EXCEPT ![BlockOf(s)] = NoFrame] /\ inside' = inside /\ filled' = filled
      BY <1>3 DEF Encode, Sink, stage, pipes
    <2>2. PICK p \in GoodPackets : p = hand[BlockOf(s)]
      BY <1>1, <2>1, BlockFacts DEF BlockCarries
    <2>3. hand'[BlockOf(s)] = NoFrame
      BY <2>1, BlockFacts
    <2>4. Changes(<<p>>, <<>>) /\ Line = <<p>> \o Line' /\ Line' \in Seq(GoodPackets)
      BY <1>1, <2>1, <2>2, <2>3, HandDropped
    <2>5. CASE Stopped(BlockOf(s))
      <3>1. stops # 0 /\ UNCHANGED <<pools, delivered>>
        BY <1>3, <2>5, SomeStopped, BlockFacts DEF Encode
      <3> QED BY <2>4, <3>1, NothingFreed DEF Effect, Drops
    <2>6. CASE ~Stopped(BlockOf(s))
      <3>1. Sink(p)
        BY <1>3, <2>2, <2>6 DEF Encode
      <3> QED BY <2>4, <3>1, SinkFrees DEF Effect, Delivers
    <2> QED BY <2>5, <2>6
  <1>4. CASE EncodeOutput(s) \/ EncodeFails(s) \/ EndEncode(s)
    BY <1>1, <1>4, StaysIf DEF EncodeOutput, EncodeFails, EndEncode, pipes, stage
  <1> QED BY <1>2, <1>3, <1>4 DEF Encoder

LEMMA BlockEffect ==
  ASSUME TInv, NEW s \in Blocks, BlockStepOf(s)
  PROVE  Effect
  BY Inference_Effect, Crop_Effect, Dummy_Effect, Encoder_Effect DEF BlockStepOf

-----------------------------------------------------------------------------
(***************************************************************************)
(* How many surfaces are in the line, in the hands of a decoder and in the *)
(* packets that were lost.                                                 *)
(***************************************************************************)

Weighs(w) == \A p \in GoodPackets : w[p] \in Nat

Weight(w, p) == IF p = NoFrame THEN 0 ELSE w[p]

LEMMA CountOfThree ==
  ASSUME NEW S, NEW s \in Seq(S), NEW t \in Seq(S), NEW u \in Seq(S), NEW w, \A p \in S : w[p] \in Nat
  PROVE  /\ Count(w, (s \o t) \o u) = Count(w, s) + Count(w, t) + Count(w, u)
         /\ Count(w, s) \in Nat /\ Count(w, t) \in Nat /\ Count(w, u) \in Nat
  <1>1. PICK v \in Seq(S) : v = s \o t
    BY Concat
  <1>2. Count(w, v \o u) = Count(w, v) + Count(w, u) /\ Count(w, v) = Count(w, s) + Count(w, t)
    BY <1>1, CountOfBoth, ZenonT(30)
  <1>3. Count(w, s) \in Nat /\ Count(w, t) \in Nat /\ Count(w, u) \in Nat
    BY CountOfBoth
  <1> QED BY <1>1, <1>2, <1>3

LEMMA HeldWeight ==
  ASSUME NEW p \in GoodPackets \union {NoFrame}, NEW w, Weighs(w)
  PROVE  Count(w, HeldIs(p)) = Weight(w, p) /\ Weight(w, p) \in Nat
  <1>1. CASE p = NoFrame
    <2>1. Count(w, <<>>) = 0
      BY EmptyCount DEF Weighs
    <2> QED BY <1>1, <2>1 DEF HeldIs, Weight
  <1>2. CASE p # NoFrame
    <2>1. Count(w, <<p>>) = w[p]
      BY <1>2, CountOfOne DEF Weighs
    <2> QED BY <1>2, <2>1 DEF HeldIs, Weight, Weighs
  <1> QED BY <1>1, <1>2

(* All that has surfaces of the pools of channel d.                          *)
LEMMA EverythingCounts ==
  ASSUME TInv, NEW d \in Channels, NEW w, Weighs(w)
  PROVE  /\ Count(w, Everything(d)) = Count(w, Line) + Weight(w, hand[d]) + Count(w, lost)
         /\ Count(w, Line) \in Nat /\ Weight(w, hand[d]) \in Nat /\ Count(w, lost) \in Nat
  <1>1. hand[d] \in GoodPackets \union {NoFrame}
    BY DecoderFacts
  <1>2. HeldIs(hand[d]) \in Seq(GoodPackets) /\ Line \in Seq(GoodPackets) /\ lost \in Seq(GoodPackets)
    BY <1>1, HeldTypes, LineTypes, Types
  <1>3. Everything(d) = (Line \o HeldIs(hand[d])) \o lost
    BY DEF Everything, Held, HeldIs
  <1>4. \A p \in GoodPackets : w[p] \in Nat
    BY DEF Weighs
  <1>5. PICK h \in Seq(GoodPackets) : h = HeldIs(hand[d])
    BY <1>2
  <1>6. /\ Count(w, (Line \o h) \o lost) = Count(w, Line) + Count(w, h) + Count(w, lost)
        /\ Count(w, Line) \in Nat /\ Count(w, lost) \in Nat
    BY <1>2, <1>4, CountOfThree
  <1> QED BY <1>1, <1>3, <1>5, <1>6, HeldWeight

LEMMA EverythingBecomes ==
  ASSUME TInv, app' = app, NEW d \in Channels, NEW w, Weighs(w),
         Line' \in Seq(GoodPackets), lost' \in Seq(GoodPackets), hand'[d] \in GoodPackets \union {NoFrame}
  PROVE  /\ Count(w, Everything(d)') = Count(w, Line') + Weight(w, hand'[d]) + Count(w, lost')
         /\ Count(w, Line') \in Nat /\ Weight(w, hand'[d]) \in Nat /\ Count(w, lost') \in Nat
  <1>2. HeldIs(hand'[d]) \in Seq(GoodPackets)
    BY HeldTypes
  <1>3. Everything(d)' = (Line' \o HeldIs(hand'[d])) \o lost'
    BY DEF Everything, Held, HeldIs, NoFrame
  <1>4. \A p \in GoodPackets : w[p] \in Nat
    BY DEF Weighs
  <1>5. PICK h \in Seq(GoodPackets) : h = HeldIs(hand'[d])
    BY <1>2
  <1>6. PICK m \in Seq(GoodPackets), l \in Seq(GoodPackets) : m = Line' /\ l = lost'
    OBVIOUS
  <1>7. /\ Count(w, (m \o h) \o l) = Count(w, m) + Count(w, h) + Count(w, l)
        /\ Count(w, m) \in Nat /\ Count(w, l) \in Nat
    BY <1>4, CountOfThree
  <1> QED BY <1>3, <1>5, <1>6, <1>7, HeldWeight

LEMMA ChangesCount ==
  ASSUME TInv, NEW w, Weighs(w), NEW x \in Seq(GoodPackets), NEW y \in Seq(GoodPackets), Changes(x, y)
  PROVE  /\ Count(w, Line') + Count(w, x) = Count(w, Line) + Count(w, y)
         /\ Count(w, Line') \in Nat /\ Count(w, Line) \in Nat /\ Line' \in Seq(GoodPackets)
  <1>1. PICK head \in Seq(GoodPackets), end \in Seq(GoodPackets) :
          Line = head \o (x \o end) /\ Line' = head \o (y \o end)
    BY DEF Changes
  <1>2. PICK a \in Seq(GoodPackets), b \in Seq(GoodPackets) : a = x \o end /\ b = y \o end
    BY Concat
  <1>3. \A p \in GoodPackets : w[p] \in Nat
    BY DEF Weighs
  <1>4. Count(w, a) = Count(w, x) + Count(w, end) /\ Count(w, x) \in Nat
    BY <1>2, <1>3, CountOfBoth
  <1>5. Count(w, b) = Count(w, y) + Count(w, end) /\ Count(w, y) \in Nat
    BY <1>2, <1>3, CountOfBoth
  <1>6. Count(w, head \o a) = Count(w, head) + Count(w, a) /\ Count(w, head) \in Nat
    BY <1>3, CountOfBoth
  <1>7. Count(w, head \o b) = Count(w, head) + Count(w, b)
    BY <1>3, CountOfBoth
  <1>8. Count(w, end) \in Nat /\ head \o b \in Seq(GoodPackets)
    BY <1>3, CountOfBoth, Concat
  <1> QED BY <1>1, <1>2, <1>4, <1>5, <1>6, <1>7, <1>8

(* What is used and what is counted, before and after.                       *)
InStep(used, count, usedNow, countNow) ==
  /\ usedNow - countNow >= used - count
  /\ stops = 0 => usedNow - countNow = used - count

LEMMA EmptyFacts ==
  ASSUME TInv, NEW p \in GoodPackets, IsEmpty(p)
  PROVE  p.dec = 0 /\ p.vp = 0 /\ p.crops = 0
  <1>1. p.dec \in Nat /\ p.vp \in Nat /\ p.rois \in Nat /\ p.crops \in Nat /\ p.res \in Nat
    BY PacketNumbers
  <1>2. PICK a \in Nat, b \in Nat, c \in Nat, d \in Nat, e \in Nat :
          a = p.dec /\ b = p.vp /\ c = p.rois /\ d = p.crops /\ e = p.res
    BY <1>1
  <1>3. a + b + c + d + e = 0
    BY <1>2 DEF IsEmpty
  <1>4. a = 0 /\ b = 0 /\ d = 0
    BY <1>3
  <1> QED BY <1>2, <1>4

LEMMA SurfaceWeights ==
  ASSUME TInv, NEW d \in Channels
  PROVE  /\ Weighs(DecSurfaces(d)) /\ Weighs(VpSurfaces(d)) /\ Weighs(CropSurfaces)
         /\ \A p \in GoodPackets : /\ DecSurfaces(d)[p] = IF d = p.chan THEN p.dec ELSE 0
                                   /\ VpSurfaces(d)[p] = IF d = p.chan THEN p.vp ELSE 0
                                   /\ CropSurfaces[p] = p.crops
  <1>1. \A p \in GoodPackets : p \in Packets
    BY DEF GoodPackets
  <1>2. \A p \in GoodPackets : /\ DecSurfaces(d)[p] = IF d = p.chan THEN p.dec ELSE 0
                               /\ VpSurfaces(d)[p] = IF d = p.chan THEN p.vp ELSE 0
                               /\ CropSurfaces[p] = p.crops
    BY <1>1 DEF DecSurfaces, VpSurfaces, CropSurfaces
  <1> QED BY <1>2, PacketNumbers DEF Weighs

(* What changes in the line by a step of a block.                            *)
LEMMA PacketCount ==
  ASSUME TInv, NEW w, Weighs(w), NEW p \in GoodPackets
  PROVE  /\ <<p>> \in Seq(GoodPackets) /\ Count(w, <<p>>) = w[p] /\ w[p] \in Nat
         /\ <<>> \in Seq(GoodPackets) /\ Count(w, <<>>) = 0
  <1>1. \A q \in GoodPackets : w[q] \in Nat
    BY DEF Weighs
  <1> QED BY <1>1, CountOfOne, EmptyCount, OneGood, EmptySeq

LEMMA LineCounts ==
  ASSUME TInv, NEW w, Weighs(w), NEW p \in GoodPackets
  PROVE  /\ \A q \in GoodPackets : Changes(<<p>>, <<q>>) =>
              Count(w, Line') = Count(w, Line) - w[p] + w[q] /\ Line' \in Seq(GoodPackets)
         /\ Changes(<<p>>, <<>>) => Count(w, Line') = Count(w, Line) - w[p] /\ Line' \in Seq(GoodPackets)
         /\ Line = <<p>> \o Line' /\ Line' \in Seq(GoodPackets) => Count(w, Line') = Count(w, Line) - w[p]
         /\ Count(w, Line) \in Nat /\ w[p] \in Nat
  <1>1. ASSUME NEW q \in GoodPackets, Changes(<<p>>, <<q>>)
        PROVE  Count(w, Line') = Count(w, Line) - w[p] + w[q] /\ Line' \in Seq(GoodPackets)
    <2>1. PICK x \in Seq(GoodPackets), y \in Seq(GoodPackets) : x = <<p>> /\ y = <<q>>
      BY PacketCount
    <2>2. /\ Count(w, Line') + Count(w, x) = Count(w, Line) + Count(w, y)
          /\ Count(w, Line') \in Nat /\ Count(w, Line) \in Nat /\ Line' \in Seq(GoodPackets)
      BY <1>1, <2>1, ChangesCount
    <2>3. Count(w, x) = w[p] /\ Count(w, y) = w[q] /\ w[p] \in Nat /\ w[q] \in Nat
      BY <2>1, PacketCount
    <2>4. PICK i \in Nat, j \in Nat : i = w[p] /\ j = w[q]
      BY <2>3
    <2>5. PICK m \in Nat, l \in Nat : m = Count(w, Line') /\ l = Count(w, Line)
      BY <2>2
    <2>6. m + i = l + j
      BY <2>2, <2>3, <2>4, <2>5
    <2>7. m = l - i + j
      BY <2>6
    <2> QED BY <2>2, <2>4, <2>5, <2>7
  <1>2. ASSUME Changes(<<p>>, <<>>)
        PROVE  Count(w, Line') = Count(w, Line) - w[p] /\ Line' \in Seq(GoodPackets)
    <2>1. PICK x \in Seq(GoodPackets), y \in Seq(GoodPackets) : x = <<p>> /\ y = <<>>
      BY PacketCount
    <2>2. /\ Count(w, Line') + Count(w, x) = Count(w, Line) + Count(w, y)
          /\ Count(w, Line') \in Nat /\ Count(w, Line) \in Nat /\ Line' \in Seq(GoodPackets)
      BY <1>2, <2>1, ChangesCount
    <2>3. Count(w, x) = w[p] /\ Count(w, y) = 0 /\ w[p] \in Nat
      BY <2>1, PacketCount
    <2> QED BY <2>2, <2>3
  <1>3. ASSUME Line = <<p>> \o Line', Line' \in Seq(GoodPackets)
        PROVE  Count(w, Line') = Count(w, Line) - w[p]
    <2>1. PICK x \in Seq(GoodPackets), m \in Seq(GoodPackets) : x = <<p>> /\ m = Line'
      BY <1>3, PacketCount
    <2>2. \A q \in GoodPackets : w[q] \in Nat
      BY DEF Weighs
    <2>3. Count(w, x \o m) = Count(w, x) + Count(w, m)
      BY <2>2, CountOfBoth
    <2>4. Count(w, m) \in Nat /\ Count(w, x) = w[p] /\ w[p] \in Nat
      BY <2>1, <2>2, CountOfBoth, PacketCount
    <2> QED BY <1>3, <2>1, <2>3, <2>4
  <1>4. Count(w, Line) \in Nat /\ w[p] \in Nat
    BY LineTypes, CountOfBoth DEF Weighs
  <1> QED BY <1>1, <1>2, <1>3, <1>4

EffectOn(p, dec, vp, crops) ==
  /\ \A d \in Channels :
       /\ Count(DecSurfaces(d), Line') = Count(DecSurfaces(d), Line) - (IF d = p.chan THEN dec ELSE 0)
       /\ Count(VpSurfaces(d), Line') = Count(VpSurfaces(d), Line) - (IF d = p.chan THEN vp ELSE 0)
       /\ Count(DecSurfaces(d), Line) \in Nat /\ Count(VpSurfaces(d), Line) \in Nat
  /\ Count(CropSurfaces, Line') = Count(CropSurfaces, Line) - crops
  /\ Count(CropSurfaces, Line) \in Nat
  /\ Line' \in Seq(GoodPackets)

LineInStep ==
  /\ \A d \in Channels :
       /\ InStep(decUsed[d], Count(DecSurfaces(d), Line), decUsed'[d], Count(DecSurfaces(d), Line'))
       /\ InStep(vpUsed[d], Count(VpSurfaces(d), Line), vpUsed'[d], Count(VpSurfaces(d), Line'))
  /\ InStep(cropUsed, Count(CropSurfaces, Line), cropUsed', Count(CropSurfaces, Line'))
  /\ Line' \in Seq(GoodPackets)

LEMMA ChangedLine ==
  ASSUME TInv, NEW p \in GoodPackets
  PROVE  /\ \A q \in GoodPackets :
              Changes(<<p>>, <<q>>) /\ q.chan = p.chan /\ q.vp = p.vp
                => EffectOn(p, p.dec - q.dec, 0, p.crops - q.crops)
         /\ Changes(<<p>>, <<>>) => EffectOn(p, p.dec, p.vp, p.crops)
         /\ Line = <<p>> \o Line' /\ Line' \in Seq(GoodPackets) => EffectOn(p, p.dec, p.vp, p.crops)
  <1>1. PICK c \in Channels : TRUE
    BY PacketNumbers
  <1>2. ASSUME NEW d \in Channels
        PROVE  /\ Weighs(DecSurfaces(d)) /\ Weighs(VpSurfaces(d)) /\ Weighs(CropSurfaces)
               /\ \A q \in GoodPackets : DecSurfaces(d)[q] = (IF d = q.chan THEN q.dec ELSE 0)
               /\ \A q \in GoodPackets : VpSurfaces(d)[q] = (IF d = q.chan THEN q.vp ELSE 0)
               /\ \A q \in GoodPackets : CropSurfaces[q] = q.crops
    BY SurfaceWeights
  <1>3. /\ p.dec \in Nat /\ p.vp \in Nat /\ p.crops \in Nat
    BY PacketNumbers
  <1>4. ASSUME NEW q \in GoodPackets, Changes(<<p>>, <<q>>), q.chan = p.chan, q.vp = p.vp
        PROVE  EffectOn(p, p.dec - q.dec, 0, p.crops - q.crops)
    <2>1. q.dec \in Nat /\ q.crops \in Nat
      BY PacketNumbers
    <2>2. ASSUME NEW w, Weighs(w)
          PROVE  /\ Count(w, Line') = Count(w, Line) - w[p] + w[q] /\ Line' \in Seq(GoodPackets)
                 /\ Count(w, Line) \in Nat
      BY <1>4, <2>2, LineCounts
    <2>3. ASSUME NEW d \in Channels
          PROVE  /\ Count(DecSurfaces(d), Line') = Count(DecSurfaces(d), Line) - (IF d = p.chan THEN p.dec - q.dec ELSE 0)
                 /\ Count(DecSurfaces(d), Line) \in Nat
      <3>1. Count(DecSurfaces(d), Line') = Count(DecSurfaces(d), Line) - DecSurfaces(d)[p] + DecSurfaces(d)[q]
        BY <1>2, <2>2
      <3>2. Count(DecSurfaces(d), Line) \in Nat
        BY <1>2, <2>2
      <3>3. PICK i \in Nat, j \in Nat, k \in Nat : i = p.dec /\ j = q.dec /\ k = Count(DecSurfaces(d), Line)
        BY <1>3, <2>1, <3>2
      <3>4. d = p.chan => DecSurfaces(d)[p] = i /\ DecSurfaces(d)[q] = j
        BY <1>2, <1>4, <3>3
      <3>5. d # p.chan => DecSurfaces(d)[p] = 0 /\ DecSurfaces(d)[q] = 0
        BY <1>2, <1>4
      <3>6. CASE d = p.chan
        <4>1. Count(DecSurfaces(d), Line') = k - i + j
          BY <3>1, <3>3, <3>4, <3>6
        <4>2. k - i + j = k - (i - j)
          OBVIOUS
        <4> QED BY <3>3, <3>6, <4>1, <4>2
      <3>7. CASE d # p.chan
        <4>1. Count(DecSurfaces(d), Line') = k - 0 + 0
          BY <3>1, <3>3, <3>5, <3>7
        <4> QED BY <3>3, <3>7, <4>1
      <3> QED BY <3>6, <3>7
    <2>4. ASSUME NEW d \in Channels
          PROVE  /\ Count(VpSurfaces(d), Line') = Count(VpSurfaces(d), Line) - (IF d = p.chan THEN 0 ELSE 0)
                 /\ Count(VpSurfaces(d), Line) \in Nat
      <3>1. Count(VpSurfaces(d), Line') = Count(VpSurfaces(d), Line) - VpSurfaces(d)[p] + VpSurfaces(d)[q]
        BY <1>2, <2>2
      <3>2. Count(VpSurfaces(d), Line) \in Nat
        BY <1>2, <2>2
      <3>3. VpSurfaces(d)[q] = VpSurfaces(d)[p] /\ VpSurfaces(d)[p] \in Nat
        BY <1>2, <1>3, <1>4
      <3> QED BY <3>1, <3>2, <3>3
    <2>5. /\ Count(CropSurfaces, Line') = Count(CropSurfaces, Line) - (p.crops - q.crops)
          /\ Count(CropSurfaces, Line) \in Nat /\ Line' \in Seq(GoodPackets)
      <3>1. /\ Count(CropSurfaces, Line') = Count(CropSurfaces, Line) - CropSurfaces[p] + CropSurfaces[q]
            /\ Count(CropSurfaces, Line) \in Nat /\ Line' \in Seq(GoodPackets)
        BY <1>1, <1>2, <2>2
      <3>2. PICK i \in Nat, j \in Nat, k \in Nat : i = p.crops /\ j = q.crops /\ k = Count(CropSurfaces, Line)
        BY <1>3, <2>1, <3>1
      <3>3. CropSurfaces[p] = i /\ CropSurfaces[q] = j
        BY <1>1, <1>2, <3>2
      <3>4. Count(CropSurfaces, Line') = k - i + j
        BY <3>1, <3>2, <3>3
      <3>5. k - i + j = k - (i - j)
        OBVIOUS
      <3> QED BY <3>1, <3>2, <3>4, <3>5
    <2> QED BY <2>3, <2>4, <2>5 DEF EffectOn
  <1>5. ASSUME \/ Changes(<<p>>, <<>>)
               \/ Line = <<p>> \o Line' /\ Line' \in Seq(GoodPackets)
        PROVE  EffectOn(p, p.dec, p.vp, p.crops)
    <2>2. ASSUME NEW w, Weighs(w)
          PROVE  /\ Count(w, Line') = Count(w, Line) - w[p] /\ Line' \in Seq(GoodPackets)
                 /\ Count(w, Line) \in Nat
      BY <1>5, <2>2, LineCounts
    <2>3. ASSUME NEW d \in Channels
          PROVE  /\ Count(DecSurfaces(d), Line') = Count(DecSurfaces(d), Line) - (IF d = p.chan THEN p.dec ELSE 0)
                 /\ Count(DecSurfaces(d), Line) \in Nat
      <3>1. Weighs(DecSurfaces(d)) /\ DecSurfaces(d)[p] = (IF d = p.chan THEN p.dec ELSE 0)
        BY <1>2
      <3> QED BY <2>2, <3>1
    <2>4. ASSUME NEW d \in Channels
          PROVE  /\ Count(VpSurfaces(d), Line') = Count(VpSurfaces(d), Line) - (IF d = p.chan THEN p.vp ELSE 0)
                 /\ Count(VpSurfaces(d), Line) \in Nat
      <3>1. Weighs(VpSurfaces(d)) /\ VpSurfaces(d)[p] = (IF d = p.chan THEN p.vp ELSE 0)
        BY <1>2
      <3> QED BY <2>2, <3>1
    <2>5. /\ Count(CropSurfaces, Line') = Count(CropSurfaces, Line) - p.crops
          /\ Count(CropSurfaces, Line) \in Nat /\ Line' \in Seq(GoodPackets)
      <3>1. Weighs(CropSurfaces) /\ CropSurfaces[p] = p.crops
        BY <1>1, <1>2
      <3> QED BY <2>2, <3>1
    <2> QED BY <2>3, <2>4, <2>5 DEF EffectOn
  <1> QED BY <1>4, <1>5

-----------------------------------------------------------------------------
(***************************************************************************)
(* A step that changes the line changes the counters of the surfaces by as *)
(* much (InStep).                                                          *)
(***************************************************************************)

LEMMA InStepBy ==
  ASSUME NEW u \in Int, NEW n \in Int, NEW back \in Int, NEW away \in Int, NEW un, NEW nn,
         un = u - back, nn = n - away, back <= away, stops = 0 => back = away
  PROVE  InStep(u, n, un, nn)
  <1>1. /\ u - back - (n - away) >= u - n
        /\ stops = 0 => u - back - (n - away) = u - n
    OBVIOUS
  <1> QED BY <1>1 DEF InStep

LEMMA LineStep ==
  ASSUME TInv, NEW p \in GoodPackets, NEW dec \in Int, NEW vp \in Int, NEW crops \in Int, EffectOn(p, dec, vp, crops),
         NEW decBack \in Int, NEW vpBack \in Int, NEW cropsBack \in Int, Frees(p.chan, decBack, vpBack, cropsBack),
         decBack <= dec, vpBack <= vp, cropsBack <= crops,
         stops = 0 => decBack = dec /\ vpBack = vp /\ cropsBack = crops
  PROVE  LineInStep
  <1>1. ASSUME NEW d \in Channels
        PROVE  /\ InStep(decUsed[d], Count(DecSurfaces(d), Line), decUsed'[d], Count(DecSurfaces(d), Line'))
               /\ InStep(vpUsed[d], Count(VpSurfaces(d), Line), vpUsed'[d], Count(VpSurfaces(d), Line'))
    <2>1. decUsed[d] \in Int /\ vpUsed[d] \in Int
      BY Types
    <2>2. PICK n \in Int, m \in Int : n = Count(DecSurfaces(d), Line) /\ m = Count(VpSurfaces(d), Line)
      BY DEF EffectOn
    <2>3. PICK b \in Int, a \in Int, x \in Int, y \in Int :
            /\ b = (IF d = p.chan THEN decBack ELSE 0) /\ a = (IF d = p.chan THEN dec ELSE 0)
            /\ x = (IF d = p.chan THEN vpBack ELSE 0) /\ y = (IF d = p.chan THEN vp ELSE 0)
      OBVIOUS
    <2>4. decUsed'[d] = decUsed[d] - b /\ Count(DecSurfaces(d), Line') = n - a
      BY <2>2, <2>3 DEF EffectOn, Frees
    <2>5. vpUsed'[d] = vpUsed[d] - x /\ Count(VpSurfaces(d), Line') = m - y
      BY <2>2, <2>3 DEF EffectOn, Frees
    <2>6. b <= a /\ x <= y /\ (stops = 0 => b = a /\ x = y)
      BY <2>3
    <2>7. InStep(decUsed[d], n, decUsed'[d], Count(DecSurfaces(d), Line'))
      BY <2>1, <2>4, <2>6, InStepBy
    <2>8. InStep(vpUsed[d], m, vpUsed'[d], Count(VpSurfaces(d), Line'))
      BY <2>1, <2>5, <2>6, InStepBy
    <2> QED BY <2>2, <2>7, <2>8
  <1>2. InStep(cropUsed, Count(CropSurfaces, Line), cropUsed', Count(CropSurfaces, Line'))
    <2>1. cropUsed \in Int
      BY Types
    <2>2. PICK n \in Int : n = Count(CropSurfaces, Line)
      BY DEF EffectOn
    <2>3. cropUsed' = cropUsed - cropsBack /\ Count(CropSurfaces, Line') = n - crops
      BY <2>2 DEF EffectOn, Frees
    <2>4. InStep(cropUsed, n, cropUsed', Count(CropSurfaces, Line'))
      BY <2>1, <2>3, InStepBy
    <2> QED BY <2>2, <2>4
  <1> QED BY <1>1, <1>2 DEF LineInStep, EffectOn

LEMMA EffectInStep ==
  ASSUME TInv, Effect
  PROVE  LineInStep
  <1>1. CASE StaysInLine
    <2>1. Line' = Line /\ decUsed' = decUsed /\ vpUsed' = vpUsed /\ cropUsed' = cropUsed
      BY <1>1 DEF StaysInLine, pools
    <2>2. \A n : \A u \in Int : n \in Int => InStep(u, n, u, n)
      BY DEF InStep
    <2>3. cropUsed \in Int /\ \A d \in Channels : decUsed[d] \in Int /\ vpUsed[d] \in Int
      BY Types
    <2>4. ASSUME NEW w, Weighs(w) PROVE Count(w, Line) \in Int
      BY <2>4, LineTypes, CountOfBoth DEF Weighs
    <2>5. \A d \in Channels : Count(DecSurfaces(d), Line) \in Int /\ Count(VpSurfaces(d), Line) \in Int
      BY <2>4, SurfaceWeights
    <2>6. Count(CropSurfaces, Line) \in Int
      <3>1. PICK d \in Channels : TRUE
        BY Types, AppFacts DEF Channels
      <3> QED BY <2>4, <3>1, SurfaceWeights
    <2> QED BY <2>1, <2>2, <2>3, <2>5, <2>6, LineTypes DEF LineInStep
  <1>2. CASE ChangesInLine
    <2>1. PICK p \in GoodPackets, q \in GoodPackets :
            /\ Changes(<<p>>, <<q>>) /\ Follows(p, q)
            /\ Frees(p.chan, p.dec - q.dec, 0, p.crops - q.crops)
      BY <1>2 DEF ChangesInLine
    <2>2. p.dec - q.dec \in Int /\ p.crops - q.crops \in Int
      BY PacketNumbers
    <2>3. EffectOn(p, p.dec - q.dec, 0, p.crops - q.crops)
      BY <2>1, ChangedLine DEF Follows
    <2>4. PICK a \in Int, b \in Int : a = p.dec - q.dec /\ b = p.crops - q.crops
      BY <2>2
    <2>5. EffectOn(p, a, 0, b) /\ Frees(p.chan, a, 0, b) /\ a <= a /\ b <= b /\ 0 <= 0
      BY <2>1, <2>3, <2>4
    <2> QED BY <2>5, LineStep
  <1>3. CASE Drops
    <2>0. PICK p \in GoodPackets :
            \E n \in {0, p.dec} : Changes(<<p>>, <<>>) /\ (IsEmpty(p) \/ stops # 0) /\ Frees(p.chan, n, 0, 0)
      BY <1>3 DEF Drops
    <2>1. PICK n \in {0, p.dec} : Changes(<<p>>, <<>>) /\ (IsEmpty(p) \/ stops # 0) /\ Frees(p.chan, n, 0, 0)
      BY <2>0
    <2>2. EffectOn(p, p.dec, p.vp, p.crops)
      BY <2>1, ChangedLine
    <2>3. p.dec \in Nat /\ p.vp \in Nat /\ p.crops \in Nat
      BY PacketNumbers
    <2>4. n \in Int /\ n <= p.dec /\ 0 <= p.vp /\ 0 <= p.crops
      BY <2>3
    <2>5. stops = 0 => n = p.dec /\ 0 = p.vp /\ 0 = p.crops
      BY <2>1, EmptyFacts
    <2> QED BY <2>1, <2>2, <2>3, <2>4, <2>5, LineStep
  <1>4. CASE Delivers
    <2>1. PICK p \in GoodPackets :
            Line = <<p>> \o Line' /\ Line' \in Seq(GoodPackets) /\ Frees(p.chan, p.dec, p.vp, p.crops)
      BY <1>4 DEF Delivers
    <2>2. EffectOn(p, p.dec, p.vp, p.crops)
      BY <2>1, ChangedLine
    <2>3. p.dec \in Int /\ p.vp \in Int /\ p.crops \in Int /\ p.dec <= p.dec /\ p.vp <= p.vp /\ p.crops <= p.crops
      BY PacketNumbers
    <2> QED BY <2>1, <2>2, <2>3, LineStep
  <1> QED BY <1>1, <1>2, <1>3, <1>4 DEF Effect

-----------------------------------------------------------------------------
(***************************************************************************)
(* What a step of a decoder does to the line, to its hand and to the       *)
(* counters.                                                               *)
(***************************************************************************)

(* What a step of the decoder of channel c does with its packet.             *)
Idles(c)  == hand'[c] = hand[c] /\ Line' = Line /\ lost' = lost /\ UNCHANGED pools
Packs(c)  == \E dec \in {0, app.dec} :
               /\ pc[c] = "dequeue" /\ hand[c] = NoFrame /\ hand'[c] = New(c, dec) /\ Line' = Line /\ lost' = lost
               /\ decUsed' = [decUsed EXCEPT ![c] = @ + dec] /\ vpUsed' = vpUsed
Scales(c) == /\ pc[c] = "vpp" /\ hand'[c] = [hand[c] EXCEPT !.vp = 1] /\ Line' = Line /\ lost' = lost
             /\ decUsed' = decUsed /\ vpUsed[c] < app.surfaces /\ vpUsed' = [vpUsed EXCEPT ![c] = @ + 1]
Loses(c)  == /\ pc[c] = "vpp" /\ hand'[c] = NoFrame /\ Line' = Line /\ lost' = lost \o <<hand[c]>>
             /\ UNCHANGED pools
Passes(c) == /\ pc[c] \in {"enqueue", "last"} /\ hand'[c] = NoFrame /\ lost' = lost /\ UNCHANGED pools
             /\ \/ Line' = Line \o <<hand[c]>>
                \/ Line' = Line /\ stops # 0

DecoderEffect(c) ==
  /\ app' = app /\ Only(hand, hand', c) /\ delivered' = delivered /\ stops' = stops /\ cropUsed' = cropUsed
  /\ Idles(c) \/ Packs(c) \/ Scales(c) \/ Loses(c) \/ Passes(c)

Filling == {"dequeue", "vpp", "enqueue", "last"}

(* How the decoder of channel c goes on.                                     *)
GoesOn(c, label, n) ==
  /\ pc' = [pc EXCEPT ![c] = label] /\ decoded' = [decoded EXCEPT ![c] = n]
  /\ \/ Idles(c) /\ pc[c] = "top" /\ label = "dequeue" /\ n = decoded[c] + 1
     \/ Idles(c) /\ n = decoded[c] /\ label \notin {"top", "dequeue"} /\ pc[c] # "ended"
                 /\ (label \in Filling => pc[c] \in Filling)
     \/ (Packs(c) \/ Scales(c)) /\ n = decoded[c] /\ label \in {"vpp", "enqueue", "last"}
     \/ Loses(c) /\ n = decoded[c] /\ label \in {"top", "ended"}
     \/ Passes(c) /\ n = decoded[c] /\ label = (IF pc[c] = "last" THEN "ended" ELSE "top")

LEMMA DecoderDoes ==
  ASSUME TInv, NEW c \in Channels, Decoder(c)
  PROVE  DecoderEffect(c) /\ \E label, n : GoesOn(c, label, n)
  <1>1. app' = app /\ delivered' = delivered /\ stops' = stops /\ cropUsed' = cropUsed
    BY DEF Decoder, DecodeFrame, DecodeVpl, FillPacket, FillVpl, Scale, CopyVpl, NoPacketVpl,
           EndDecoding, ScaleFails, ScaleWantsMore, ScaleWantsSurface, SendFrame, main, pools
  <1>2. inside' = inside
    BY DEF Decoder, DecodeFrame, DecodeVpl, FillPacket, FillVpl, Scale, CopyVpl, NoPacketVpl,
           EndDecoding, ScaleFails, ScaleWantsMore, ScaleWantsSurface, SendFrame, stage
  <1>0. decoded = [decoded EXCEPT ![c] = decoded[c]]
    BY Types
  <1>3. CASE \/ DecodeFrame(c) \/ DecodeVpl(c) \/ NoPacketVpl(c) \/ EndDecoding(c) \/ ScaleWantsSurface(c)
             \/ ScaleFails(c) /\ hand' = hand /\ lost' = lost
    <2>1. hand' = hand /\ lost' = lost /\ filled' = filled /\ UNCHANGED pools
      BY <1>3 DEF DecodeFrame, DecodeVpl, NoPacketVpl, EndDecoding, ScaleWantsSurface, ScaleFails, pipes
    <2>2. Only(hand, hand', c) /\ hand'[c] = hand[c]
      BY <2>1, ExceptOnly
    <2>3. Line' = Line
      BY <1>1, <1>2, <2>1, <2>2, DecoderLeaves, LineSame
    <2>4. DecoderEffect(c) /\ Idles(c)
      BY <1>1, <2>1, <2>2, <2>3 DEF DecoderEffect, Idles
    <2>5. CASE DecodeFrame(c) \/ DecodeVpl(c)
      <3>1. /\ pc[c] = "top" /\ pc' = [pc EXCEPT ![c] = "dequeue"]
            /\ decoded' = [decoded EXCEPT ![c] = decoded[c] + 1]
        BY <2>5 DEF DecodeFrame, DecodeVpl, At
      <3>2. GoesOn(c, "dequeue", decoded[c] + 1)
        BY <2>4, <3>1 DEF GoesOn
      <3> QED BY <2>4, <3>2
    <2>6. CASE NoPacketVpl(c) \/ EndDecoding(c) \/ ScaleWantsSurface(c) \/ ScaleFails(c)
      <3>1. PICK label \in {"crashed", "ended", "last", "enqueue"} :
              pc' = [pc EXCEPT ![c] = label] /\ pc[c] # "ended" /\ (label \in {"last", "enqueue"} => pc[c] = "vpp")
        <4>1. CASE NoPacketVpl(c)
          BY <4>1 DEF NoPacketVpl, At
        <4>2. CASE EndDecoding(c)
          BY <4>2 DEF EndDecoding, LooksAtStop, At
        <4>3. CASE ScaleFails(c)
          <5>1. pc[c] = "vpp" /\ (pc' = [pc EXCEPT ![c] = "last"] \/ pc' = [pc EXCEPT ![c] = "ended"])
            BY <4>3, Zenon DEF ScaleFails, At
          <5> QED BY <5>1
        <4>4. CASE ScaleWantsSurface(c)
          BY <4>4 DEF ScaleWantsSurface, At
        <4> QED BY <2>6, <4>1, <4>2, <4>3, <4>4
      <3>2. decoded' = decoded
        BY <2>6 DEF NoPacketVpl, EndDecoding, ScaleWantsSurface, ScaleFails
      <3>3. label \notin {"top", "dequeue"} /\ (label \in Filling => pc[c] \in Filling)
        BY <3>1 DEF Filling
      <3>4. GoesOn(c, label, decoded[c])
        BY <1>0, <2>4, <3>1, <3>2, <3>3 DEF GoesOn
      <3> QED BY <2>4, <3>4
    <2> QED BY <1>3, <2>5, <2>6
  <1>4. CASE \/ ~app.vpl /\ FillPacket(c)
             \/ app.vpl /\ FillVpl(c)
    <2>1. pc[c] = "dequeue" /\ lost' = lost /\ vpUsed' = vpUsed /\ filled' = filled
      BY <1>4 DEF FillPacket, FillVpl
    <2>2. PICK dec \in {0, app.dec} : hand' = [hand EXCEPT ![c] = New(c, dec)] /\ decUsed' = [decUsed EXCEPT ![c] = @ + dec]
      BY <1>4, DecoderFacts DEF FillPacket, FillVpl, New
    <2>3. Only(hand, hand', c) /\ hand'[c] = New(c, dec) /\ hand[c] = NoFrame
      BY <2>1, <2>2, ExceptOnly, DecoderFacts
    <2>4. Line' = Line
      BY <1>1, <1>2, <2>1, <2>3, DecoderLeaves, LineSame
    <2>5. Packs(c)
      BY <2>1, <2>2, <2>3, <2>4 DEF Packs
    <2>6. PICK label \in {"vpp", "enqueue"} : pc' = [pc EXCEPT ![c] = label] /\ decoded' = decoded
      <3>1. PICK label \in {"vpp", "enqueue"} : label = IF app.vpp /\ Selected(decoded[c]) THEN "vpp" ELSE "enqueue"
        OBVIOUS
      <3>2. PICK place \in {"vpp", "enqueue"} : place = IF app.vpp /\ SelectedVpl(decoded[c]) THEN "vpp" ELSE "enqueue"
        OBVIOUS
      <3>3. CASE FillPacket(c)
        BY <3>1, <3>3 DEF FillPacket, At
      <3>4. CASE FillVpl(c)
        BY <3>2, <3>4 DEF FillVpl, At
      <3> QED BY <1>4, <3>3, <3>4
    <2>7. GoesOn(c, label, decoded[c])
      BY <1>0, <2>5, <2>6 DEF GoesOn
    <2> QED BY <1>1, <2>3, <2>5, <2>7 DEF DecoderEffect
  <1>5. CASE \/ ~app.vpl /\ Scale(c)
             \/ app.vpl /\ CopyVpl(c)
    <2>1. /\ pc[c] = "vpp" /\ hand' = [hand EXCEPT ![c].vp = 1] /\ lost' = lost /\ filled' = filled
          /\ decUsed' = decUsed /\ vpUsed[c] < app.surfaces /\ vpUsed' = [vpUsed EXCEPT ![c] = @ + 1]
      BY <1>5 DEF Scale, CopyVpl, pipes
    <2>2. PICK p : p = [hand[c] EXCEPT !.vp = 1]
      OBVIOUS
    <2>3. hand' = [hand EXCEPT ![c] = p]
      BY <2>1, <2>2
    <2>4. Only(hand, hand', c) /\ hand'[c] = p
      BY <2>3, DecoderFacts, ExceptOnly
    <2>5. Line' = Line
      BY <1>1, <1>2, <2>1, <2>4, DecoderLeaves, LineSame
    <2>6. Scales(c)
      BY <2>1, <2>2, <2>4, <2>5 DEF Scales
    <2>7. PICK label \in {"enqueue", "last"} : pc' = [pc EXCEPT ![c] = label] /\ decoded' = decoded
      BY <1>5 DEF Scale, CopyVpl, At
    <2>8. GoesOn(c, label, decoded[c])
      BY <1>0, <2>6, <2>7 DEF GoesOn
    <2> QED BY <1>1, <2>4, <2>6, <2>8 DEF DecoderEffect
  <1>6. CASE ScaleWantsMore(c) \/ (ScaleFails(c) /\ ~(hand' = hand /\ lost' = lost))
    <2>1. /\ pc[c] = "vpp" /\ hand' = [hand EXCEPT ![c] = NoFrame] /\ lost' = Append(lost, hand[c])
          /\ filled' = filled /\ UNCHANGED pools
      BY <1>6 DEF ScaleWantsMore, ScaleFails, pipes
    <2>2. Only(hand, hand', c) /\ hand'[c] = NoFrame /\ hand[c] \in GoodPackets
      BY <2>1, DecoderFacts, ExceptOnly
    <2>3. lost' = lost \o <<hand[c]>>
      BY <2>1, <2>2, Types, AppendIsConcat
    <2>4. Line' = Line
      BY <1>1, <1>2, <2>1, <2>2, DecoderLeaves, LineSame
    <2>5. Loses(c)
      BY <2>1, <2>2, <2>3, <2>4 DEF Loses
    <2>6. PICK label \in {"top", "ended"} : pc' = [pc EXCEPT ![c] = label] /\ decoded' = decoded
      <3>1. CASE ScaleWantsMore(c)
        BY <3>1 DEF ScaleWantsMore, At
      <3>2. CASE ScaleFails(c) /\ ~(hand' = hand /\ lost' = lost)
        BY <3>2, Zenon DEF ScaleFails, At
      <3> QED BY <1>6, <3>1, <3>2
    <2>7. GoesOn(c, label, decoded[c])
      BY <1>0, <2>5, <2>6 DEF GoesOn
    <2> QED BY <1>1, <2>2, <2>5, <2>7 DEF DecoderEffect
  <1>7. CASE SendFrame(c)
    <2>1. /\ pc[c] \in {"enqueue", "last"} /\ EnqueueOutput(c, 1, hand[c])
          /\ hand' = [hand EXCEPT ![c] = NoFrame] /\ lost' = lost /\ UNCHANGED pools
      BY <1>7 DEF SendFrame
    <2>2. Only(hand, hand', c) /\ hand'[c] = NoFrame /\ hand[c] \in GoodPackets
      BY <2>1, DecoderFacts, ExceptOnly
    <2>5. Passes(c) => \E label, n : GoesOn(c, label, n)
      <3>1. PICK label : label = IF pc[c] = "last" THEN "ended" ELSE "top"
        OBVIOUS
      <3>2. pc' = [pc EXCEPT ![c] = label] /\ decoded' = decoded
        BY <1>7, <3>1 DEF SendFrame, At
      <3>3. Passes(c) => GoesOn(c, label, decoded[c])
        BY <1>0, <3>1, <3>2 DEF GoesOn
      <3> QED BY <3>3
    <2>3. CASE Stopped(c)
      <3>1. filled' = filled /\ stops # 0
        BY <2>1, <2>3, SomeStopped, DecoderFacts DEF EnqueueOutput
      <3>2. Line' = Line
        BY <1>1, <1>2, <2>2, <3>1, DecoderLeaves, LineSame
      <3>3. Passes(c)
        BY <2>1, <2>2, <3>1, <3>2 DEF Passes
      <3> QED BY <1>1, <2>2, <2>5, <3>3 DEF DecoderEffect
    <2>4. CASE ~Stopped(c)
      <3>1. filled' = [filled EXCEPT ![1] = Append(@, hand[c])]
        BY <2>1, <2>4 DEF EnqueueOutput
      <3>2. Leaves({1})
        BY <1>1, <1>2, <2>2, <3>1, Types, DecoderLeaves
      <3>3. Place(1)' = Place(1) \o <<hand[c]>>
        <4>1. PICK y \in Seq(GoodPackets) : y = <<hand[c]>>
          BY <2>2, OneGood
        <4>2. filled'[1] = filled[1] \o y
          BY <2>2, <3>1, <4>1, Types, AppendIsConcat
        <4>3. hand'[BlockOf(1)] = hand[BlockOf(1)]
          BY <2>2, Types, ThreadFacts DEF Only
        <4>4. PICK a : a = IF IsInference(1) THEN inside[1] ELSE HeldIs(hand[BlockOf(1)])
          OBVIOUS
        <4>5. Place(1) = a \o filled[1] /\ Place(1)' = a \o (filled[1] \o y)
          BY <1>1, <1>2, <4>2, <4>3, <4>4, Types, PlaceIs, PlaceBecomes
        <4>6. a \in Seq(GoodPackets) /\ filled[1] \in Seq(GoodPackets)
          BY <4>4, Types, BlockFacts, HeldTypes DEF BlockCarries
        <4>7. Associate(a, filled[1], y)
          BY <4>6, Concat
        <4> QED BY <4>1, <4>5, <4>7 DEF Associate
      <3>4. Line' = Line \o <<hand[c]>>
        BY <2>2, <3>2, <3>3, OneGood, LineSent
      <3>5. Passes(c)
        BY <2>1, <2>2, <3>4 DEF Passes
      <3> QED BY <1>1, <2>2, <2>5, <3>5 DEF DecoderEffect
    <2> QED BY <2>3, <2>4
  <1> QED BY <1>3, <1>4, <1>5, <1>6, <1>7 DEF Decoder

-----------------------------------------------------------------------------
(***************************************************************************)
(* The decoders' counters stay in step with their surfaces.                *)
(***************************************************************************)

(* The packets of the other channels weigh nothing.                          *)
Own(w, d) == Weighs(w) /\ \A p \in GoodPackets : p.chan # d => w[p] = 0

LEMMA DecoderCounts ==
  ASSUME TInv, NEW c \in Channels, DecoderEffect(c), NEW d \in Channels, NEW w, Own(w, d)
  PROVE  /\ Line' \in Seq(GoodPackets) /\ lost' \in Seq(GoodPackets)
         /\ Idles(c) => Count(w, Everything(d)') = Count(w, Everything(d))
         /\ Packs(c) => Count(w, Everything(d)') = Count(w, Everything(d)) + (IF d = c THEN Weight(w, hand'[c]) ELSE 0)
         /\ Scales(c) => Count(w, Everything(d)') =
                           Count(w, Everything(d)) + (IF d = c THEN w[hand'[c]] - w[hand[c]] ELSE 0)
         /\ Loses(c) => Count(w, Everything(d)') = Count(w, Everything(d))
         /\ Passes(c) => \/ Count(w, Everything(d)') = Count(w, Everything(d))
                         \/ stops # 0 /\ Count(w, Everything(d)') <= Count(w, Everything(d))
         /\ Count(w, Everything(d)) \in Nat
         /\ Count(w, Everything(d)') \in Nat
  <1>1. /\ Line \in Seq(GoodPackets) /\ lost \in Seq(GoodPackets) /\ hand[d] \in GoodPackets \union {NoFrame}
        /\ Weighs(w) /\ app' = app
    BY LineTypes, Types, DecoderFacts DEF Own, DecoderEffect
  <1>2. pc[c] \in {"vpp", "enqueue", "last"} =>
          hand[c] \in GoodPackets /\ hand[c] # NoFrame /\ (d # c => w[hand[c]] = 0) /\ w[hand[c]] \in Nat
    BY DecoderFacts DEF Own, Weighs
  <1>3. d # c => hand'[d] = hand[d]
    BY DecoderFacts DEF DecoderEffect, Only
  <1>4. PICK l \in Nat, h \in Nat, k \in Nat :
          l = Count(w, Line) /\ h = Weight(w, hand[d]) /\ k = Count(w, lost) /\ Count(w, Everything(d)) = l + h + k
    BY <1>1, EverythingCounts
  <1>5. ASSUME Line' \in Seq(GoodPackets), lost' \in Seq(GoodPackets), hand'[d] \in GoodPackets \union {NoFrame}
        PROVE  /\ Count(w, Everything(d)') = Count(w, Line') + Weight(w, hand'[d]) + Count(w, lost')
               /\ Count(w, Line') \in Nat /\ Weight(w, hand'[d]) \in Nat /\ Count(w, lost') \in Nat
    BY <1>1, <1>5, EverythingBecomes
  <1>6. ASSUME NEW t \in Seq(GoodPackets), pc[c] \in {"vpp", "enqueue", "last"}
        PROVE  Count(w, t \o <<hand[c]>>) = Count(w, t) + w[hand[c]] /\ t \o <<hand[c]>> \in Seq(GoodPackets)
    <2>1. PICK y \in Seq(GoodPackets) : y = <<hand[c]>>
      BY <1>2, <1>6, OneGood
    <2>2. \A p \in GoodPackets : w[p] \in Nat
      BY <1>1 DEF Weighs
    <2>3. Count(w, t \o y) = Count(w, t) + Count(w, y) /\ t \o y \in Seq(GoodPackets)
      BY <2>2, CountOfBoth, Concat
    <2> QED BY <1>1, <1>2, <1>6, <2>1, <2>3, PacketCount
  <1>7. ASSUME Idles(c)
        PROVE  /\ Line' \in Seq(GoodPackets) /\ lost' \in Seq(GoodPackets)
               /\ Count(w, Everything(d)') = Count(w, Everything(d))
    BY <1>1, <1>3, <1>4, <1>5, <1>7 DEF Idles
  <1>8. ASSUME Packs(c)
        PROVE  /\ Line' \in Seq(GoodPackets) /\ lost' \in Seq(GoodPackets) /\ Count(w, Everything(d)') \in Nat
               /\ Count(w, Everything(d)') = Count(w, Everything(d)) + (IF d = c THEN Weight(w, hand'[c]) ELSE 0)
    <2>1. PICK dec \in {0, 1} : pc[c] = "dequeue" /\ hand[c] = NoFrame /\ hand'[c] = New(c, dec) /\ Line' = Line /\ lost' = lost
      BY <1>8, DecoderFacts DEF Packs
    <2>2. New(c, dec) \in GoodPackets
      BY <2>1, NewPacket
    <2>3. hand'[d] \in GoodPackets \union {NoFrame}
      BY <1>1, <1>3, <2>1, <2>2
    <2>4. Count(w, Everything(d)') = l + Weight(w, hand'[d]) + k /\ Weight(w, hand'[d]) \in Nat
      BY <1>1, <1>4, <1>5, <2>1, <2>3
    <2>5. d = c => h = 0
      BY <1>4, <2>1 DEF Weight
    <2>6. CASE d = c
      <3>1. PICK i \in Nat : i = Weight(w, hand'[c])
        BY <2>4, <2>6
      <3>2. l + i + k = l + 0 + k + i
        OBVIOUS
      <3>3. Count(w, Everything(d)') = l + i + k /\ Count(w, Everything(d)) = l + 0 + k
        BY <1>4, <2>4, <2>5, <2>6, <3>1
      <3> QED BY <1>1, <2>1, <2>6, <3>1, <3>2, <3>3
    <2>7. CASE d # c
      BY <1>1, <1>3, <1>4, <2>1, <2>4, <2>7
    <2> QED BY <2>6, <2>7
  <1>9. ASSUME Scales(c)
        PROVE  /\ Line' \in Seq(GoodPackets) /\ lost' \in Seq(GoodPackets) /\ Count(w, Everything(d)') \in Nat
               /\ Count(w, Everything(d)') = Count(w, Everything(d)) + (IF d = c THEN w[hand'[c]] - w[hand[c]] ELSE 0)
    <2>1. pc[c] = "vpp" /\ hand'[c] = [hand[c] EXCEPT !.vp = 1] /\ Line' = Line /\ lost' = lost
      BY <1>9 DEF Scales
    <2>2. hand'[c] \in GoodPackets /\ hand'[c] # NoFrame
      BY <1>1, <1>2, <2>1, Types, PacketChanges, PacketFacts
    <2>3. hand'[d] \in GoodPackets \union {NoFrame}
      BY <1>1, <1>3, <2>1, <2>2
    <2>4. Count(w, Everything(d)') = l + Weight(w, hand'[d]) + k /\ Weight(w, hand'[d]) \in Nat
      BY <1>1, <1>4, <1>5, <2>1, <2>3
    <2>5. CASE d = c
      <3>1. h = w[hand[c]] /\ Weight(w, hand'[d]) = w[hand'[c]]
        BY <1>2, <1>4, <2>1, <2>2, <2>5 DEF Weight
      <3>2. PICK i \in Nat : i = w[hand'[c]]
        BY <2>4, <3>1
      <3>3. l + i + k = l + h + k + (i - h)
        OBVIOUS
      <3>4. Count(w, Everything(d)') = l + i + k
        BY <2>4, <3>1, <3>2
      <3> QED BY <1>1, <1>4, <2>1, <2>5, <3>1, <3>2, <3>3, <3>4
    <2>6. CASE d # c
      BY <1>1, <1>3, <1>4, <2>1, <2>4, <2>6
    <2> QED BY <2>5, <2>6
  <1>10. ASSUME Loses(c)
         PROVE  /\ Line' \in Seq(GoodPackets) /\ lost' \in Seq(GoodPackets)
                /\ Count(w, Everything(d)') = Count(w, Everything(d))
    <2>1. pc[c] = "vpp" /\ hand'[c] = NoFrame /\ Line' = Line /\ lost' = lost \o <<hand[c]>>
      BY <1>10 DEF Loses
    <2>2. lost' \in Seq(GoodPackets) /\ Count(w, lost') = k + w[hand[c]]
      BY <1>1, <1>4, <1>6, <2>1
    <2>3. hand'[d] \in GoodPackets \union {NoFrame}
      BY <1>1, <1>3, <2>1
    <2>4. Count(w, Everything(d)') = l + Weight(w, hand'[d]) + (k + w[hand[c]])
      BY <1>1, <1>4, <1>5, <2>1, <2>2, <2>3
    <2>5. CASE d = c
      <3>1. Weight(w, hand'[d]) = 0 /\ h = w[hand[c]]
        BY <1>2, <1>4, <2>1, <2>5 DEF Weight
      <3> QED BY <1>1, <1>4, <2>1, <2>2, <2>4, <3>1
    <2>6. CASE d # c
      <3>1. Weight(w, hand'[d]) = h /\ w[hand[c]] = 0
        BY <1>2, <1>3, <1>4, <2>1, <2>6
      <3> QED BY <1>1, <1>4, <2>1, <2>2, <2>4, <3>1
    <2> QED BY <2>5, <2>6
  <1>11. ASSUME Passes(c)
         PROVE  /\ Line' \in Seq(GoodPackets) /\ lost' \in Seq(GoodPackets) /\ Count(w, Everything(d)') \in Nat
                /\ \/ Count(w, Everything(d)') = Count(w, Everything(d))
                   \/ stops # 0 /\ Count(w, Everything(d)') <= Count(w, Everything(d))
    <2>1. pc[c] \in {"vpp", "enqueue", "last"} /\ hand'[c] = NoFrame /\ lost' = lost
      BY <1>11 DEF Passes
    <2>2. hand'[d] \in GoodPackets \union {NoFrame}
      BY <1>1, <1>3, <2>1
    <2>3. Weight(w, hand'[d]) = (IF d = c THEN 0 ELSE h) /\ h = (IF d = c THEN w[hand[c]] ELSE h)
      BY <1>2, <1>3, <1>4, <2>1 DEF Weight
    <2>4. CASE Line' = Line \o <<hand[c]>>
      <3>1. Line' \in Seq(GoodPackets) /\ Count(w, Line') = l + w[hand[c]]
        BY <1>1, <1>4, <1>6, <2>1, <2>4
      <3>2. Count(w, Everything(d)') = l + w[hand[c]] + Weight(w, hand'[d]) + k
        BY <1>1, <1>4, <1>5, <2>1, <2>2, <3>1
      <3>3. d # c => w[hand[c]] = 0
        BY <1>2, <2>1
      <3>4. Count(w, Everything(d)') = l + h + k
        BY <1>2, <2>1, <2>3, <3>2, <3>3
      <3> QED BY <1>1, <1>4, <2>1, <3>1, <3>4
    <2>5. CASE Line' = Line /\ stops # 0
      <3>1. Count(w, Everything(d)') = l + Weight(w, hand'[d]) + k
        BY <1>1, <1>4, <1>5, <2>1, <2>2, <2>5
      <3> QED BY <1>1, <1>4, <2>1, <2>3, <2>5, <3>1
    <2> QED BY <1>11, <2>4, <2>5 DEF Passes
  <1> QED BY <1>4, <1>7, <1>8, <1>9, <1>10, <1>11, SMTT(30) DEF DecoderEffect

-----------------------------------------------------------------------------
(***************************************************************************)
(* Every surface is accounted for.                                         *)
(***************************************************************************)

SurfacesInv ==
  /\ \A d \in Channels : /\ decUsed[d] >= Count(DecSurfaces(d), Everything(d))
                         /\ vpUsed[d] >= Count(VpSurfaces(d), Everything(d))
  /\ cropUsed >= Count(CropSurfaces, Line)
  /\ SurfacesConserved

AllInStep ==
  /\ \A d \in Channels :
       /\ InStep(decUsed[d], Count(DecSurfaces(d), Everything(d)), decUsed'[d], Count(DecSurfaces(d), Everything(d)'))
       /\ InStep(vpUsed[d], Count(VpSurfaces(d), Everything(d)), vpUsed'[d], Count(VpSurfaces(d), Everything(d)'))
       /\ Count(DecSurfaces(d), Everything(d)') \in Nat /\ Count(VpSurfaces(d), Everything(d)') \in Nat
  /\ InStep(cropUsed, Count(CropSurfaces, Line), cropUsed', Count(CropSurfaces, Line'))
  /\ Count(CropSurfaces, Line') \in Nat

LEMMA SurfacesStep ==
  ASSUME TInv, TInv', SurfacesInv, AllInStep, app' = app, stops' \in Nat, stops' >= stops
  PROVE  SurfacesInv'
  <1>1. ASSUME NEW u \in Int, NEW n \in Int, NEW v \in Int, NEW m \in Int, InStep(u, n, v, m), u >= n, stops = 0 => u = n
        PROVE  v >= m /\ (stops' = 0 => v = m)
    <2>1. stops \in Nat
      BY SomeStopped
    <2>2. v - m >= u - n /\ (stops = 0 => v - m = u - n)
      BY <1>1 DEF InStep
    <2>3. stops' = 0 => stops = 0
      BY <2>1
    <2> QED BY <1>1, <2>2, <2>3
  <1>2. ASSUME NEW d \in Channels
        PROVE  /\ decUsed'[d] >= Count(DecSurfaces(d), Everything(d)')
               /\ vpUsed'[d] >= Count(VpSurfaces(d), Everything(d)')
               /\ stops' = 0 => decUsed'[d] = Count(DecSurfaces(d), Everything(d)')
               /\ stops' = 0 => vpUsed'[d] = Count(VpSurfaces(d), Everything(d)')
    <2>1. decUsed[d] \in Int /\ vpUsed[d] \in Int
      BY Types
    <2>2. decUsed'[d] \in Int /\ vpUsed'[d] \in Int
      BY SameApp DEF TInv, CountersOK
    <2>3. Count(DecSurfaces(d), Everything(d)) \in Int /\ Count(VpSurfaces(d), Everything(d)) \in Int
      <3>1. Weighs(DecSurfaces(d)) /\ Weighs(VpSurfaces(d))
        BY SurfaceWeights
      <3>2. ASSUME NEW w, Weighs(w) PROVE Count(w, Everything(d)) \in Int
        BY <3>2, EverythingCounts
      <3> QED BY <3>1, <3>2
    <2>4. Count(DecSurfaces(d), Everything(d)') \in Int /\ Count(VpSurfaces(d), Everything(d)') \in Int
      BY DEF AllInStep
    <2>5. /\ InStep(decUsed[d], Count(DecSurfaces(d), Everything(d)), decUsed'[d], Count(DecSurfaces(d), Everything(d)'))
          /\ InStep(vpUsed[d], Count(VpSurfaces(d), Everything(d)), vpUsed'[d], Count(VpSurfaces(d), Everything(d)'))
      BY DEF AllInStep
    <2>6. /\ decUsed[d] >= Count(DecSurfaces(d), Everything(d)) /\ vpUsed[d] >= Count(VpSurfaces(d), Everything(d))
          /\ stops = 0 => decUsed[d] = Count(DecSurfaces(d), Everything(d))
          /\ stops = 0 => vpUsed[d] = Count(VpSurfaces(d), Everything(d))
      BY DEF SurfacesInv, SurfacesConserved
    <2> QED BY <1>1, <2>1, <2>2, <2>3, <2>4, <2>5, <2>6
  <1>3. cropUsed' >= Count(CropSurfaces, Line') /\ (stops' = 0 => cropUsed' = Count(CropSurfaces, Line'))
    <2>1. cropUsed \in Int /\ cropUsed' \in Int /\ Count(CropSurfaces, Line') \in Int
      BY Types DEF TInv, CountersOK, AllInStep
    <2>2. Count(CropSurfaces, Line) \in Int
      <3>1. PICK d \in Channels : TRUE
        BY Types, AppFacts DEF Channels
      <3> QED BY <3>1, SurfaceWeights, EverythingCounts
    <2>3. InStep(cropUsed, Count(CropSurfaces, Line), cropUsed', Count(CropSurfaces, Line'))
      BY DEF AllInStep
    <2>4. cropUsed >= Count(CropSurfaces, Line) /\ (stops = 0 => cropUsed = Count(CropSurfaces, Line))
      BY DEF SurfacesInv, SurfacesConserved
    <2> QED BY <1>1, <2>1, <2>2, <2>3, <2>4
  <1>4. Channels' = Channels /\ \A d : DecSurfaces(d)' = DecSurfaces(d) /\ VpSurfaces(d)' = VpSurfaces(d)
    BY SameApp DEF DecSurfaces, VpSurfaces, Packets
  <1>5. CropSurfaces' = CropSurfaces
    BY DEF CropSurfaces, Packets
  <1>6. ASSUME NEW d \in Channels'
        PROVE  /\ Count(DecSurfaces(d), Everything(d))' = Count(DecSurfaces(d), Everything(d)')
               /\ Count(VpSurfaces(d), Everything(d))' = Count(VpSurfaces(d), Everything(d)')
    BY <1>4 DEF Count
  <1>7. Count(CropSurfaces, Line)' = Count(CropSurfaces, Line')
    BY <1>5 DEF Count
  <1> QED BY <1>2, <1>3, <1>4, <1>6, <1>7 DEF SurfacesInv, SurfacesConserved

-----------------------------------------------------------------------------
(***************************************************************************)
(* The blocks and the decoders stay in step.                               *)
(***************************************************************************)

LEMMA SameInStep ==
  ASSUME NEW u \in Int, NEW n \in Int
  PROVE  InStep(u, n, u, n)
  BY DEF InStep

LEMMA CropsCounted ==
  ASSUME TInv
  PROVE  Weighs(CropSurfaces) /\ Count(CropSurfaces, Line) \in Nat
  <1>1. PICK d \in Channels : TRUE
    BY Types, AppFacts DEF Channels
  <1> QED BY <1>1, SurfaceWeights, EverythingCounts

LEMMA BlockInStep ==
  ASSUME TInv, TInv', NEW s \in Blocks, BlockStepOf(s)
  PROVE  AllInStep
  <1>1. LineInStep
    BY BlockEffect, EffectInStep
  <1>2. app' = app /\ lost' = lost /\ Only(hand, hand', BlockOf(s))
    BY BlockMoves
  <1>3. Line' \in Seq(GoodPackets) /\ lost' \in Seq(GoodPackets)
    BY <1>1, <1>2, Types DEF LineInStep
  <1>4. ASSUME NEW d \in Channels, NEW w, Weighs(w), NEW u \in Int, NEW v \in Int,
               InStep(u, Count(w, Line), v, Count(w, Line'))
        PROVE  InStep(u, Count(w, Everything(d)), v, Count(w, Everything(d)')) /\ Count(w, Everything(d)') \in Nat
    <2>1. hand'[d] = hand[d]
      BY <1>2, Types, ThreadFacts DEF Only
    <2>2. hand[d] \in GoodPackets \union {NoFrame}
      BY DecoderFacts
    <2>3. /\ Count(w, Everything(d)') = Count(w, Line') + Weight(w, hand[d]) + Count(w, lost)
          /\ Count(w, Line') \in Nat
      BY <1>2, <1>3, <1>4, <2>1, <2>2, EverythingBecomes
    <2>4. PICK l \in Nat, m \in Nat, h \in Nat, k \in Nat :
            l = Count(w, Line) /\ m = Count(w, Line') /\ h = Weight(w, hand[d]) /\ k = Count(w, lost)
      BY <1>4, <2>3, EverythingCounts
    <2>5. Count(w, Everything(d)) = l + h + k /\ Count(w, Everything(d)') = m + h + k
      BY <1>4, <2>3, <2>4, EverythingCounts
    <2>6. v - m >= u - l /\ (stops = 0 => v - m = u - l)
      BY <1>4, <2>4 DEF InStep
    <2>7. v - (m + h + k) >= u - (l + h + k) /\ (stops = 0 => v - (m + h + k) = u - (l + h + k))
      BY <1>4, <2>6
    <2> QED BY <2>5, <2>7 DEF InStep
  <1>5. ASSUME NEW d \in Channels
        PROVE  /\ InStep(decUsed[d], Count(DecSurfaces(d), Everything(d)), decUsed'[d], Count(DecSurfaces(d), Everything(d)'))
               /\ InStep(vpUsed[d], Count(VpSurfaces(d), Everything(d)), vpUsed'[d], Count(VpSurfaces(d), Everything(d)'))
               /\ Count(DecSurfaces(d), Everything(d)') \in Nat /\ Count(VpSurfaces(d), Everything(d)') \in Nat
    <2>1. decUsed[d] \in Int /\ vpUsed[d] \in Int /\ decUsed'[d] \in Int /\ vpUsed'[d] \in Int
      BY <1>2, Types, SameApp DEF TInv, CountersOK
    <2>2. Weighs(DecSurfaces(d)) /\ Weighs(VpSurfaces(d))
      BY SurfaceWeights
    <2> QED BY <1>1, <1>4, <2>1, <2>2 DEF LineInStep
  <1>6. Count(CropSurfaces, Line') \in Nat
    <2>1. \A p \in GoodPackets : CropSurfaces[p] \in Nat
      BY CropsCounted DEF Weighs
    <2> QED BY <1>3, <2>1, CountOfBoth
  <1> QED BY <1>1, <1>5, <1>6 DEF AllInStep, LineInStep

LEMMA DecoderInStep ==
  ASSUME TInv, TInv', NEW c \in Channels, Decoder(c)
  PROVE  AllInStep
  <1>1. DecoderEffect(c) /\ Carries(c, pc[c], hand[c], decoded[c])
    BY DecoderDoes, DecoderFacts
  <1>2. app' = app /\ cropUsed' = cropUsed
    BY <1>1 DEF DecoderEffect
  <1>3. ASSUME NEW d \in Channels
        PROVE  /\ Own(DecSurfaces(d), d) /\ Own(VpSurfaces(d), d)
               /\ \A p \in GoodPackets : DecSurfaces(d)[p] = (IF d = p.chan THEN p.dec ELSE 0)
               /\ \A p \in GoodPackets : VpSurfaces(d)[p] = (IF d = p.chan THEN p.vp ELSE 0)
    BY SurfaceWeights DEF Own
  <1>4. ASSUME NEW d \in Channels
        PROVE  /\ InStep(decUsed[d], Count(DecSurfaces(d), Everything(d)), decUsed'[d], Count(DecSurfaces(d), Everything(d)'))
               /\ InStep(vpUsed[d], Count(VpSurfaces(d), Everything(d)), vpUsed'[d], Count(VpSurfaces(d), Everything(d)'))
               /\ Count(DecSurfaces(d), Everything(d)') \in Nat /\ Count(VpSurfaces(d), Everything(d)') \in Nat
    <2>1. decUsed[d] \in Int /\ vpUsed[d] \in Int
      BY Types
    <2>2. PICK n \in Nat, m \in Nat, i \in Nat, j \in Nat :
            /\ n = Count(DecSurfaces(d), Everything(d)) /\ m = Count(VpSurfaces(d), Everything(d))
            /\ i = Count(DecSurfaces(d), Everything(d)') /\ j = Count(VpSurfaces(d), Everything(d)')
      <3>1. Count(DecSurfaces(d), Everything(d)) \in Nat /\ Count(DecSurfaces(d), Everything(d)') \in Nat
        BY <1>1, <1>3, DecoderCounts
      <3>2. Count(VpSurfaces(d), Everything(d)) \in Nat /\ Count(VpSurfaces(d), Everything(d)') \in Nat
        BY <1>1, <1>3, DecoderCounts
      <3> QED BY <3>1, <3>2
    <2>3. ASSUME UNCHANGED pools, i = n \/ (stops # 0 /\ i <= n), j = m \/ (stops # 0 /\ j <= m)
          PROVE  InStep(decUsed[d], n, decUsed'[d], i) /\ InStep(vpUsed[d], m, vpUsed'[d], j)
      <3>1. decUsed'[d] = decUsed[d] /\ vpUsed'[d] = vpUsed[d]
        BY <2>3 DEF pools
      <3>2. PICK a \in Int, b \in Int : a = decUsed[d] /\ b = vpUsed[d]
        BY <2>1
      <3>3. a - i >= a - n /\ (stops = 0 => a - i = a - n) /\ b - j >= b - m /\ (stops = 0 => b - j = b - m)
        BY <2>3
      <3> QED BY <3>1, <3>2, <3>3 DEF InStep
    <2>4. CASE Idles(c)
      <3>1. i = n
        BY <1>1, <1>3, <2>2, <2>4, DecoderCounts
      <3>2. j = m
        BY <1>1, <1>3, <2>2, <2>4, DecoderCounts
      <3>3. UNCHANGED pools
        BY <2>4 DEF Idles
      <3> QED BY <2>2, <2>3, <3>1, <3>2, <3>3
    <2>5. CASE Loses(c)
      <3>1. i = n
        BY <1>1, <1>3, <2>2, <2>5, DecoderCounts
      <3>2. j = m
        BY <1>1, <1>3, <2>2, <2>5, DecoderCounts
      <3>3. UNCHANGED pools
        BY <2>5 DEF Loses
      <3> QED BY <2>2, <2>3, <3>1, <3>2, <3>3
    <2>6. CASE Passes(c)
      <3>1. i = n \/ (stops # 0 /\ i <= n)
        BY <1>1, <1>3, <2>2, <2>6, DecoderCounts
      <3>2. j = m \/ (stops # 0 /\ j <= m)
        BY <1>1, <1>3, <2>2, <2>6, DecoderCounts
      <3>3. UNCHANGED pools
        BY <2>6 DEF Passes
      <3> QED BY <2>2, <2>3, <3>1, <3>2, <3>3
    <2>7. CASE Packs(c)
      <3>1. PICK dec \in {0, 1} : /\ pc[c] = "dequeue" /\ hand'[c] = New(c, dec)
                                  /\ decUsed' = [decUsed EXCEPT ![c] = @ + dec] /\ vpUsed' = vpUsed
        BY <2>7, DecoderFacts DEF Packs
      <3>2. New(c, dec) \in GoodPackets /\ New(c, dec) # NoFrame /\ New(c, dec).chan = c /\ New(c, dec).dec = dec /\ New(c, dec).vp = 0
        BY <3>1, NewPacket
      <3>3. PICK e \in {0, 1} : e = (IF d = c THEN dec ELSE 0)
        OBVIOUS
      <3>4. d = c => Weight(DecSurfaces(d), hand'[c]) = dec /\ Weight(VpSurfaces(d), hand'[c]) = 0
        BY <1>3, <3>1, <3>2 DEF Weight
      <3>5. i = n + e
        <4>1. i = n + (IF d = c THEN Weight(DecSurfaces(d), hand'[c]) ELSE 0)
          BY <1>1, <1>3, <2>2, <2>7, DecoderCounts
        <4> QED BY <3>3, <3>4, <4>1
      <3>6. j = m
        <4>1. j = m + (IF d = c THEN Weight(VpSurfaces(d), hand'[c]) ELSE 0)
          BY <1>1, <1>3, <2>2, <2>7, DecoderCounts
        <4> QED BY <3>4, <4>1
      <3>7. decUsed'[d] = decUsed[d] + e /\ vpUsed'[d] = vpUsed[d]
        BY <2>1, <3>1, <3>3, DecoderFacts, Types, SMTT(30)
      <3>8. PICK a \in Int, b \in Int : a = decUsed[d] /\ b = vpUsed[d]
        BY <2>1
      <3>9. a + e - (n + e) = a - n /\ b - m = b - m
        OBVIOUS
      <3>10. InStep(a, n, a + e, n + e) /\ InStep(b, m, b, m)
        BY <3>9 DEF InStep
      <3> QED BY <2>2, <3>5, <3>6, <3>7, <3>8, <3>10
    <2>8. CASE Scales(c)
      <3>1. /\ pc[c] = "vpp" /\ hand'[c] = [hand[c] EXCEPT !.vp = 1]
            /\ vpUsed' = [vpUsed EXCEPT ![c] = @ + 1] /\ decUsed' = decUsed
        BY <2>8 DEF Scales
      <3>2. PICK p \in GoodPackets, q \in GoodPackets :
              p = hand[c] /\ q = hand'[c] /\ p.chan = c /\ q.chan = c /\ q.dec = p.dec /\ p.vp = 0 /\ q.vp = 1
        <4>1. hand[c] \in GoodPackets /\ hand[c].chan = c /\ hand[c].vp = 0
          BY <1>1, <3>1, DecoderFacts DEF Carries
        <4>2. hand'[c] \in GoodPackets
          BY <3>1, <4>1, Types, PacketChanges
        <4>3. hand'[c].chan = c /\ hand'[c].dec = hand[c].dec /\ hand'[c].vp = 1
          BY <3>1, <4>1 DEF GoodPackets, Packets
        <4> QED BY <4>1, <4>2, <4>3
      <3>3. PICK e \in {0, 1} : e = (IF d = c THEN 1 ELSE 0)
        OBVIOUS
      <3>5. i = n
        <4>1. i = n + (IF d = c THEN DecSurfaces(d)[q] - DecSurfaces(d)[p] ELSE 0)
          BY <1>1, <1>3, <2>2, <2>8, <3>2, DecoderCounts
        <4>2. p.dec \in Nat /\ (d = c => DecSurfaces(d)[q] = p.dec /\ DecSurfaces(d)[p] = p.dec)
          BY <1>3, <3>2, PacketNumbers
        <4> QED BY <4>1, <4>2
      <3>6. j = m + e
        <4>1. j = m + (IF d = c THEN VpSurfaces(d)[q] - VpSurfaces(d)[p] ELSE 0)
          BY <1>1, <1>3, <2>2, <2>8, <3>2, DecoderCounts
        <4>2. d = c => VpSurfaces(d)[q] = 1 /\ VpSurfaces(d)[p] = 0
          BY <1>3, <3>2
        <4> QED BY <3>3, <4>1, <4>2
      <3>7. vpUsed'[d] = vpUsed[d] + e /\ decUsed'[d] = decUsed[d]
        BY <2>1, <3>1, <3>3, DecoderFacts, Types, SMTT(30)
      <3>8. PICK a \in Int, b \in Int : a = decUsed[d] /\ b = vpUsed[d]
        BY <2>1
      <3>9. b + e - (m + e) = b - m /\ a - n = a - n
        OBVIOUS
      <3>10. InStep(b, m, b + e, m + e) /\ InStep(a, n, a, n)
        BY <3>9 DEF InStep
      <3> QED BY <2>2, <3>5, <3>6, <3>7, <3>8, <3>10
    <2> QED BY <1>1, <2>4, <2>5, <2>6, <2>7, <2>8 DEF DecoderEffect
  <1>5. Count(CropSurfaces, Line') = Count(CropSurfaces, Line)
    <2>1. CASE Line' = Line
      BY <2>1
    <2>2. CASE pc[c] \in {"enqueue", "last"} /\ Line' = Line \o <<hand[c]>>
      <3>1. hand[c] \in GoodPackets /\ hand[c].crops = 0
        BY <1>1, <2>2, DecoderFacts DEF Carries
      <3>2. Weighs(CropSurfaces) /\ CropSurfaces[hand[c]] = 0
        BY <3>1, CropsCounted, SurfaceWeights
      <3>3. PICK y \in Seq(GoodPackets) : y = <<hand[c]>>
        BY <3>1, OneGood
      <3>4. Count(CropSurfaces, Line \o y) = Count(CropSurfaces, Line) + Count(CropSurfaces, y)
        BY <3>2, LineTypes, CountOfBoth DEF Weighs
      <3> QED BY <2>2, <3>1, <3>2, <3>3, <3>4, PacketCount, CropsCounted
    <2> QED BY <1>1, <2>1, <2>2 DEF DecoderEffect, Idles, Packs, Scales, Loses, Passes
  <1>6. InStep(cropUsed, Count(CropSurfaces, Line), cropUsed', Count(CropSurfaces, Line'))
    BY <1>2, <1>5, CropsCounted, Types, SameInStep
  <1> QED BY <1>4, <1>5, <1>6, CropsCounted DEF AllInStep

LEMMA IdleInStep ==
  ASSUME TInv, UNCHANGED <<app, pc, hand, decoded, pools, todo, pipes, stage, image, delivered, lost>>
  PROVE  AllInStep
  <1>1. app' = app /\ hand' = hand /\ filled' = filled /\ inside' = inside /\ lost' = lost
        /\ decUsed' = decUsed /\ vpUsed' = vpUsed /\ cropUsed' = cropUsed
    BY DEF pools, pipes, stage
  <1>2. Line' = Line
    BY <1>1, LeavesOthers, LineSame
  <1>3. \A d \in Channels : Everything(d)' = Everything(d)
    BY <1>1, <1>2 DEF Everything, Held, NoFrame
  <1>4. ASSUME NEW d \in Channels
        PROVE  /\ Count(DecSurfaces(d), Everything(d)) \in Nat /\ Count(VpSurfaces(d), Everything(d)) \in Nat
               /\ decUsed[d] \in Int /\ vpUsed[d] \in Int
    <2>1. Weighs(DecSurfaces(d)) /\ Weighs(VpSurfaces(d))
      BY SurfaceWeights
    <2>2. ASSUME NEW w, Weighs(w) PROVE Count(w, Everything(d)) \in Nat
      BY <2>2, EverythingCounts
    <2> QED BY <2>1, <2>2, Types
  <1> QED BY <1>1, <1>2, <1>3, <1>4, SameInStep, CropsCounted, Types DEF AllInStep

-----------------------------------------------------------------------------
(***************************************************************************)
(* The limits of the pools, the proof of SurfacesConserved, and the type   *)
(* invariant.                                                              *)
(***************************************************************************)

(* A decoder that has decoded a frame still has the surface for it.          *)
LimitsOK ==
  /\ \A c \in Channels : /\ ~app.vpl => decUsed[c] <= app.surfaces /\ (pc[c] = "dequeue" => decUsed[c] < app.surfaces)
                         /\ vpUsed[c] <= app.surfaces
  /\ cropUsed <= CropBuffers

LEMMA EffectLimits ==
  ASSUME TInv, LimitsOK, Effect
  PROVE  /\ \A c \in Channels : decUsed'[c] <= decUsed[c] /\ vpUsed'[c] <= vpUsed[c]
         /\ cropUsed' <= CropBuffers
  <1>1. cropUsed \in Int /\ CropBuffers \in Int /\ cropUsed <= CropBuffers
    BY Types, SizeAssumption DEF LimitsOK, SizeAssumption
  <1>2. \A c \in Channels : decUsed[c] \in Int /\ vpUsed[c] \in Int
    BY Types
  <1>3. ASSUME NEW p \in GoodPackets, NEW dec \in Nat, NEW vp \in Nat, NEW crops, Frees(p.chan, dec, vp, crops)
        PROVE  \A c \in Channels : decUsed'[c] <= decUsed[c] /\ vpUsed'[c] <= vpUsed[c]
    <2> SUFFICES ASSUME NEW c \in Channels PROVE decUsed'[c] <= decUsed[c] /\ vpUsed'[c] <= vpUsed[c]
      OBVIOUS
    <2>1. PICK a \in Nat, b \in Nat : a = (IF c = p.chan THEN dec ELSE 0) /\ b = (IF c = p.chan THEN vp ELSE 0)
      OBVIOUS
    <2>2. decUsed'[c] = decUsed[c] - a /\ vpUsed'[c] = vpUsed[c] - b
      BY <1>3, <2>1 DEF Frees
    <2> QED BY <1>2, <2>2
  <1>4. CASE StaysInLine
    BY <1>1, <1>2, <1>4 DEF StaysInLine, pools
  <1>5. CASE ChangesInLine
    <2>1. PICK p \in GoodPackets, q \in GoodPackets :
            /\ Follows(p, q) /\ Frees(p.chan, p.dec - q.dec, 0, p.crops - q.crops)
            /\ q.crops = p.crops \/ (cropUsed < CropBuffers /\ q.crops = p.crops + 1)
      BY <1>5 DEF ChangesInLine
    <2>2. p.dec \in Nat /\ p.crops \in Nat /\ q.dec \in Nat
      BY PacketNumbers
    <2>3. q.dec = p.dec \/ q.dec = 0
      BY <2>1 DEF Follows
    <2>4. p.dec - q.dec \in Nat
      BY <2>2, <2>3
    <2>5. \A c \in Channels : decUsed'[c] <= decUsed[c] /\ vpUsed'[c] <= vpUsed[c]
      BY <1>3, <2>1, <2>4
    <2>6. cropUsed' = cropUsed - (p.crops - q.crops)
      BY <2>1 DEF Frees
    <2>7. CASE q.crops = p.crops
      BY <1>1, <2>2, <2>5, <2>6, <2>7
    <2>8. CASE cropUsed < CropBuffers /\ q.crops = p.crops + 1
      BY <1>1, <2>2, <2>5, <2>6, <2>8
    <2> QED BY <2>1, <2>7, <2>8
  <1>6. CASE Drops
    <2>1. PICK p \in GoodPackets : \E n \in {0, p.dec} : Frees(p.chan, n, 0, 0)
      BY <1>6 DEF Drops
    <2>2. PICK n \in {0, p.dec} : Frees(p.chan, n, 0, 0)
      BY <2>1
    <2>3. n \in Nat
      BY PacketNumbers
    <2>4. cropUsed' = cropUsed - 0
      BY <2>2 DEF Frees
    <2>5. \A c \in Channels : decUsed'[c] <= decUsed[c] /\ vpUsed'[c] <= vpUsed[c]
      BY <1>3, <2>2, <2>3
    <2> QED BY <1>1, <2>4, <2>5
  <1>7. CASE Delivers
    <2>1. PICK p \in GoodPackets : Frees(p.chan, p.dec, p.vp, p.crops)
      BY <1>7 DEF Delivers
    <2>2. p.dec \in Nat /\ p.vp \in Nat /\ p.crops \in Nat
      BY PacketNumbers
    <2> QED BY <1>1, <1>3, <2>1, <2>2 DEF Frees
  <1> QED BY <1>4, <1>5, <1>6, <1>7 DEF Effect

LEMMA Decoder_Limits ==
  ASSUME TInv, LimitsOK, NEW c \in Channels, Decoder(c)
  PROVE  LimitsOK'
  <1>1. DecoderEffect(c)
    BY DecoderDoes
  <1>2. app' = app /\ cropUsed' = cropUsed /\ Only(pc, pc', c)
    BY <1>1, DecoderMoves DEF DecoderEffect
  <1>3. decUsed[c] \in Int /\ vpUsed[c] \in Int /\ app.surfaces \in Nat /\ app.dec \in {0, 1}
        /\ c \in DOMAIN pc /\ decUsed \in [Channels -> Int] /\ vpUsed \in [Channels -> Int]
    BY DecoderFacts, Types, AppFacts
  <1>4. \A d \in Channels : d # c => pc'[d] = pc[d] /\ decUsed'[d] = decUsed[d] /\ vpUsed'[d] = vpUsed[d]
    <2>1. \A d \in Channels : d # c => decUsed'[d] = decUsed[d] /\ vpUsed'[d] = vpUsed[d]
      BY <1>1, <1>3 DEF DecoderEffect, Idles, Packs, Scales, Loses, Passes, pools
    <2> QED BY <1>2, <2>1, DecoderFacts DEF Only
  <1>5. vpUsed'[c] <= app.surfaces
    <2>1. CASE vpUsed' = vpUsed
      BY <2>1 DEF LimitsOK
    <2>2. CASE vpUsed[c] < app.surfaces /\ vpUsed' = [vpUsed EXCEPT ![c] = @ + 1]
      BY <1>3, <2>2
    <2> QED BY <1>1, <2>1, <2>2 DEF DecoderEffect, Idles, Packs, Scales, Loses, Passes, pools
  <1>6. ASSUME ~app.vpl
        PROVE  decUsed'[c] <= app.surfaces /\ (pc'[c] = "dequeue" => decUsed'[c] < app.surfaces)
    <2>1. CASE DecodeFrame(c)
      <3>1. decUsed' = decUsed /\ decUsed[c] < app.surfaces
        BY <2>1 DEF DecodeFrame, pools
      <3> QED BY <1>3, <3>1
    <2>2. CASE ~DecodeFrame(c)
      <3>1. pc'[c] # "dequeue"
        <4>1. PICK label : pc' = [pc EXCEPT ![c] = label] /\ label # "dequeue"
          <5>1. CASE FillPacket(c)
            <6>1. PICK label \in {"vpp", "enqueue"} : label = IF app.vpp /\ Selected(decoded[c]) THEN "vpp" ELSE "enqueue"
              OBVIOUS
            <6>2. pc' = [pc EXCEPT ![c] = label]
              BY <5>1, <6>1 DEF FillPacket, At
            <6> QED BY <6>2
          <5>2. CASE Scale(c) \/ EndDecoding(c) \/ SendFrame(c)
            BY <5>2, Zenon DEF Scale, EndDecoding, SendFrame, At
          <5>3. CASE ScaleFails(c) \/ ScaleWantsMore(c) \/ ScaleWantsSurface(c)
            BY <5>3, Zenon DEF ScaleFails, ScaleWantsMore, ScaleWantsSurface, At
          <5> QED BY <1>6, <2>2, <5>1, <5>2, <5>3 DEF Decoder
        <4> QED BY <1>3, <4>1
      <3>2. decUsed'[c] <= app.surfaces
        <4>1. CASE decUsed' = decUsed
          BY <1>6, <4>1 DEF LimitsOK
        <4>2. CASE Packs(c)
          <5>1. PICK dec \in {0, 1} : pc[c] = "dequeue" /\ decUsed' = [decUsed EXCEPT ![c] = @ + dec]
            BY <1>3, <4>2 DEF Packs
          <5>2. decUsed[c] < app.surfaces
            BY <1>6, <5>1 DEF LimitsOK
          <5> QED BY <1>3, <5>1, <5>2
        <4> QED BY <1>1, <4>1, <4>2 DEF DecoderEffect, Idles, Scales, Loses, Passes, pools
      <3> QED BY <3>1, <3>2
    <2> QED BY <2>1, <2>2
  <1>7. ASSUME NEW d \in Channels
        PROVE  /\ ~app.vpl => decUsed'[d] <= app.surfaces /\ (pc'[d] = "dequeue" => decUsed'[d] < app.surfaces)
               /\ vpUsed'[d] <= app.surfaces
    BY <1>4, <1>5, <1>6 DEF LimitsOK
  <1> QED BY <1>2, <1>7, SameApp DEF LimitsOK

LEMMA Next_Limits ==
  ASSUME TInv, LimitsOK, [Next]_vars
  PROVE  LimitsOK'
  <1>1. ASSUME NEW s \in Blocks, BlockStepOf(s) PROVE LimitsOK'
    <2>1. app' = app /\ Only(pc, pc', BlockOf(s))
      BY <1>1, BlockMoves
    <2>2. \A c \in Channels : pc'[c] = pc[c]
      BY <2>1, Types, ThreadFacts DEF Only
    <2>3. /\ \A c \in Channels : decUsed'[c] <= decUsed[c] /\ vpUsed'[c] <= vpUsed[c]
          /\ cropUsed' <= CropBuffers
      BY <1>1, BlockEffect, EffectLimits
    <2>4. ASSUME NEW c \in Channels
          PROVE  /\ ~app.vpl => decUsed'[c] <= app.surfaces /\ (pc'[c] = "dequeue" => decUsed'[c] < app.surfaces)
                 /\ vpUsed'[c] <= app.surfaces
      <3>1. app.surfaces \in Int /\ decUsed[c] \in Int /\ vpUsed[c] \in Int
        BY Types, AppFacts
      <3>2. decUsed'[c] \in Int /\ vpUsed'[c] \in Int
        <4>1. TInv'
          BY <1>1, Next_Types DEF Next, BlockStepOf
        <4> QED BY <2>1, <4>1, SameApp DEF TInv, CountersOK
      <3> QED BY <2>2, <2>3, <3>1, <3>2 DEF LimitsOK
    <2> QED BY <2>1, <2>3, <2>4, SameApp DEF LimitsOK
  <1>2. CASE Stop \/ Join \/ UNCHANGED vars
    <2>1. UNCHANGED <<app, pc, decUsed, vpUsed, cropUsed>>
      BY <1>2 DEF Stop, Join, vars, pools
    <2> QED BY <2>1, SameApp DEF LimitsOK
  <1> QED BY <1>1, <1>2, Decoder_Limits DEF Next, BlockStepOf

LEMMA Next_Surfaces ==
  ASSUME TInv, SurfacesInv, [Next]_vars
  PROVE  SurfacesInv'
  <1>1. TInv' /\ app' = app /\ stops' \in Nat /\ stops' >= stops
    BY Next_Types, StopsGrow
  <1>2. AllInStep
    <2>1. ASSUME NEW c \in Channels, Decoder(c) PROVE AllInStep
      BY <1>1, <2>1, DecoderInStep
    <2>2. ASSUME NEW s \in Blocks, BlockStepOf(s) PROVE AllInStep
      BY <1>1, <2>2, BlockInStep
    <2>3. CASE Stop \/ Join \/ UNCHANGED vars
      BY <2>3, IdleInStep DEF Stop, Join, vars
    <2> QED BY <2>1, <2>2, <2>3 DEF Next, BlockStepOf
  <1> QED BY <1>1, <1>2, SurfacesStep

LEMMA Init_Line ==
  ASSUME Init
  PROVE  Line = <<>>
  <1>1. TInv /\ app \in Apps
    BY Init_Types DEF Init
  <1>2. \A s \in Blocks : inside[s] = <<>> /\ filled[s] = <<>> /\ hand[BlockOf(s)] = NoFrame
    BY <1>1, ThreadFacts DEF Init
  <1>3. PICK none \in Seq(GoodPackets) : none = <<>>
    BY EmptySeq
  <1>4. none \o none = none
    BY <1>3, Concat
  <1>5. \A r : Place(r) = none
    <2> SUFFICES ASSUME NEW r PROVE Place(r) = none
      OBVIOUS
    <2>1. CASE r \notin Blocks
      BY <1>3, <2>1, PlaceIs
    <2>2. CASE r \in Blocks
      <3>1. inside[r] = none /\ filled[r] = none /\ HeldIs(hand[BlockOf(r)]) = none
        BY <1>2, <1>3, <2>2 DEF HeldIs
      <3> QED BY <1>4, <2>2, <3>1, PlaceIs
    <2> QED BY <2>1, <2>2
  <1>6. Line = none
    BY <1>4, <1>5 DEF Line
  <1> QED BY <1>3, <1>6

LEMMA Init_Surfaces ==
  ASSUME Init
  PROVE  SurfacesInv /\ LimitsOK
  <1>1. TInv /\ app \in Apps
    BY Init_Types DEF Init
  <1>3. PICK none \in Seq(GoodPackets) : none = <<>>
    BY EmptySeq
  <1>4. none \o none = none
    BY <1>3, Concat
  <1>6. Line = none
    BY <1>3, Init_Line
  <1>7. ASSUME NEW w, Weighs(w)
        PROVE  Count(w, Line) = 0 /\ \A d \in Channels : Count(w, Everything(d)) = 0
    <2>1. Count(w, none) = 0
      BY <1>3, <1>7, EmptyCount DEF Weighs
    <2>2. ASSUME NEW d \in Channels PROVE Everything(d) = none
      <3>1. Held(d) = none /\ lost = none
        BY <1>1, <1>3, ThreadFacts DEF Init, Held
      <3> QED BY <1>4, <1>6, <3>1 DEF Everything
    <2> QED BY <1>6, <2>1, <2>2
  <1>8. /\ \A d \in Channels : Count(DecSurfaces(d), Everything(d)) = 0 /\ Count(VpSurfaces(d), Everything(d)) = 0
        /\ Count(CropSurfaces, Line) = 0
    BY <1>1, <1>7, SurfaceWeights, CropsCounted
  <1>9. /\ cropUsed = 0 /\ \A d \in Channels : decUsed[d] = 0 /\ vpUsed[d] = 0 /\ pc[d] = "top"
    BY <1>1, ThreadFacts DEF Init
  <1>10. app.surfaces \in Nat /\ CropBuffers \in Nat
    BY <1>1, AppFacts, SizeAssumption DEF SizeAssumption
  <1> QED BY <1>8, <1>9, <1>10 DEF SurfacesInv, SurfacesConserved, LimitsOK

(* Until the first stop the surfaces in use are exactly those that the      *)
(* packets in the line, in the hands of the decoders and among the lost     *)
(* ones hold: none is given back twice, and none is lost except with its    *)
(* packet.                                                                  *)
THEOREM SurfacesComeBack == Spec => []SurfacesConserved
  <1>1. Init => TInv /\ SurfacesInv
    BY Init_Types, Init_Surfaces
  <1>2. TInv /\ SurfacesInv /\ [Next]_vars => (TInv /\ SurfacesInv)'
    BY Next_Types, Next_Surfaces
  <1>3. TInv /\ SurfacesInv => SurfacesConserved
    BY DEF SurfacesInv
  <1> QED BY <1>1, <1>2, <1>3, PTL DEF Spec

Labels == DecoderPlaces \union {"input", "output", "crop", "send", "encode"}

LEMMA PlacesStay ==
  ASSUME TInv, pc \in [Threads -> Labels], [Next]_vars
  PROVE  (pc \in [Threads -> Labels])'
  <1>1. \/ pc' = pc
        \/ \E t, place : pc' = [pc EXCEPT ![t] = place]
    <2>1. ASSUME NEW s \in Blocks, BlockStepOf(s)
          PROVE  pc' = pc \/ \E place : pc' = [pc EXCEPT ![BlockOf(s)] = place]
      BY <2>1, BlockMoves
    <2>2. ASSUME NEW c \in Channels, Decoder(c)
          PROVE  \E place : pc' = [pc EXCEPT ![c] = place]
      BY <2>2, DecoderMoves
    <2>3. CASE Stop \/ Join \/ UNCHANGED vars
      BY <2>3 DEF Stop, Join, vars
    <2> QED BY <2>1, <2>2, <2>3, Zenon DEF Next, BlockStepOf
  <1>2. TInv' /\ app' = app
    BY Next_Types, StopsGrow
  <1>3. DOMAIN pc' = Threads /\ Threads' = Threads
    BY <1>2, SameApp DEF TInv, PlacesOK
  <1>4. \A t \in Threads : pc'[t] \in Labels
    <2>1. \A c \in Channels : pc'[c] \in Labels
      BY <1>2, SameApp DEF TInv, PlacesOK, DecoderPlaces, Labels
    <2>2. \A s \in Blocks : pc'[BlockOf(s)] \in Labels
      BY <1>2, SameApp DEF TInv, PlacesOK, OwnPlaces, DecoderPlaces, Labels
    <2> QED BY <2>1, <2>2, Types, ThreadFacts
  <1>5. pc' = [t \in Threads |-> pc'[t]]
    BY <1>1
  <1>6. pc' \in [Threads -> Labels]
    BY <1>4, <1>5
  <1> QED BY <1>3, <1>6 DEF Labels, DecoderPlaces

TypesInv == TInv /\ PacketsInv /\ SurfacesInv /\ LimitsOK /\ pc \in [Threads -> Labels]

LEMMA TypesInvTyped ==
  ASSUME TypesInv
  PROVE  TypeOK
  <1>1. TInv /\ PacketsInv /\ SurfacesInv /\ LimitsOK /\ pc \in [Threads -> Labels]
    BY DEF TypesInv
  <1>2. image \in 0 .. app.frames /\ stops \in 0 .. Cardinality(Threads) /\ joined \in 0 .. stops
    BY <1>1 DEF TInv, CountersOK, QueuesOK
  <1>3. ASSUME NEW c \in Channels
        PROVE  (~app.vpl => decUsed[c] \in 0 .. app.surfaces) /\ vpUsed[c] \in 0 .. app.surfaces
    <2>1. decUsed[c] \in Int /\ vpUsed[c] \in Int /\ app.surfaces \in Nat
      BY <1>1, Types, AppFacts
    <2>2. decUsed[c] >= 0 /\ vpUsed[c] >= 0
      <3>1. Weighs(DecSurfaces(c)) /\ Weighs(VpSurfaces(c))
        BY <1>1, SurfaceWeights
      <3>2. ASSUME NEW w, Weighs(w) PROVE Count(w, Everything(c)) \in Nat
        BY <1>1, <3>2, EverythingCounts
      <3>3. Count(DecSurfaces(c), Everything(c)) \in Nat /\ Count(VpSurfaces(c), Everything(c)) \in Nat
        BY <3>1, <3>2
      <3> QED BY <1>1, <2>1, <3>3 DEF SurfacesInv
    <2> QED BY <1>1, <2>1, <2>2 DEF LimitsOK
  <1>4. cropUsed \in 0 .. CropBuffers
    <2>1. CropBuffers \in Nat
      BY SizeAssumption DEF SizeAssumption
    <2> QED BY <1>1, <2>1, CropsCounted, Types DEF SurfacesInv, LimitsOK
  <1>5. ASSUME NEW s \in Blocks
        PROVE  free[s] \in 0 .. app.packets /\ Len(filled[s]) <= app.packets
    <2>1. PICK a \in Nat, b \in Nat, e \in Nat, f \in Nat, g \in Nat :
            /\ a = free[s] /\ b = Len(filled[s]) /\ e = Takes(s) /\ f = Fills(s)
            /\ g = (IF s = 1 THEN Len(lost) ELSE 0)
      BY <1>1, AccountTypes
    <2>2. a + b + e + f + g <= app.packets /\ app.packets \in Nat
      BY <1>1, <2>1, Types, AppFacts DEF PacketsInv, Accounted
    <2>3. a <= app.packets /\ b <= app.packets
      BY <2>2
    <2> QED BY <2>1, <2>2, <2>3
  <1>6. pc \in [Threads -> {"top", "dequeue", "vpp", "enqueue", "last", "ended", "crashed",
                            "input", "output", "crop", "send", "encode"}]
    BY <1>1 DEF Labels, DecoderPlaces
  <1> QED BY <1>2, <1>3, <1>4, <1>5, <1>6 DEF TypeOK

(* Every variable has its type, and no pool gives more than it holds.       *)
THEOREM PipelineTyped == Spec => []TypeOK
  <1>1. Init => TypesInv
    <2> SUFFICES ASSUME Init PROVE TypesInv
      OBVIOUS
    <2>1. TInv /\ PacketsInv /\ SurfacesInv /\ LimitsOK
      BY Init_Types, Init_Packets, Init_Surfaces
    <2>2. pc \in [Threads -> Labels]
      <3>1. pc = [t \in Threads |-> IF t \in Channels THEN "top" ELSE "input"]
        BY DEF Init
      <3> QED BY <3>1 DEF Labels, DecoderPlaces
    <2> QED BY <2>1, <2>2 DEF TypesInv
  <1>2. TypesInv /\ [Next]_vars => TypesInv'
    BY Next_Types, Next_Packets, Next_Surfaces, Next_Limits, PlacesStay DEF TypesInv
  <1>3. TypesInv => TypeOK
    BY TypesInvTyped
  <1> QED BY <1>1, <1>2, <1>3, PTL DEF Spec

-----------------------------------------------------------------------------
(***************************************************************************)
(* The order of the line: what a packet in it must be (Fits), and which    *)
(* frames are owed.                                                        *)
(***************************************************************************)

(* A packet whose decoder is at some place and has decoded n frames.         *)
IsPast(p, place, n) == p.frame <= n /\ (place \in Filling => p.frame < n)

IsFilled(a, p, place, n, bare) ==
  /\ a.vpl => p.dec = 1
  /\ ~a.vpl /\ p.frame % a.ratio # 0 => IsEmpty(p)
  /\ ~a.vpl /\ p.frame % a.ratio = 0 /\ ~(place = "ended" /\ p.frame = n) /\ <<p.chan, p.frame>> \notin bare
       => IF a.vpp THEN p.vp = 1 ELSE (Len(a.blocks) = 1 => p.dec = 1)

IsMissing(p, gone) == \A q \in Range(gone) : q.chan = p.chan => q.frame # p.frame

(* Sent and gone: the frames delivered, the packets lost; bare: the frames   *)
(* that were not scaled.                                                     *)
Fits(a, p, place, n, sent, gone, bare) ==
  p.frame > sent /\ IsPast(p, place, n) /\ IsMissing(p, gone) /\ IsFilled(a, p, place, n, bare)

LineInv ==
  /\ Ordered(Line)
  /\ \A p \in Range(Line) : Fits(app, p, pc[p.chan], decoded[p.chan], delivered[p.chan], lost, unscaled)
  /\ \A p \in Range(lost) : IsPast(p, pc[p.chan], decoded[p.chan])
  /\ \A c \in Channels : delivered[c] <= decoded[c] /\ (pc[c] \in Filling => delivered[c] < decoded[c])

(* What has been taken and has neither been lost nor delivered.              *)
Owed(c) ==
  {n \in 1 .. decoded[c] :
     /\ n > delivered[c] /\ Sends(n) /\ <<c, n>> \notin unscaled
     /\ \A p \in Range(lost) : p.chan = c => p.frame # n}

InTheLine(c, n) == \E p \in Range(Line) : p.chan = c /\ p.frame = n

FrameInv ==
  \A c \in Channels : \A n \in Owed(c) : n # decoded[c] \/ pc[c] = "top" => InTheLine(c, n)

OrderInv == stops = 0 => LineInv /\ (KeepsPicture => FrameInv)

(* A packet that has its picture.                                            *)
LEMMA NotEmpty ==
  ASSUME TInv, NEW p \in GoodPackets, NEW place, NEW n, NEW bare, IsFilled(app, p, place, n, bare), KeepsPicture, Sends(p.frame),
         place # "ended" \/ p.frame # n, <<p.chan, p.frame>> \notin bare
  PROVE  ~IsEmpty(p)
  <1>1. p.dec = 1 \/ p.vp = 1
    BY DEF IsFilled, KeepsPicture, Sends, Selected
  <1>2. IsEmpty(p) => p.dec = 0 /\ p.vp = 0
    BY EmptyFacts
  <1> QED BY <1>1, <1>2

LEMMA OrderGivesInOrder ==
  ASSUME TInv, OrderInv
  PROVE  InOrder
  <1> SUFFICES ASSUME stops = 0
               PROVE  /\ Ordered(Line)
                      /\ KeepsPicture => \A c \in Channels : FramesOf(c) \in {Due(c), Due(c) \union {decoded[c]}}
    BY DEF InOrder
  <1>1. LineInv /\ (KeepsPicture => FrameInv)
    BY DEF OrderInv
  <1>2. ASSUME KeepsPicture, NEW c \in Channels
        PROVE  FramesOf(c) \in {Due(c), Due(c) \union {decoded[c]}}
    <2>1. decoded[c] \in Nat
      BY DecoderFacts
    <2>2. \A p \in Range(Line) : p \in GoodPackets /\ p.frame \in Nat /\ p.frame >= 1
      BY LineTypes, Types, AppFacts DEF GoodPackets
    <2>3. \A n \in Due(c) : n \in FramesOf(c)
      <3> SUFFICES ASSUME NEW n \in Due(c) PROVE n \in FramesOf(c)
        OBVIOUS
      <3>1. n \in Nat /\ n \in Owed(c) /\ n # decoded[c] /\ Sends(n) /\ <<c, n>> \notin unscaled
        BY <2>1 DEF Due, Owed
      <3>2. PICK p \in Range(Line) : p.chan = c /\ p.frame = n
        BY <1>1, <1>2, <3>1 DEF FrameInv, InTheLine
      <3>3. IsFilled(app, p, pc[c], decoded[c], unscaled)
        BY <1>1, <3>2 DEF LineInv, Fits
      <3>4. ~IsEmpty(p)
        BY <1>2, <2>2, <3>1, <3>2, <3>3, NotEmpty
      <3> QED BY <3>1, <3>2, <3>4 DEF FramesOf
    <2>4. \A n \in FramesOf(c) : n \in Due(c) \/ n = decoded[c]
      <3> SUFFICES ASSUME NEW n \in FramesOf(c), n # decoded[c] PROVE n \in Due(c)
        OBVIOUS
      <3>1. PICK p \in Range(Line) : p.chan = c /\ ~IsEmpty(p) /\ p.frame = n /\ <<c, n>> \notin unscaled
        BY DEF FramesOf
      <3>2. Fits(app, p, pc[c], decoded[c], delivered[c], lost, unscaled)
        BY <1>1, <3>1 DEF LineInv
      <3>3. n > delivered[c] /\ n <= decoded[c] /\ \A q \in Range(lost) : q.chan = c => q.frame # n
        BY <3>1, <3>2 DEF Fits, IsPast, IsMissing
      <3>4. Sends(n)
        BY <3>1, <3>2 DEF Fits, IsFilled, Sends, Selected
      <3>5. n \in 1 .. decoded[c] - 1
        BY <2>1, <2>2, <3>1, <3>3
      <3> QED BY <3>1, <3>3, <3>4, <3>5 DEF Due
    <2>5. CASE decoded[c] \in FramesOf(c)
      <3>1. FramesOf(c) = Due(c) \union {decoded[c]}
        BY <2>3, <2>4, <2>5
      <3> QED BY <3>1
    <2>6. CASE decoded[c] \notin FramesOf(c)
      <3>1. FramesOf(c) = Due(c)
        BY <2>3, <2>4, <2>6
      <3> QED BY <3>1
    <2> QED BY <2>5, <2>6
  <1> QED BY <1>1, <1>2 DEF LineInv

(* The order of the line, when a packet in it is replaced.                   *)
LEMMA TwoRanges ==
  ASSUME NEW S, NEW s \in Seq(S), NEW t \in Seq(S)
  PROVE  /\ Range(s \o t) = Range(s) \union Range(t)
         /\ Ordered(s \o t) <=> Ordered(s) /\ Ordered(t) /\ Before(s, t)
  <1>1. PICK v \in Seq(S) : v = s \o t
    BY Concat
  <1>2. Range(v) = Range(s) \union Range(t)
    BY <1>1, RangeConcatenation, Zenon
  <1>3. Ordered(v) <=> Ordered(s) /\ Ordered(t) /\ Before(s, t)
    BY <1>1, OrderedBoth
  <1> QED BY <1>1, <1>2, <1>3

LEMMA ThreeRanges ==
  ASSUME NEW S, NEW s \in Seq(S), NEW t \in Seq(S), NEW u \in Seq(S)
  PROVE  /\ Range(s \o (t \o u)) = Range(s) \union Range(t) \union Range(u)
         /\ Ordered(s \o (t \o u)) <=> /\ Ordered(s) /\ Ordered(t) /\ Ordered(u)
                                       /\ Before(s, t) /\ Before(s, u) /\ Before(t, u)
  <1>1. PICK v \in Seq(S) : v = t \o u
    BY Concat
  <1>2. PICK w \in Seq(S) : w = s \o v
    BY Concat
  <1>3. Range(v) = Range(t) \union Range(u)
    BY <1>1, RangeConcatenation, Zenon
  <1>4. Range(w) = Range(s) \union Range(v)
    BY <1>2, RangeConcatenation, Zenon
  <1>5. Ordered(v) <=> Ordered(t) /\ Ordered(u) /\ Before(t, u)
    BY <1>1, OrderedBoth
  <1>6. Ordered(w) <=> Ordered(s) /\ Ordered(v) /\ Before(s, v)
    BY <1>2, OrderedBoth
  <1>7. Before(s, v) <=> Before(s, t) /\ Before(s, u)
    BY <1>3 DEF Before
  <1> QED BY <1>1, <1>2, <1>3, <1>4, <1>5, <1>6, <1>7

LEMMA ReplacedOne ==
  ASSUME NEW p \in GoodPackets, NEW q \in GoodPackets, Changes(<<p>>, <<q>>), q.chan = p.chan, q.frame = p.frame
  PROVE  \E rest : /\ Range(Line) = rest \union {p} /\ Range(Line') = rest \union {q}
                   /\ Ordered(Line) => Ordered(Line')
  <1>1. PICK head \in Seq(GoodPackets), end \in Seq(GoodPackets) :
          Line = head \o (<<p>> \o end) /\ Line' = head \o (<<q>> \o end)
    BY DEF Changes
  <1>2. PICK x \in Seq(GoodPackets), y \in Seq(GoodPackets) :
          /\ x = <<p>> /\ y = <<q>> /\ Range(x) = {p} /\ Range(y) = {q} /\ Ordered(x) /\ Ordered(y)
    BY OrderedOne
  <1>3. Line = head \o (x \o end) /\ Line' = head \o (y \o end)
    BY <1>1, <1>2
  <1>4. Range(Line) = Range(head) \union Range(x) \union Range(end)
    BY <1>3, ThreeRanges
  <1>5. Range(Line') = Range(head) \union Range(y) \union Range(end)
    BY <1>3, ThreeRanges
  <1>6. Ordered(Line) => /\ Ordered(head) /\ Ordered(x) /\ Ordered(end)
                         /\ Before(head, x) /\ Before(head, end) /\ Before(x, end)
    BY <1>3, ThreeRanges
  <1>7. Before(head, x) => Before(head, y)
    BY <1>2 DEF Before
  <1>8. Before(x, end) => Before(y, end)
    BY <1>2 DEF Before
  <1>9. Ordered(Line) => Ordered(Line')
    BY <1>2, <1>3, <1>6, <1>7, <1>8, ThreeRanges
  <1> QED BY <1>2, <1>4, <1>5, <1>9, SMTT(30)

LEMMA DroppedOne ==
  ASSUME NEW p \in GoodPackets, Changes(<<p>>, <<>>)
  PROVE  /\ Range(Line) = Range(Line') \union {p}
         /\ Ordered(Line) => Ordered(Line')
  <1>1. PICK head \in Seq(GoodPackets), end \in Seq(GoodPackets) :
          Line = head \o (<<p>> \o end) /\ Line' = head \o (<<>> \o end)
    BY DEF Changes
  <1>2. PICK x \in Seq(GoodPackets), y \in Seq(GoodPackets) :
          /\ x = <<p>> /\ y = <<>> /\ Range(x) = {p} /\ Range(y) = {} /\ Ordered(y)
    BY OrderedOne
  <1>3. Line = head \o (x \o end) /\ Line' = head \o (y \o end)
    BY <1>1, <1>2
  <1>4. Range(Line) = Range(head) \union Range(x) \union Range(end)
    BY <1>3, ThreeRanges
  <1>5. Range(Line') = Range(head) \union Range(y) \union Range(end)
    BY <1>3, ThreeRanges
  <1>6. Ordered(Line) => Ordered(head) /\ Ordered(end) /\ Before(head, end)
    BY <1>3, ThreeRanges
  <1>7. Before(head, y) /\ Before(y, end)
    BY <1>2 DEF Before
  <1>8. Ordered(Line) => Ordered(Line')
    BY <1>2, <1>3, <1>6, <1>7, ThreeRanges
  <1> QED BY <1>2, <1>4, <1>5, <1>8

LEMMA FirstOne ==
  ASSUME NEW p \in GoodPackets, Line = <<p>> \o Line', Line' \in Seq(GoodPackets)
  PROVE  /\ Range(Line) = Range(Line') \union {p}
         /\ Ordered(Line) => /\ Ordered(Line')
                             /\ \A q \in Range(Line') : q.chan = p.chan => q.frame > p.frame
  <1>1. PICK x \in Seq(GoodPackets), m \in Seq(GoodPackets) : x = <<p>> /\ m = Line' /\ Range(x) = {p}
    BY OrderedOne
  <1>2. PICK l \in Seq(GoodPackets) : l = Line /\ l = x \o m
    BY <1>1, Concat
  <1>3. Range(l) = Range(x) \union Range(m)
    BY <1>1, <1>2, TwoRanges
  <1>4. Ordered(l) => Ordered(m) /\ Before(x, m)
    BY <1>1, <1>2, TwoRanges
  <1>5. \A q \in Range(m) : q.frame \in Nat /\ p.frame \in Nat
    <2>1. Range(m) \subseteq GoodPackets
      BY SeqDef DEF Range
    <2> QED BY <2>1 DEF GoodPackets, Packets
  <1>6. Before(x, m) => \A q \in Range(m) : q.chan = p.chan => q.frame > p.frame
    BY <1>1, <1>5 DEF Before
  <1> QED BY <1>1, <1>2, <1>3, <1>4, <1>6

LEMMA SentOne ==
  ASSUME TInv, NEW p \in GoodPackets, Line' = Line \o <<p>>
  PROVE  /\ Range(Line') = Range(Line) \union {p}
         /\ Ordered(Line) /\ (\A q \in Range(Line) : q.chan = p.chan => q.frame < p.frame) => Ordered(Line')
  <1>1. PICK x \in Seq(GoodPackets), l \in Seq(GoodPackets) : x = <<p>> /\ l = Line /\ Range(x) = {p} /\ Ordered(x)
    BY OrderedOne, LineTypes
  <1>2. PICK m \in Seq(GoodPackets) : m = l \o x
    BY <1>1, Concat
  <1>3. Range(m) = Range(l) \union Range(x)
    BY <1>1, <1>2, TwoRanges
  <1>4. Ordered(m) <=> Ordered(l) /\ Ordered(x) /\ Before(l, x)
    BY <1>1, <1>2, OrderedBoth
  <1>5. (\A q \in Range(Line) : q.chan = p.chan => q.frame < p.frame) => Before(l, x)
    BY <1>1 DEF Before
  <1> QED BY <1>1, <1>2, <1>3, <1>4, <1>5

-----------------------------------------------------------------------------
(***************************************************************************)
(* A block keeps the order and what is owed.                               *)
(***************************************************************************)

(* What a step of a block may do to the packets that stay in the line.       *)
LEMMA BlockOrder ==
  ASSUME TInv, NEW s \in Blocks, BlockStepOf(s), LineInv, stops = 0,
         Ordered(Line'),
         \A c \in Channels : delivered'[c] <= decoded[c] /\ (pc[c] \in Filling => delivered'[c] < decoded[c]),
         \A q \in Range(Line') : Fits(app, q, pc[q.chan], decoded[q.chan], delivered'[q.chan], lost, unscaled) /\ q.chan \in Channels
  PROVE  LineInv'
  <1>1. /\ app' = app /\ lost' = lost /\ unscaled' = unscaled /\ decoded' = decoded /\ Only(pc, pc', BlockOf(s))
    BY BlockMoves
  <1>2. \A c \in Channels : pc'[c] = pc[c]
    BY <1>1, Types, ThreadFacts DEF Only
  <1>3. \A q \in Range(Line') : Fits(app', q, pc'[q.chan], decoded'[q.chan], delivered'[q.chan], lost', unscaled')
    BY <1>1, <1>2
  <1>4. \A p \in Range(lost') : IsPast(p, pc'[p.chan], decoded'[p.chan])
    <2>1. \A p \in Range(lost) : p.chan \in Channels
      <3>1. Range(lost) \subseteq GoodPackets
        BY Types, SeqDef DEF Range
      <3> QED BY <3>1 DEF GoodPackets
    <2> QED BY <1>1, <1>2, <2>1 DEF LineInv
  <1>5. Channels' = Channels
    BY <1>1, SameApp
  <1> QED BY <1>1, <1>2, <1>3, <1>4, <1>5 DEF LineInv

LEMMA FollowsFits ==
  ASSUME TInv, NEW p \in GoodPackets, NEW q \in GoodPackets, Follows(p, q),
         NEW place, NEW n, NEW sent, NEW gone, NEW bare, Fits(app, p, place, n, sent, gone, bare)
  PROVE  Fits(app, q, place, n, sent, gone, bare)
  <1>1. q.chan = p.chan /\ q.frame = p.frame /\ q.vp = p.vp
    BY DEF Follows
  <1>2. q.frame > sent /\ IsPast(q, place, n) /\ IsMissing(q, gone)
    BY <1>1 DEF Fits, IsPast, IsMissing
  <1>3. IsFilled(app, p, place, n, bare)
    BY DEF Fits
  <1>4. app.ratio = 1 => p.frame % app.ratio = 0
    <2>1. PICK f \in Nat : f = p.frame
      BY PacketNumbers
    <2>2. f % 1 = 0
      OBVIOUS
    <2> QED BY <2>1, <2>2
  <1>5. ~app.vpl /\ q.frame % app.ratio # 0 => IsEmpty(q)
    BY <1>1, <1>3, <1>4 DEF Follows, IsFilled
  <1>6. app.vpl => q.dec = 1
    BY <1>3 DEF Follows, IsFilled
  <1>7. ~app.vpl /\ q.frame % app.ratio = 0 /\ ~(place = "ended" /\ q.frame = n) /\ <<q.chan, q.frame>> \notin bare
          => IF app.vpp THEN q.vp = 1 ELSE (Len(app.blocks) = 1 => q.dec = 1)
    <2>1. Len(app.blocks) = 1 => ~(Len(app.blocks) > 1)
      OBVIOUS
    <2> QED BY <1>1, <1>3, <2>1 DEF Follows, IsFilled
  <1> QED BY <1>2, <1>5, <1>6, <1>7 DEF Fits, IsFilled

LEMMA LineInvFacts ==
  ASSUME TInv, LineInv
  PROVE  /\ Ordered(Line)
         /\ \A p \in Range(Line) : /\ Fits(app, p, pc[p.chan], decoded[p.chan], delivered[p.chan], lost, unscaled)
                                  /\ p \in GoodPackets /\ p.chan \in Channels
         /\ \A c \in Channels : /\ delivered[c] <= decoded[c] /\ (pc[c] \in Filling => delivered[c] < decoded[c])
                               /\ delivered[c] \in Nat /\ decoded[c] \in Nat
  <1>1. \A p \in Range(Line) : p \in GoodPackets /\ p.chan \in Channels
    BY LineTypes DEF GoodPackets
  <1>2. \A c \in Channels : delivered[c] \in Nat /\ decoded[c] \in Nat
    BY Types, AppFacts
  <1> QED BY <1>1, <1>2 DEF LineInv

(* The frames that are owed stay in the line.                                *)
LEMMA BlockFrames ==
  ASSUME TInv, NEW s \in Blocks, BlockStepOf(s), FrameInv,
         \A c \in Channels : delivered'[c] \in Nat /\ delivered[c] <= delivered'[c],
         \A c \in Channels : \A n \in Owed(c) :
            InTheLine(c, n) /\ n > delivered'[c] /\ (n # decoded[c] \/ pc[c] = "top")
              => \E q \in Range(Line') : q.chan = c /\ q.frame = n
  PROVE  FrameInv'
  <1>1. /\ app' = app /\ lost' = lost /\ unscaled' = unscaled /\ decoded' = decoded /\ Only(pc, pc', BlockOf(s))
    BY BlockMoves
  <1>2. \A c \in Channels : pc'[c] = pc[c]
    BY <1>1, Types, ThreadFacts DEF Only
  <1>3. Channels' = Channels
    BY <1>1, SameApp
  <1>4. ASSUME NEW c \in Channels, NEW n \in Owed(c)'
        PROVE  n \in Owed(c) /\ n > delivered'[c]
    <2>1. delivered[c] \in Nat /\ delivered'[c] \in Nat /\ delivered[c] <= delivered'[c] /\ decoded[c] \in Nat
      BY Types
    <2>2. n \in 1 .. decoded[c] /\ n > delivered'[c]
      BY <1>1 DEF Owed
    <2>3. Sends(n) /\ <<c, n>> \notin unscaled /\ \A p \in Range(lost) : p.chan = c => p.frame # n
      BY <1>1 DEF Owed, Sends, Selected
    <2>4. n > delivered[c]
      BY <2>1, <2>2
    <2> QED BY <2>2, <2>3, <2>4 DEF Owed
  <1>5. ASSUME NEW c \in Channels, NEW n \in Owed(c)', n # decoded'[c] \/ pc'[c] = "top"
        PROVE  InTheLine(c, n)'
    <2>1. InTheLine(c, n)
      BY <1>1, <1>2, <1>4, <1>5 DEF FrameInv
    <2> QED BY <1>1, <1>2, <1>4, <1>5, <2>1 DEF InTheLine
  <1> QED BY <1>3, <1>5 DEF FrameInv

LEMMA OwedSends ==
  ASSUME NEW c \in Channels, NEW n \in Owed(c)
  PROVE  Sends(n) /\ <<c, n>> \notin unscaled
  BY DEF Owed

LEMMA Block_Order ==
  ASSUME TInv, NEW s \in Blocks, BlockStepOf(s), OrderInv, stops = 0
  PROVE  LineInv' /\ (KeepsPicture => FrameInv')
  <1>1. Effect
    BY BlockEffect
  <1>2. LineInv /\ (KeepsPicture => FrameInv)
    BY DEF OrderInv
  <1>3. CASE StaysInLine
    <2>1. Line' = Line /\ delivered' = delivered
      BY <1>3 DEF StaysInLine
    <2>2. LineInv'
      BY <1>2, <2>1, LineInvFacts, BlockOrder
    <2>3. KeepsPicture => FrameInv'
      BY <1>2, <2>1, LineInvFacts, BlockFrames DEF InTheLine
    <2> QED BY <2>2, <2>3
  <1>4. CASE ChangesInLine
    <2>1. PICK p \in GoodPackets, q \in GoodPackets : Changes(<<p>>, <<q>>) /\ Follows(p, q) /\ delivered' = delivered
      BY <1>4 DEF ChangesInLine
    <2>2. q.chan = p.chan /\ q.frame = p.frame
      BY <2>1 DEF Follows
    <2>3. PICK rest : /\ Range(Line) = rest \union {p} /\ Range(Line') = rest \union {q}
                      /\ Ordered(Line) => Ordered(Line')
      BY <2>1, <2>2, ReplacedOne
    <2>4. Fits(app, q, pc[q.chan], decoded[q.chan], delivered[q.chan], lost, unscaled)
      <3>1. Fits(app, p, pc[p.chan], decoded[p.chan], delivered[p.chan], lost, unscaled)
        BY <1>2, <2>3, LineInvFacts
      <3> QED BY <2>1, <2>2, <3>1, FollowsFits
    <2>5. \A r \in Range(Line') : Fits(app, r, pc[r.chan], decoded[r.chan], delivered'[r.chan], lost, unscaled) /\ r.chan \in Channels
      BY <1>2, <2>1, <2>2, <2>3, <2>4, LineInvFacts
    <2>6. LineInv'
      BY <1>2, <2>1, <2>3, <2>5, LineInvFacts, BlockOrder
    <2>7. KeepsPicture => FrameInv'
      <3>1. \A c, n : InTheLine(c, n) => \E r \in Range(Line') : r.chan = c /\ r.frame = n
        BY <2>2, <2>3 DEF InTheLine
      <3> QED BY <1>2, <2>1, <3>1, LineInvFacts, BlockFrames
    <2> QED BY <2>6, <2>7
  <1>5. CASE Drops
    <2>1. PICK p \in GoodPackets : Changes(<<p>>, <<>>) /\ IsEmpty(p) /\ delivered' = delivered
      BY <1>5 DEF Drops
    <2>2. Range(Line) = Range(Line') \union {p} /\ (Ordered(Line) => Ordered(Line'))
      BY <2>1, DroppedOne
    <2>3. LineInv'
      BY <1>2, <2>1, <2>2, LineInvFacts, BlockOrder
    <2>4. ASSUME KeepsPicture PROVE FrameInv'
      <3>1. ASSUME NEW c \in Channels, NEW n \in Owed(c), InTheLine(c, n), n # decoded[c] \/ pc[c] = "top"
            PROVE  \E r \in Range(Line') : r.chan = c /\ r.frame = n
        <4>1. PICK r \in Range(Line) : r.chan = c /\ r.frame = n
          BY <3>1 DEF InTheLine
        <4>2. r # p
          <5>1. IsFilled(app, r, pc[c], decoded[c], unscaled) /\ r \in GoodPackets
            BY <1>2, <4>1, LineInvFacts DEF Fits
          <5>2. Sends(r.frame) /\ (pc[c] # "ended" \/ r.frame # decoded[c]) /\ <<r.chan, r.frame>> \notin unscaled
            BY <3>1, <4>1, OwedSends
          <5>3. ~IsEmpty(r)
            BY <2>4, <5>1, <5>2, NotEmpty
          <5> QED BY <2>1, <5>3
        <4> QED BY <2>2, <4>1, <4>2
      <3> QED BY <1>2, <2>1, <2>4, <3>1, LineInvFacts, BlockFrames
    <2> QED BY <2>3, <2>4
  <1>6. CASE Delivers
    <2>1. PICK p \in GoodPackets :
            /\ Line = <<p>> \o Line' /\ Line' \in Seq(GoodPackets)
            /\ delivered' = [delivered EXCEPT ![p.chan] = p.frame]
      BY <1>6 DEF Delivers
    <2>2. /\ Range(Line) = Range(Line') \union {p} /\ Ordered(Line')
          /\ \A q \in Range(Line') : q.chan = p.chan => q.frame > p.frame
      BY <1>2, <2>1, FirstOne, LineInvFacts
    <2>3. p.frame > delivered[p.chan] /\ IsPast(p, pc[p.chan], decoded[p.chan]) /\ p.chan \in Channels /\ p.frame \in Nat
      BY <1>2, <2>2, LineInvFacts, PacketNumbers DEF Fits
    <2>4. delivered \in [Channels -> Nat]
      BY Types
    <2>5. \A c \in Channels : delivered'[c] = (IF c = p.chan THEN p.frame ELSE delivered[c])
      BY <2>1, <2>4
    <2>6. \A c \in Channels : delivered'[c] <= decoded[c] /\ (pc[c] \in Filling => delivered'[c] < decoded[c])
      BY <1>2, <2>3, <2>5, LineInvFacts DEF IsPast
    <2>7. \A q \in Range(Line') : Fits(app, q, pc[q.chan], decoded[q.chan], delivered'[q.chan], lost, unscaled) /\ q.chan \in Channels
      BY <1>2, <2>2, <2>5, LineInvFacts DEF Fits
    <2>8. LineInv'
      BY <1>2, <2>2, <2>6, <2>7, BlockOrder
    <2>9. ASSUME KeepsPicture PROVE FrameInv'
      <3>1. ASSUME NEW c \in Channels, NEW n \in Owed(c), InTheLine(c, n), n > delivered'[c]
            PROVE  \E r \in Range(Line') : r.chan = c /\ r.frame = n
        <4>1. PICK r \in Range(Line) : r.chan = c /\ r.frame = n
          BY <3>1 DEF InTheLine
        <4>2. r # p
          BY <2>3, <2>5, <3>1, <4>1
        <4> QED BY <2>2, <4>1, <4>2
      <3>2. \A c \in Channels : delivered'[c] \in Nat /\ delivered[c] <= delivered'[c]
        BY <2>3, <2>4, <2>5
      <3> QED BY <1>2, <2>9, <3>1, <3>2, BlockFrames
    <2> QED BY <2>8, <2>9
  <1> QED BY <1>1, <1>3, <1>4, <1>5, <1>6 DEF Effect

-----------------------------------------------------------------------------
(***************************************************************************)
(* A decoder keeps the order, and the proof of InOrder.                    *)
(***************************************************************************)

(* The decoder of channel c goes on: what is in the line still fits.         *)
LEMMA DecoderOrder ==
  ASSUME TInv, NEW c \in Channels, DecoderEffect(c), NEW label, NEW n \in Nat,
         pc' = [pc EXCEPT ![c] = label], decoded' = [decoded EXCEPT ![c] = n], LineInv, Ordered(Line'),
         unscaled \subseteq unscaled',
         \A q \in Range(Line') : q \notin Range(Line) =>
            q.chan = c /\ Fits(app, q, label, n, delivered[c], lost', unscaled'),
         \A q \in Range(lost') : q \notin Range(lost) => q.chan = c /\ IsPast(q, label, n),
         \A q \in Range(Line) : q.chan = c =>
            IsPast(q, label, n) /\ IsMissing(q, lost'),
         \A q \in Range(lost) : q.chan = c /\ IsPast(q, pc[c], decoded[c]) => IsPast(q, label, n),
         pc[c] # "ended", delivered[c] <= n, label \in Filling => delivered[c] < n
  PROVE  LineInv'
  <1>1. app' = app /\ delivered' = delivered
    BY DEF DecoderEffect
  <1>2. \A d \in Channels : /\ pc'[d] = (IF d = c THEN label ELSE pc[d])
                            /\ decoded'[d] = (IF d = c THEN n ELSE decoded[d])
    BY DecoderFacts
  <1>3. \A q \in Range(lost) : q.chan \in Channels
    <2>1. Range(lost) \subseteq GoodPackets
      BY Types, SeqDef DEF Range
    <2> QED BY <2>1 DEF GoodPackets
  <1>4. ASSUME NEW q \in Range(Line')
        PROVE  Fits(app, q, pc'[q.chan], decoded'[q.chan], delivered[q.chan], lost', unscaled')
    <2>1. CASE q \notin Range(Line)
      BY <1>2, <2>1
    <2>2. CASE q \in Range(Line)
      <3>1. Fits(app, q, pc[q.chan], decoded[q.chan], delivered[q.chan], lost, unscaled) /\ q.chan \in Channels
        BY <2>2, LineInvFacts
      <3>2. CASE q.chan = c
        <4>1. IsPast(q, label, n) /\ IsMissing(q, lost') /\ q.frame > delivered[c] /\ IsFilled(app, q, pc[c], decoded[c], unscaled)
          BY <2>2, <3>1, <3>2 DEF Fits
        <4>2. IsFilled(app, q, label, n, unscaled')
          BY <4>1 DEF IsFilled
        <4> QED BY <1>2, <3>2, <4>1, <4>2 DEF Fits
      <3>3. CASE q.chan # c
        <4>1. IsMissing(q, lost')
          BY <3>1, <3>3 DEF Fits, IsMissing
        <4>2. IsFilled(app, q, pc[q.chan], decoded[q.chan], unscaled')
          BY <3>1 DEF Fits, IsFilled
        <4> QED BY <1>2, <3>1, <3>3, <4>1, <4>2 DEF Fits
      <3> QED BY <3>2, <3>3
    <2> QED BY <2>1, <2>2
  <1>5. ASSUME NEW q \in Range(lost')
        PROVE  IsPast(q, pc'[q.chan], decoded'[q.chan])
    BY <1>2, <1>3 DEF LineInv
  <1>6. \A d \in Channels : delivered[d] <= decoded'[d] /\ (pc'[d] \in Filling => delivered[d] < decoded'[d])
    BY <1>2 DEF LineInv
  <1>7. Channels' = Channels
    BY <1>1, SameApp
  <1> QED BY <1>1, <1>4, <1>5, <1>6, <1>7 DEF LineInv

(* And no frame that is owed is missing.                                     *)
LEMMA DecoderFrames ==
  ASSUME TInv, NEW c \in Channels, DecoderEffect(c), NEW label, NEW n \in Nat,
         pc' = [pc EXCEPT ![c] = label], decoded' = [decoded EXCEPT ![c] = n], FrameInv,
         decoded[c] <= n, Range(Line) \subseteq Range(Line'), Range(lost) \subseteq Range(lost'),
         unscaled \subseteq unscaled',
         \A k \in 1 .. n : k > delivered[c] /\ (k # n \/ label = "top") /\ (\A q \in Range(lost') : q.chan = c => q.frame # k)
           => \/ k \in 1 .. decoded[c] /\ (k # decoded[c] \/ pc[c] = "top")
              \/ \E q \in Range(Line') : q.chan = c /\ q.frame = k
  PROVE  FrameInv'
  <1>1. app' = app /\ delivered' = delivered /\ Channels' = Channels
    BY SameApp DEF DecoderEffect
  <1>2. \A d \in Channels : /\ pc'[d] = (IF d = c THEN label ELSE pc[d])
                            /\ decoded'[d] = (IF d = c THEN n ELSE decoded[d])
    BY DecoderFacts
  <1>3. \A k : Sends(k)' <=> Sends(k)
    BY <1>1 DEF Sends, Selected
  <1>4. ASSUME NEW d \in Channels, NEW k \in Owed(d)', k # decoded'[d] \/ pc'[d] = "top"
        PROVE  \E q \in Range(Line') : q.chan = d /\ q.frame = k
    <2>1. /\ k \in 1 .. decoded'[d] /\ k > delivered[d] /\ Sends(k) /\ <<d, k>> \notin unscaled
          /\ \A q \in Range(lost') : q.chan = d => q.frame # k
      BY <1>1, <1>3 DEF Owed
    <2>2. ASSUME k \in 1 .. decoded[d], k # decoded[d] \/ pc[d] = "top"
          PROVE  \E q \in Range(Line') : q.chan = d /\ q.frame = k
      <3>1. k \in Owed(d)
        BY <2>1, <2>2 DEF Owed
      <3>2. InTheLine(d, k)
        BY <2>2, <3>1 DEF FrameInv
      <3> QED BY <3>2 DEF InTheLine
    <2>3. CASE d # c
      BY <1>2, <1>4, <2>1, <2>2, <2>3
    <2>4. CASE d = c
      BY <1>2, <1>4, <2>1, <2>2, <2>4
    <2> QED BY <2>3, <2>4
  <1> QED BY <1>1, <1>4 DEF FrameInv, InTheLine

(* A picture that a decoder sends without the scaled one is known as such.   *)
PictureInv ==
  \A c \in Channels :
    ~app.vpl /\ pc[c] = "enqueue" /\ app.vpp /\ Selected(decoded[c])
      => hand[c].vp = 1 \/ <<c, decoded[c]>> \in unscaled

LEMMA UnscaledGrows ==
  ASSUME NEW c \in Channels, Decoder(c)
  PROVE  unscaled \subseteq unscaled'
  BY DEF Decoder, DecodeFrame, DecodeVpl, FillPacket, FillVpl, Scale, CopyVpl, NoPacketVpl,
         EndDecoding, ScaleFails, ScaleWantsMore, ScaleWantsSurface, SendFrame

LEMMA DecoderPicture ==
  ASSUME TInv, NEW c \in Channels, Decoder(c), ~app.vpl, pc'[c] = "enqueue", app.vpp, Selected(decoded'[c])
  PROVE  hand'[c].vp = 1 \/ <<c, decoded'[c]>> \in unscaled'
  <1>1. c \in DOMAIN pc /\ c \in DOMAIN hand /\ hand[c] \in GoodPackets \union {NoFrame}
    BY DecoderFacts
  <1>2. CASE DecodeFrame(c)
    BY <1>1, <1>2 DEF DecodeFrame, At
  <1>3. CASE FillPacket(c)
    <2>1. decoded' = decoded /\ pc' = [pc EXCEPT ![c] = IF app.vpp /\ Selected(decoded[c]) THEN "vpp" ELSE "enqueue"]
      BY <1>3 DEF FillPacket, At
    <2>2. app.vpp /\ Selected(decoded[c])
      BY <2>1 DEF Selected
    <2> QED BY <1>1, <2>1, <2>2
  <1>4. CASE Scale(c)
    <2>1. pc[c] = "vpp" /\ hand' = [hand EXCEPT ![c].vp = 1]
      BY <1>4 DEF Scale
    <2>2. hand[c] \in GoodPackets
      BY <2>1, DecoderFacts
    <2> QED BY <1>1, <2>1, <2>2 DEF GoodPackets, Packets
  <1>5. CASE ScaleWantsMore(c)
    BY <1>1, <1>5 DEF ScaleWantsMore, At
  <1>6. CASE ScaleWantsSurface(c)
    BY <1>6 DEF ScaleWantsSurface
  <1>7. CASE ScaleFails(c)
    <2>1. pc' = [pc EXCEPT ![c] = "last"] \/ pc' = [pc EXCEPT ![c] = "ended"]
      BY <1>7, Zenon DEF ScaleFails, At
    <2> QED BY <1>1, <2>1
  <1>8. CASE SendFrame(c)
    <2>1. PICK label \in {"ended", "top"} : pc' = [pc EXCEPT ![c] = label]
      BY <1>8 DEF SendFrame, At
    <2> QED BY <1>1, <2>1
  <1>9. CASE EndDecoding(c)
    BY <1>1, <1>9 DEF EndDecoding, At
  <1> QED BY <1>2, <1>3, <1>4, <1>5, <1>6, <1>7, <1>8, <1>9 DEF Decoder

LEMMA Next_Picture ==
  ASSUME TInv, PictureInv, [Next]_vars
  PROVE  PictureInv'
  <1>1. app' = app /\ Channels' = Channels
    BY StopsGrow, SameApp
  <1>2. ASSUME NEW c \in Channels, ~app.vpl, pc'[c] = "enqueue", app.vpp, Selected(decoded'[c])
        PROVE  hand'[c].vp = 1 \/ <<c, decoded'[c]>> \in unscaled'
    <2>1. CASE Decoder(c)
      BY <1>2, <2>1, DecoderPicture
    <2>2. CASE /\ pc'[c] = pc[c] /\ hand'[c] = hand[c] /\ decoded'[c] = decoded[c]
               /\ unscaled \subseteq unscaled'
      BY <1>2, <2>2 DEF PictureInv
    <2>3. ASSUME NEW d \in Channels, Decoder(d), d # c
          PROVE  /\ pc'[c] = pc[c] /\ hand'[c] = hand[c] /\ decoded'[c] = decoded[c]
                 /\ unscaled \subseteq unscaled'
      <3>1. DecoderEffect(d) /\ \E label, n : GoesOn(d, label, n)
        BY <2>3, DecoderDoes
      <3>2. PICK label, n : pc' = [pc EXCEPT ![d] = label] /\ decoded' = [decoded EXCEPT ![d] = n]
        BY <3>1 DEF GoesOn
      <3>3. hand'[c] = hand[c]
        BY <3>1, <2>3, Types, ThreadFacts DEF DecoderEffect, Only
      <3> QED BY <2>3, <3>2, <3>3, UnscaledGrows, DecoderFacts
    <2>4. ASSUME NEW s \in Blocks, BlockStepOf(s)
          PROVE  /\ pc'[c] = pc[c] /\ hand'[c] = hand[c] /\ decoded'[c] = decoded[c]
                 /\ unscaled \subseteq unscaled'
      <3>1. /\ unscaled' = unscaled /\ decoded' = decoded
            /\ Only(pc, pc', BlockOf(s)) /\ Only(hand, hand', BlockOf(s))
        BY <2>4, BlockMoves
      <3> QED BY <3>1, Types, ThreadFacts DEF Only
    <2>5. CASE Stop \/ Join \/ UNCHANGED vars
      <3>1. pc' = pc /\ hand' = hand /\ decoded' = decoded /\ unscaled' = unscaled
        BY <2>5 DEF Stop, Join, vars
      <3> QED BY <2>2, <3>1
    <2> QED BY <2>1, <2>2, <2>3, <2>4, <2>5, Zenon DEF Next, BlockStepOf
  <1> QED BY <1>1, <1>2 DEF PictureInv, Selected

LEMMA Decoder_Order ==
  ASSUME TInv, PictureInv, NEW c \in Channels, Decoder(c), OrderInv, stops = 0
  PROVE  LineInv' /\ (KeepsPicture => FrameInv')
  <1>0. unscaled \subseteq unscaled'
    BY UnscaledGrows
  <1>1. DecoderEffect(c)
    BY DecoderDoes
  <1>2. PICK label, n : GoesOn(c, label, n)
    BY DecoderDoes
  <1>3. LineInv /\ (KeepsPicture => FrameInv)
    BY DEF OrderInv
  <1>4. pc' = [pc EXCEPT ![c] = label] /\ decoded' = [decoded EXCEPT ![c] = n]
    BY <1>2 DEF GoesOn
  <1>5. delivered[c] <= decoded[c] /\ (pc[c] \in Filling => delivered[c] < decoded[c]) /\ delivered[c] \in Nat /\ decoded[c] \in Nat
    BY <1>3, LineInvFacts
  <1>6. \A q \in Range(Line) : q.chan = c => /\ q.frame > delivered[c] /\ IsPast(q, pc[c], decoded[c]) /\ IsMissing(q, lost)
                                             /\ q.frame \in Nat
    BY <1>3, LineInvFacts, PacketNumbers DEF Fits
  <1>7. \A q \in Range(lost) : q.frame \in Nat /\ (q.chan = c => IsPast(q, pc[c], decoded[c]))
    <2>1. Range(lost) \subseteq GoodPackets
      BY Types, SeqDef DEF Range
    <2> QED BY <1>3, <2>1, PacketNumbers DEF LineInv
  <1>8. CASE Idles(c) /\ pc[c] = "top" /\ label = "dequeue" /\ n = decoded[c] + 1
    <2>1. Line' = Line /\ lost' = lost /\ n \in Nat /\ decoded[c] <= n
      BY <1>5, <1>8 DEF Idles
    <2>2. \A q \in Range(Line) : q.chan = c => IsPast(q, label, n) /\ IsMissing(q, lost')
      BY <1>5, <1>6, <1>8, <2>1 DEF IsPast
    <2>3. LineInv'
      <3>1. \A q \in Range(lost) : q.chan = c /\ IsPast(q, pc[c], decoded[c]) => IsPast(q, label, n)
        BY <1>5, <1>7, <1>8 DEF IsPast
      <3>2. /\ \A q \in Range(Line') : q \in Range(Line)
            /\ \A q \in Range(lost') : q \in Range(lost)
            /\ Ordered(Line')
        BY <1>3, <2>1 DEF LineInv
      <3>3. delivered[c] <= n /\ (label \in Filling => delivered[c] < n) /\ pc[c] # "ended"
        BY <1>5, <1>8
      <3> QED BY <1>0, <1>1, <1>3, <1>4, <2>1, <2>2, <3>1, <3>2, <3>3, DecoderOrder
    <2>4. KeepsPicture => FrameInv'
      <3>1. \A k \in 1 .. n : (k # n \/ label = "top") => k \in 1 .. decoded[c] /\ (k # decoded[c] \/ pc[c] = "top")
        BY <1>5, <1>8
      <3> QED BY <1>0, <1>1, <1>3, <1>4, <2>1, <3>1, DecoderFrames
    <2> QED BY <2>3, <2>4
  <1>9. CASE \/ /\ Idles(c) /\ n = decoded[c] /\ label \notin {"top", "dequeue"} /\ pc[c] # "ended"
                /\ label \in Filling => pc[c] \in Filling
             \/ (Packs(c) \/ Scales(c)) /\ n = decoded[c] /\ label \in {"vpp", "enqueue", "last"}
    <2>1. Line' = Line /\ lost' = lost /\ n \in Nat /\ decoded[c] <= n /\ n = decoded[c]
      BY <1>5, <1>9 DEF Idles, Packs, Scales
    <2>2. label # "top" /\ pc[c] # "ended" /\ (label \in Filling => pc[c] \in Filling)
      BY <1>9 DEF Packs, Scales, Filling
    <2>3. \A q : IsPast(q, pc[c], decoded[c]) => IsPast(q, label, n)
      BY <2>1, <2>2 DEF IsPast
    <2>4. LineInv'
      BY <1>0, <1>1, <1>3, <1>4, <1>5, <1>6, <1>7, <2>1, <2>2, <2>3, LineInvFacts, DecoderOrder
    <2>5. KeepsPicture => FrameInv'
      BY <1>0, <1>1, <1>3, <1>4, <2>1, <2>2, DecoderFrames
    <2> QED BY <2>4, <2>5
  <1>10. CASE Loses(c) /\ n = decoded[c] /\ label \in {"top", "ended"}
    <2>1. /\ pc[c] = "vpp" /\ Line' = Line /\ lost' = lost \o <<hand[c]>> /\ n \in Nat /\ decoded[c] <= n
          /\ pc[c] \in Filling /\ label \notin Filling /\ pc[c] # "ended"
      BY <1>5, <1>10 DEF Loses, Filling
    <2>2. hand[c] \in GoodPackets /\ hand[c].chan = c /\ hand[c].frame = decoded[c]
      BY <2>1, DecoderFacts
    <2>3. Range(lost') = Range(lost) \union {hand[c]}
      <3>1. PICK x \in Seq(GoodPackets) : x = <<hand[c]>> /\ Range(x) = {hand[c]}
        BY <2>2, OrderedOne
      <3>2. lost \in Seq(GoodPackets) /\ lost' = lost \o x
        BY <2>1, <3>1, Types
      <3>3. Range(lost \o x) = Range(lost) \union Range(x)
        BY <3>2, TwoRanges
      <3> QED BY <3>1, <3>2, <3>3
    <2>4. IsPast(hand[c], label, n)
      BY <1>5, <1>10, <2>1, <2>2 DEF IsPast
    <2>5. \A q \in Range(lost) : q.chan = c /\ IsPast(q, pc[c], decoded[c]) => IsPast(q, label, n)
      BY <1>5, <1>7, <1>10, <2>1 DEF IsPast
    <2>6. ASSUME NEW q \in Range(Line), q.chan = c PROVE IsMissing(q, lost')
      <3>1. q.frame # decoded[c]
        BY <1>5, <1>6, <2>1, <2>6 DEF IsPast
      <3> QED BY <1>6, <2>2, <2>3, <2>6, <3>1 DEF IsMissing
    <2>7. LineInv'
      <3>1. \A q \in Range(Line) : q.chan = c => IsPast(q, label, n) /\ IsMissing(q, lost')
        BY <1>5, <1>6, <1>10, <2>1, <2>6 DEF IsPast
      <3>2. /\ \A q \in Range(Line') : q \in Range(Line)
            /\ Ordered(Line')
        BY <1>3, <2>1 DEF LineInv
      <3>3. \A q \in Range(lost') : q \notin Range(lost) => q.chan = c /\ IsPast(q, label, n)
        BY <2>2, <2>3, <2>4
      <3>4. delivered[c] <= n /\ (label \in Filling => delivered[c] < n) /\ pc[c] # "ended"
        BY <1>5, <1>10, <2>1
      <3> QED BY <1>0, <1>1, <1>3, <1>4, <2>1, <2>5, <3>1, <3>2, <3>3, <3>4, DecoderOrder
    <2>8. KeepsPicture => FrameInv'
      <3>1. \A k \in 1 .. n : (\A q \in Range(lost') : q.chan = c => q.frame # k) => k \in 1 .. decoded[c] /\ k # decoded[c]
        BY <1>10, <2>2, <2>3
      <3> QED BY <1>0, <1>1, <1>3, <1>4, <2>1, <2>3, <3>1, DecoderFrames
    <2> QED BY <2>7, <2>8
  <1>11. CASE Passes(c) /\ n = decoded[c] /\ label = (IF pc[c] = "last" THEN "ended" ELSE "top")
    <2>1. /\ pc[c] \in {"enqueue", "last"} /\ lost' = lost /\ Line' = Line \o <<hand[c]>> /\ n \in Nat /\ decoded[c] <= n
          /\ label \in {"ended", "top"} /\ (label = "top" => pc[c] = "enqueue")
      BY <1>5, <1>11 DEF Passes
    <2>2. pc[c] \in Filling /\ label \notin Filling /\ pc[c] # "ended"
      BY <2>1 DEF Filling
    <2>3. hand[c] \in GoodPackets /\ hand[c].chan = c /\ hand[c].frame = decoded[c]
      BY <2>1, DecoderFacts
    <2>4. \A q \in Range(Line) : q.chan = c => q.frame < decoded[c]
      BY <1>6, <2>2 DEF IsPast
    <2>5. Range(Line') = Range(Line) \union {hand[c]} /\ Ordered(Line')
      <3>1. /\ Range(Line') = Range(Line) \union {hand[c]}
            /\ Ordered(Line) /\ (\A q \in Range(Line) : q.chan = hand[c].chan => q.frame < hand[c].frame) => Ordered(Line')
        BY <2>1, <2>3, SentOne
      <3> QED BY <1>3, <2>3, <2>4, <3>1 DEF LineInv
    <2>6. IsPast(hand[c], label, n)
      BY <1>5, <1>11, <2>2, <2>3 DEF IsPast
    <2>7. IsMissing(hand[c], lost')
      BY <1>7, <2>1, <2>2, <2>3 DEF IsMissing, IsPast
    <2>8. IsFilled(app, hand[c], label, n, unscaled')
      <3>1. Carries(c, pc[c], hand[c], decoded[c]) /\ app \in Apps
        BY DecoderFacts
      <3>2. app.dec = 1 \/ app.vpp
        BY <3>1, AppFacts
      <3>3. app.vpl => app.dec = 1
        <4>1. ASSUME app.vpl PROVE Len(app.blocks) > 1
          <5>1. app.blocks[1] = "dummy"
            BY <3>1, <4>1, AppFacts
          <5>2. 1 \in Blocks
            BY Types
          <5>3. ~IsLast(1)
            BY <3>1, <5>1, <5>2, Kinds
          <5>4. PICK k \in 1 .. 3 : k = Len(app.blocks)
            BY <3>1, AppFacts
          <5>5. k # 1
            BY <5>3, <5>4 DEF IsLast
          <5>6. k > 1
            BY <5>5
          <5> QED BY <5>4, <5>6
        <4> QED BY <3>1, <4>1, AppFacts
      <3>4. hand[c].dec = (IF app.vpl \/ Selected(decoded[c]) THEN app.dec ELSE 0)
        BY <2>1, <3>1 DEF Carries
      <3>5. hand[c].rois = 0 /\ hand[c].crops = 0 /\ hand[c].res = 0
        BY <2>1, <2>3, <3>1, DecoderFacts DEF Carries
      <3>6. ~app.vpl /\ ~Selected(decoded[c]) => IsEmpty(hand[c])
        <4>1. ASSUME ~app.vpl, ~Selected(decoded[c]) PROVE hand[c].vp = 0 /\ hand[c].dec = 0
          <5>1. hand[c].vp \in {0, 1}
            BY <2>3, <3>1, PacketFacts
          <5> QED BY <2>1, <3>1, <3>4, <4>1, <5>1 DEF Carries
        <4> QED BY <3>5, <4>1 DEF IsEmpty
      <3>7. ~app.vpl /\ Selected(decoded[c]) /\ label = "top" /\ <<c, decoded[c]>> \notin unscaled'
              => IF app.vpp THEN hand[c].vp = 1 ELSE hand[c].dec = 1
        BY <1>0, <2>1, <3>1, <3>2, <3>4 DEF Carries, PictureInv
      <3> QED BY <1>11, <2>1, <2>3, <3>3, <3>4, <3>6, <3>7 DEF IsFilled, Selected
    <2>9. Fits(app, hand[c], label, n, delivered[c], lost', unscaled')
      BY <1>5, <2>2, <2>3, <2>6, <2>7, <2>8 DEF Fits
    <2>10. \A q \in Range(lost) : q.chan = c /\ IsPast(q, pc[c], decoded[c]) => IsPast(q, label, n)
      BY <1>5, <1>7, <1>11, <2>2 DEF IsPast
    <2>11. LineInv'
      <3>1. \A q \in Range(Line) : q.chan = c => IsPast(q, label, n) /\ IsMissing(q, lost')
        BY <1>5, <1>6, <1>11, <2>1, <2>2 DEF IsPast
      <3>2. \A q \in Range(Line') : q \notin Range(Line) =>
               q.chan = c /\ Fits(app, q, label, n, delivered[c], lost', unscaled')
        BY <2>3, <2>5, <2>9
      <3>3. \A q \in Range(lost') : q \in Range(lost)
        BY <2>1
      <3>4. delivered[c] <= n /\ (label \in Filling => delivered[c] < n)
        BY <1>5, <1>11, <2>2
      <3> QED BY <1>0, <1>1, <1>3, <1>4, <2>1, <2>2, <2>5, <2>10, <3>1, <3>2, <3>3, <3>4, DecoderOrder
    <2>12. KeepsPicture => FrameInv'
      <3>1. \A k \in 1 .. n : (k \in 1 .. decoded[c] /\ k # decoded[c]) \/ \E q \in Range(Line') : q.chan = c /\ q.frame = k
        BY <1>11, <2>3, <2>5
      <3> QED BY <1>0, <1>1, <1>3, <1>4, <2>1, <2>5, <3>1, DecoderFrames
    <2> QED BY <2>11, <2>12
  <1> QED BY <1>2, <1>8, <1>9, <1>10, <1>11 DEF GoesOn

LEMMA Next_Order ==
  ASSUME TInv, PictureInv, OrderInv, [Next]_vars
  PROVE  OrderInv'
  <1>1. app' = app /\ stops' \in Nat /\ stops' >= stops /\ stops \in Nat
    BY StopsGrow, SomeStopped
  <1>2. CASE stops' # 0
    BY <1>2 DEF OrderInv
  <1>3. CASE stops' = 0
    <2>1. stops = 0
      BY <1>1, <1>3
    <2>2. KeepsPicture' <=> KeepsPicture
      BY <1>1 DEF KeepsPicture
    <2>3. LineInv' /\ (KeepsPicture => FrameInv')
      <3>1. ASSUME NEW c \in Channels, Decoder(c) PROVE LineInv' /\ (KeepsPicture => FrameInv')
        BY <2>1, <3>1, Decoder_Order
      <3>2. ASSUME NEW s \in Blocks, BlockStepOf(s) PROVE LineInv' /\ (KeepsPicture => FrameInv')
        BY <2>1, <3>2, Block_Order
      <3>3. ~Stop
        BY <1>1, <1>3 DEF Stop
      <3>4. CASE Join \/ UNCHANGED vars
        <4>1. UNCHANGED <<app, pc, hand, decoded, filled, inside, lost, unscaled, delivered>>
          BY <3>4 DEF Join, vars, pipes, stage
        <4>2. Line' = Line
          BY <4>1, LeavesOthers, LineSame
        <4>3. LineInv'
          BY <2>1, <4>1, <4>2, SameApp DEF OrderInv, LineInv
        <4>4. FrameInv => FrameInv'
          BY <4>1, <4>2, SameApp DEF FrameInv, InTheLine, Owed, Sends, Selected
        <4> QED BY <2>1, <4>3, <4>4 DEF OrderInv
      <3> QED BY <3>1, <3>2, <3>3, <3>4 DEF Next, BlockStepOf
    <2> QED BY <2>2, <2>3 DEF OrderInv
  <1> QED BY <1>2, <1>3

LEMMA Init_Order ==
  ASSUME Init
  PROVE  OrderInv
  <1>1. TInv
    BY Init_Types
  <1>2. Line = <<>> /\ lost = <<>> /\ Range(Line) = {} /\ Range(lost) = {} /\ Ordered(Line)
    <2>1. Line = <<>> /\ lost = <<>>
      BY Init_Line DEF Init
    <2>2. PICK p \in {1} : TRUE
      OBVIOUS
    <2> QED BY <2>1, <2>2, OrderedOne
  <1>3. \A c \in Channels : delivered[c] = 0 /\ decoded[c] = 0 /\ pc[c] = "top"
    BY <1>1, Types, ThreadFacts DEF Init
  <1>4. LineInv
    BY <1>2, <1>3 DEF LineInv, Filling
  <1>5. FrameInv
    BY <1>3 DEF FrameInv, Owed
  <1> QED BY <1>4, <1>5 DEF OrderInv

(* Until the first stop the frames of a channel are in the line in the      *)
(* order they were decoded, and each one that was sent and neither lost nor *)
(* delivered is in it with its picture, except perhaps the last.            *)
THEOREM FramesStayInOrder == Spec => []InOrder
  <1>1. Init => TInv /\ PictureInv /\ OrderInv
    <2>1. Init => PictureInv
      BY Init_Types, Types, ThreadFacts DEF Init, PictureInv
    <2> QED BY <2>1, Init_Types, Init_Order
  <1>2. TInv /\ PictureInv /\ OrderInv /\ [Next]_vars => (TInv /\ PictureInv /\ OrderInv)'
    BY Next_Types, Next_Picture, Next_Order
  <1>3. TInv /\ PictureInv /\ OrderInv => InOrder
    BY OrderGivesInOrder
  <1> QED BY <1>1, <1>2, <1>3, PTL DEF Spec
=============================================================================
