------------------------- MODULE ConnectorRR_proofs -------------------------
(***************************************************************************)
(* Proofs about ConnectorRR, for any pins, any pool and any interleaving:  *)
(* the types, who owns a packet, that no wakeup is lost, and that the      *)
(* connector implements PacketChannel.                                     *)
(***************************************************************************)
EXTENDS ConnectorRR, SequenceTheorems, FiniteSetTheorems, TLAPS

-----------------------------------------------------------------------------
(* A pipe as a sequence without repetition. *)

(* pop_front removes the first packet and nothing else. *)
LEMMA PopFront ==
  ASSUME NEW S, NEW s \in Seq(S), s # <<>>, IsInjective(s)
  PROVE  /\ Head(s) \in S
         /\ Head(s) \in Range(s)
         /\ Tail(s) \in Seq(S)
         /\ IsInjective(Tail(s))
         /\ Range(Tail(s)) = Range(s) \ {Head(s)}
<1>1. /\ Tail(s) \in Seq(S) /\ Len(s) \in Nat \ {0} /\ Len(Tail(s)) = Len(s) - 1
      /\ \A i \in 1 .. Len(Tail(s)) : Tail(s)[i] = s[i + 1]
      /\ Head(s) = s[1] /\ s[1] \in S
      /\ DOMAIN s = 1 .. Len(s) /\ DOMAIN Tail(s) = 1 .. Len(Tail(s))
  OBVIOUS
<1>2. IsInjective(Tail(s))
  BY <1>1 DEF IsInjective
<1>3. Range(Tail(s)) = Range(s) \ {Head(s)}
  <2>1. ASSUME NEW x \in Range(Tail(s)) PROVE x \in Range(s) /\ x # Head(s)
    BY <1>1, <2>1 DEF Range, IsInjective
  <2>2. ASSUME NEW x \in Range(s), x # Head(s) PROVE x \in Range(Tail(s))
    <3>1. PICK i \in 1 .. Len(s) : x = s[i]
      BY <1>1, <2>2 DEF Range
    <3>2. i - 1 \in 1 .. Len(Tail(s)) /\ Tail(s)[i - 1] = x
      BY <1>1, <2>2, <3>1
    <3>3. QED
      BY <1>1, <3>2 DEF Range
  <2>3. QED
    BY <2>1, <2>2
<1>4. QED
  BY <1>1, <1>2, <1>3 DEF Range

(* push_back adds one packet. *)
LEMMA PushBack ==
  ASSUME NEW S, NEW s \in Seq(S), NEW k \in S, IsInjective(s), k \notin Range(s)
  PROVE  /\ Append(s, k) \in Seq(S)
         /\ IsInjective(Append(s, k))
         /\ Range(Append(s, k)) = Range(s) \union {k}
<1>1. /\ Append(s, k) \in Seq(S) /\ Len(s) \in Nat
      /\ Len(Append(s, k)) = Len(s) + 1
      /\ \A i \in 1 .. Len(s) : Append(s, k)[i] = s[i]
      /\ Append(s, k)[Len(s) + 1] = k
      /\ DOMAIN s = 1 .. Len(s)
      /\ DOMAIN Append(s, k) = 1 .. Len(s) + 1
  OBVIOUS
<1>2. IsInjective(Append(s, k))
  BY <1>1 DEF IsInjective, Range
<1>3. Range(Append(s, k)) = Range(s) \union {k}
  BY <1>1 DEF Range
<1>4. QED
  BY <1>1, <1>2, <1>3

(* push_front adds one packet. *)
LEMMA PushFront ==
  ASSUME NEW S, NEW s \in Seq(S), NEW k \in S, IsInjective(s), k \notin Range(s)
  PROVE  /\ <<k>> \o s \in Seq(S)
         /\ IsInjective(<<k>> \o s)
         /\ Range(<<k>> \o s) = Range(s) \union {k}
<1> DEFINE t == <<k>> \o s
<1>1. /\ t \in Seq(S) /\ Len(s) \in Nat /\ Len(t) = Len(s) + 1
      /\ t[1] = k
      /\ \A i \in 2 .. Len(t) : t[i] = s[i - 1]
      /\ DOMAIN s = 1 .. Len(s) /\ DOMAIN t = 1 .. Len(t)
  OBVIOUS
<1>2. \A i \in 1 .. Len(s) : i + 1 \in 1 .. Len(t) /\ t[i + 1] = s[i]
  BY <1>1
<1> HIDE DEF t
<1>3. \A i \in 1 .. Len(t) : i = 1 \/ (i \in 2 .. Len(t) /\ i - 1 \in 1 .. Len(s))
  BY <1>1
<1>4. \A i \in 1 .. Len(s) : s[i] # k
  BY <1>1 DEF Range
<1>5. IsInjective(t)
  <2>1. SUFFICES ASSUME NEW i \in 1 .. Len(t), NEW j \in 1 .. Len(t), t[i] = t[j]
                 PROVE  i = j
    BY <1>1 DEF IsInjective
  <2>2. CASE i = 1
    BY <1>1, <1>3, <1>4, <2>1, <2>2
  <2>3. CASE j = 1
    BY <1>1, <1>3, <1>4, <2>1, <2>3
  <2>4. CASE i # 1 /\ j # 1
    <3>1. s[i - 1] = s[j - 1] /\ i - 1 \in 1 .. Len(s) /\ j - 1 \in 1 .. Len(s)
      BY <1>1, <1>3, <2>1, <2>4
    <3>2. i - 1 = j - 1
      BY <1>1, <3>1 DEF IsInjective
    <3>3. QED
      BY <1>1, <3>2
  <2>5. QED
    BY <2>2, <2>3, <2>4
<1>6. Range(t) = Range(s) \union {k}
  <2>1. ASSUME NEW x \in Range(t) PROVE x \in Range(s) \union {k}
    BY <1>1, <1>3, <2>1 DEF Range
  <2>2. ASSUME NEW x \in Range(s) \union {k} PROVE x \in Range(t)
    BY <1>1, <1>2, <2>2 DEF Range
  <2>3. QED
    BY <2>1, <2>2
<1>7. QED
  BY <1>1, <1>5, <1>6 DEF t
-----------------------------------------------------------------------------
(* The control state. *)

Labels == {"idle", "in_notify"} \union InGetInput \union InGetOutput

(* The part of TypeOK that speaks of the threads and of the lock. *)
Control ==
  /\ pc \in [Pins -> Labels]
  /\ \A p \in InPins : pc[p] \notin InGetOutput
  /\ mutex \in OutPins \union {NoPin}
  /\ \A c \in OutPins : pc[c] \in InSection <=> mutex = c

(* Waking sleeping consumers, on top of a control state that is right, leaves
   it right: a consumer that wakes up does not own the lock yet. *)
LEMMA WokenControl ==
  ASSUME NEW S \in SUBSET Waiting, NEW at \in [Pins -> Labels],
         \A c \in Waiting : at[c] = "waiting"
  PROVE  /\ Woken(S, at) \in [Pins -> Labels]
         /\ \A p \in InPins : Woken(S, at)[p] = at[p]
         /\ \A c \in OutPins : Woken(S, at)[c] \in InSection <=> at[c] \in InSection
<1>1. S \subseteq OutPins /\ \A c \in S : at[c] = "waiting"
  BY DEF Waiting
<1>2. \A p \in InPins : p \notin S
  BY <1>1, PinsAssumption
<1>3. "lock" \notin InSection /\ "waiting" \notin InSection /\ "lock" \in Labels
  BY DEF InSection, Labels, InGetOutput
<1>4. QED
  BY <1>1, <1>2, <1>3 DEF Woken, Pins

(* The steps that leave the control state of the pins' threads right. *)
LEMMA MainControl ==
  Control /\ MainNext => Control'
<1>1. ASSUME Control, NotifyAll(pc), mutex' = mutex PROVE Control'
  <2>1. pc' = Woken(Waiting, pc)
    BY <1>1 DEF NotifyAll
  <2>2. pc \in [Pins -> Labels] /\ \A c \in Waiting : pc[c] = "waiting"
    BY <1>1 DEF Waiting, Control
  <2>3. /\ pc' \in [Pins -> Labels]
        /\ \A p \in InPins : pc'[p] = pc[p]
        /\ \A c \in OutPins : pc'[c] \in InSection <=> pc[c] \in InSection
    BY <2>1, <2>2, WokenControl
  <2>4. QED
    BY <1>1, <2>3 DEF Control
<1>2. ASSUME Control, pc' = pc, mutex' = mutex PROVE Control'
  BY <1>2 DEF Control
<1>3. QED
  BY <1>1, <1>2 DEF MainNext, RunAllThreads, TriggerMoved, SetFlag, TriggerFlagged,
     NewInputPin, NewOutputPin, DisconnectPin

LEMMA ProducerControl ==
  ASSUME Control, NEW p \in InPins, ProducerNext(p)
  PROVE  Control'
<1>1. p \in Pins /\ p \notin OutPins /\ pc[p] \notin InGetOutput /\ p \notin Waiting
  BY PinsAssumption DEF Pins, Control, Waiting
<1>2. ASSUME NEW l \in Labels \ InGetOutput
      PROVE  /\ At(p, l) \in [Pins -> Labels]
             /\ \A q \in InPins : At(p, l)[q] \notin InGetOutput
             /\ \A c \in OutPins : At(p, l)[c] = pc[c]
  BY <1>1 DEF Control, At, Pins
<1>3. /\ "idle" \in Labels \ InGetOutput /\ "in_notify" \in Labels \ InGetOutput
      /\ InGetInput \subseteq Labels \ InGetOutput
  BY DEF Labels, InGetInput, InGetOutput, InSection
<1>4. ASSUME NEW l \in Labels \ InGetOutput, pc' = At(p, l), mutex' = mutex
      PROVE  Control'
  BY <1>2, <1>4 DEF Control
<1>5. ASSUME NEW S \in SUBSET Waiting, pc' = Woken(S, At(p, "idle")), mutex' = mutex
      PROVE  Control'
  <2>1. /\ At(p, "idle") \in [Pins -> Labels]
        /\ \A c \in Waiting : At(p, "idle")[c] = "waiting"
    BY <1>2, <1>3 DEF Waiting
  <2>2. /\ pc' \in [Pins -> Labels]
        /\ \A q \in InPins : pc'[q] = At(p, "idle")[q]
        /\ \A c \in OutPins : pc'[c] \in InSection <=> At(p, "idle")[c] \in InSection
    BY <1>5, <2>1, WokenControl
  <2>3. QED
    BY <1>2, <1>3, <1>5, <2>2 DEF Control
<1>6. CASE GetInput(p) \/ InFlags(p) \/ InPop(p) \/ StoreInput(p)
  BY <1>3, <1>4, <1>6 DEF GetInput, InFlags, InPop, StoreInput, InGetInput
<1>7. CASE InTrigger(p)
  BY <1>5, <1>7 DEF InTrigger, NotifyAll
<1>8. CASE InNotify(p)
  BY <1>3, <1>4, <1>5, <1>8 DEF InNotify, NotifyOne
<1>9. QED
  BY <1>6, <1>7, <1>8 DEF ProducerNext

LEMMA ConsumerControl ==
  ASSUME Control, NEW c \in OutPins, ConsumerNext(c)
  PROVE  Control'
<1>1. c \in Pins /\ c \notin InPins /\ c # NoPin
  BY PinsAssumption DEF Pins
<1>2. ASSUME NEW l \in Labels
      PROVE  /\ At(c, l) \in [Pins -> Labels]
             /\ At(c, l)[c] = l
             /\ \A t \in Pins \ {c} : At(c, l)[t] = pc[t]
  BY <1>1 DEF Control, At
<1>3. /\ {"idle", "lock", "waiting"} \subseteq Labels \ InSection
      /\ InSection \subseteq Labels
  BY DEF Labels, InGetOutput, InSection, InGetInput
(* A step of the consumer, in terms of its label and of the lock. *)
<1>4. ASSUME NEW l \in Labels, pc' = At(c, l),
             \/ l \notin InSection /\ mutex' = NoPin /\ mutex = c
             \/ l \notin InSection /\ mutex' = mutex /\ mutex # c
             \/ l \in InSection /\ mutex' = c /\ mutex \in {c, NoPin}
      PROVE  Control'
  <2>1. \A p \in InPins : pc'[p] \notin InGetOutput
    BY <1>1, <1>2, <1>4 DEF Control, Pins
  <2>2. \A d \in OutPins : pc'[d] \in InSection <=> mutex' = d
    BY <1>1, <1>2, <1>4, PinsAssumption DEF Control, Pins
  <2>3. QED
    BY <1>2, <1>4, <2>1, <2>2 DEF Control
<1>5. mutex = c <=> pc[c] \in InSection
  BY DEF Control
<1>6. CASE GetOutput(c) \/ SpuriousWakeup(c) \/ StoreOutput(c)
  <2>1. mutex # c /\ mutex' = mutex
    BY <1>3, <1>5, <1>6 DEF GetOutput, SpuriousWakeup, Waiting, StoreOutput
  <2>2. CASE pc' = At(c, "lock")
    BY <1>3, <1>4, <2>1, <2>2
  <2>3. CASE pc' = pc
    BY <2>1, <2>3 DEF Control
  <2>4. QED
    BY <1>6, <2>2, <2>3 DEF GetOutput, SpuriousWakeup, StoreOutput
<1>7. CASE Lock(c)
  BY <1>3, <1>4, <1>7 DEF Lock, InSection
<1>8. CASE OutFlags(c) \/ OutPin(c) \/ OutPipe(c)
  <2>1. mutex = c
    BY <1>5, <1>8 DEF OutFlags, OutPin, OutPipe, InSection
  <2>2. \/ \E l \in {"trigger", "pin", "pipe"} : pc' = At(c, l) /\ mutex' = c
        \/ \E l \in {"idle", "waiting"} : pc' = At(c, l) /\ mutex' = NoPin
    BY <1>8, <2>1 DEF OutFlags, OutPin, OutPipe
  <2>3. {"trigger", "pin", "pipe"} \subseteq InSection
    BY DEF InSection
  <2>4. QED
    BY <1>3, <1>4, <2>1, <2>2, <2>3
<1>9. CASE OutTrigger(c)
  <2>1. mutex = c /\ pc[c] # "waiting"
    BY <1>5, <1>9 DEF OutTrigger, InSection
  <2>2. /\ pc' = Woken(Waiting, At(c, "idle")) /\ mutex' = NoPin
        /\ At(c, "idle") \in [Pins -> Labels]
        /\ \A d \in Waiting : At(c, "idle")[d] = "waiting"
    BY <1>2, <1>3, <1>9, <2>1 DEF OutTrigger, NotifyAll, Waiting, Pins
  <2>3. /\ pc' \in [Pins -> Labels]
        /\ \A p \in InPins : pc'[p] = At(c, "idle")[p]
        /\ \A d \in OutPins : pc'[d] \in InSection <=> At(c, "idle")[d] \in InSection
    BY <2>2, WokenControl
  <2>4. /\ \A p \in InPins : At(c, "idle")[p] = pc[p]
        /\ \A d \in OutPins : At(c, "idle")[d] \notin InSection
    BY <1>1, <1>2, <1>3, <2>1 DEF Control, Pins
  <2>5. QED
    BY <2>2, <2>3, <2>4, PinsAssumption DEF Control
<1>10. QED
  BY <1>6, <1>7, <1>8, <1>9 DEF ConsumerNext
-----------------------------------------------------------------------------
(* The packets. *)

(* The part of TypeOK that speaks of the packets. *)
Data ==
  /\ inPipe \in Seq(Packets)
  /\ outPipe \in Seq(Packets)
  /\ held \in [Pins -> SUBSET Packets]

(* A packet that leaves a pipe for the hands of a thread. *)
LEMMA Acquired ==
  ASSUME Data, PacketOwnership, NEW t \in Pins, NEW k \in InPipes,
         inPipe' \in Seq(Packets), outPipe' \in Seq(Packets),
         IsInjective(inPipe'), IsInjective(outPipe'),
         Range(inPipe') = Range(inPipe) \ {k},
         Range(outPipe') = Range(outPipe) \ {k},
         held' = [held EXCEPT ![t] = @ \union {k}]
  PROVE  Data' /\ PacketOwnership'
<1>1. k \in Packets /\ \A u \in Pins : k \notin held[u]
  BY DEF PacketOwnership, InPipes, Data, Range
<1>2. /\ held' \in [Pins -> SUBSET Packets]
      /\ held'[t] = held[t] \union {k}
      /\ \A u \in Pins \ {t} : held'[u] = held[u]
  BY <1>1 DEF Data
<1>3. InPipes' = InPipes \ {k}
  BY DEF InPipes
<1>4. \A u \in Pins : held'[u] \intersect InPipes' = {}
  BY <1>2, <1>3 DEF PacketOwnership
<1>5. \A u, v \in Pins : u # v => held'[u] \intersect held'[v] = {}
  BY <1>1, <1>2 DEF PacketOwnership
<1>6. \A x \in Packets : x \in InPipes' \/ \E u \in Pins : x \in held'[u]
  BY <1>2, <1>3 DEF PacketOwnership
<1>7. Range(inPipe') \intersect Range(outPipe') = {}
  BY DEF PacketOwnership
<1>8. QED
  BY <1>2, <1>4, <1>5, <1>6, <1>7 DEF Data, PacketOwnership

(* A packet that leaves the hands of a thread for a pipe. *)
LEMMA Released ==
  ASSUME Data, PacketOwnership, NEW t \in Pins, NEW k \in held[t],
         inPipe' \in Seq(Packets), outPipe' \in Seq(Packets),
         IsInjective(inPipe'), IsInjective(outPipe'),
         \/ /\ Range(inPipe') = Range(inPipe) \union {k}
            /\ Range(outPipe') = Range(outPipe)
         \/ /\ Range(inPipe') = Range(inPipe)
            /\ Range(outPipe') = Range(outPipe) \union {k},
         held' = [held EXCEPT ![t] = @ \ {k}]
  PROVE  Data' /\ PacketOwnership'
<1>1. k \in Packets /\ k \notin InPipes /\ \A u \in Pins \ {t} : k \notin held[u]
  BY DEF PacketOwnership, Data
<1>2. /\ held' \in [Pins -> SUBSET Packets]
      /\ held'[t] = held[t] \ {k}
      /\ \A u \in Pins \ {t} : held'[u] = held[u]
  BY DEF Data
<1>3. InPipes' = InPipes \union {k}
  BY DEF InPipes
<1>4. \A u \in Pins : held'[u] \intersect InPipes' = {}
  BY <1>1, <1>2, <1>3 DEF PacketOwnership
<1>5. \A u, v \in Pins : u # v => held'[u] \intersect held'[v] = {}
  BY <1>2 DEF PacketOwnership
<1>6. \A x \in Packets : x \in InPipes' \/ \E u \in Pins : x \in held'[u]
  BY <1>2, <1>3 DEF PacketOwnership
<1>7. Range(inPipe') \intersect Range(outPipe') = {}
  BY <1>1 DEF PacketOwnership, InPipes
<1>8. QED
  BY <1>2, <1>4, <1>5, <1>6, <1>7 DEF Data, PacketOwnership

LEMMA DataStep ==
  ASSUME Data, PacketOwnership, [Next]_vars
  PROVE  Data' /\ PacketOwnership'
<1>1. CASE UNCHANGED <<inPipe, outPipe, held>>
  BY <1>1 DEF Data, PacketOwnership, InPipes
<1>2. ASSUME NEW p \in InPins, InPop(p) PROVE Data' /\ PacketOwnership'
  <2>1. CASE inPipe = <<>>
    BY <1>1, <1>2, <2>1 DEF InPop
  <2>2. CASE inPipe # <<>>
    <3> DEFINE k == Head(inPipe)
    <3>1. /\ outPipe' = outPipe /\ inPipe' = Tail(inPipe)
          /\ held' = [held EXCEPT ![p] = @ \union {k}]
      BY <1>2, <2>2 DEF InPop
    <3>2. /\ k \in InPipes /\ k \notin Range(outPipe)
          /\ inPipe' \in Seq(Packets) /\ IsInjective(inPipe')
          /\ Range(inPipe') = Range(inPipe) \ {k}
      BY <2>2, <3>1, PopFront DEF Data, PacketOwnership, InPipes
    <3> HIDE DEF k
    <3>3. outPipe' \in Seq(Packets) /\ IsInjective(outPipe')
          /\ Range(outPipe') = Range(outPipe) \ {k}
      BY <3>1, <3>2 DEF Data, PacketOwnership
    <3>4. p \in Pins
      BY DEF Pins
    <3>5. QED
      BY <3>1, <3>2, <3>3, <3>4, Acquired
  <2>3. QED
    BY <2>1, <2>2
<1>3. ASSUME NEW c \in OutPins, OutPipe(c) PROVE Data' /\ PacketOwnership'
  <2>1. CASE outPipe = <<>>
    BY <1>1, <1>3, <2>1 DEF OutPipe
  <2>2. CASE outPipe # <<>>
    <3> DEFINE k == Head(outPipe)
    <3>1. /\ inPipe' = inPipe /\ outPipe' = Tail(outPipe)
          /\ held' = [held EXCEPT ![c] = @ \union {k}]
      BY <1>3, <2>2 DEF OutPipe
    <3>2. /\ k \in InPipes /\ k \notin Range(inPipe)
          /\ outPipe' \in Seq(Packets) /\ IsInjective(outPipe')
          /\ Range(outPipe') = Range(outPipe) \ {k}
      BY <2>2, <3>1, PopFront DEF Data, PacketOwnership, InPipes
    <3> HIDE DEF k
    <3>3. inPipe' \in Seq(Packets) /\ IsInjective(inPipe')
          /\ Range(inPipe') = Range(inPipe) \ {k}
      BY <3>1, <3>2 DEF Data, PacketOwnership
    <3>4. c \in Pins
      BY DEF Pins
    <3>5. QED
      BY <3>1, <3>2, <3>3, <3>4, Acquired
  <2>3. QED
    BY <2>1, <2>2
<1>4. ASSUME NEW p \in InPins, StoreInput(p) PROVE Data' /\ PacketOwnership'
  <2>1. p \in Pins
    BY DEF Pins
  <2>2. PICK k \in held[p] : /\ outPipe' = Append(outPipe, k)
                             /\ held' = [held EXCEPT ![p] = @ \ {k}]
    BY <1>4 DEF StoreInput
  <2>3. inPipe' = inPipe
    BY <1>4 DEF StoreInput
  <2>4. k \in Packets /\ k \notin Range(outPipe)
    BY <2>1 DEF Data, PacketOwnership, InPipes
  <2>5. /\ outPipe' \in Seq(Packets) /\ IsInjective(outPipe')
        /\ Range(outPipe') = Range(outPipe) \union {k}
    BY <2>2, <2>4, PushBack DEF Data, PacketOwnership
  <2>6. inPipe' \in Seq(Packets) /\ IsInjective(inPipe') /\ Range(inPipe') = Range(inPipe)
    BY <2>3 DEF Data, PacketOwnership
  <2>7. QED
    BY <2>1, <2>2, <2>5, <2>6, Released
<1>5. ASSUME NEW c \in OutPins, StoreOutput(c) PROVE Data' /\ PacketOwnership'
  <2>1. c \in Pins
    BY DEF Pins
  <2>2. PICK k \in held[c] : /\ inPipe' = <<k>> \o inPipe
                             /\ held' = [held EXCEPT ![c] = @ \ {k}]
    BY <1>5 DEF StoreOutput
  <2>3. outPipe' = outPipe
    BY <1>5 DEF StoreOutput
  <2>4. k \in Packets /\ k \notin Range(inPipe)
    BY <2>1 DEF Data, PacketOwnership, InPipes
  <2>5. /\ inPipe' \in Seq(Packets) /\ IsInjective(inPipe')
        /\ Range(inPipe') = Range(inPipe) \union {k}
    BY <2>2, <2>4, PushFront DEF Data, PacketOwnership
  <2>6. outPipe' \in Seq(Packets) /\ IsInjective(outPipe') /\ Range(outPipe') = Range(outPipe)
    BY <2>3 DEF Data, PacketOwnership
  <2>7. QED
    BY <2>1, <2>2, <2>5, <2>6, Released
<1>6. CASE MainNext
  BY <1>1, <1>6 DEF MainNext, RunAllThreads, TriggerMoved, SetFlag, TriggerFlagged,
     NewInputPin, NewOutputPin, DisconnectPin, pipes
<1>7. ASSUME NEW p \in InPins, ProducerNext(p) PROVE Data' /\ PacketOwnership'
  BY <1>1, <1>2, <1>4, <1>7
     DEF ProducerNext, GetInput, InFlags, InTrigger, InNotify, pipes
<1>8. ASSUME NEW c \in OutPins, ConsumerNext(c) PROVE Data' /\ PacketOwnership'
  BY <1>1, <1>3, <1>5, <1>8
     DEF ConsumerNext, GetOutput, Lock, OutFlags, OutTrigger, OutPin, SpuriousWakeup, pipes
<1>9. QED
  BY <1>1, <1>6, <1>7, <1>8 DEF Next, vars

-----------------------------------------------------------------------------
(* The connector's wiring and the main thread. *)

Wiring ==
  /\ pins \subseteq Pins
  /\ disconnectedPins \subseteq Pins
  /\ noInput \in BOOLEAN
  /\ noOutput \in BOOLEAN
  /\ main \in {"wiring", "steady", "moved", "last", "flagged"}
  /\ leaving \in Pins \union {NoPin}

LEMMA WiringStep ==
  ASSUME Wiring, [Next]_vars
  PROVE  Wiring'
<1>1. CASE UNCHANGED <<pins, disconnectedPins, noInput, noOutput, main, leaving>>
  BY <1>1 DEF Wiring
<1>2. CASE MainNext
  BY <1>2 DEF Wiring, MainNext, RunAllThreads, TriggerMoved, SetFlag, TriggerFlagged,
     NewInputPin, NewOutputPin, DisconnectPin, wiring, Pins
<1>3. ASSUME NEW p \in InPins, ProducerNext(p) PROVE Wiring'
  BY <1>1, <1>3 DEF ProducerNext, GetInput, InFlags, InTrigger, InPop, StoreInput,
     InNotify, wiring
<1>4. ASSUME NEW c \in OutPins, ConsumerNext(c) PROVE Wiring'
  BY <1>1, <1>4 DEF ConsumerNext, GetOutput, Lock, OutFlags, OutTrigger, OutPin,
     OutPipe, SpuriousWakeup, StoreOutput, wiring
<1>5. QED
  BY <1>1, <1>2, <1>3, <1>4 DEF Next, vars

-----------------------------------------------------------------------------
(* The invariant: the three parts of TypeOK, and PacketOwnership. *)

Inv == Control /\ Wiring /\ Data /\ PacketOwnership

LEMMA InvTypeOK == Control /\ Wiring /\ Data <=> TypeOK
BY DEF Control, Wiring, Data, TypeOK, Labels

LEMMA InitInv == Init => Inv
<1> SUFFICES ASSUME Init PROVE Inv
  OBVIOUS
<1>1. Control
  BY PinsAssumption DEF Init, Control, Labels, InGetOutput, InSection, Pins
<1>2. Wiring
  BY DEF Init, Wiring
<1>3. MaxIn * BufferNum \in Nat
  BY SizeAssumption
<1>4. inPipe \in Seq(Packets) /\ DOMAIN inPipe = Packets
  BY <1>3 DEF Init, Packets
<1>5. Data
  BY <1>4 DEF Init, Data
<1>6. IsInjective(inPipe) /\ Range(inPipe) = Packets
  <2>1. inPipe = [i \in Packets |-> i]
    BY DEF Init
  <2>2. QED
    BY <2>1 DEF IsInjective, Range
<1>7. IsInjective(outPipe) /\ Range(outPipe) = {}
  BY DEF Init, IsInjective, Range
<1>8. PacketOwnership
  BY <1>6, <1>7 DEF Init, PacketOwnership, InPipes
<1>9. QED
  BY <1>1, <1>2, <1>5, <1>8 DEF Inv

LEMMA NextInv == Inv /\ [Next]_vars => Inv'
<1> SUFFICES ASSUME Inv, [Next]_vars PROVE Inv'
  OBVIOUS
<1>1. Control'
  <2>1. CASE UNCHANGED vars
    BY <2>1 DEF Inv, Control, vars
  <2>2. QED
    BY <2>1, MainControl, ProducerControl, ConsumerControl DEF Inv, Next
<1>2. Wiring'
  BY WiringStep DEF Inv
<1>3. Data' /\ PacketOwnership'
  BY DataStep DEF Inv
<1>4. QED
  BY <1>1, <1>2, <1>3 DEF Inv

(* Every variable keeps its type, and m_mutex is owned by exactly the
   consumer that is between its lock and its release in GetOutput. *)
THEOREM TypeCorrect == Spec => []TypeOK
<1>1. Inv => TypeOK
  BY InvTypeOK DEF Inv
<1>2. QED
  BY <1>1, InitInv, NextInv, PTL DEF Spec

(* However many threads, packets and interleavings: a VADataPacket is never
   in two places, and never lost by the connector. *)
THEOREM PacketsAreOwned == Spec => []PacketOwnership
<1>1. Inv => PacketOwnership
  BY DEF Inv
<1>2. QED
  BY <1>1, InitInv, NextInv, PTL DEF Spec
-----------------------------------------------------------------------------
(* Wakeups.  Who is busy with a packet of m_outPipe: a StoreInput that has  *)
(* yet to notify, a consumer that is awake in GetOutput.                    *)

LEMMA FinitelyBusy ==
  /\ IsFiniteSet(Notifying) /\ Cardinality(Notifying) \in Nat
  /\ IsFiniteSet(Awake) /\ Cardinality(Awake) \in Nat
<1>1. Notifying \subseteq InPins /\ Awake \subseteq OutPins
  BY DEF Notifying, Awake
<1>2. IsFiniteSet(Notifying) /\ IsFiniteSet(Awake)
  BY <1>1, FinitePins, FS_Subset
<1>3. QED
  BY <1>2, FS_CardinalityType

(* A step after which no consumer sleeps loses nothing. *)
LEMMA AllAwake ==
  ASSUME NEW at, pc' = Woken(Waiting, at), \A c \in OutPins : at[c] = "waiting" => c \in Waiting
  PROVE  Waiting' = {}
<1>1. SUFFICES ASSUME NEW c \in OutPins, pc'[c] = "waiting" PROVE FALSE
  BY DEF Waiting
<1>2. c \in Pins
  BY DEF Pins
<1>3. QED
  BY <1>1, <1>2 DEF Woken

(* A step that adds nobody to the waiters, takes no work from anybody and
   stores no packet. *)
LEMMA NobodyLess ==
  ASSUME Data, NoLostWakeup, Waiting' \subseteq Waiting,
         disconnectedPins \subseteq disconnectedPins', outPipe' = outPipe,
         Notifying \subseteq Notifying', Awake \subseteq Awake',
         IsFiniteSet(Notifying'), IsFiniteSet(Awake')
  PROVE  NoLostWakeup'
<1>1. /\ Cardinality(Notifying) <= Cardinality(Notifying')
      /\ Cardinality(Awake) <= Cardinality(Awake')
      /\ Cardinality(Notifying') \in Nat /\ Cardinality(Awake') \in Nat
  BY FS_Subset, FS_CardinalityType
<1>2. Cardinality(Notifying) \in Nat /\ Cardinality(Awake) \in Nat /\ Len(outPipe) \in Nat
  BY FinitelyBusy DEF Data
<1>3. QED
  BY <1>1, <1>2 DEF NoLostWakeup

LEMMA FinitelyBusyNext ==
  /\ IsFiniteSet(Notifying') /\ Cardinality(Notifying') \in Nat
  /\ IsFiniteSet(Awake') /\ Cardinality(Awake') \in Nat
<1>1. Notifying' \subseteq InPins /\ Awake' \subseteq OutPins
  BY DEF Notifying, Awake
<1>2. IsFiniteSet(Notifying') /\ IsFiniteSet(Awake')
  BY <1>1, FinitePins, FS_Subset
<1>3. QED
  BY <1>2, FS_CardinalityType

LEMMA MainWakes ==
  ASSUME Inv, NoLostWakeup, MainNext
  PROVE  NoLostWakeup'
<1>1. CASE TriggerMoved \/ TriggerFlagged
  <2>1. pc' = Woken(Waiting, pc)
    BY <1>1 DEF TriggerMoved, TriggerFlagged, NotifyAll
  <2>2. Waiting' = {}
    BY <2>1, AllAwake DEF Waiting
  <2>3. QED
    BY <2>2 DEF NoLostWakeup
<1>2. CASE ~(TriggerMoved \/ TriggerFlagged)
  <2>1. /\ pc' = pc /\ outPipe' = outPipe
        /\ disconnectedPins \subseteq disconnectedPins'
    BY <1>2 DEF MainNext, RunAllThreads, SetFlag, NewInputPin, NewOutputPin, DisconnectPin,
       pipes, wiring
  <2>2. Waiting' = Waiting /\ Notifying' = Notifying /\ Awake' = Awake
    BY <2>1 DEF Waiting, Notifying, Awake
  <2>3. QED
    BY <2>1, <2>2, NobodyLess, FinitelyBusy DEF Inv
<1>3. QED
  BY <1>1, <1>2

LEMMA ProducerWakes ==
  ASSUME Inv, NoLostWakeup, NEW p \in InPins, ProducerNext(p)
  PROVE  NoLostWakeup'
<1>1. /\ p \in Pins /\ p \notin OutPins /\ pc \in [Pins -> Labels]
      /\ p \notin Waiting /\ disconnectedPins' = disconnectedPins
  BY PinsAssumption DEF Pins, Inv, Control, Waiting, ProducerNext, GetInput, InFlags,
     InTrigger, InPop, StoreInput, InNotify, wiring
<1>2. \A l : /\ At(p, l)[p] = l
             /\ \A t \in Pins \ {p} : At(p, l)[t] = pc[t]
  BY <1>1 DEF At
<1>3. CASE GetInput(p) \/ InFlags(p) \/ InPop(p)
  <2>1. PICK l \in {"in_flags", "in_trigger", "in_pop", "idle"} : pc' = At(p, l)
    BY <1>3 DEF GetInput, InFlags, InPop
  <2>2. outPipe' = outPipe /\ pc[p] # "in_notify"
    BY <1>3 DEF GetInput, InFlags, InPop, pipes
  <2>3. Waiting' = Waiting /\ Awake' = Awake /\ Notifying' = Notifying
    BY <1>1, <1>2, <2>1, <2>2 DEF Waiting, Awake, Notifying, Pins
  <2>4. QED
    BY <1>1, <2>2, <2>3, NobodyLess, FinitelyBusy DEF Inv
<1>4. CASE InTrigger(p)
  <2>1. pc' = Woken(Waiting, At(p, "idle"))
    BY <1>4 DEF InTrigger, NotifyAll
  <2>2. \A c \in OutPins : At(p, "idle")[c] = "waiting" => c \in Waiting
    BY <1>1, <1>2 DEF Waiting, Pins
  <2>3. Waiting' = {}
    BY <2>1, <2>2, AllAwake
  <2>4. QED
    BY <2>3 DEF NoLostWakeup
(* One packet more, and one notification more to come. *)
<1>5. CASE StoreInput(p)
  <2>1. pc' = At(p, "in_notify") /\ pc[p] = "idle"
    BY <1>5 DEF StoreInput
  <2>2. /\ Waiting' = Waiting /\ Awake' = Awake
        /\ Notifying' = Notifying \union {p} /\ p \notin Notifying
    BY <1>1, <1>2, <2>1 DEF Waiting, Awake, Notifying, Pins
  <2>3. Cardinality(Notifying') = Cardinality(Notifying) + 1
    BY <2>2, FinitelyBusy, FS_AddElement
  <2>4. PICK k \in held[p] : outPipe' = Append(outPipe, k)
    BY <1>5 DEF StoreInput
  <2>5. Len(outPipe') = Len(outPipe) + 1 /\ Len(outPipe) \in Nat
    BY <1>1, <2>4 DEF Inv, Data
  <2>6. QED
    BY <1>1, <2>2, <2>3, <2>5, FinitelyBusy DEF NoLostWakeup
(* The notification that was to come has woken a consumer, if one slept. *)
<1>6. CASE InNotify(p)
  <2>1. pc[p] = "in_notify" /\ outPipe' = outPipe
    BY <1>6 DEF InNotify, pipes
  <2>2. CASE Waiting = {} /\ pc' = At(p, "idle")
    <3>1. Waiting' = {}
      BY <1>1, <1>2, <2>2 DEF Waiting, Pins
    <3>2. QED
      BY <3>1 DEF NoLostWakeup
  <2>3. ASSUME NEW c \in Waiting, pc' = Woken({c}, At(p, "idle")) PROVE NoLostWakeup'
    <3>1. c \in OutPins /\ c \in Pins /\ c # p /\ pc[c] = "waiting"
      BY <1>1 DEF Waiting, Pins
    <3>2. /\ pc'[c] = "lock" /\ pc'[p] = "idle"
          /\ \A t \in Pins \ {c, p} : pc'[t] = pc[t]
      BY <1>1, <1>2, <2>3, <3>1 DEF Woken
    <3>3. /\ Waiting' = Waiting \ {c}
          /\ Awake' = Awake \union {c} /\ c \notin Awake
          /\ Notifying' = Notifying \ {p} /\ p \in Notifying
      BY <1>1, <2>1, <3>1, <3>2 DEF Waiting, Awake, Notifying, Pins, InGetOutput
    <3>4. /\ Cardinality(Notifying') = Cardinality(Notifying) - 1
          /\ Cardinality(Awake') = Cardinality(Awake) + 1
      BY <3>3, FinitelyBusy, FS_AddElement, FS_RemoveElement
    <3>5. QED
      BY <1>1, <2>1, <3>3, <3>4, FinitelyBusy DEF NoLostWakeup
  <2>4. QED
    BY <1>6, <2>2, <2>3 DEF InNotify, NotifyOne
<1>7. QED
  BY <1>3, <1>4, <1>5, <1>6 DEF ProducerNext

LEMMA ConsumerWakes ==
  ASSUME Inv, NoLostWakeup, NEW c \in OutPins, ConsumerNext(c)
  PROVE  NoLostWakeup'
<1>1. /\ c \in Pins /\ c \notin InPins /\ pc \in [Pins -> Labels]
      /\ disconnectedPins' = disconnectedPins
      /\ outPipe \in Seq(Packets) /\ Len(outPipe) \in Nat
  BY PinsAssumption DEF Pins, Inv, Control, Data, ConsumerNext, GetOutput, Lock, OutFlags,
     OutTrigger, OutPin, OutPipe, SpuriousWakeup, StoreOutput, wiring
<1>2. \A l : /\ At(c, l)[c] = l
             /\ \A t \in Pins \ {c} : At(c, l)[t] = pc[t]
  BY <1>1 DEF At
<1>3. {"lock", "flags", "trigger", "pin", "pipe"} \subseteq InGetOutput \ {"waiting"}
      /\ "idle" \notin InGetOutput
  BY DEF InGetOutput, InSection
(* The consumer is awake in GetOutput after the step. *)
<1>4. ASSUME NEW l \in {"lock", "flags", "trigger", "pin", "pipe"},
             pc' = At(c, l), outPipe' = outPipe
      PROVE  NoLostWakeup'
  <2>1. /\ Waiting' \subseteq Waiting /\ Awake \subseteq Awake'
        /\ Notifying' = Notifying
    BY <1>1, <1>2, <1>3, <1>4 DEF Waiting, Awake, Notifying, Pins
  <2>2. QED
    BY <1>1, <1>4, <2>1, NobodyLess, FinitelyBusyNext DEF Inv
<1>5. CASE GetOutput(c) \/ Lock(c) \/ OutFlags(c) \/ SpuriousWakeup(c)
  BY <1>4, <1>5 DEF GetOutput, Lock, OutFlags, SpuriousWakeup, pipes
<1>6. CASE OutTrigger(c)
  <2>1. pc' = Woken(Waiting, At(c, "idle"))
    BY <1>6 DEF OutTrigger, NotifyAll
  <2>2. \A d \in OutPins : At(c, "idle")[d] = "waiting" => d \in Waiting
    BY <1>1, <1>2 DEF Waiting, Pins
  <2>3. Waiting' = {}
    BY <2>1, <2>2, AllAwake
  <2>4. QED
    BY <2>3 DEF NoLostWakeup
<1>7. CASE OutPin(c)
  <2>1. CASE c \in disconnectedPins
    BY <1>1, <2>1 DEF NoLostWakeup
  <2>2. CASE c \notin disconnectedPins
    BY <1>4, <1>7, <2>2 DEF OutPin, pipes
  <2>3. QED
    BY <2>1, <2>2
(* A consumer that leaves takes a packet with it, or has found none. *)
<1>8. CASE OutPipe(c)
  <2>1. pc[c] = "pipe" /\ c \in Awake
    BY <1>3, <1>8 DEF OutPipe, Awake
  <2>2. CASE outPipe = <<>>
    <3>1. outPipe' = <<>>
      BY <1>8, <2>2 DEF OutPipe
    <3>2. QED
      BY <3>1, FinitelyBusyNext DEF NoLostWakeup
  <2>3. CASE outPipe # <<>>
    <3>1. outPipe' = Tail(outPipe) /\ pc' = At(c, "idle")
      BY <1>8, <2>3 DEF OutPipe
    <3>2. /\ Waiting' = Waiting /\ Awake' = Awake \ {c}
          /\ Notifying' = Notifying
      BY <1>1, <1>2, <1>3, <2>1, <3>1 DEF Waiting, Awake, Notifying, Pins
    <3>3. Cardinality(Awake') = Cardinality(Awake) - 1
      BY <2>1, <3>2, FinitelyBusy, FS_RemoveElement
    <3>4. Len(outPipe') = Len(outPipe) - 1
      BY <1>1, <2>3, <3>1
    <3>5. QED
      BY <1>1, <3>2, <3>3, <3>4, FinitelyBusy DEF NoLostWakeup
  <2>4. QED
    BY <2>2, <2>3
<1>9. CASE StoreOutput(c)
  <2>1. pc' = pc /\ outPipe' = outPipe
    BY <1>9 DEF StoreOutput
  <2>2. Waiting' = Waiting /\ Notifying' = Notifying /\ Awake' = Awake
    BY <2>1 DEF Waiting, Notifying, Awake
  <2>3. QED
    BY <1>1, <2>1, <2>2, NobodyLess, FinitelyBusy DEF Inv
<1>10. QED
  BY <1>5, <1>6, <1>7, <1>8, <1>9 DEF ConsumerNext

(* However many producers notify one consumer each, and however the consumers
   wake, sleep and leave: no packet is left in m_outPipe that nobody looks
   for while some consumer sleeps. *)
THEOREM WakeupsAreNotLost == Spec => []NoLostWakeup
<1>1. Init => NoLostWakeup
  BY PinsAssumption DEF Init, NoLostWakeup, Waiting, Pins
<1>2. Inv /\ NoLostWakeup /\ [Next]_vars => NoLostWakeup'
  <2>1. SUFFICES ASSUME Inv, NoLostWakeup, [Next]_vars PROVE NoLostWakeup'
    OBVIOUS
  <2>2. CASE UNCHANGED vars
    BY <2>1, <2>2 DEF NoLostWakeup, Waiting, Notifying, Awake, vars
  <2>3. QED
    BY <2>1, <2>2, MainWakes, ProducerWakes, ConsumerWakes DEF Next
<1>3. QED
  BY <1>1, <1>2, InitInv, NextInv, PTL DEF Spec

-----------------------------------------------------------------------------
(***************************************************************************)
(* Proof that ConnectorRR implements PacketChannel.                        *)
(***************************************************************************)

Calling == {t \in Pins : pc[t] \in InGetInput \union InGetOutput}

(***************************************************************************)
(* What the mapping needs beyond Inv: the flags tell the truth (a thread   *)
(* that has seen the connector closed is right, and stays right), a        *)
(* disconnected pin is in none of the live lists, and the main thread sets *)
(* a flag for an empty list only.                                          *)
(***************************************************************************)
FlagsTruth ==
  /\ main = "wiring" =>
       /\ noInput = (pins \intersect InPins = {})
       /\ noOutput = (pins \intersect OutPins = {})
       /\ disconnectedPins = {}
       /\ \A t \in Pins : pc[t] = "idle"
  /\ \A t \in Pins : pc[t] \in {"in_trigger", "trigger"} => Closed
  /\ pins \intersect disconnectedPins = {}
  /\ main = "last" => LastOfItsSide

-----------------------------------------------------------------------------
(* Waking changes no label but "waiting". *)
LEMMA WokenLabels ==
  ASSUME NEW S \in SUBSET Waiting, NEW at \in [Pins -> Labels],
         \A c \in S : at[c] = "waiting"
  PROVE  /\ \A t \in Pins : Woken(S, at)[t] \in {"in_trigger", "trigger"}
                              <=> at[t] \in {"in_trigger", "trigger"}
         /\ {t \in Pins : Woken(S, at)[t] \in InGetInput \union InGetOutput}
              = {t \in Pins : at[t] \in InGetInput \union InGetOutput}
BY DEF Woken, InGetOutput

(* No thread of a pin runs while the main thread wires the connector. *)
LEMMA IdleWhileWiring ==
  ASSUME FlagsTruth, NEW t \in Pins, main = "wiring"
  PROVE  /\ t \in InPins  => ~ProducerNext(t)
         /\ t \in OutPins => ~ConsumerNext(t)
BY DEF FlagsTruth, ProducerNext, ConsumerNext, Running, Waiting, GetInput, InFlags,
       InTrigger, InPop, StoreInput, InNotify, GetOutput, Lock, OutFlags, OutTrigger,
       OutPin, OutPipe, SpuriousWakeup, StoreOutput

LEMMA MainFlags ==
  ASSUME Inv, FlagsTruth, MainNext
  PROVE  FlagsTruth'
<1>1. pc \in [Pins -> Labels]
  BY DEF Inv, Control
<1>2. CASE RunAllThreads
  BY <1>2 DEF RunAllThreads, FlagsTruth, Closed, wiring, LastOfItsSide
<1>3. ASSUME NotifyAll(pc), UNCHANGED wiring, main # "wiring", main' # "wiring",
             main' = "last" => LastOfItsSide'
      PROVE  FlagsTruth'
  <2>1. pc' = Woken(Waiting, pc) /\ \A c \in Waiting : pc[c] = "waiting"
    BY <1>3 DEF NotifyAll, Waiting
  <2>2. \A t \in Pins : pc'[t] \in {"in_trigger", "trigger"}
                           <=> pc[t] \in {"in_trigger", "trigger"}
    BY <1>1, <2>1, WokenLabels
  <2>3. QED
    BY <1>3, <2>2 DEF FlagsTruth, Closed, wiring
<1>4. CASE TriggerMoved
  BY <1>3, <1>4 DEF TriggerMoved, LastOfItsSide, wiring
<1>5. CASE TriggerFlagged
  BY <1>3, <1>5 DEF TriggerFlagged
<1>6. CASE SetFlag
  BY <1>6 DEF SetFlag, FlagsTruth, Closed, Inv, Wiring
<1>7. ASSUME NEW p \in InPins, NewInputPin(p) PROVE FlagsTruth'
  <2>1. /\ main = "wiring" /\ main' = "wiring" /\ pc' = pc
        /\ disconnectedPins' = disconnectedPins /\ pins' = pins \union {p}
        /\ noInput' = FALSE /\ noOutput' = noOutput
    BY <1>7 DEF NewInputPin
  <2>2. pins' \intersect InPins # {} /\ pins' \intersect OutPins = pins \intersect OutPins
    BY <2>1, PinsAssumption
  <2>3. QED
    BY <2>1, <2>2 DEF FlagsTruth
<1>8. ASSUME NEW c \in OutPins, NewOutputPin(c) PROVE FlagsTruth'
  <2>1. /\ main = "wiring" /\ main' = "wiring" /\ pc' = pc
        /\ disconnectedPins' = disconnectedPins /\ pins' = pins \union {c}
        /\ noOutput' = FALSE /\ noInput' = noInput
    BY <1>8 DEF NewOutputPin
  <2>2. pins' \intersect OutPins # {} /\ pins' \intersect InPins = pins \intersect InPins
    BY <2>1, PinsAssumption
  <2>3. QED
    BY <2>1, <2>2 DEF FlagsTruth
<1>9. ASSUME NEW t \in Pins, DisconnectPin(t) PROVE FlagsTruth'
  BY <1>9 DEF DisconnectPin, FlagsTruth, Closed
<1>10. QED
  BY <1>2, <1>4, <1>5, <1>6, <1>7, <1>8, <1>9 DEF MainNext

LEMMA PinFlags ==
  ASSUME Inv, FlagsTruth, NEW t \in Pins,
         \/ t \in InPins /\ ProducerNext(t)
         \/ t \in OutPins /\ ConsumerNext(t)
  PROVE  FlagsTruth'
<1>1. pc \in [Pins -> Labels]
  BY DEF Inv, Control
<1>2. main # "wiring"
  BY IdleWhileWiring
<1>3. UNCHANGED <<pins, disconnectedPins, noInput, noOutput, main, leaving>>
  BY DEF ProducerNext, ConsumerNext, wiring, GetInput, InFlags,
       InTrigger, InPop, StoreInput, InNotify, GetOutput, Lock, OutFlags, OutTrigger,
       OutPin, OutPipe, SpuriousWakeup, StoreOutput
<1>4. SUFFICES \A u \in Pins : pc'[u] \in {"in_trigger", "trigger"} => Closed
  BY <1>2, <1>3 DEF FlagsTruth, Closed, LastOfItsSide
<1>5. ASSUME NEW l \in Labels, pc' = At(t, l), l \in {"in_trigger", "trigger"} => Closed
      PROVE  \A u \in Pins : pc'[u] \in {"in_trigger", "trigger"} => Closed
  BY <1>1, <1>5 DEF At, FlagsTruth
<1>6. ASSUME NEW S \in SUBSET Waiting, pc' = Woken(S, At(t, "idle")), pc[t] # "waiting"
      PROVE  \A u \in Pins : pc'[u] \in {"in_trigger", "trigger"} => Closed
  <2>1. /\ At(t, "idle") \in [Pins -> Labels]
        /\ \A c \in S : At(t, "idle")[c] = "waiting"
        /\ \A u \in Pins : At(t, "idle")[u] \in {"in_trigger", "trigger"} => Closed
    BY <1>1, <1>6 DEF At, FlagsTruth, Labels, Waiting, Pins
  <2>2. QED
    BY <1>6, <2>1, WokenLabels
<1>7. Labels = {"idle", "in_notify", "in_flags", "in_trigger", "in_pop", "flags",
                "trigger", "pin", "pipe", "lock", "waiting"}
  BY DEF Labels, InGetInput, InGetOutput, InSection
<1>8. CASE t \in InPins /\ ProducerNext(t)
  <2>1. CASE GetInput(t) \/ InFlags(t) \/ InPop(t) \/ StoreInput(t)
    BY <1>5, <1>7, <2>1 DEF GetInput, InFlags, InPop, StoreInput
  <2>2. CASE InTrigger(t)
    BY <1>6, <2>2 DEF InTrigger, NotifyAll
  <2>3. CASE InNotify(t)
    BY <1>5, <1>6, <1>7, <2>3 DEF InNotify, NotifyOne
  <2>4. QED
    BY <1>8, <2>1, <2>2, <2>3 DEF ProducerNext
<1>9. CASE t \in OutPins /\ ConsumerNext(t)
  <2>1. CASE GetOutput(t) \/ Lock(t) \/ OutFlags(t) \/ OutPin(t) \/ OutPipe(t) \/ SpuriousWakeup(t)
    BY <1>5, <1>7, <2>1 DEF GetOutput, Lock, OutFlags, OutPin, OutPipe, SpuriousWakeup
  <2>2. CASE OutTrigger(t)
    BY <1>6, <2>2 DEF OutTrigger, NotifyAll
  <2>3. CASE StoreOutput(t)
    BY <2>3 DEF StoreOutput, FlagsTruth
  <2>4. QED
    BY <1>9, <2>1, <2>2, <2>3 DEF ConsumerNext
<1>10. QED
  BY <1>8, <1>9

LEMMA FlagsInvariant == Spec => [](Inv /\ FlagsTruth)
<1>1. Init => Inv /\ FlagsTruth
  <2>1. Init => FlagsTruth
    BY DEF Init, FlagsTruth, LastOfItsSide
  <2>2. QED
    BY <2>1, InitInv
<1>2. Inv /\ FlagsTruth /\ [Next]_vars => Inv' /\ FlagsTruth'
  <2>1. Inv /\ FlagsTruth /\ UNCHANGED vars => FlagsTruth'
    BY DEF FlagsTruth, vars, Closed, LastOfItsSide
  <2>2. Inv /\ FlagsTruth /\ Next => FlagsTruth'
    BY MainFlags, PinFlags DEF Next, Pins
  <2>3. QED
    BY <2>1, <2>2, NextInv
<1>3. QED
  BY <1>1, <1>2, PTL DEF Spec-----------------------------------------------------------------------------
(* The steps, as the channel sees them. *)

ChannelStep == [Channel!Next]_(Channel!vars)

(* A step that leaves all the channel can see. *)
LEMMA Stutter ==
  ASSUME UNCHANGED <<inPipe, outPipe, held, pins, noInput, noOutput>>,
         Calling' = Calling
  PROVE  ChannelStep
BY DEF ChannelStep, Channel!vars, Calling, Closed

LEMMA MainRefines ==
  ASSUME Inv, FlagsTruth, MainNext
  PROVE  ChannelStep
<1>1. pc \in [Pins -> Labels]
  BY DEF Inv, Control
<1>2. CASE RunAllThreads
  BY <1>2, Stutter DEF RunAllThreads, pipes, wiring, Calling
<1>3. CASE TriggerMoved \/ TriggerFlagged
  <2>1. pc' = Woken(Waiting, pc) /\ \A c \in Waiting : pc[c] = "waiting"
    BY <1>3 DEF TriggerMoved, TriggerFlagged, NotifyAll, Waiting
  <2>2. Calling' = Calling
    BY <1>1, <2>1, WokenLabels DEF Calling
  <2>3. QED
    BY <1>3, <2>2, Stutter DEF TriggerMoved, TriggerFlagged, pipes, wiring
<1>4. CASE SetFlag
  <2>1. UNCHANGED <<inPipe, outPipe, held, pins, pc>>
    BY <1>4 DEF SetFlag, pipes
  <2>2. Closed' /\ Channel!OneSideEmpty(pins)
    BY <1>4 DEF SetFlag, FlagsTruth, LastOfItsSide, Closed, Channel!OneSideEmpty
  <2>3. Channel!Close
    BY <2>1, <2>2 DEF Channel!Close
  <2>4. QED
    BY <2>3 DEF ChannelStep, Channel!Next
<1>5. ASSUME NEW t \in Pins, pins' = pins \union {t},
             UNCHANGED <<inPipe, outPipe, held, pc>>,
             Closed' = Channel!OneSideEmpty(pins')
      PROVE  ChannelStep
  <2>1. Channel!Connect(t)
    BY <1>5 DEF Channel!Connect
  <2>2. QED
    BY <2>1 DEF ChannelStep, Channel!Next, Channel!Pins, Pins
<1>6. ASSUME NEW p \in InPins, NewInputPin(p) PROVE ChannelStep
  <2>1. p \in Pins /\ p \notin OutPins
    BY PinsAssumption DEF Pins
  <2>2. /\ pins' = pins \union {p} /\ UNCHANGED <<inPipe, outPipe, held, pc>>
        /\ noInput' = FALSE /\ noOutput' = (pins \intersect OutPins = {})
    BY <1>6 DEF NewInputPin, pipes, FlagsTruth
  <2>3. Closed' = Channel!OneSideEmpty(pins')
    BY <2>1, <2>2 DEF Closed, Channel!OneSideEmpty
  <2>4. QED
    BY <1>5, <2>1, <2>2, <2>3
<1>7. ASSUME NEW c \in OutPins, NewOutputPin(c) PROVE ChannelStep
  <2>1. c \in Pins /\ c \notin InPins
    BY PinsAssumption DEF Pins
  <2>2. /\ pins' = pins \union {c} /\ UNCHANGED <<inPipe, outPipe, held, pc>>
        /\ noOutput' = FALSE /\ noInput' = (pins \intersect InPins = {})
    BY <1>7 DEF NewOutputPin, pipes, FlagsTruth
  <2>3. Closed' = Channel!OneSideEmpty(pins')
    BY <2>1, <2>2 DEF Closed, Channel!OneSideEmpty
  <2>4. QED
    BY <1>5, <2>1, <2>2, <2>3
<1>8. ASSUME NEW t \in Pins, DisconnectPin(t) PROVE ChannelStep
  <2>1. Channel!Cut(t)
    BY <1>8 DEF DisconnectPin, Channel!Cut, Closed, pipes
  <2>2. QED
    BY <2>1 DEF ChannelStep, Channel!Next, Channel!Pins, Pins
<1>9. QED
  BY <1>2, <1>3, <1>4, <1>6, <1>7, <1>8 DEF MainNext

(* What a new label, or a label and wakeups, do to the calls under way. *)
LEMMA CallingAt ==
  ASSUME Inv, NEW t \in Pins, NEW l \in Labels
  PROVE  {u \in Pins : At(t, l)[u] \in InGetInput \union InGetOutput}
           = IF l \in InGetInput \union InGetOutput THEN Calling \union {t}
                                                  ELSE Calling \ {t}
<1>1. At(t, l)[t] = l /\ \A u \in Pins \ {t} : At(t, l)[u] = pc[u]
  BY DEF Inv, Control, At
<1>2. QED
  BY <1>1 DEF Calling

LEMMA CallingWoken ==
  ASSUME Inv, NEW t \in Pins, NEW S \in SUBSET Waiting, pc[t] # "waiting",
         pc' = Woken(S, At(t, "idle"))
  PROVE  Calling' = Calling \ {t}
<1>1. "idle" \in Labels /\ "idle" \notin InGetInput \union InGetOutput
  BY DEF Labels, InGetInput, InGetOutput, InSection
<1>2. At(t, "idle") \in [Pins -> Labels] /\ \A c \in S : At(t, "idle")[c] = "waiting"
  BY <1>1 DEF Inv, Control, At, Waiting, Pins
<1>3. Calling' = {u \in Pins : At(t, "idle")[u] \in InGetInput \union InGetOutput}
  BY <1>2, WokenLabels DEF Calling
<1>4. QED
  BY <1>1, <1>3, CallingAt

(* A Get that begins, and one that returns no packet. *)
LEMMA BeginRefines ==
  ASSUME NEW t \in Pins, t \notin Calling, Calling' = Calling \union {t},
         UNCHANGED <<inPipe, outPipe, held, pins, noInput, noOutput>>
  PROVE  ChannelStep
<1>1. Channel!BeginGet(t)
  BY DEF Channel!BeginGet, Calling, Closed
<1>2. QED
  BY <1>1 DEF ChannelStep, Channel!Next, Channel!Pins, Pins

LEMMA FailRefines ==
  ASSUME NEW t \in Pins, t \in Calling, Calling' = Calling \ {t},
         Closed \/ t \in OutPins \ pins,
         UNCHANGED <<inPipe, outPipe, held, pins, noInput, noOutput>>
  PROVE  ChannelStep
<1>1. Channel!Fail(t)
  BY DEF Channel!Fail, Calling, Closed
<1>2. QED
  BY <1>1 DEF ChannelStep, Channel!Next, Channel!Pins, Pins

LEMMA ProducerRefines ==
  ASSUME Inv, FlagsTruth, NEW p \in InPins, ProducerNext(p)
  PROVE  ChannelStep
<1>1. p \in Pins
  BY DEF Pins
<1>2. /\ \A l \in {"in_flags", "in_trigger", "in_pop"} :
           l \in Labels /\ l \in InGetInput
      /\ \A l \in {"idle", "in_notify"} :
           l \in Labels /\ l \notin InGetInput \union InGetOutput
  BY DEF Labels, InGetInput, InGetOutput, InSection
<1>3. ASSUME NEW l \in {"in_flags", "in_trigger", "in_pop"}, pc' = At(p, l)
      PROVE  Calling' = Calling \union {p}
  BY <1>1, <1>2, <1>3, CallingAt DEF Calling
<1>4. ASSUME NEW l \in {"idle", "in_notify"}, pc' = At(p, l)
      PROVE  Calling' = Calling \ {p}
  BY <1>1, <1>2, <1>4, CallingAt DEF Calling
<1>5. CASE GetInput(p)
  BY <1>1, <1>2, <1>3, <1>5, BeginRefines DEF GetInput, pipes, wiring, Calling
<1>6. CASE InFlags(p)
  <2>1. Calling' = Calling \union {p} /\ p \in Calling
    BY <1>1, <1>2, <1>3, <1>6 DEF InFlags, Calling
  <2>2. QED
    BY <1>6, <2>1, Stutter DEF InFlags, pipes, wiring
<1>7. CASE InTrigger(p)
  <2>1. Calling' = Calling \ {p} /\ p \in Calling
    BY <1>1, <1>2, <1>7, CallingWoken DEF InTrigger, NotifyAll, Calling
  <2>2. Closed
    BY <1>1, <1>7 DEF InTrigger, FlagsTruth
  <2>3. QED
    BY <1>1, <1>7, <2>1, <2>2, FailRefines DEF InTrigger, pipes, wiring
<1>8. CASE InPop(p)
  <2>1. p \in Calling
    BY <1>1, <1>2, <1>8 DEF InPop, Calling
  <2>2. CASE inPipe = <<>>
    <3>1. Calling' = Calling
      BY <1>3, <1>8, <2>1, <2>2 DEF InPop
    <3>2. QED
      BY <1>8, <2>2, <3>1, Stutter DEF InPop, wiring
  <2>3. CASE inPipe # <<>>
    <3>1. /\ Calling' = Calling \ {p} /\ inPipe' = Tail(inPipe)
          /\ held' = [held EXCEPT ![p] = @ \union {Head(inPipe)}]
          /\ UNCHANGED <<outPipe, pins, noInput, noOutput>>
      BY <1>4, <1>8, <2>3 DEF InPop, wiring
    <3>2. /\ Head(inPipe) \in Range(inPipe)
          /\ Range(inPipe') = Range(inPipe) \ {Head(inPipe)}
      BY <2>3, <3>1, PopFront DEF Inv, Data, PacketOwnership
    <3>3. Channel!Take(p)
      BY <2>1, <3>1, <3>2 DEF Channel!Take, Calling, Closed
    <3>4. QED
      BY <3>3 DEF ChannelStep, Channel!Next
  <2>4. QED
    BY <2>2, <2>3
<1>9. CASE StoreInput(p)
  <2>1. Calling' = Calling
    <3>1. p \notin Calling
      BY <1>2, <1>9 DEF StoreInput, Calling
    <3>2. QED
      BY <1>4, <1>9, <3>1 DEF StoreInput
  <2>2. Channel!Put(p)
    BY <1>9, <2>1 DEF StoreInput, Channel!Put, Calling, Closed, wiring
  <2>3. QED
    BY <2>2 DEF ChannelStep, Channel!Next
<1>10. CASE InNotify(p)
  <2>1. p \notin Calling /\ pc[p] # "waiting"
    BY <1>2, <1>10 DEF InNotify, Calling
  <2>2. CASE pc' = At(p, "idle")
    BY <1>4, <1>10, <2>1, <2>2, Stutter DEF InNotify, pipes, wiring
  <2>3. CASE \E c \in Waiting : pc' = Woken({c}, At(p, "idle"))
    <3>1. Calling' = Calling \ {p}
      BY <1>1, <2>1, <2>3, CallingWoken
    <3>2. QED
      BY <1>10, <2>1, <3>1, Stutter DEF InNotify, pipes, wiring
  <2>4. QED
    BY <1>10, <2>2, <2>3 DEF InNotify, NotifyOne
<1>11. QED
  BY <1>5, <1>6, <1>7, <1>8, <1>9, <1>10 DEF ProducerNext

LEMMA ConsumerRefines ==
  ASSUME Inv, FlagsTruth, NEW c \in OutPins, ConsumerNext(c)
  PROVE  ChannelStep
<1>1. c \in Pins
  BY DEF Pins
<1>2. /\ \A l \in {"lock", "flags", "trigger", "pin", "pipe", "waiting"} :
           l \in Labels /\ l \in InGetOutput
      /\ "idle" \in Labels /\ "idle" \notin InGetInput \union InGetOutput
  BY DEF Labels, InGetInput, InGetOutput, InSection
<1>3. ASSUME NEW l \in {"lock", "flags", "trigger", "pin", "pipe", "waiting"}, pc' = At(c, l)
      PROVE  Calling' = Calling \union {c}
  BY <1>1, <1>2, <1>3, CallingAt DEF Calling
<1>4. ASSUME pc' = At(c, "idle")
      PROVE  Calling' = Calling \ {c}
  BY <1>1, <1>2, <1>4, CallingAt DEF Calling
<1>5. CASE GetOutput(c)
  BY <1>1, <1>2, <1>3, <1>5, BeginRefines DEF GetOutput, pipes, wiring, Calling
<1>6. CASE Lock(c) \/ OutFlags(c) \/ SpuriousWakeup(c)
  <2>1. Calling' = Calling \union {c} /\ c \in Calling
    BY <1>1, <1>2, <1>3, <1>6 DEF Lock, OutFlags, SpuriousWakeup, Waiting, Calling
  <2>2. QED
    BY <1>6, <2>1, Stutter DEF Lock, OutFlags, SpuriousWakeup, pipes, wiring
<1>7. CASE OutTrigger(c)
  <2>1. Calling' = Calling \ {c} /\ c \in Calling
    BY <1>1, <1>2, <1>7, CallingWoken DEF OutTrigger, NotifyAll, Calling
  <2>2. Closed
    BY <1>1, <1>7 DEF OutTrigger, FlagsTruth
  <2>3. QED
    BY <1>1, <1>7, <2>1, <2>2, FailRefines DEF OutTrigger, pipes, wiring
<1>8. CASE OutPin(c)
  <2>1. c \in Calling
    BY <1>1, <1>2, <1>8 DEF OutPin, Calling
  <2>2. CASE c \in disconnectedPins
    <3>1. Calling' = Calling \ {c} /\ c \in OutPins \ pins
      BY <1>4, <1>8, <2>2 DEF OutPin, FlagsTruth
    <3>2. QED
      BY <1>1, <1>8, <2>1, <3>1, FailRefines DEF OutPin, pipes, wiring
  <2>3. CASE c \notin disconnectedPins
    <3>1. Calling' = Calling
      BY <1>3, <1>8, <2>1, <2>3 DEF OutPin
    <3>2. QED
      BY <1>8, <3>1, Stutter DEF OutPin, pipes, wiring
  <2>4. QED
    BY <2>2, <2>3
<1>9. CASE OutPipe(c)
  <2>1. c \in Calling
    BY <1>1, <1>2, <1>9 DEF OutPipe, Calling
  <2>2. CASE outPipe = <<>>
    <3>1. Calling' = Calling
      BY <1>3, <1>9, <2>1, <2>2 DEF OutPipe
    <3>2. QED
      BY <1>9, <2>2, <3>1, Stutter DEF OutPipe, wiring
  <2>3. CASE outPipe # <<>>
    <3>1. /\ Calling' = Calling \ {c} /\ outPipe' = Tail(outPipe)
          /\ held' = [held EXCEPT ![c] = @ \union {Head(outPipe)}]
          /\ UNCHANGED <<inPipe, pins, noInput, noOutput>>
      BY <1>4, <1>9, <2>3 DEF OutPipe, wiring
    <3>2. Channel!Deliver(c)
      BY <2>1, <2>3, <3>1 DEF Channel!Deliver, Calling, Closed
    <3>3. QED
      BY <3>2 DEF ChannelStep, Channel!Next
  <2>4. QED
    BY <2>2, <2>3
<1>10. CASE StoreOutput(c)
  <2>1. PICK k \in held[c] : /\ inPipe' = <<k>> \o inPipe
                             /\ held' = [held EXCEPT ![c] = @ \ {k}]
    BY <1>10 DEF StoreOutput
  <2>2. UNCHANGED <<outPipe, pins, noInput, noOutput>> /\ Calling' = Calling
    BY <1>10 DEF StoreOutput, wiring, Calling
  <2>3. k \in Packets /\ k \notin Range(inPipe)
    BY <1>1 DEF Inv, Data, PacketOwnership, InPipes
  <2>4. Range(inPipe') = Range(inPipe) \union {k}
    BY <2>1, <2>3, PushFront DEF Inv, Data, PacketOwnership
  <2>5. Channel!GiveBack(c)
    BY <2>1, <2>2, <2>4 DEF Channel!GiveBack, Calling, Closed
  <2>6. QED
    BY <2>5 DEF ChannelStep, Channel!Next
<1>11. QED
  BY <1>5, <1>6, <1>7, <1>8, <1>9, <1>10 DEF ConsumerNext

(* The connector behaves as the channel: FIFO, each packet once, and no Get
   that returns nullptr before a side is gone or the caller is cut off. *)
THEOREM ImplementsChannel == Spec => ChannelSpec
<1>1. Init => Channel!Init
  <2>1. Init => Range(inPipe) = Packets
    BY DEF Init, Range
  <2>2. Init => {t \in Pins : pc[t] \in InGetInput \union InGetOutput} = {}
    BY DEF Init, InGetInput, InGetOutput, InSection
  <2>3. Init => outPipe = <<>> /\ held = [t \in Pins |-> {}] /\ pins = {} /\ Closed
    BY DEF Init, Closed
  <2>4. QED
    BY <2>1, <2>2, <2>3 DEF Channel!Init, Channel!Pins, Pins
<1>2. Inv /\ FlagsTruth /\ [Next]_vars => ChannelStep
  <2>1. UNCHANGED vars => ChannelStep
    BY Stutter DEF vars, Calling
  <2>2. QED
    BY <2>1, MainRefines, ProducerRefines, ConsumerRefines DEF Next
<1>3. QED
  BY <1>1, <1>2, FlagsInvariant, PTL DEF Spec, ChannelSpec, Channel!Spec, ChannelStep
==============================================================================
