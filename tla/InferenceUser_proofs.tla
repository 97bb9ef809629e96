------------------------ MODULE InferenceUser_proofs ------------------------
(***************************************************************************)
(* The caller of the engine gets its images back in the order of their     *)
(* insertion and with exactly their results, for any number of requests,   *)
(* any batch and any order in which the device completes the requests.     *)
(* The images inserted are divided in three, in this order: those handed   *)
(* over, those in the internal buffers, and those without a result yet;    *)
(* each operation moves images from the front of one part to the end of    *)
(* the part before.                                                        *)
(***************************************************************************)
EXTENDS InferenceUser, InferenceOV_proofs

-----------------------------------------------------------------------------
(* The images that were inserted, in that order.                            *)
Numbered(i, n) == [id |-> i, found |-> n]
Given == [i \in 1 .. Len(inserted) |-> Numbered(i, inserted[i])]

(* They are divided: the caller has the first, the next wait in the         *)
(* internal buffers, the others have no result yet.                         *)
Divided(handed, kept) ==
  /\ Given = handed \o (kept \o images)
  /\ ids = IDs(handed) /\ datas = Translate(handed)
  /\ internalIDs = IDs(kept) /\ internalDatas = Translate(kept)

ResultsInv == \E handed, kept \in Seq(Image) : Divided(handed, kept)

UserInv ==
  /\ EngineTypes
  /\ inserted \in Seq(Found) /\ Len(inserted) <= MaxImages
  /\ inserting \in BOOLEAN /\ (inserting => Len(inserted) < MaxImages)
  /\ ret \in {-2, -1, 0, 2}

LEMMA NumberedType ==
  ASSUME NEW i \in Nat, NEW n \in Nat
  PROVE  Numbered(i, n) \in Image
  BY DEF Numbered, Image

LEMMA GivenIs ==
  ASSUME NEW s \in Seq(Nat), NEW t, t = [i \in 1 .. Len(s) |-> Numbered(i, s[i])]
  PROVE  t \in Seq(Image) /\ Len(t) = Len(s) /\ DOMAIN t = 1 .. Len(s)
  <1>1. PICK L \in Nat : L = Len(s)
    BY LenProperties
  <1>2. ASSUME NEW i \in 1 .. L PROVE Numbered(i, s[i]) \in Image
    BY <1>1, ElementOfSeq, NumberedType
  <1>3. t \in [1 .. L -> Image] /\ DOMAIN t = 1 .. L
    BY <1>1, <1>2, Zenon
  <1>4. t \in Seq(Image)
    BY <1>3, SeqDef, ZenonT(30)
  <1>5. Len(t) = L
    <2>1. DOMAIN t = 1 .. Len(t) /\ Len(t) \in Nat
      BY <1>4, LenProperties
    <2> QED BY <1>1, <1>3, <2>1
  <1> QED BY <1>1, <1>3, <1>4, <1>5

LEMMA GivenNext ==
  ASSUME NEW s \in Seq(Nat), NEW n \in Nat, NEW u, u = Append(s, n),
         NEW t, t = [i \in 1 .. Len(s) |-> Numbered(i, s[i])],
         NEW v, v = [i \in 1 .. Len(u) |-> Numbered(i, u[i])]
  PROVE  v = t \o <<Numbered(Len(s) + 1, n)>>
  <1>1. PICK L \in Nat : L = Len(s)
    BY LenProperties
  <1>2. u \in Seq(Nat) /\ Len(u) = L + 1 /\ u[L + 1] = n
    BY <1>1, AppendProperties
  <1>3. \A i \in 1 .. L : u[i] = s[i]
    BY <1>1, AppendProperties
  <1>4. PICK image \in Image : image = Numbered(L + 1, n)
    BY <1>1, NumberedType
  <1>5. PICK one \in Seq(Image) : one = <<image>> /\ Len(one) = 1 /\ one[1] = image
    BY OneIn
  <1>6. t \in Seq(Image) /\ Len(t) = L
    BY <1>1, GivenIs
  <1>7. v \in Seq(Image) /\ Len(v) = L + 1
    BY <1>2, GivenIs
  <1>8. ASSUME NEW i \in 1 .. Len(t) PROVE v[i] = t[i]
    <2>1. i \in 1 .. L /\ i \in 1 .. L + 1
      BY <1>6
    <2>2. t[i] = Numbered(i, s[i])
      BY <1>1, <2>1, Zenon
    <2>3. v[i] = Numbered(i, u[i])
      BY <1>2, <2>1, Zenon
    <2> QED BY <1>3, <2>1, <2>2, <2>3
  <1>9. ASSUME NEW i \in 1 .. Len(one) PROVE v[Len(t) + i] = one[i]
    <2>1. i = 1 /\ Len(t) + i = L + 1 /\ L + 1 \in 1 .. L + 1
      BY <1>5, <1>6
    <2>2. v[L + 1] = Numbered(L + 1, u[L + 1])
      BY <1>2, <2>1, Zenon
    <2> QED BY <1>2, <1>4, <1>5, <2>1, <2>2
  <1>10. v = t \o one
    BY <1>5, <1>6, <1>7, <1>8, <1>9, IsBoth
  <1> QED BY <1>1, <1>4, <1>5, <1>10

LEMMA DividedSame ==
  ASSUME UNCHANGED <<inserted, images, internal, outputs>>, ResultsInv
  PROVE  ResultsInv'
  BY DEF ResultsInv, Divided, Given, internal, outputs

(* The kept images have results if all have.                                *)
LEMMA KeptHaveResults ==
  ASSUME inserted \in Seq(Found), images \in Seq(Image), 0 \notin Found,
         NEW handed \in Seq(Image), NEW kept \in Seq(Image), Given = handed \o (kept \o images)
  PROVE  \A i \in 1 .. Len(kept) : kept[i].found > 0
  <1> SUFFICES ASSUME NEW i \in 1 .. Len(kept) PROVE kept[i].found > 0
    OBVIOUS
  <1>1. PICK t \in Seq(Image) : t = kept \o images
    BY Concat
  <1>2. i \in 1 .. Len(t) /\ t[i] = kept[i]
    BY <1>1, BothFirst
  <1>3. PICK j : j = Len(handed) + i
    OBVIOUS
  <1>4. j \in 1 .. Len(Given) /\ Given[j] = kept[i]
    BY <1>1, <1>2, <1>3, BothSecond
  <1>5. inserted \in Seq(Nat)
    BY UserAssumption, SeqOfFewer
  <1>6. j \in 1 .. Len(inserted)
    BY <1>4, <1>5, GivenIs DEF Given
  <1>7. Given[j] = Numbered(j, inserted[j])
    BY <1>6, Zenon DEF Given
  <1>8. inserted[j] \in Found
    BY <1>6, ElementOfSeq
  <1>9. PICK m \in Nat : m = inserted[j] /\ m > 0
    <2>1. inserted[j] \in Nat
      BY <1>8, UserAssumption
    <2>2. inserted[j] # 0
      BY <1>8
    <2> QED BY <2>1, <2>2
  <1>10. Numbered(j, m).found = m
    BY DEF Numbered
  <1> QED BY <1>4, <1>7, <1>9, <1>10

(* The results that are ready go into the internal buffers.                 *)
LEMMA RoomKeeps ==
  ASSUME UserInv, Room
  PROVE  UserInv' /\ (ResultsInv => ResultsInv')
  <1>1. PICK n \in 0 .. Len(busyRequest) : n = Finished
    BY FinishedIs DEF UserInv
  <1>2. PICK p \in Seq(Image) : p = Popped(n)
    BY PoppedType DEF UserInv
  <1>3. /\ Pop(n)
        /\ internalDatas' = internalDatas \o Translate(p)
        /\ internalIDs' = internalIDs \o IDs(p)
        /\ batchIndex' = batchIndex /\ datas' = datas /\ ids' = ids
        /\ inserted' = inserted /\ inserting' = inserting /\ ret' = ret
    BY <1>1, <1>2 DEF Room, MakeRoom, outputs
  <1>4. EngineTypes' /\ images = p \o images'
    <2>1. internalDatas' \in Seq(Nat)
      BY <1>3, TranslateType, Concat DEF UserInv, EngineTypes
    <2>2. internalIDs' \in Seq(Nat)
      BY <1>3, IDsType, Concat DEF UserInv, EngineTypes
    <2>3. datas' \in Seq(Nat) /\ ids' \in Seq(Nat) /\ EngineTypes
      BY <1>3 DEF UserInv, EngineTypes
    <2> QED BY <1>2, <1>3, <2>1, <2>2, <2>3, PopSplits
  <1>5. UserInv'
    BY <1>3, <1>4 DEF UserInv
  <1> SUFFICES ASSUME ResultsInv PROVE ResultsInv'
    BY <1>5
  <1>6. PICK handed \in Seq(Image), kept \in Seq(Image) : Divided(handed, kept)
    BY DEF ResultsInv
  <1>7. PICK more \in Seq(Image) : more = kept \o p
    BY Concat
  <1>8. Given' = handed \o (more \o images')
    <2>1. Given' = Given
      BY <1>3, Zenon DEF Given
    <2>2. images' \in Seq(Image)
      BY <1>4 DEF EngineTypes
    <2>3. Given = handed \o (kept \o (p \o images'))
      BY <1>4, <1>6, Zenon DEF Divided
    <2>4. (kept \o p) \o images' = kept \o (p \o images')
      <3>1. Associate(kept, p, images')
        BY <2>2, Concat
      <3> QED BY <3>1, Zenon DEF Associate
    <2> QED BY <1>7, <2>1, <2>3, <2>4, Zenon
  <1>9. internalIDs' = IDs(more) /\ internalDatas' = Translate(more)
    <2>1. IDs(more) = IDs(kept) \o IDs(p)
      BY <1>7, IDsOfBoth
    <2>2. Translate(more) = Translate(kept) \o Translate(p)
      BY <1>7, TranslateBoth
    <2> QED BY <1>3, <1>6, <2>1, <2>2, Zenon DEF Divided
  <1>10. Divided(handed, more)'
    BY <1>3, <1>6, <1>8, <1>9 DEF Divided
  <1> QED BY <1>5, <1>10 DEF ResultsInv

LEMMA InsertedKeeps ==
  ASSUME UserInv, Inserted
  PROVE  UserInv' /\ (ResultsInv => ResultsInv')
  <1>1. PICK n \in Found : /\ InsertImage([id |-> Len(inserted) + 1, found |-> n])
                           /\ inserted' = Append(inserted, n)
    BY DEF Inserted
  <1>2. inserting /\ inserting' = FALSE /\ ret' = ret
    BY DEF Inserted
  <1>3. PICK L \in Nat : L = Len(inserted) /\ L < MaxImages /\ n \in Nat
    BY <1>2, LenProperties, UserAssumption DEF UserInv
  <1>4. PICK image \in Image : image = Numbered(L + 1, n) /\ InsertImage(image)
    BY <1>1, <1>3, NumberedType DEF Numbered
  <1>5. EngineTypes' /\ images' = images \o <<image>>
    BY <1>4, InsertTypes DEF UserInv
  <1>6. inserted' \in Seq(Found) /\ Len(inserted') = L + 1
    BY <1>1, <1>3, AppendProperties DEF UserInv
  <1>7. UserInv'
    <2>1. Len(inserted') <= MaxImages
      BY <1>3, <1>6, UserAssumption
    <2>2. ret' \in {-2, -1, 0, 2}
      BY <1>2, Zenon DEF UserInv
    <2> QED BY <1>2, <1>5, <1>6, <2>1, <2>2 DEF UserInv
  <1> SUFFICES ASSUME ResultsInv PROVE ResultsInv'
    BY <1>7
  <1>8. PICK handed \in Seq(Image), kept \in Seq(Image) : Divided(handed, kept)
    BY DEF ResultsInv
  <1>9. Given' = handed \o (kept \o images')
    <2>1. inserted \in Seq(Nat)
      BY UserAssumption, SeqOfFewer DEF UserInv
    <2>2. Given' = Given \o <<image>>
      BY <1>1, <1>3, <1>4, <2>1, GivenNext DEF Given
    <2>3. PICK one \in Seq(Image) : one = <<image>>
      BY OneIn
    <2>4. images \in Seq(Image)
      BY DEF UserInv, EngineTypes
    <2>5. PICK t \in Seq(Image) : t = kept \o images
      BY <2>4, Concat
    <2>6. (handed \o t) \o one = handed \o (t \o one)
      <3>1. Associate(handed, t, one)
        BY Concat
      <3> QED BY <3>1, Zenon DEF Associate
    <2>7. (kept \o images) \o one = kept \o (images \o one)
      <3>1. Associate(kept, images, one)
        BY <2>4, Concat
      <3> QED BY <3>1, Zenon DEF Associate
    <2> QED BY <1>5, <1>8, <2>2, <2>3, <2>5, <2>6, <2>7, Zenon DEF Divided
  <1>10. UNCHANGED <<ids, datas, internalIDs, internalDatas>>
    BY <1>4 DEF InsertImage, internal, outputs
  <1>11. Divided(handed, kept)'
    BY <1>8, <1>9, <1>10 DEF Divided
  <1> QED BY <1>7, <1>11 DEF ResultsInv

LEMMA OthersKeep ==
  ASSUME UserInv, Insert \/ (Device /\ UNCHANGED <<inserted, inserting, ret>>)
  PROVE  UserInv' /\ (ResultsInv => ResultsInv')
  <1>1. CASE Insert
    <2>1. UNCHANGED <<engine, inserted>> /\ ret' = 0 /\ inserting' = TRUE /\ Len(inserted) < MaxImages
      BY <1>1 DEF Insert
    <2>2. EngineTypes'
      BY <2>1 DEF UserInv, EngineTypes, EngineOK, engine, requests, internal, outputs
    <2>3. UserInv'
      BY <2>1, <2>2 DEF UserInv
    <2>4. UNCHANGED <<inserted, images, internal, outputs>>
      BY <2>1 DEF engine
    <2> QED BY <2>3, <2>4, DividedSame
  <1>2. CASE Device /\ UNCHANGED <<inserted, inserting, ret>>
    <2>1. EngineTypes' /\ UNCHANGED <<images, internal, outputs>>
      BY <1>2, DeviceTypes DEF UserInv
    <2>2. UserInv'
      BY <1>2, <2>1 DEF UserInv
    <2>3. UNCHANGED <<inserted, images, internal, outputs>>
      BY <1>2, <2>1
    <2> QED BY <2>2, <2>3, DividedSame
  <1> QED BY <1>1, <1>2

(* If every image has results, the internal buffers have images only when   *)
(* they have results: they are handed over, or there is nothing in them.    *)
LEMMA NothingKept ==
  ASSUME UserInv, 0 \notin Found, ~Flushed,
         NEW handed \in Seq(Image), NEW kept \in Seq(Image), Divided(handed, kept)
  PROVE  kept = <<>>
  <1>1. CASE internalIDs = <<>>
    <2>1. Len(IDs(kept)) = 0
      BY <1>1, EmptySeq DEF Divided
    <2> QED BY <2>1, IDsLength, EmptySeq
  <1>2. CASE internalDatas = <<>>
    <2>1. Translate(kept) = <<>>
      BY <1>2 DEF Divided
    <2>2. \A i \in 1 .. Len(kept) : kept[i].found > 0
      BY KeptHaveResults DEF UserInv, EngineTypes, Divided
    <2> QED BY <2>1, <2>2, SomethingTranslated
  <1> QED BY <1>1, <1>2 DEF Flushed

LEMMA GetTyped ==
  ASSUME UserInv, Get
  PROVE  UserInv'
  <1>1. PICK n \in 0 .. Len(busyRequest) : n = Finished
    BY FinishedIs DEF UserInv
  <1>2. PICK p \in Seq(Image) : p = Popped(n)
    BY PoppedType DEF UserInv
  <1>3. Translate(p) \in Seq(Nat) /\ IDs(p) \in Seq(Nat)
    BY TranslateType, IDsType
  <1>4. /\ datas \in Seq(Nat) /\ ids \in Seq(Nat) /\ internalDatas \in Seq(Nat) /\ internalIDs \in Seq(Nat)
        /\ EngineTypes
    BY DEF UserInv, EngineTypes
  <1>5. Pop(n) /\ batchIndex' = batchIndex /\ ret' = Returned /\ inserted' = inserted /\ inserting' = inserting
    BY <1>1 DEF Get, GetOutput
  <1>6. datas' \in Seq(Nat) /\ ids' \in Seq(Nat) /\ internalDatas' \in Seq(Nat) /\ internalIDs' \in Seq(Nat)
    <2>1. CASE Flushed
      <3>1. /\ datas' = (datas \o internalDatas) \o Translate(p)
            /\ ids' = (ids \o internalIDs) \o IDs(p)
            /\ internalDatas' = <<>> /\ internalIDs' = <<>>
        BY <1>1, <1>2, <2>1, Zenon DEF Get, GetOutput
      <3>2. datas \o internalDatas \in Seq(Nat) /\ ids \o internalIDs \in Seq(Nat)
        BY <1>4, Concat
      <3> QED BY <1>3, <3>1, <3>2, Concat
    <2>2. CASE ~Flushed
      <3>1. datas' = datas \o Translate(p) /\ ids' = ids \o IDs(p)
        BY <1>1, <1>2, <2>2, Zenon DEF Get, GetOutput
      <3>2. internalDatas' = internalDatas /\ internalIDs' = internalIDs
        BY <2>2 DEF Get, GetOutput, internal
      <3> QED BY <1>3, <1>4, <3>1, <3>2, Concat
    <2> QED BY <2>1, <2>2
  <1>7. EngineTypes'
    BY <1>4, <1>5, <1>6, PopSplits
  <1>8. ret' \in {-2, -1, 0, 2}
    BY <1>5 DEF Returned
  <1> QED BY <1>5, <1>7, <1>8 DEF UserInv

LEMMA GetKeeps ==
  ASSUME UserInv, ResultsInv, Get, 0 \notin Found
  PROVE  UserInv' /\ ResultsInv'
  <1>1. PICK n \in 0 .. Len(busyRequest) : n = Finished
    BY FinishedIs DEF UserInv
  <1>2. PICK p \in Seq(Image) : p = Popped(n)
    BY PoppedType DEF UserInv
  <1>3. PICK handed \in Seq(Image), kept \in Seq(Image) : Divided(handed, kept)
    BY DEF ResultsInv
  <1>4. PICK kp \in Seq(Image) : kp = kept \o p
    BY Concat
  <1>5. PICK now \in Seq(Image) : now = handed \o kp
    BY Concat
  <1>6. Pop(n) /\ batchIndex' = batchIndex /\ ret' = Returned /\ inserted' = inserted /\ inserting' = inserting
    BY <1>1 DEF Get, GetOutput
  <1>7. internalDatas' = <<>> /\ internalIDs' = <<>>
    <2>1. CASE Flushed
      BY <2>1 DEF Get, GetOutput
    <2>2. CASE ~Flushed
      <3>1. internalDatas = <<>> /\ internalIDs = <<>>
        BY <1>3, <2>2, NothingKept, NothingTranslated DEF Divided
      <3> QED BY <2>2, <3>1 DEF Get, GetOutput, internal
    <2> QED BY <2>1, <2>2
  <1>8. datas' = (datas \o internalDatas) \o Translate(p)
    <2>1. CASE Flushed
      BY <1>1, <1>2, <2>1, Zenon DEF Get, GetOutput
    <2>2. CASE ~Flushed
      <3>1. internalDatas = <<>>
        BY <1>3, <2>2, NothingKept, NothingTranslated DEF Divided
      <3>2. datas' = datas \o Translate(p)
        BY <1>1, <1>2, <2>2, Zenon DEF Get, GetOutput
      <3>3. datas \o <<>> = datas
        BY Concat DEF UserInv, EngineTypes
      <3> QED BY <3>1, <3>2, <3>3
    <2> QED BY <2>1, <2>2
  <1>9. ids' = (ids \o internalIDs) \o IDs(p)
    <2>1. CASE Flushed
      BY <1>1, <1>2, <2>1, Zenon DEF Get, GetOutput
    <2>2. CASE ~Flushed
      <3>1. internalIDs = <<>>
        BY <1>3, <2>2, NothingKept, NothingTranslated DEF Divided
      <3>2. ids' = ids \o IDs(p)
        BY <1>1, <1>2, <2>2, Zenon DEF Get, GetOutput
      <3>3. ids \o <<>> = ids
        BY Concat DEF UserInv, EngineTypes
      <3> QED BY <3>1, <3>2, <3>3
    <2> QED BY <2>1, <2>2
  <1>10. datas' = Translate(now)
    <2>1. Translate(now) = Translate(handed) \o Translate(kp)
      BY <1>5, TranslateBoth
    <2>2. Translate(kp) = Translate(kept) \o Translate(p)
      BY <1>4, TranslateBoth
    <2>3. Translate(handed) \in Seq(Nat) /\ Translate(kept) \in Seq(Nat) /\ Translate(p) \in Seq(Nat)
      BY TranslateType
    <2>4. (Translate(handed) \o Translate(kept)) \o Translate(p) = Translate(handed) \o (Translate(kept) \o Translate(p))
      <3>1. Associate(Translate(handed), Translate(kept), Translate(p))
        BY <2>3, Concat
      <3> QED BY <3>1, Zenon DEF Associate
    <2> QED BY <1>3, <1>8, <2>1, <2>2, <2>4, Zenon DEF Divided
  <1>11. ids' = IDs(now)
    <2>1. IDs(now) = IDs(handed) \o IDs(kp)
      BY <1>5, IDsOfBoth
    <2>2. IDs(kp) = IDs(kept) \o IDs(p)
      BY <1>4, IDsOfBoth
    <2>3. IDs(handed) \in Seq(Nat) /\ IDs(kept) \in Seq(Nat) /\ IDs(p) \in Seq(Nat)
      BY IDsType
    <2>4. (IDs(handed) \o IDs(kept)) \o IDs(p) = IDs(handed) \o (IDs(kept) \o IDs(p))
      <3>1. Associate(IDs(handed), IDs(kept), IDs(p))
        BY <2>3, Concat
      <3> QED BY <3>1, Zenon DEF Associate
    <2> QED BY <1>3, <1>9, <2>1, <2>2, <2>4, Zenon DEF Divided
  <1>12. EngineTypes' /\ images = p \o images'
    <2>1. datas' \in Seq(Nat)
      BY <1>10, TranslateType
    <2>2. ids' \in Seq(Nat)
      BY <1>11, IDsType
    <2>3. internalDatas' \in Seq(Nat) /\ internalIDs' \in Seq(Nat)
      BY <1>7, Concat
    <2>4. EngineTypes
      BY DEF UserInv
    <2> QED BY <1>2, <1>6, <2>1, <2>2, <2>3, <2>4, PopSplits
  <1>13. UserInv'
    <2>1. ret' \in {-2, -1, 0, 2}
      BY <1>6 DEF Returned
    <2> QED BY <1>6, <1>12, <2>1 DEF UserInv
  <1>14. Given' = now \o (<<>> \o images')
    <2>1. Given' = Given
      BY <1>6, Zenon DEF Given
    <2>2. images' \in Seq(Image)
      BY <1>12 DEF EngineTypes
    <2>3. Given = handed \o (kept \o (p \o images'))
      BY <1>3, <1>12, Zenon DEF Divided
    <2>4. (kept \o p) \o images' = kept \o (p \o images')
      <3>1. Associate(kept, p, images')
        BY <2>2, Concat
      <3> QED BY <3>1, Zenon DEF Associate
    <2>5. (handed \o kp) \o images' = handed \o (kp \o images')
      <3>1. Associate(handed, kp, images')
        BY <2>2, Concat
      <3> QED BY <3>1, Zenon DEF Associate
    <2>6. <<>> \o images' = images'
      BY <2>2, Concat
    <2> QED BY <1>4, <1>5, <2>1, <2>3, <2>4, <2>5, <2>6, Zenon
  <1>15. Divided(now, <<>>)'
    BY <1>7, <1>10, <1>11, <1>14, NothingTranslated, Zenon DEF Divided
  <1>16. <<>> \in Seq(Image)
    BY Concat
  <1> QED BY <1>13, <1>15, <1>16 DEF ResultsInv

LEMMA InitHolds ==
  Init => UserInv /\ ResultsInv
  <1> SUFFICES ASSUME Init PROVE UserInv /\ ResultsInv
    OBVIOUS
  <1>1. /\ freeRequest = AsyncDepth /\ busyRequest = <<>> /\ images = <<>> /\ batchIndex = 0
        /\ internalDatas = <<>> /\ internalIDs = <<>> /\ datas = <<>> /\ ids = <<>>
        /\ inserted = <<>> /\ inserting = FALSE /\ ret = 0
    BY DEF Init, EngineInit
  <1>2. /\ busyRequest \in Seq(States) /\ images \in Seq(Image) /\ Len(busyRequest) = 0 /\ Len(images) = 0
        /\ <<>> \in Seq(Nat)
    BY <1>1, EmptySeq
  <1>3. EngineOK
    <2>1. PICK A \in Nat, B \in Nat : A = AsyncDepth /\ B = BatchNum /\ B > 0 /\ A > 0
      BY EngineAssumption
    <2>2. 0 * B = 0
      BY <2>1
    <2>3. DOMAIN busyRequest = {}
      BY <1>1
    <2> QED BY <1>1, <1>2, <2>1, <2>2, <2>3 DEF EngineOK
  <1>4. EngineTypes
    BY <1>1, <1>2, <1>3 DEF EngineTypes
  <1>5. inserted \in Seq(Found) /\ Len(inserted) = 0
    BY <1>1, EmptySeq
  <1>6. UserInv
    <2>1. Len(inserted) <= MaxImages
      BY <1>5, UserAssumption
    <2>2. ret \in {-2, -1, 0, 2}
      BY <1>1
    <2>3. inserting = FALSE
      BY <1>1
    <2> QED BY <1>4, <1>5, <2>1, <2>2, <2>3 DEF UserInv
  <1>7. Given = <<>>
    <2>1. inserted \in Seq(Nat)
      BY <1>5, UserAssumption, SeqOfFewer
    <2>2. Given \in Seq(Image) /\ Len(Given) = Len(inserted)
      BY <2>1, GivenIs DEF Given
    <2> QED BY <1>5, <2>2, EmptySeq
  <1>8. <<>> \in Seq(Image) /\ <<>> \o (<<>> \o <<>>) = <<>>
    BY Concat
  <1>9. Divided(<<>>, <<>>)
    BY <1>1, <1>7, <1>8, NothingTranslated, Zenon DEF Divided
  <1> QED BY <1>6, <1>8, <1>9 DEF ResultsInv

LEMMA StepKeepsUser ==
  UserInv /\ [Next]_vars => UserInv'
  <1> SUFFICES ASSUME UserInv, [Next]_vars PROVE UserInv'
    OBVIOUS
  <1>1. CASE Insert \/ (Device /\ UNCHANGED <<inserted, inserting, ret>>)
    BY <1>1, OthersKeep
  <1>2. CASE Room
    BY <1>2, RoomKeeps
  <1>3. CASE Inserted
    BY <1>3, InsertedKeeps
  <1>4. CASE Get
    BY <1>4, GetTyped
  <1>5. CASE UNCHANGED vars
    <2>1. EngineTypes'
      BY <1>5 DEF UserInv, EngineTypes, EngineOK, vars, engine, requests, internal, outputs
    <2> QED BY <1>5, <2>1 DEF UserInv, vars
  <1> QED BY <1>1, <1>2, <1>3, <1>4, <1>5 DEF Next

LEMMA StepKeepsResults ==
  ASSUME 0 \notin Found
  PROVE  UserInv /\ ResultsInv /\ [Next]_vars => ResultsInv'
  <1> SUFFICES ASSUME UserInv, ResultsInv, [Next]_vars PROVE ResultsInv'
    OBVIOUS
  <1>1. CASE Insert \/ (Device /\ UNCHANGED <<inserted, inserting, ret>>)
    BY <1>1, OthersKeep
  <1>2. CASE Room
    BY <1>2, RoomKeeps
  <1>3. CASE Inserted
    BY <1>3, InsertedKeeps
  <1>4. CASE Get
    BY <1>4, GetKeeps
  <1>5. CASE UNCHANGED vars
    <2>1. UNCHANGED <<inserted, images, internal, outputs>>
      BY <1>5 DEF vars, engine
    <2> QED BY <2>1, DividedSame
  <1> QED BY <1>1, <1>2, <1>3, <1>4, <1>5 DEF Next

LEMMA ResultsInvIsEnough ==
  UserInv /\ ResultsInv => ResultsInOrder
  <1> SUFFICES ASSUME UserInv, ResultsInv PROVE ResultsInOrder
    OBVIOUS
  <1>1. PICK handed \in Seq(Image), kept \in Seq(Image) : Divided(handed, kept)
    BY DEF ResultsInv
  <1>2. PICK n \in Nat : n = Len(handed) /\ DOMAIN handed = 1 .. n /\ handed \in [1 .. n -> Image]
    BY LenProperties
  <1>3. Len(ids) = n /\ ids = [i \in 1 .. n |-> handed[i].id]
    <2>1. ids = IDs(handed)
      BY <1>1 DEF Divided
    <2>2. Len(ids) = n
      BY <1>2, <2>1, IDsLength
    <2> QED BY <1>2, <2>1, <2>2, Zenon DEF IDs
  <1>4. ASSUME NEW i \in 1 .. n PROVE handed[i] = [id |-> i, found |-> inserted[i]]
    <2>1. PICK t \in Seq(Image) : t = kept \o images
      BY Concat DEF UserInv, EngineTypes
    <2>2. i \in 1 .. Len(handed \o t) /\ (handed \o t)[i] = handed[i]
      BY <1>2, BothFirst
    <2>3. i \in 1 .. Len(Given) /\ Given[i] = handed[i]
      BY <1>1, <2>1, <2>2, Zenon DEF Divided
    <2>4. inserted \in Seq(Nat)
      BY UserAssumption, SeqOfFewer DEF UserInv
    <2>5. i \in 1 .. Len(inserted)
      BY <2>3, <2>4, GivenIs DEF Given
    <2>6. Given[i] = Numbered(i, inserted[i])
      BY <2>5, Zenon DEF Given
    <2> QED BY <2>3, <2>6, Zenon DEF Numbered
  <1>5. ids = [i \in 1 .. n |-> i]
    <2>1. ASSUME NEW i \in 1 .. n PROVE handed[i].id = i
      <3>1. [id |-> i, found |-> inserted[i]].id = i
        OBVIOUS
      <3> QED BY <1>4, <3>1, Zenon
    <2> QED BY <1>3, <2>1, Zenon
  <1>6. handed = [i \in 1 .. n |-> [id |-> i, found |-> inserted[i]]]
    BY <1>2, <1>4, Zenon
  <1> QED BY <1>1, <1>3, <1>5, <1>6, Zenon DEF ResultsInOrder, Divided

-----------------------------------------------------------------------------
(* The types, and what ties the queues of the engine together: InsertImage, *)
(* GetOutput and the device keep every request in one queue, and as many    *)
(* images as the busy requests and the batch that is filled have.           *)
THEOREM UserTyped == Spec => []TypeOK
  <1>1. UserInv => TypeOK
    BY DEF UserInv, EngineTypes, TypeOK
  <1> QED BY <1>1, InitHolds, StepKeepsUser, PTL DEF Spec

(* InsertImage and GetOutput lose no image, repeat none and keep them in    *)
(* order, each with its own results, if Translate makes a result of each    *)
(* image, as the classifier's does.  (A detector may find nothing: then the *)
(* internal buffers may be held back, and the order is lost.)               *)
THEOREM ResultsComeInOrder ==
  ASSUME 0 \notin Found
  PROVE  Spec => []ResultsInOrder
  <1>1. Init => UserInv /\ ResultsInv
    BY InitHolds
  <1>2. UserInv /\ ResultsInv /\ [Next]_vars => (UserInv /\ ResultsInv)'
    BY StepKeepsUser, StepKeepsResults
  <1>3. UserInv /\ ResultsInv => ResultsInOrder
    BY ResultsInvIsEnough
  <1> QED BY <1>1, <1>2, <1>3, PTL DEF Spec
=============================================================================
