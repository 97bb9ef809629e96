--------------------------- MODULE BitStream_proofs ---------------------------
(***************************************************************************)
(* For every buffer size and every file, the decoder of BitStream gets the *)
(* stream in order.  StreamInOrder needs TypeOK, which bounds the indices, *)
(* and BufferIsFree: ReadBitStreamData asks for a chunk only when m_buffer *)
(* is empty, so the rest of a chunk never overwrites bytes that still wait *)
(* there.                                                                  *)
(***************************************************************************)
EXTENDS BitStream, TLAPS

BufferIsFree == pc = "fill" => bufferLength = 0 \/ Len(data) = MaxLength

IInv == TypeOK /\ BufferIsFree /\ StreamInOrder

-----------------------------------------------------------------------------
(* What memmove and memcpy leave in a buffer: the bytes that were there,    *)
(* then those copied.                                                       *)
LEMMA Slice ==
  ASSUME NEW s \in Seq(Nat), NEW m \in Nat, NEW n \in Nat, m <= n, n <= Len(s)
  PROVE  /\ SubSeq(s, m + 1, n) \in Seq(Nat)
         /\ Len(SubSeq(s, m + 1, n)) = n - m
         /\ \A i \in 1 .. n - m : SubSeq(s, m + 1, n)[i] = s[m + i]
<1>1. \A i \in m + 1 .. n : s[i] \in Nat
  OBVIOUS
<1> QED BY <1>1

LEMMA Joined ==
  ASSUME NEW s \in Seq(Nat), NEW t \in Seq(Nat)
  PROVE  /\ s \o t \in Seq(Nat)
         /\ Len(s \o t) = Len(s) + Len(t)
         /\ \A i \in 1 .. Len(s) : (s \o t)[i] = s[i]
         /\ \A i \in Len(s) + 1 .. Len(s) + Len(t) : (s \o t)[i] = t[i - Len(s)]
  OBVIOUS

LEMMA Chunks ==
  ASSUME TypeOK, NEW first \in Nat \ {0}, NEW n \in Nat
  PROVE  /\ Chunk(first, n) \in Seq(Nat)
         /\ Len(Chunk(first, n)) = n
         /\ \A i \in 1 .. n : Chunk(first, n)[i] = read + first - 1 + i
<1>1. read \in Nat
  BY DEF TypeOK
<1>2. \A i \in 1 .. n : read + first - 1 + i \in Nat
  BY <1>1
<1> QED BY <1>1, <1>2 DEF Chunk

LEMMA Windowed ==
  ASSUME TypeOK
  PROVE  /\ Window \in Seq(Nat)
         /\ Len(Window) = Len(data) - dataOffset
         /\ \A i \in 1 .. Len(data) - dataOffset : Window[i] = data[dataOffset + i]
<1>1. data \in Seq(Nat) /\ dataOffset \in Nat /\ Len(data) \in Nat /\ dataOffset <= Len(data)
  BY DEF TypeOK
<1> QED BY <1>1, Slice DEF Window

LEMMA LeftoverIs ==
  ASSUME TypeOK, NEW n \in Nat, n <= bufferLength
  PROVE  /\ Leftover(n) \in Seq(Nat)
         /\ Len(Leftover(n)) = n
         /\ \A i \in 1 .. n : Leftover(n)[i] = buffer[bufferOffset + i]
<1>1. /\ buffer \in Seq(Nat) /\ bufferOffset \in Nat /\ Len(buffer) \in Nat
      /\ bufferLength \in Nat /\ bufferOffset + n \in Nat
  BY DEF TypeOK
<1>2. CASE bufferLength > 0
  <2>1. bufferOffset + n <= Len(buffer)
    BY <1>1, <1>2 DEF TypeOK
  <2>2. bufferOffset <= bufferOffset + n /\ (bufferOffset + n) - bufferOffset = n
    BY <1>1
  <2> QED BY <1>1, <2>1, <2>2, Slice DEF Leftover
<1>3. CASE bufferLength = 0
  <2>1. n = 0 /\ bufferOffset = 0
    BY <1>1, <1>3 DEF TypeOK
  <2>2. Leftover(n) = SubSeq(buffer, 1, 0)
    BY <2>1 DEF Leftover
  <2>3. 0 <= Len(buffer)
    BY <1>1
  <2> QED BY <1>1, <2>1, <2>2, <2>3, Slice
<1> QED BY <1>1, <1>2, <1>3

-----------------------------------------------------------------------------
(* ReadBegin: the unread bytes, then n bytes of m_buffer, of which some may *)
(* stay.                                                                    *)
LEMMA Refilled ==
  ASSUME IInv, NEW n \in Nat, n <= bufferLength
  PROVE  LET d == Window \o Leftover(n)
         IN /\ d \in Seq(Nat)
            /\ Len(d) = Len(data) - dataOffset + n
            /\ \A i \in 1 .. Len(d) : d[i] = consumed + i
<1> DEFINE w == Window
           l == Leftover(n)
           k == Len(data) - dataOffset
<1>1. w \in Seq(Nat) /\ l \in Seq(Nat) /\ Len(w) = k /\ Len(l) = n
  BY Windowed, LeftoverIs DEF IInv
<1>2. /\ k \in Nat /\ consumed \in Nat /\ dataOffset \in Nat /\ Len(data) \in Nat
      /\ bufferLength \in Nat
  BY DEF IInv, TypeOK
<1>3. \A i \in 1 .. k : w[i] = consumed + i
  <2> TAKE i \in 1 .. k
  <2>1. w[i] = data[dataOffset + i]
    BY Windowed DEF IInv
  <2>2. dataOffset + i \in dataOffset + 1 .. Len(data)
    BY <1>2
  <2>3. data[dataOffset + i] = consumed - dataOffset + (dataOffset + i)
    BY <2>2 DEF IInv, StreamInOrder
  <2> QED BY <1>2, <2>1, <2>3
<1>4. \A i \in 1 .. n : l[i] = consumed + k + i
  <2> TAKE i \in 1 .. n
  <2>1. l[i] = buffer[bufferOffset + i]
    BY LeftoverIs DEF IInv
  <2>2. i \in 1 .. bufferLength
    BY <1>2
  <2>3. buffer[bufferOffset + i] = consumed - dataOffset + Len(data) + i
    BY <2>2 DEF IInv, StreamInOrder
  <2> QED BY <1>2, <2>1, <2>3
<1> HIDE DEF w, l, k
<1>5. /\ w \o l \in Seq(Nat) /\ Len(w \o l) = k + n
      /\ \A i \in 1 .. k : (w \o l)[i] = w[i]
      /\ \A i \in k + 1 .. k + n : (w \o l)[i] = l[i - k]
  BY <1>1, Joined
<1>6. \A i \in 1 .. k + n : (w \o l)[i] = consumed + i
  <2> TAKE i \in 1 .. k + n
  <2>1. CASE i <= k
    BY <1>2, <1>3, <1>5, <2>1
  <2>2. CASE ~(i <= k)
    <3>1. i \in k + 1 .. k + n /\ i - k \in 1 .. n
      BY <1>2, <2>2
    <3>2. l[i - k] = consumed + k + (i - k)
      BY <1>4, <3>1
    <3> QED BY <1>2, <1>5, <3>1, <3>2
  <2> QED BY <2>1, <2>2
<1>7. w \o l \in Seq(Nat) /\ Len(w \o l) = k + n /\ \A i \in 1 .. Len(w \o l) : (w \o l)[i] = consumed + i
  BY <1>5, <1>6
<1> QED BY <1>7 DEF w, l, k

LEMMA ReadBeginKeeps ==
  ASSUME IInv, ReadBegin
  PROVE  IInv'
<1> DEFINE room == MaxLength - (Len(data) - dataOffset)
<1>0. /\ call' = call /\ buffer' = buffer /\ pos' = pos /\ read' = read
      /\ consumed' = consumed /\ stop' = stop /\ pin' = pin /\ dataOffset' = 0
      /\ endless' = endless /\ fileLen' = fileLen
  BY DEF ReadBegin, ReturnData, file, orders, source
<1>1. /\ Len(Window) = Len(data) - dataOffset
      /\ Len(data) \in Nat /\ dataOffset \in Nat /\ dataOffset <= Len(data)
      /\ Len(data) <= MaxLength /\ MaxLength \in Nat /\ room \in Nat
      /\ bufferLength \in Nat /\ bufferOffset \in Nat /\ consumed \in Nat /\ read \in Nat
  BY Windowed, SizeAssumption DEF IInv, TypeOK
<1>a. MaxLength - Len(Window) = room
  BY <1>1
<1>b. consumed - dataOffset + Len(data) + bufferLength = read
  BY DEF IInv, StreamInOrder
<1> HIDE DEF room
<1>2. CASE bufferLength > room
  <2>1. /\ data' = Window \o Leftover(room)
        /\ bufferOffset' = bufferOffset + room
        /\ bufferLength' = bufferLength - room
        /\ pc' = "decode" /\ copied' = copied
    <3>1. ~(bufferLength <= MaxLength - Len(Window))
      BY <1>1, <1>2, <1>a
    <3> QED BY <1>a, <3>1 DEF ReadBegin, ReturnData
  <2>2. /\ data' \in Seq(Nat) /\ Len(data') = MaxLength
        /\ \A i \in 1 .. Len(data') : data'[i] = consumed + i
    <3>1. room <= bufferLength
      BY <1>1, <1>2
    <3>2. /\ data' \in Seq(Nat) /\ Len(data') = Len(data) - dataOffset + room
          /\ \A i \in 1 .. Len(data') : data'[i] = consumed + i
      BY <1>1, <2>1, <3>1, Refilled
    <3>3. Len(data) - dataOffset + room = MaxLength
      BY <1>1 DEF room
    <3> QED BY <3>2, <3>3
  <2>3. TypeOK'
    <3>1. /\ bufferOffset' \in Nat /\ bufferLength' \in Nat /\ bufferLength' > 0
          /\ bufferOffset' + bufferLength' = bufferOffset + bufferLength
      BY <1>1, <1>2, <2>1
    <3>2. bufferOffset + bufferLength = Len(buffer)
      BY <1>1, <1>2 DEF IInv, TypeOK
    <3>3. dataOffset' \in 0 .. Len(data') /\ Len(data') <= MaxLength
      BY <1>0, <1>1, <2>2
    <3>4. /\ bufferLength' > 0 => bufferOffset' + bufferLength' = Len(buffer')
          /\ ~(bufferLength' = 0)
      <4>1. Len(buffer') = Len(buffer)
        BY <1>0
      <4>2. bufferOffset' + bufferLength' = Len(buffer')
        BY <3>1, <3>2, <4>1
      <4>3. ~(bufferLength' = 0)
        BY <3>1
      <4> QED BY <4>2, <4>3
    <3>5. buffer' \in Seq(Nat) /\ Len(buffer') <= ChunkSize
      BY <1>0 DEF IInv, TypeOK
    <3> QED BY <1>0, <2>1, <2>2, <3>1, <3>3, <3>4, <3>5 DEF IInv, TypeOK
  <2>4. BufferIsFree'
    BY <2>1 DEF BufferIsFree
  <2>5. \A i \in 1 .. bufferLength' :
          buffer'[bufferOffset' + i] = consumed' - dataOffset' + Len(data') + i
    <3> TAKE i \in 1 .. bufferLength'
    <3>1. room + i \in 1 .. bufferLength
      BY <1>1, <1>2, <2>1
    <3>2. buffer[bufferOffset + (room + i)] = consumed - dataOffset + Len(data) + (room + i)
      BY <3>1 DEF IInv, StreamInOrder
    <3>3. bufferOffset + (room + i) = bufferOffset' + i
      BY <1>1, <2>1, <3>1
    <3>4. i \in Int /\ Len(data') \in Nat
      BY <1>1, <2>1, <2>2
    <3>5. consumed - dataOffset + Len(data) + (room + i) = consumed' - dataOffset' + Len(data') + i
      BY <1>0, <1>1, <2>2, <3>4 DEF room
    <3> QED BY <1>0, <3>2, <3>3, <3>5
  <2>6. StreamInOrder'
    <3>1. consumed' - dataOffset' + Len(data') + bufferLength' = read'
      <4>1. bufferLength' = bufferLength - room
        BY <2>1
      <4>2. Len(data') = MaxLength
        BY <2>2
      <4> QED BY <1>0, <1>1, <1>b, <4>1, <4>2 DEF room
    <3>2. \A i \in dataOffset' + 1 .. Len(data') : data'[i] = consumed' - dataOffset' + i
      BY <1>0, <1>1, <2>2
    <3> QED BY <2>5, <3>1, <3>2 DEF StreamInOrder
  <2> QED BY <2>3, <2>4, <2>6 DEF IInv
<1>3. CASE bufferLength <= room
  <2>1. /\ data' = Window \o Leftover(bufferLength)
        /\ bufferOffset' = 0 /\ bufferLength' = 0
        /\ pc' = "fill" /\ copied' = (bufferLength > 0)
    <3>1. ~(bufferLength > MaxLength - Len(Window))
      BY <1>1, <1>3, <1>a
    <3> QED BY <1>a, <3>1 DEF ReadBegin
  <2>2. /\ data' \in Seq(Nat) /\ Len(data') = Len(data) - dataOffset + bufferLength
        /\ \A i \in 1 .. Len(data') : data'[i] = consumed + i
    BY <1>1, <2>1, Refilled
  <2>3. TypeOK'
    BY <1>0, <1>1, <1>3, <2>1, <2>2 DEF IInv, TypeOK, room
  <2>4. BufferIsFree'
    BY <2>1 DEF BufferIsFree
  <2>5. StreamInOrder'
    <3>1. consumed' - dataOffset' + Len(data') + bufferLength' = read'
      BY <1>0, <1>1, <1>b, <2>1, <2>2
    <3>2. \A i \in dataOffset' + 1 .. Len(data') : data'[i] = consumed' - dataOffset' + i
      BY <1>0, <1>1, <2>2
    <3>3. \A i \in 1 .. bufferLength' : FALSE
      BY <2>1
    <3> QED BY <3>1, <3>2, <3>3 DEF StreamInOrder
  <2> QED BY <2>3, <2>4, <2>5 DEF IInv
<1> QED BY <1>1, <1>2, <1>3

LEMMA FillChunkKeeps ==
  ASSUME IInv, FillChunk
  PROVE  IInv'
<1> DEFINE n    == ChunkLen
           room == MaxLength - Len(data)
           take == IF n > room THEN room ELSE n
           head == Chunk(1, take)
<1>1. /\ Len(data) \in Nat /\ dataOffset \in Nat /\ dataOffset <= Len(data)
      /\ Len(data) < MaxLength /\ MaxLength \in Nat /\ room \in Nat
      /\ read \in Nat /\ consumed \in Nat /\ data \in Seq(Nat)
      /\ bufferLength = 0 /\ bufferOffset = 0
  BY SizeAssumption DEF IInv, TypeOK, BufferIsFree, FillChunk
<1>2. /\ n \in Nat /\ n <= ChunkSize /\ pos + n \in 0 .. fileLen /\ pos \in Nat
      /\ fileLen \in Nat /\ ChunkSize \in Nat
  BY SizeAssumption DEF IInv, TypeOK, ChunkLen
<1>3. take \in Nat /\ take <= room /\ take <= n
  BY <1>1, <1>2
<1> HIDE DEF n, room, take
<1>4. /\ data' = data \o head /\ read' = read + n /\ pos' = pos + n /\ copied' = TRUE
      /\ dataOffset' = dataOffset /\ bufferOffset' = bufferOffset /\ consumed' = consumed
      /\ pc' = pc /\ call' = call /\ stop' = stop /\ pin' = pin /\ endless' = endless
      /\ fileLen' = fileLen
  BY DEF FillChunk, orders, source, n, room, take
<1>5. /\ head \in Seq(Nat) /\ Len(head) = take
      /\ \A i \in 1 .. take : head[i] = read + i
  <2>1. /\ head \in Seq(Nat) /\ Len(head) = take
        /\ \A i \in 1 .. take : head[i] = read + 1 - 1 + i
    <3>1. 1 \in Nat \ {0} /\ TypeOK
      BY DEF IInv
    <3> QED BY <1>3, <3>1, Chunks
  <2>2. \A i \in 1 .. take : read + 1 - 1 + i = read + i
    BY <1>1, <1>3
  <2> QED BY <2>1, <2>2
<1>6. consumed - dataOffset + Len(data) = read
  BY <1>1 DEF IInv, StreamInOrder
<1> HIDE DEF head
<1>7. /\ data' \in Seq(Nat) /\ Len(data') = Len(data) + take
      /\ \A i \in 1 .. Len(data) : data'[i] = data[i]
      /\ \A i \in Len(data) + 1 .. Len(data) + take : data'[i] = head[i - Len(data)]
  BY <1>1, <1>4, <1>5, Joined
<1>l. Len(data') = Len(data) + take /\ consumed' = consumed /\ dataOffset' = dataOffset
      /\ read' = read + n
  BY <1>4, <1>7
<1>8. \A i \in dataOffset + 1 .. Len(data') : data'[i] = consumed - dataOffset + i
  <2> TAKE i \in dataOffset + 1 .. Len(data')
  <2>1. CASE i <= Len(data)
    <3>1. i \in dataOffset + 1 .. Len(data) /\ i \in 1 .. Len(data)
      BY <1>1, <1>7, <2>1
    <3>2. data[i] = consumed - dataOffset + i
      BY <3>1 DEF IInv, StreamInOrder
    <3> QED BY <1>7, <3>1, <3>2
  <2>2. CASE ~(i <= Len(data))
    <3>1. i \in Len(data) + 1 .. Len(data) + take /\ i - Len(data) \in 1 .. take
      BY <1>1, <1>3, <1>7, <2>2
    <3>2. head[i - Len(data)] = read + (i - Len(data))
      BY <1>5, <3>1
    <3>3. read + (i - Len(data)) = consumed - dataOffset + i
      BY <1>1, <1>6, <3>1
    <3> QED BY <1>7, <3>1, <3>2, <3>3
  <2> QED BY <2>1, <2>2
<1>9. CASE n > room
  <2>1. take = room /\ buffer' = Chunk(room + 1, n - room) /\ bufferLength' = n - room
    BY <1>9 DEF FillChunk, n, room, take
  <2>2. n - room \in Nat /\ room + 1 \in Nat \ {0}
    BY <1>1, <1>2, <1>9
  <2>3. /\ buffer' \in Seq(Nat) /\ Len(buffer') = n - room
        /\ \A i \in 1 .. n - room : buffer'[i] = read + (room + 1) - 1 + i
    BY <2>1, <2>2, Chunks DEF IInv
  <2>4. TypeOK'
    <3>1. /\ n - room \in Nat /\ n - room <= ChunkSize /\ n - room > 0
          /\ Len(data') = MaxLength /\ dataOffset' \in 0 .. Len(data')
      <4>1. n - room \in Nat /\ n - room <= ChunkSize /\ n - room > 0
        BY <1>1, <1>2, <1>9
      <4>2. Len(data') = Len(data) + room /\ dataOffset' = dataOffset
        BY <1>4, <1>l, <2>1
      <4>3. Len(data') = MaxLength
        BY <1>1, <4>2 DEF room
      <4> QED BY <1>1, <4>1, <4>2, <4>3
    <3>2. bufferOffset' \in Nat /\ bufferOffset' + bufferLength' = Len(buffer')
      BY <1>1, <1>4, <2>1, <2>3
    <3>3. pos' \in 0 .. fileLen' /\ read' \in Nat
      BY <1>1, <1>2, <1>4
    <3> QED BY <1>1, <1>4, <1>7, <2>1, <2>3, <3>1, <3>2, <3>3 DEF IInv, TypeOK
  <2>5. BufferIsFree'
    BY <1>1, <1>7, <2>1 DEF BufferIsFree, room
  <2>6. StreamInOrder'
    <3>1. \A i \in dataOffset' + 1 .. Len(data') : data'[i] = consumed' - dataOffset' + i
      BY <1>4, <1>8
    <3>2. \A i \in 1 .. bufferLength' :
            buffer'[bufferOffset' + i] = consumed' - dataOffset' + Len(data') + i
      <4> TAKE i \in 1 .. bufferLength'
      <4>1. buffer'[i] = read + (room + 1) - 1 + i /\ i \in Nat
        BY <2>1, <2>2, <2>3
      <4>2. bufferOffset' + i = i
        BY <1>1, <1>4, <4>1
      <4>3. read + (room + 1) - 1 + i = consumed' - dataOffset' + Len(data') + i
        <5>1. take = room /\ room \in Nat /\ i \in Nat /\ read \in Nat
          BY <1>1, <2>1, <4>1
        <5>2. consumed \in Nat /\ dataOffset \in Nat /\ Len(data) \in Nat
          BY <1>1
        <5> QED BY <1>l, <1>6, <5>1, <5>2
      <4> QED BY <4>1, <4>2, <4>3
    <3>3. consumed' - dataOffset' + Len(data') + bufferLength' = read'
      <4>1. consumed \in Nat /\ dataOffset \in Nat /\ Len(data) \in Nat /\ take \in Nat /\ n \in Nat
        BY <1>1, <1>2, <1>3
      <4>2. take + bufferLength' = n /\ bufferLength' \in Nat
        BY <1>1, <1>2, <1>9, <2>1
      <4>3. (consumed - dataOffset) + (Len(data) + take) + bufferLength'
              = (consumed - dataOffset + Len(data)) + (take + bufferLength')
        BY <4>1, <4>2
      <4> QED BY <1>l, <1>6, <4>2, <4>3
    <3> QED BY <3>1, <3>2, <3>3 DEF StreamInOrder
  <2> QED BY <2>4, <2>5, <2>6 DEF IInv
<1>10. CASE ~(n > room)
  <2>1. take = n /\ UNCHANGED <<buffer, bufferLength>>
    BY <1>10 DEF FillChunk, n, room, take
  <2>2. TypeOK'
    BY <1>1, <1>2, <1>3, <1>4, <1>7, <1>10, <2>1 DEF IInv, TypeOK, room
  <2>3. BufferIsFree'
    BY <1>1, <2>1 DEF BufferIsFree
  <2>4. StreamInOrder'
    <3>1. \A i \in dataOffset' + 1 .. Len(data') : data'[i] = consumed' - dataOffset' + i
      BY <1>4, <1>8
    <3>2. consumed' - dataOffset' + Len(data') + bufferLength' = read'
      <4>1. consumed \in Nat /\ dataOffset \in Nat /\ Len(data) \in Nat /\ take \in Nat /\ n \in Nat
        BY <1>1, <1>2, <1>3
      <4>2. take + bufferLength' = n /\ bufferLength' \in Nat
        BY <1>1, <1>2, <2>1
      <4>3. (consumed - dataOffset) + (Len(data) + take) + bufferLength'
              = (consumed - dataOffset + Len(data)) + (take + bufferLength')
        BY <4>1, <4>2
      <4> QED BY <1>l, <1>6, <4>2, <4>3
    <3>3. bufferLength' = 0
      BY <1>1, <2>1
    <3> QED BY <3>1, <3>2, <3>3 DEF StreamInOrder
  <2> QED BY <2>2, <2>3, <2>4 DEF IInv
<1> QED BY <1>9, <1>10

LEMMA DecodeKeeps ==
  ASSUME IInv, NEW n \in 0 .. Len(data) - dataOffset, Decode(n)
  PROVE  IInv'
<1>1. /\ Len(data) \in Nat /\ dataOffset \in Nat /\ dataOffset <= Len(data) /\ n \in Nat
      /\ consumed \in Nat /\ dataOffset + n \in 0 .. Len(data)
  BY DEF IInv, TypeOK
<1>2. TypeOK'
  BY <1>1 DEF IInv, TypeOK, Decode, rest, file, orders, source
<1>3. BufferIsFree'
  BY DEF BufferIsFree, Decode
<1>4. StreamInOrder'
  BY <1>1 DEF IInv, StreamInOrder, Decode, rest, file
<1> QED BY <1>2, <1>3, <1>4 DEF IInv

-----------------------------------------------------------------------------
LEMMA Initially == Init => IInv
<1> SUFFICES ASSUME Init PROVE IInv
  OBVIOUS
<1>1. <<>> \in Seq(Nat) /\ Len(<<>>) = 0
  OBVIOUS
<1>2. TypeOK
  <2>1. data = <<>> /\ buffer = <<>> /\ Len(data) = 0 /\ Len(buffer) = 0
    BY <1>1 DEF Init
  <2>2. /\ data \in Seq(Nat) /\ Len(data) <= MaxLength
        /\ buffer \in Seq(Nat) /\ Len(buffer) <= ChunkSize
        /\ dataOffset \in 0 .. Len(data)
    BY <1>1, <2>1, SizeAssumption DEF Init
  <2>3. fileLen \in FileLens /\ 0 \in 0 .. fileLen
    BY SizeAssumption DEF Init
  <2>4. pc \in {"begin", "fill", "decode", "end", "left"}
    BY DEF Init
  <2>5. call \in {"prepare", "first", "again"}
    BY DEF Init
  <2>6. copied \in BOOLEAN /\ stop \in BOOLEAN /\ pin \in BOOLEAN /\ endless \in BOOLEAN
    BY DEF Init
  <2>7. bufferOffset \in Nat /\ bufferLength \in Nat /\ bufferLength = 0 /\ bufferOffset = 0
    BY DEF Init
  <2>8. pos \in 0 .. fileLen /\ read \in Nat /\ consumed \in Nat
    BY <2>3 DEF Init
  <2>9. ~(bufferLength > 0)
    BY <2>7
  <2> QED BY <2>2, <2>3, <2>4, <2>5, <2>6, <2>7, <2>8, <2>9 DEF TypeOK
<1>3. BufferIsFree /\ StreamInOrder
  BY <1>1 DEF Init, BufferIsFree, StreamInOrder
<1> QED BY <1>2, <1>3 DEF IInv

LEMMA Inductive == IInv /\ [Next]_vars => IInv'
<1> SUFFICES ASSUME IInv, [Next]_vars PROVE IInv'
  OBVIOUS
<1>1. CASE ReadBegin
  BY <1>1, ReadBeginKeeps
<1>2. CASE FillEnds
  BY <1>2 DEF IInv, TypeOK, BufferIsFree, StreamInOrder, FillEnds, ReturnData,
              bits, rest, file, orders, source
<1>3. CASE FillChunk
  BY <1>3, FillChunkKeeps
<1>4. CASE FillEos
  BY <1>4, SizeAssumption DEF IInv, TypeOK, BufferIsFree, StreamInOrder, FillEos,
              ReturnData, ReturnMoreData, bits, rest, orders, source
<1>5. CASE \E n \in 0 .. Len(data) - dataOffset : Decode(n)
  BY <1>5, DecodeKeeps
<1>6. CASE Stop \/ DisconnectPin
  BY <1>6 DEF IInv, TypeOK, BufferIsFree, StreamInOrder, Stop, DisconnectPin,
              bits, rest, file, source
<1>7. CASE UNCHANGED vars
  BY <1>7 DEF IInv, TypeOK, BufferIsFree, StreamInOrder, vars, bits, rest, file, orders, source
<1> QED BY <1>1, <1>2, <1>3, <1>4, <1>5, <1>6, <1>7 DEF Next, ReadBitStreamData

(***************************************************************************)
(* No memcpy of ReadBitStreamData leaves m_mfxBS.Data or m_buffer.         *)
(***************************************************************************)
THEOREM BuffersHold == Spec => []TypeOK
<1>1. IInv => TypeOK
  BY DEF IInv
<1> QED BY Initially, Inductive, <1>1, PTL DEF Spec

(***************************************************************************)
(* The decoder gets the bytes of the stream in order, none missing and     *)
(* none twice, however chunks and free room interleave.                    *)
(***************************************************************************)
THEOREM DecoderGetsStream == Spec => []StreamInOrder
<1>1. IInv => StreamInOrder
  BY DEF IInv
<1> QED BY Initially, Inductive, <1>1, PTL DEF Spec
-----------------------------------------------------------------------------
(* The end of the stream.  A pin that is not endless, or whose file is      *)
(* empty, has delivered what lies before its position.  An endless pin is   *)
(* at the beginning of its file in every call that may end Loop, as long as *)
(* that call has copied nothing.                                            *)
MayEnd == call # "first" /\ (pc = "begin" \/ (pc = "fill" /\ ~copied))

EndInv ==
  /\ ~endless \/ fileLen = 0 => read = pos
  /\ endless /\ MayEnd => pos = 0
  /\ EndIsReal

LEMMA EndIsKept == IInv /\ EndInv /\ [Next]_vars => EndInv'
<1> SUFFICES ASSUME IInv, EndInv, [Next]_vars PROVE EndInv'
  OBVIOUS
<1>1. /\ pos \in Nat /\ pos <= fileLen /\ fileLen \in Nat /\ read \in Nat
      /\ ChunkSize \in Nat \ {0} /\ endless \in BOOLEAN /\ copied \in BOOLEAN
  BY SizeAssumption DEF IInv, TypeOK
<1>2. CASE ReadBegin
  <2>1. /\ pc = "begin" /\ source' = source /\ pos' = pos /\ read' = read /\ call' = call
        /\ pc' \in {"decode", "fill"}
    BY <1>2 DEF ReadBegin, ReturnData, file, orders
  <2>2. QED
    BY <2>1 DEF EndInv, MayEnd, EndIsReal, source
<1>3. CASE FillEnds
  BY <1>3 DEF FillEnds, ReturnData, file, orders, source, EndInv, MayEnd, EndIsReal
<1>4. CASE FillChunk
  <2>1. /\ pc = "fill" /\ pc' = "fill" /\ copied' = TRUE
        /\ endless' = endless /\ fileLen' = fileLen
        /\ ChunkLen > 0 /\ pos' = pos + ChunkLen /\ read' = read + ChunkLen
    BY <1>4 DEF FillChunk, orders, source
  <2>2. ChunkLen \in Nat /\ ChunkLen <= fileLen - pos
    BY <1>1 DEF ChunkLen
  <2>3. fileLen # 0
    BY <1>1, <2>1, <2>2
  <2>4. ~endless' \/ fileLen' = 0 => read' = pos'
    BY <2>1, <2>3 DEF EndInv
  <2>5. ~MayEnd' /\ EndIsReal'
    BY <2>1 DEF MayEnd, EndIsReal
  <2> QED BY <2>4, <2>5 DEF EndInv
<1>5. CASE FillEos
  <2>1. /\ pc = "fill" /\ ChunkLen = 0 /\ Len(data) < MaxLength
        /\ pos' = (IF endless THEN 0 ELSE pos)
        /\ endless' = endless /\ fileLen' = fileLen /\ read' = read
        /\ bufferLength' = bufferLength /\ copied' = copied
    BY <1>5 DEF FillEos, rest, orders, source
  <2>2. pos = fileLen
    BY <1>1, <2>1 DEF ChunkLen
  <2>3. bufferLength = 0
    BY <2>1 DEF IInv, BufferIsFree, TypeOK
  <2>4. ~endless' \/ fileLen' = 0 => read' = pos'
    BY <1>1, <2>1, <2>2 DEF EndInv
  <2>5. endless' /\ MayEnd' => pos' = 0
    BY <2>1
  <2>6. EndIsReal'
    <3>1. CASE copied \/ call = "first"
      BY <1>5, <3>1 DEF FillEos, ReturnData, ReturnMoreData, EndIsReal
    <3>2. CASE ~copied /\ call # "first"
      <4>1. endless => fileLen = 0
        BY <2>1, <2>2, <3>2 DEF EndInv, MayEnd
      <4>2. read = fileLen
        BY <1>1, <2>2, <4>1 DEF EndInv
      <4> QED BY <2>1, <2>3, <4>1, <4>2 DEF EndIsReal
    <3> QED BY <3>1, <3>2
  <2> QED BY <2>4, <2>5, <2>6 DEF EndInv
<1>6. CASE \E n \in 0 .. Len(data) - dataOffset : Decode(n)
  BY <1>6 DEF Decode, rest, file, orders, source, EndInv, MayEnd, EndIsReal
<1>7. CASE Stop \/ DisconnectPin
  BY <1>7 DEF Stop, DisconnectPin, rest, file, source, EndInv, MayEnd, EndIsReal
<1>8. CASE UNCHANGED vars
  BY <1>8 DEF vars, rest, file, orders, source, EndInv, MayEnd, EndIsReal
<1> QED BY <1>2, <1>3, <1>4, <1>5, <1>6, <1>7, <1>8 DEF Next, ReadBitStreamData

(***************************************************************************)
(* Loop ends its work for want of data only when the file was read once,   *)
(* to its last byte, and nothing of it is left in m_buffer: the second     *)
(* call in Loop tells a rewind from the end, for every file and buffer.    *)
(***************************************************************************)
THEOREM LoopEndsWithTheFile == Spec => []EndIsReal
<1>1. Init => EndInv
  BY DEF Init, EndInv, EndIsReal
<1>2. EndInv => EndIsReal
  BY DEF EndInv
<1> QED BY Initially, Inductive, EndIsKept, <1>1, <1>2, PTL DEF Spec
=============================================================================
