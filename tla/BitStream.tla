------------------------------ MODULE BitStream ------------------------------
(***************************************************************************)
(* How DecodeThreadBlock feeds its decoder: VAFilePin reads a file in      *)
(* chunks, ReadBitStreamData copies them into the decoder's bitstream      *)
(* m_mfxBS, keeps what does not fit in m_buffer, and Loop calls it when    *)
(* the decoder wants more data.                                            *)
(*                                                                         *)
(* A byte is its number in the stream the file pin delivers: with an       *)
(* endless pin byte fileLen + 1 is the first byte of the file again.       *)
(***************************************************************************)
EXTENDS Integers, Sequences

CONSTANTS
  MaxLength,  (* m_mfxBS.MaxLength                                           *)
  ChunkSize,  (* VAFilePin's m_dataSize, and the bytes m_buffer has          *)
  FileLens,   (* the lengths a file may have, in bytes                       *)
  MaxRead     (* bound: no new read begins once so many bytes were delivered *)

ASSUME SizeAssumption ==
  MaxLength \in Nat /\ ChunkSize \in Nat \ {0} /\ FileLens \subseteq Nat /\ MaxRead \in Nat

VARIABLES
  data,         (* m_mfxBS.Data up to DataOffset + DataLength               *)
  dataOffset,   (* m_mfxBS.DataOffset                                       *)
  buffer,       (* m_buffer, as far as it was written last                  *)
  bufferOffset, (* m_bufferOffset                                           *)
  bufferLength, (* m_bufferLength                                           *)
  copied,       (* copiedLen > 0                                            *)
  pos,          (* where the file pin is in its file                        *)
  read,         (* how many bytes the file pin has delivered                *)
  consumed,     (* how many bytes the decoder has taken                     *)
  pc,           (* where the block's thread is                              *)
  call,         (* which call of ReadBitStreamData it is in                 *)
  stop,         (* m_stop                                                   *)
  pin,          (* m_inputPin is not null                                   *)
  fileLen,      (* the bytes in the file                                    *)
  endless       (* VAFilePin's m_endless                                    *)

bits   == <<data, dataOffset>>
rest   == <<buffer, bufferOffset, bufferLength>>
file   == <<pos, read>>
source == <<fileLen, endless>>
orders == <<stop, pin, source>>
vars   == <<bits, rest, copied, file, consumed, pc, call, orders>>

Init ==
  /\ data = <<>> /\ dataOffset = 0
  /\ buffer = <<>> /\ bufferOffset = 0 /\ bufferLength = 0
  /\ copied = FALSE
  /\ pos = 0 /\ read = 0 /\ consumed = 0
  /\ pc = "begin" /\ call = "prepare"
  /\ stop = FALSE /\ pin = TRUE
  /\ fileLen \in FileLens /\ endless \in BOOLEAN

-----------------------------------------------------------------------------
Window == SubSeq(data, dataOffset + 1, Len(data))
Leftover(n) == SubSeq(buffer, bufferOffset + 1, bufferOffset + n)

(* The next chunk: fread of up to ChunkSize bytes.  It is empty at the end. *)
ChunkLen == IF fileLen - pos < ChunkSize THEN fileLen - pos ELSE ChunkSize
Chunk(first, n) == [i \in 1 .. n |-> read + first - 1 + i]

(* ReadBitStreamData returns 0, or MFX_ERR_MORE_DATA, which Loop answers    *)
(* with one more call and, if that fails too, with its end.  Prepare does   *)
(* not look at what its call returns: the decoder gets an empty m_mfxBS.    *)
ReturnData == pc' = "decode" /\ UNCHANGED call

ReturnMoreData ==
  \/ call = "prepare" /\ pc' = "decode" /\ UNCHANGED call
  \/ call = "first" /\ pc' = "begin" /\ call' = "again"
  \/ call = "again" /\ pc' = "end" /\ UNCHANGED call

(* Mutant: the room is taken for the whole of m_mfxBS. *)
ReadBegin_RoomIsMaxLength ==
  LET window == Window
      room   == MaxLength
  IN /\ pc = "begin"
     /\ dataOffset' = 0
     /\ \/ /\ bufferLength > room
           /\ data' = window \o Leftover(room)
           /\ bufferOffset' = bufferOffset + room
           /\ bufferLength' = bufferLength - room
           /\ ReturnData
           /\ UNCHANGED copied
        \/ /\ bufferLength <= room
           /\ data' = window \o Leftover(bufferLength)
           /\ bufferOffset' = 0 /\ bufferLength' = 0
           /\ copied' = (bufferLength > 0)
           /\ pc' = "fill"
           /\ UNCHANGED call
     /\ UNCHANGED <<buffer, file, consumed, orders>>

(* Mutant: m_bufferOffset stays 0 when only a part of m_buffer fits. *)
ReadBegin_OffsetForgotten ==
  LET window == Window
      room   == MaxLength - Len(window)
  IN /\ pc = "begin"
     /\ dataOffset' = 0
     /\ \/ /\ bufferLength > room
           /\ data' = window \o Leftover(room)
           /\ bufferLength' = bufferLength - room
           /\ ReturnData
           /\ UNCHANGED <<bufferOffset, copied>>
        \/ /\ bufferLength <= room
           /\ data' = window \o Leftover(bufferLength)
           /\ bufferOffset' = 0 /\ bufferLength' = 0
           /\ copied' = (bufferLength > 0)
           /\ pc' = "fill"
           /\ UNCHANGED call
     /\ UNCHANGED <<buffer, file, consumed, orders>>

(* The unread bytes move to the front and m_buffer is emptied into the room *)
(* behind them; if it does not fit, that is all this call does.             *)
ReadBegin ==
  LET window == Window
      room   == MaxLength - Len(window)
  IN /\ pc = "begin"
     /\ dataOffset' = 0
     /\ \/ /\ bufferLength > room
           /\ data' = window \o Leftover(room)
           /\ bufferOffset' = bufferOffset + room
           /\ bufferLength' = bufferLength - room
           /\ ReturnData
           /\ UNCHANGED copied
        \/ /\ bufferLength <= room
           /\ data' = window \o Leftover(bufferLength)
           /\ bufferOffset' = 0 /\ bufferLength' = 0
           /\ copied' = (bufferLength > 0)
           /\ pc' = "fill"
           /\ UNCHANGED call
     /\ UNCHANGED <<buffer, file, consumed, orders>>

(* m_mfxBS is full, or Stop has taken the pin away. *)
FillEnds ==
  /\ pc = "fill"
  /\ Len(data) >= MaxLength \/ ~pin
  /\ ReturnData
  /\ UNCHANGED <<bits, rest, copied, file, consumed, orders>>

(* A chunk: what does not fit goes to m_buffer. *)
FillChunk ==
  LET n    == ChunkLen
      room == MaxLength - Len(data)
      take == IF n > room THEN room ELSE n
  IN /\ pc = "fill" /\ Len(data) < MaxLength /\ pin /\ n > 0
     /\ data' = data \o Chunk(1, take)
     /\ IF n > room
          THEN buffer' = Chunk(take + 1, n - take) /\ bufferLength' = n - take
          ELSE UNCHANGED <<buffer, bufferLength>>
     /\ copied' = TRUE
     /\ pos' = pos + n
     /\ read' = read + n
     /\ UNCHANGED <<dataOffset, bufferOffset, consumed, pc, call, orders>>

(* Mutant: the end of the stream ends the call only if it copied nothing.   *)
FillEos_OnlyIfNothing ==
  /\ pc = "fill" /\ Len(data) < MaxLength /\ pin /\ ChunkLen = 0
  /\ pos' = IF endless THEN 0 ELSE pos
  /\ IF copied THEN UNCHANGED <<pc, call>> ELSE ReturnMoreData
  /\ UNCHANGED <<bits, rest, copied, read, consumed, orders>>

(* Mutant: a chunk that is not full is taken for the end of the stream.     *)
FillEos_ShortChunk ==
  /\ pc = "fill" /\ Len(data) < MaxLength /\ pin /\ ChunkLen < ChunkSize
  /\ pos' = IF endless THEN 0 ELSE pos
  /\ IF copied THEN ReturnData ELSE ReturnMoreData
  /\ UNCHANGED <<bits, rest, copied, read, consumed, orders>>

(* The chunk of no bytes: the end of the stream, whatever the pin, and the  *)
(* file is rewound if the pin is endless.                                   *)
FillEos ==
  /\ pc = "fill" /\ Len(data) < MaxLength /\ pin /\ ChunkLen = 0
  /\ pos' = IF endless THEN 0 ELSE pos
  /\ IF copied THEN ReturnData ELSE ReturnMoreData
  /\ UNCHANGED <<bits, rest, copied, read, consumed, orders>>

(* DecodeHeader and DecodeFrameAsync take n bytes and ask for more data or  *)
(* not; Loop leaves when it is told to stop or the decoder fails.           *)
Decode(n) ==
  /\ pc = "decode"
  /\ dataOffset' = dataOffset + n
  /\ consumed' = consumed + n
  /\ \/ ~stop /\ pc' = "decode" /\ UNCHANGED call
     \/ ~stop /\ read < MaxRead /\ pc' = "begin" /\ call' = "first"
     \/ pc' = "left" /\ UNCHANGED call
  /\ UNCHANGED <<data, rest, copied, file, orders>>

(* VAThreadBlock::Stop, by the main thread, which has prepared the block.   *)
Stop ==
  /\ ~stop
  /\ call = "prepare" => pc \notin {"begin", "fill"}
  /\ stop' = TRUE
  /\ UNCHANGED <<bits, rest, copied, file, consumed, pc, call, pin, source>>

DisconnectPin ==
  /\ stop /\ pin
  /\ pin' = FALSE
  /\ UNCHANGED <<bits, rest, copied, file, consumed, pc, call, stop, source>>

ReadBitStreamData == ReadBegin \/ FillEnds \/ FillChunk \/ FillEos

Next ==
  \/ ReadBitStreamData
  \/ \E n \in 0 .. Len(data) - dataOffset : Decode(n)
  \/ Stop \/ DisconnectPin

Spec == Init /\ [][Next]_vars

(* The block's thread runs: a call that has begun goes on. *)
FairSpec == Spec /\ WF_vars(ReadBitStreamData)
-----------------------------------------------------------------------------
(***************************************************************************)
(* The types, and that no memcpy of ReadBitStreamData leaves its buffer:   *)
(* m_mfxBS.Data has MaxLength bytes, m_buffer ChunkSize.                   *)
(***************************************************************************)
TypeOK ==
  /\ data \in Seq(Nat) /\ Len(data) <= MaxLength
  /\ dataOffset \in 0 .. Len(data)
  /\ buffer \in Seq(Nat) /\ Len(buffer) <= ChunkSize
  /\ bufferOffset \in Nat /\ bufferLength \in Nat
  /\ bufferLength > 0 => bufferOffset + bufferLength = Len(buffer)
  /\ bufferLength = 0 => bufferOffset = 0
  /\ copied \in BOOLEAN
  /\ fileLen \in FileLens /\ pos \in 0 .. fileLen
  /\ read \in Nat /\ consumed \in Nat
  /\ pc \in {"begin", "fill", "decode", "end", "left"}
  /\ call \in {"prepare", "first", "again"}
  /\ stop \in BOOLEAN /\ pin \in BOOLEAN /\ endless \in BOOLEAN

(***************************************************************************)
(* The decoder gets the stream: what it has not taken of m_mfxBS, followed *)
(* by what waits in m_buffer, are the bytes after those it took up to the  *)
(* last one the pin delivered, none missing, none twice, in order.         *)
(***************************************************************************)
StreamInOrder ==
  /\ \A i \in dataOffset + 1 .. Len(data) : data[i] = consumed - dataOffset + i
  /\ \A i \in 1 .. bufferLength :
       buffer[bufferOffset + i] = consumed - dataOffset + Len(data) + i
  /\ consumed - dataOffset + Len(data) + bufferLength = read

(***************************************************************************)
(* Loop takes the end of the file for the end of its work only if the pin  *)
(* is not endless, and then everything in the file is in m_mfxBS or was    *)
(* taken by the decoder: nothing is left in m_buffer.  This is what the    *)
(* second call of ReadBitStreamData in Loop is for.                        *)
(***************************************************************************)
EndIsReal ==
  pc = "end" => (endless => fileLen = 0) /\ read = fileLen /\ bufferLength = 0

(***************************************************************************)
(* ReadBitStreamData returns, however short the file is and whether or not *)
(* the pin is endless or disconnected.                                     *)
(***************************************************************************)
ReadReturns == pc \in {"begin", "fill"} ~> pc \notin {"begin", "fill"}
=============================================================================
