---------------------------- MODULE BitStreamVpl ----------------------------
(***************************************************************************)
(* ReadBitStreamData of the DecodeThreadBlock that is built with oneVPL    *)
(* (DecodeThreadBlock2.cpp).  It differs from BitStream's in two places:   *)
(* it zeroes m_bufferLength before it adds it to DataLength and copiedLen, *)
(* and it uses the packet of AcquireInput without a test for nullptr.      *)
(***************************************************************************)
EXTENDS BitStream

(* m_buffer is copied behind the unread bytes, but not counted: the next    *)
(* chunk overwrites it.                                                     *)
ReadBeginVpl ==
  LET room == MaxLength - Len(Window)
  IN /\ pc = "begin"
     /\ dataOffset' = 0
     /\ \/ /\ bufferLength > room
           /\ data' = Window \o Leftover(room)
           /\ bufferOffset' = bufferOffset + room
           /\ bufferLength' = bufferLength - room
           /\ ReturnData
           /\ UNCHANGED copied
        \/ /\ bufferLength <= room
           /\ data' = Window
           /\ bufferOffset' = 0 /\ bufferLength' = 0
           /\ copied' = FALSE
           /\ pc' = "fill"
           /\ UNCHANGED call
     /\ UNCHANGED <<buffer, file, consumed, orders>>

FillEndsVpl ==
  /\ pc = "fill"
  /\ \/ Len(data) >= MaxLength /\ ReturnData
     \/ Len(data) < MaxLength /\ ~pin /\ pc' = "crashed" /\ UNCHANGED call
  /\ UNCHANGED <<bits, rest, copied, file, consumed, orders>>

NextVpl ==
  \/ ReadBeginVpl \/ FillEndsVpl \/ FillChunk \/ FillEos
  \/ \E n \in 0 .. Len(data) - dataOffset : Decode(n)
  \/ Stop \/ DisconnectPin

SpecVpl == Init /\ [][NextVpl]_vars

(***************************************************************************)
(* The comment on ReadBitStreamData: "fill the buffer in m_mfxBS, and      *)
(* store the remaining in m_buffer", so that the decoder gets the stream.  *)
(* It does NOT hold: what was stored in m_buffer is lost.                  *)
(***************************************************************************)
RemainingIsKept == StreamInOrder
=============================================================================
