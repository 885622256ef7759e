------------------------------ MODULE MCFraming -----------------------------
(***************************************************************************)
(* Small instances of Framing: an acknowledgement whose status byte is the *)
(* start byte, an empty one, one of two bytes that read as a length, and a *)
(* target info of eight bytes.  The packet buffer holds fourteen bytes, so *)
(* that a wrong length swallows a whole frame.                             *)
(***************************************************************************)
EXTENDS Framing, Crc16

PacketOf(command, data) ==
  [command |-> command, length |-> Len(data), data |-> data]

MCPackets ==
  {PacketOf(RESP_SEG_ACK, <<SOF>>),
   PacketOf(RESP_CRC_ACK, <<>>),
   PacketOf(RESP_SEG_NACK, <<0, 14>>),
   PacketOf(RESP_TARGET_INFO + 2, <<8, 0, 64, 0, 4, 0, 0, 32>>)}

\* A function, so that TLC evaluates the bytes once.
Sum[data \in Seq(Byte)] == crc16_ccitt(data)

MCcrc16(data) == Sum[data]

\* A start byte and bytes that read as an empty, a short, a full and a wrong
\* length.
MCNoiseBytes == {0, 2, 14, SOF, 255}
=============================================================================
