------------------------------- MODULE Framing ------------------------------
(***************************************************************************)
(* The byte level under HostFsm: the receiving half of                     *)
(* comm/transport_layer.c (the parsers of transport_receive, one call of   *)
(* transport_flush), comm_rx_thread, which drives them, and the framing of *)
(* transport_send, which the target mirrors.                               *)
(*                                                                         *)
(* The target sends a frame when the line is idle, as a bootloader does    *)
(* that answers, or repeats its answer when it has heard nothing.  On a    *)
(* serial line bytes are lost, changed or added.  The host reads one byte  *)
(* a time, in transport_receive or in transport_flush: at startup by the   *)
(* main thread, after a framing error by the RX thread, never by both.     *)
(*                                                                         *)
(* The CRC is a parameter, so what is proved holds for any; TLC is given   *)
(* the one of the code (module Crc16).                                     *)
(***************************************************************************)
EXTENDS BlProtocol, Integers, SequencesExt

CONSTANTS DriverTypes,    \* transports considered
          Packets,        \* packets the target may send
          NoiseBytes,     \* bytes a damaged line may deliver
          MaxData,        \* size of comm_packet_t.data: COMM_MAX_DATA
          MaxFaults,      \* bound: bytes lost, changed or added
          crc16(_)        \* crc16_ccitt

Byte == 0 .. 255
SOF  == 58                \* ':'

Packet == [command : Byte, length : 0 .. MaxData, data : Seq(Byte)]

\* What the CRC is taken over.
Covered(p) == <<p.command, p.length \div 256, p.length % 256>> \o p.data

\* The length of a payload and the CRC are uint16_t, of two bytes each.
Uint16 == {n \in Nat : n < 256 * 256}

ASSUME FramingAssumption ==
  /\ DriverTypes \subseteq {SERIAL, TCP, CAN, UDP}
  /\ MaxData \in Uint16 /\ MaxData >= CAN_MAX_PAYLOAD
  /\ Packets \subseteq Packet
  /\ \A p \in Packets :
       /\ Len(p.data) = p.length
       /\ crc16(Covered(p)) \in Uint16
       /\ CAN \in DriverTypes => p.length <= CAN_MAX_PAYLOAD
  /\ NoiseBytes \subseteq Byte
  /\ MaxFaults \in Nat

VARIABLES
  driver_type,      \* what transport_init has opened
  mode,             \* the reader is in transport_"receive" or "flush"
  rx,               \* rx_state, rx_length and rx_crc
  can_rx,           \* can_rx_state and can_rx_len
  pkt,              \* receive_info_packet; its data up to the index reached
  result,           \* what transport_receive returned after the last byte
  line,             \* bytes of the frame in transit
  current,          \* ghost: the packet of that frame
  heard,            \* ghost: transport_receive has returned it
  clean,            \* ghost: sent to an idle parser and not damaged since
  faults            \* faults so far (bounded by MaxFaults)

parserVars == <<rx, can_rx, pkt>>
ghostVars  == <<current, clean>>
vars == <<driver_type, mode, parserVars, result, line, heard, ghostVars,
          faults>>

Idle    == [state |-> 0, length |-> 0, crc |-> 0]
CanIdle == [state |-> 0, len |-> 0]

\* main calls transport_flush right after it has opened the transport.
Init ==
  /\ driver_type \in DriverTypes
  /\ mode = "flush"
  /\ rx = Idle
  /\ can_rx = CanIdle
  /\ pkt = [command |-> 0, length |-> 0, data |-> <<>>]
  /\ result = "none"
  /\ line = <<>>
  /\ current \in Packets
  /\ heard = TRUE
  /\ clean = FALSE
  /\ faults = 0

-----------------------------------------------------------------------------
\* transport_send: the bytes of a frame.
Frame(p) ==
  IF driver_type = CAN
  THEN <<SOF, p.command, p.length>> \o p.data
  ELSE LET crc == crc16(Covered(p))
       IN  <<SOF>> \o Covered(p) \o <<crc \div 256, crc % 256>>

\* The outcomes of one byte in transport_receive, and comm_rx_thread's way
\* on: the loop goes on, a packet is returned, or an error is; only the
\* framing error makes the thread flush.
GoesOn        == result' = "none" /\ UNCHANGED <<mode, heard>>
ReturnsPacket == result' = "packet" /\ heard' = TRUE /\ UNCHANGED mode
CrcError      == result' = "crc" /\ UNCHANGED <<mode, heard>>
FramingError  == result' = "frame" /\ mode' = "flush" /\ UNCHANGED heard

-----------------------------------------------------------------------------
(* The serial, TCP and UDP parser, one action per state. *)

ScanSof(b) ==
  /\ rx.state = 0
  /\ rx' = IF b = SOF THEN [rx EXCEPT !.state = 1] ELSE rx
  /\ UNCHANGED pkt
  /\ GoesOn

CmdByte(b) ==
  /\ rx.state = 1
  /\ pkt' = [pkt EXCEPT !.command = b]
  /\ rx' = [rx EXCEPT !.state = 2]
  /\ GoesOn

LenHigh(b) ==
  /\ rx.state = 2
  /\ rx' = [rx EXCEPT !.state = 3, !.length = b * 256]
  /\ UNCHANGED pkt
  /\ GoesOn

\* Variations: the length is not checked against the buffer; an empty
\* payload is not let past the data state.
LenLow_unchecked(b) ==
  /\ rx.state = 3
  /\ pkt' = [pkt EXCEPT !.length = rx.length + b, !.data = <<>>]
  /\ rx' = [rx EXCEPT !.state = IF rx.length + b = 0 THEN 5 ELSE 4,
                      !.length = rx.length + b]
  /\ GoesOn

LenLow_no_empty(b) ==
  /\ rx.state = 3
  /\ rx.length + b <= MaxData
  /\ pkt' = [pkt EXCEPT !.length = rx.length + b, !.data = <<>>]
  /\ rx' = [rx EXCEPT !.state = 4, !.length = rx.length + b]
  /\ GoesOn

LenLow(b) ==
  /\ rx.state = 3
  /\ rx.length + b <= MaxData
  /\ pkt' = [pkt EXCEPT !.length = rx.length + b, !.data = <<>>]
  /\ rx' = [rx EXCEPT !.state = IF rx.length + b = 0 THEN 5 ELSE 4,
                      !.length = rx.length + b]
  /\ GoesOn

LenLowTooLong(b) ==
  /\ rx.state = 3
  /\ rx.length + b > MaxData
  /\ rx' = Idle
  /\ UNCHANGED pkt
  /\ FramingError

DataByte(b) ==
  /\ rx.state = 4
  /\ pkt' = [pkt EXCEPT !.data = Append(@, b)]
  /\ rx' = IF Len(pkt.data) + 1 = rx.length
           THEN [rx EXCEPT !.state = 5] ELSE rx
  /\ GoesOn

CrcHigh(b) ==
  /\ rx.state = 5
  /\ rx' = [rx EXCEPT !.state = 6, !.crc = b * 256]
  /\ UNCHANGED pkt
  /\ GoesOn

\* Variations: the sum is not compared; the parser is not reset after a
\* mismatch.
CrcLow_unchecked(b) ==
  /\ rx.state = 6
  /\ rx' = Idle
  /\ UNCHANGED pkt
  /\ ReturnsPacket

CrcLow_no_reset(b) ==
  /\ rx.state = 6
  /\ UNCHANGED pkt
  /\ IF rx.crc + b = crc16(Covered(pkt))
     THEN rx' = Idle /\ ReturnsPacket
     ELSE rx' = rx /\ CrcError

CrcLow(b) ==
  /\ rx.state = 6
  /\ rx' = Idle
  /\ UNCHANGED pkt
  /\ IF rx.crc + b = crc16(Covered(pkt)) THEN ReturnsPacket ELSE CrcError

SerialParse(b) ==
  /\ driver_type # CAN
  /\ \/ ScanSof(b)
     \/ CmdByte(b)
     \/ LenHigh(b)
     \/ LenLow(b)
     \/ LenLowTooLong(b)
     \/ DataByte(b)
     \/ CrcHigh(b)
     \/ CrcLow(b)
  /\ UNCHANGED can_rx

-----------------------------------------------------------------------------
(* The CAN parser. *)

CanScanSof(b) ==
  /\ can_rx.state = 0
  /\ can_rx' = IF b = SOF THEN [can_rx EXCEPT !.state = 1] ELSE can_rx
  /\ UNCHANGED pkt
  /\ GoesOn

CanCmdByte(b) ==
  /\ can_rx.state = 1
  /\ pkt' = [pkt EXCEPT !.command = b]
  /\ can_rx' = [can_rx EXCEPT !.state = 2]
  /\ GoesOn

CanLenTooLong(b) ==
  /\ can_rx.state = 2
  /\ b > CAN_MAX_PAYLOAD
  /\ can_rx' = CanIdle
  /\ UNCHANGED pkt
  /\ FramingError

CanLenByte(b) ==
  /\ can_rx.state = 2
  /\ b <= CAN_MAX_PAYLOAD
  /\ pkt' = [pkt EXCEPT !.length = b, !.data = <<>>]
  /\ IF b = 0
     THEN can_rx' = CanIdle /\ ReturnsPacket
     ELSE can_rx' = [state |-> 3, len |-> b] /\ GoesOn

CanDataByte(b) ==
  /\ can_rx.state = 3
  /\ pkt' = [pkt EXCEPT !.data = Append(@, b)]
  /\ IF Len(pkt.data) + 1 = can_rx.len
     THEN can_rx' = CanIdle /\ ReturnsPacket
     ELSE can_rx' = can_rx /\ GoesOn

CanParse(b) ==
  /\ driver_type = CAN
  /\ \/ CanScanSof(b)
     \/ CanCmdByte(b)
     \/ CanLenTooLong(b)
     \/ CanLenByte(b)
     \/ CanDataByte(b)
  /\ UNCHANGED rx

Parse(b) == SerialParse(b) \/ CanParse(b)

-----------------------------------------------------------------------------
(* Reading. *)

\* One byte is read into a buffer of one byte.  A stream keeps the rest; a
\* datagram is consumed by the recvfrom that takes its first byte.
Rest == IF driver_type = UDP THEN <<>> ELSE Tail(line)

ReadByte ==
  /\ mode = "receive"
  /\ line # <<>>
  /\ Parse(Head(line))
  /\ line' = Rest
  /\ UNCHANGED <<driver_type, ghostVars, faults>>

FlushByte ==
  /\ mode = "flush"
  /\ line # <<>>
  /\ line' = Rest
  /\ result' = "none"
  /\ clean' = FALSE
  /\ UNCHANGED <<driver_type, mode, parserVars, current, heard, faults>>

\* Variation: a read that delivers nothing does not end the loop.
FlushEnd_goes_on ==
  /\ mode = "flush"
  /\ line = <<>>
  /\ driver_type # TCP
  /\ result' = "none"
  /\ UNCHANGED <<driver_type, mode, parserVars, line, heard, ghostVars, faults>>

\* The driver reports that nothing has arrived for 100 ms (VTIME of the
\* serial port, SO_RCVTIMEO of the UDP socket).  The TCP driver's recv has no
\* timeout: it blocks until a byte arrives.
FlushEnd ==
  /\ mode = "flush"
  /\ line = <<>>
  /\ driver_type # TCP
  /\ mode' = "receive"
  /\ rx' = Idle
  /\ can_rx' = CanIdle
  /\ result' = "none"
  /\ UNCHANGED <<driver_type, pkt, line, heard, ghostVars, faults>>

ParserIdle == rx = Idle /\ can_rx = CanIdle

\* The environment: the target's next frame, and damage on a serial line.
TargetSends ==
  /\ line = <<>>
  /\ \E p \in Packets : current' = p /\ line' = Frame(p)
  /\ heard' = FALSE
  /\ clean' = (mode = "receive" /\ ParserIdle)
  /\ result' = "none"
  /\ UNCHANGED <<driver_type, mode, parserVars, faults>>

\* CAN controllers and TCP check what they deliver.
Damage ==
  /\ driver_type = SERIAL
  /\ mode = "receive"
  /\ faults < MaxFaults
  /\ faults' = faults + 1
  /\ clean' = FALSE
  /\ UNCHANGED <<driver_type, current>>

LoseByte ==
  /\ line # <<>>
  /\ line' = Tail(line)
  /\ result' = "none"
  /\ UNCHANGED <<mode, parserVars, heard>>
  /\ Damage

ChangeByte ==
  /\ line # <<>>
  /\ line' = Tail(line)
  /\ \E b \in NoiseBytes \ {Head(line)} : Parse(b)
  /\ Damage

AddByte ==
  /\ UNCHANGED line
  /\ \E b \in NoiseBytes : Parse(b)
  /\ Damage

Next ==
  \/ ReadByte
  \/ FlushByte
  \/ FlushEnd
  \/ TargetSends
  \/ LoseByte
  \/ ChangeByte
  \/ AddByte

\* The reader never rests while there are bytes; a target that hears nothing
\* repeats its answer; the silence it leaves before that is longer than the
\* 100 ms of a drained read, so a flush that is drained again and again ends.
Fairness ==
  /\ WF_vars(ReadByte)
  /\ WF_vars(FlushByte)
  /\ SF_vars(FlushEnd)
  /\ WF_vars(TargetSends)

Spec == Init /\ [][Next]_vars /\ Fairness

-----------------------------------------------------------------------------
(* Correctness. *)

\* The parser's counters stay within the packet buffer: whatever bytes
\* arrive, pkt.data is never written past MaxData (CAN_MAX_PAYLOAD
\* over CAN), nor past the length of the frame.
TypeOK ==
  /\ driver_type \in DriverTypes
  /\ mode \in {"receive", "flush"}
  /\ rx \in [state : 0 .. 6, length : Nat, crc : Nat]
  /\ can_rx \in [state : 0 .. 3, len : 0 .. CAN_MAX_PAYLOAD]
  /\ pkt \in Packet
  /\ result \in {"none", "packet", "crc", "frame"}
  /\ line \in Seq(Byte)
  /\ current \in Packets
  /\ heard \in BOOLEAN
  /\ clean \in BOOLEAN
  /\ faults \in 0 .. MaxFaults
  /\ rx.state = 4 => Len(pkt.data) < rx.length /\ rx.length = pkt.length
  /\ can_rx.state = 3 => Len(pkt.data) < can_rx.len /\ can_rx.len = pkt.length
  /\ Len(pkt.data) <= MaxData

\* No packet is made up: what transport_receive returns is the packet the
\* target has sent last, and is returned once, through lost, changed and
\* added bytes, false start bytes and frames put together from two.
HeardWasSent ==
  [][result' = "packet" /\ result # "packet" => pkt' = current /\ ~heard]_vars

\* A frame that is sent to an idle parser and not damaged is returned,
\* whatever was on the line before and whatever bytes it is made of.
CleanFrameHeard == clean /\ line = <<>> => heard

\* The parser finds back: as long as the target goes on sending, frames are
\* returned again after any damage.
Resynchronises == []<>(result = "packet")

\* transport_layer.h on transport_flush: it "reads and discards bytes [..]
\* until no more data is available" and returns 0, "Flush completed".
FlushReturns == mode = "flush" ~> mode = "receive"
=============================================================================
