--------------------------- MODULE FramingProofs ----------------------------
(***************************************************************************)
(* The byte parsers of comm/transport_layer.c for every packet, every CRC  *)
(* and any damage: the bounds of the packet buffer, that an idle parser    *)
(* returns the frame that comes next, and that on an undamaged line it     *)
(* returns nothing else.                                                   *)
(*                                                                         *)
(* What the last two need is a relation between two ends that share no     *)
(* counter: from the number of bytes left of a frame it follows in which   *)
(* state the parser is and what it has kept.                               *)
(***************************************************************************)
EXTENDS Framing, TLAPS

\* A parser that its transport does not use rests.
OtherParserIdle ==
  IF driver_type = CAN THEN rx = Idle ELSE can_rx = CanIdle

-----------------------------------------------------------------------------
(* Frames. *)

LEMMA Uint16Range ==
  \A n \in Uint16 :
    /\ n \in Nat /\ n \div 256 \in Byte /\ n % 256 \in Byte
    /\ (n \div 256) * 256 + (n % 256) = n
    /\ \A k \in 0 .. n : k \in Uint16
<1> SUFFICES ASSUME NEW n \in Uint16
             PROVE  /\ n \in Nat /\ n \div 256 \in Byte /\ n % 256 \in Byte
                    /\ (n \div 256) * 256 + (n % 256) = n
                    /\ \A k \in 0 .. n : k \in Uint16
  OBVIOUS
<1>1. n \in Nat /\ n \div 256 \in Byte /\ n % 256 \in Byte
  BY DEF Uint16, Byte
<1>2. (n \div 256) * 256 + (n % 256) = n
  BY DEF Uint16
<1>3. \A k \in 0 .. n : k \in Uint16
  BY DEF Uint16
<1> QED
  BY <1>1, <1>2, <1>3

LEMMA PacketTyped ==
  ASSUME NEW p \in Packets
  PROVE  /\ p.command \in Byte /\ p.length \in 0 .. MaxData /\ p.data \in Seq(Byte)
         /\ Len(p.data) = p.length
         /\ p.length \in Uint16 /\ p.length \in Nat
         /\ p.length \div 256 \in Byte /\ p.length % 256 \in Byte
         /\ (p.length \div 256) * 256 + (p.length % 256) = p.length
<1>1. p.command \in Byte /\ p.length \in 0 .. MaxData /\ p.data \in Seq(Byte)
  BY FramingAssumption DEF Packet
<1>2. Len(p.data) = p.length
  BY FramingAssumption
<1>3. p.length \in Uint16
  <2>1. MaxData \in Uint16
    BY FramingAssumption
  <2> QED BY <1>1, <2>1, Uint16Range
<1> QED
  BY <1>1, <1>2, <1>3, Uint16Range

LEMMA SerialFrame ==
  ASSUME NEW p \in Packets, driver_type # CAN
  PROVE  LET F   == Frame(p)
             n   == p.length
             crc == crc16(Covered(p))
         IN  /\ F \in Seq(Byte)
             /\ Len(F) = n + 6
             /\ F[1] = SOF /\ F[2] = p.command
             /\ F[3] = n \div 256 /\ F[4] = n % 256
             /\ \A i \in 1 .. n : F[4 + i] = p.data[i]
             /\ F[n + 5] = crc \div 256 /\ F[n + 6] = crc % 256
             /\ (crc \div 256) * 256 + (crc % 256) = crc
<1> DEFINE n   == p.length
           crc == crc16(Covered(p))
           hi  == n \div 256
           lo  == n % 256
           ch  == crc \div 256
           cl  == crc % 256
<1>1. /\ p.command \in Byte /\ p.data \in Seq(Byte) /\ Len(p.data) = n
      /\ n \in Nat /\ hi \in Byte /\ lo \in Byte
  BY PacketTyped
<1>2. crc \in Uint16
  BY FramingAssumption
<1>3. ch \in Byte /\ cl \in Byte /\ ch * 256 + cl = crc
  <2> HIDE DEF crc
  <2> QED BY <1>2, Uint16Range
<1>4. Frame(p) = <<SOF>> \o (<<p.command, hi, lo>> \o p.data) \o <<ch, cl>>
  BY DEF Frame, Covered
<1>5. SOF \in Byte
  BY DEF SOF, Byte
<1> DEFINE C == <<p.command, hi, lo>> \o p.data
<1>6. /\ C \in Seq(Byte) /\ Len(C) = n + 3
      /\ C[1] = p.command /\ C[2] = hi /\ C[3] = lo
      /\ \A i \in 1 .. n : C[3 + i] = p.data[i]
  <2> HIDE DEF n, hi, lo
  <2> QED BY <1>1
<1> HIDE DEF C, n, hi, lo, crc, ch, cl
<1> DEFINE D == <<SOF>> \o C
<1>7. /\ D \in Seq(Byte) /\ Len(D) = n + 4
      /\ D[1] = SOF
      /\ \A i \in 1 .. n + 3 : D[1 + i] = C[i]
  BY <1>6, <1>5, <1>1
<1> HIDE DEF D
<1>8. /\ D[2] = p.command /\ D[3] = hi /\ D[4] = lo
      /\ \A i \in 1 .. n : D[4 + i] = p.data[i]
  BY <1>6, <1>7, <1>1
<1>9. Frame(p) = D \o <<ch, cl>>
  BY <1>4 DEF D, C
<1>10. /\ Frame(p) \in Seq(Byte) /\ Len(Frame(p)) = n + 6
       /\ \A i \in 1 .. n + 4 : Frame(p)[i] = D[i]
       /\ Frame(p)[n + 5] = ch /\ Frame(p)[n + 6] = cl
  BY <1>9, <1>7, <1>3, <1>1
<1>11. /\ Frame(p)[1] = SOF /\ Frame(p)[2] = p.command
       /\ Frame(p)[3] = hi /\ Frame(p)[4] = lo
       /\ \A i \in 1 .. n : Frame(p)[4 + i] = p.data[i]
  BY <1>10, <1>8, <1>7, <1>1
<1> QED
  BY <1>10, <1>11, <1>3 DEF n, crc, hi, lo, ch, cl

LEMMA CanFrame ==
  ASSUME NEW p \in Packets, driver_type = CAN, CAN \in DriverTypes
  PROVE  LET F == Frame(p)
             n == p.length
         IN  /\ F \in Seq(Byte)
             /\ Len(F) = n + 3
             /\ F[1] = SOF /\ F[2] = p.command /\ F[3] = n
             /\ \A i \in 1 .. n : F[3 + i] = p.data[i]
             /\ n \in 0 .. CAN_MAX_PAYLOAD
<1>1. /\ p.command \in Byte /\ p.data \in Seq(Byte) /\ Len(p.data) = p.length
      /\ p.length \in Nat
  BY PacketTyped
<1>2. p.length \in 0 .. CAN_MAX_PAYLOAD
  BY <1>1, FramingAssumption DEF CAN_MAX_PAYLOAD
<1>3. p.length \in Byte /\ SOF \in Byte
  BY <1>2 DEF CAN_MAX_PAYLOAD, SOF, Byte
<1>4. Frame(p) = <<SOF, p.command, p.length>> \o p.data
  BY DEF Frame
<1> QED
  BY <1>1, <1>2, <1>3, <1>4

LEMMA FrameTyped ==
  ASSUME NEW p \in Packets, driver_type \in DriverTypes
  PROVE  Frame(p) \in Seq(Byte) /\ Frame(p) # <<>>
<1>1. CASE driver_type = CAN
  BY <1>1, CanFrame, PacketTyped
<1>2. CASE driver_type # CAN
  <2>1. p.length \in Nat
    BY PacketTyped
  <2>2. Frame(p) \in Seq(Byte) /\ Len(Frame(p)) = p.length + 6
    BY <1>2, SerialFrame
  <2> QED BY <2>1, <2>2
<1> QED
  BY <1>1, <1>2


-----------------------------------------------------------------------------
(* The bounds of the packet buffer. *)

\* What a byte may change.
ParserTyped ==
  /\ mode \in {"receive", "flush"}
  /\ rx \in [state : 0 .. 6, length : Nat, crc : Nat]
  /\ can_rx \in [state : 0 .. 3, len : 0 .. CAN_MAX_PAYLOAD]
  /\ pkt \in Packet
  /\ result \in {"none", "packet", "crc", "frame"}
  /\ heard \in BOOLEAN

InBuffer ==
  /\ rx.state = 4 => Len(pkt.data) < rx.length /\ rx.length = pkt.length
  /\ can_rx.state = 3 => Len(pkt.data) < can_rx.len /\ can_rx.len = pkt.length
  /\ Len(pkt.data) <= MaxData

LEMMA BufferSizes ==
  MaxData \in Nat /\ CAN_MAX_PAYLOAD \in Nat /\ CAN_MAX_PAYLOAD <= MaxData
<1>1. MaxData \in Nat
  BY FramingAssumption, Uint16Range
<1>2. CAN_MAX_PAYLOAD \in Nat
  BY DEF CAN_MAX_PAYLOAD
<1> QED
  BY <1>1, <1>2, FramingAssumption

\* The packet while its fields are filled in.
LEMMA PacketFields ==
  ASSUME NEW p \in Packet
  PROVE  /\ p.command \in Byte /\ p.length \in 0 .. MaxData /\ p.data \in Seq(Byte)
         /\ Len(p.data) \in Nat
         /\ p = [command |-> p.command, length |-> p.length, data |-> p.data]
  BY DEF Packet

LEMMA CommandFilled ==
  ASSUME NEW p \in Packet, NEW b \in Byte
  PROVE  LET q == [p EXCEPT !.command = b]
         IN  q \in Packet /\ q.command = b /\ q.length = p.length /\ q.data = p.data
  BY PacketFields DEF Packet

LEMMA LengthFilled ==
  ASSUME NEW p \in Packet, NEW n \in 0 .. MaxData
  PROVE  LET q == [p EXCEPT !.length = n, !.data = <<>>]
         IN  q \in Packet /\ q.command = p.command /\ q.length = n /\ q.data = <<>>
<1>1. <<>> \in Seq(Byte)
  OBVIOUS
<1> QED
  BY <1>1, PacketFields DEF Packet

LEMMA DataFilled ==
  ASSUME NEW p \in Packet, NEW b \in Byte
  PROVE  LET q == [p EXCEPT !.data = Append(@, b)]
         IN  /\ q \in Packet /\ q.command = p.command /\ q.length = p.length
             /\ q.data = Append(p.data, b)
             /\ Len(q.data) = Len(p.data) + 1
<1>1. p.data \in Seq(Byte)
  BY PacketFields
<1>2. Append(p.data, b) \in Seq(Byte) /\ Len(Append(p.data, b)) = Len(p.data) + 1
  BY <1>1
<1>3. [p EXCEPT !.data = Append(@, b)] = [p EXCEPT !.data = Append(p.data, b)]
  BY PacketFields
<1> HIDE DEF Packet
<1>4. ASSUME NEW d \in Seq(Byte)
      PROVE  LET q == [p EXCEPT !.data = d]
             IN  q \in Packet /\ q.command = p.command /\ q.length = p.length /\ q.data = d
  BY DEF Packet
<1> QED
  BY <1>2, <1>3, <1>4

RxState == [state : 0 .. 6, length : Nat, crc : Nat]

LEMMA RxFields ==
  ASSUME NEW r \in RxState
  PROVE  /\ r.state \in 0 .. 6 /\ r.length \in Nat /\ r.crc \in Nat
         /\ r = [state |-> r.state, length |-> r.length, crc |-> r.crc]
  BY DEF RxState

WithLength(r, k, n) == [r EXCEPT !.state = k, !.length = n]
WithCrc(r, k, n)    == [r EXCEPT !.state = k, !.crc = n]

LEMMA RxLengthFilled ==
  ASSUME NEW r \in RxState, NEW k \in 0 .. 6, NEW n \in Nat
  PROVE  LET q == WithLength(r, k, n)
         IN  q \in RxState /\ q.state = k /\ q.length = n /\ q.crc = r.crc
  BY RxFields DEF RxState, WithLength

LEMMA RxCrcFilled ==
  ASSUME NEW r \in RxState, NEW k \in 0 .. 6, NEW n \in Nat
  PROVE  LET q == WithCrc(r, k, n)
         IN  q \in RxState /\ q.state = k /\ q.length = r.length /\ q.crc = n
  BY RxFields DEF RxState, WithCrc

LEMMA LenLowFits ==
  ASSUME NEW m \in Nat, NEW b \in Byte, NEW max \in Nat, m + b <= max
  PROVE  m + b \in 0 .. max
  BY DEF Byte

LEMMA SerialTyped ==
  ASSUME ParserTyped, InBuffer, can_rx = CanIdle, NEW b \in Byte, SerialParse(b)
  PROVE  ParserTyped' /\ InBuffer' /\ can_rx' = CanIdle
<1>0. rx \in RxState /\ rx.state \in 0 .. 6 /\ rx.length \in Nat /\ rx.crc \in Nat
  BY DEF ParserTyped, RxState
<1>1. pkt \in Packet /\ pkt.data \in Seq(Byte) /\ Len(pkt.data) \in Nat
  BY DEF ParserTyped, Packet
<1>2. /\ rx' \in RxState /\ pkt' \in Packet
      /\ rx'.state = 4 => Len(pkt'.data) < rx'.length /\ rx'.length = pkt'.length
      /\ Len(pkt'.data) <= MaxData
  <2>1. CASE ScanSof(b) \/ LenHigh(b) \/ LenLowTooLong(b) \/ CrcHigh(b) \/ CrcLow(b)
    <3>1. rx' \in RxState /\ rx'.state # 4
      <4>0. b * 256 \in Nat
        BY DEF Byte
      <4>1. CASE ScanSof(b)
        BY <4>1, <1>0 DEF RxState, ScanSof
      <4>2. CASE LenHigh(b)
        <5>1. rx' = WithLength(rx, 3, b * 256)
          BY <4>2 DEF LenHigh, WithLength
        <5>2. \A n \in Nat : WithLength(rx, 3, n) \in RxState
          BY <1>0, RxLengthFilled
        <5>3. \A n \in Nat : WithLength(rx, 3, n).state = 3
          BY <1>0, RxLengthFilled
        <5> QED BY <5>1, <4>0, <5>2, <5>3
      <4>3. CASE CrcHigh(b)
        <5>1. rx' = WithCrc(rx, 6, b * 256)
          BY <4>3 DEF CrcHigh, WithCrc
        <5>2. \A n \in Nat : WithCrc(rx, 6, n) \in RxState
          BY <1>0, RxCrcFilled
        <5>3. \A n \in Nat : WithCrc(rx, 6, n).state = 6
          BY <1>0, RxCrcFilled
        <5> QED BY <5>1, <4>0, <5>2, <5>3
      <4>4. CASE LenLowTooLong(b) \/ CrcLow(b)
        BY <4>4 DEF RxState, LenLowTooLong, CrcLow, Idle
      <4> QED BY <2>1, <4>1, <4>2, <4>3, <4>4
    <3>2. pkt' = pkt
      BY <2>1 DEF ScanSof, LenHigh, LenLowTooLong, CrcHigh, CrcLow
    <3> QED BY <3>1, <3>2, <1>1 DEF InBuffer
  <2>2. CASE CmdByte(b)
    <3>1. rx' \in RxState /\ rx'.state = 2
      BY <2>2, <1>0 DEF RxState, CmdByte
    <3>2. pkt' \in Packet /\ pkt'.data = pkt.data
      BY <2>2, <1>1, CommandFilled DEF CmdByte
    <3> QED BY <3>1, <3>2 DEF InBuffer
  <2>3. CASE LenLow(b)
    <3> DEFINE n == rx.length + b
    <3>1. n \in 0 .. MaxData
      BY <2>3, <1>0, BufferSizes, LenLowFits DEF LenLow
    <3>2. pkt' \in Packet /\ pkt'.length = n /\ pkt'.data = <<>>
      BY <2>3, <3>1, <1>1, LengthFilled DEF LenLow
    <3>3. rx' \in RxState /\ (rx'.state = 4 => n # 0) /\ rx'.length = n
      <4>1. n \in Nat
        BY <3>1, BufferSizes
      <4> DEFINE k == IF n = 0 THEN 5 ELSE 4
      <4>2. rx' = WithLength(rx, k, n)
        BY <2>3 DEF LenLow, WithLength
      <4>3. k \in 0 .. 6 /\ (k = 4 => n # 0)
        OBVIOUS
      <4> HIDE DEF n, k
      <4>4. /\ WithLength(rx, k, n) \in RxState
            /\ WithLength(rx, k, n).state = k
            /\ WithLength(rx, k, n).length = n
        BY <4>1, <4>3, <1>0, RxLengthFilled, ZenonT(30)
      <4> QED BY <4>2, <4>3, <4>4
    <3> HIDE DEF n
    <3> QED BY <3>1, <3>2, <3>3, BufferSizes
  <2>4. CASE DataByte(b)
    <3>1. /\ pkt' \in Packet /\ pkt'.length = pkt.length
          /\ Len(pkt'.data) = Len(pkt.data) + 1
          /\ pkt.length \in 0 .. MaxData
      BY <2>4, <1>1, DataFilled, PacketFields DEF DataByte
    <3>2. /\ rx' \in RxState
          /\ rx'.state = 4 => Len(pkt.data) + 1 # rx.length /\ rx' = rx
      BY <2>4, <1>0 DEF RxState, DataByte
    <3>3. Len(pkt.data) < rx.length /\ rx.length = pkt.length
      BY <2>4 DEF DataByte, InBuffer
    <3> DEFINE m == Len(pkt.data)
    <3>4. m \in Nat /\ rx.length \in Nat /\ m + 1 <= rx.length /\ rx.length <= MaxData
      BY <3>1, <3>3, <1>1, <1>0, BufferSizes
    <3> HIDE DEF m
    <3>5. /\ Len(pkt'.data) = m + 1
          /\ rx'.state = 4 => m + 1 # rx.length /\ rx' = rx
      BY <3>1, <3>2 DEF m
    <3>6. Len(pkt'.data) <= MaxData
      BY <3>4, <3>5, BufferSizes
    <3>7. rx'.state = 4 => Len(pkt'.data) < rx'.length
      BY <3>4, <3>5
    <3> QED BY <3>1, <3>2, <3>3, <3>6, <3>7
  <2> QED BY <2>1, <2>2, <2>3, <2>4 DEF SerialParse
<1>3. /\ mode' \in {"receive", "flush"} /\ heard' \in BOOLEAN
      /\ result' \in {"none", "packet", "crc", "frame"}
      /\ can_rx' = can_rx
  BY Zenon DEF SerialParse, ScanSof, CmdByte, LenHigh, LenLow, LenLowTooLong, DataByte,
               CrcHigh, CrcLow, GoesOn, ReturnsPacket, CrcError, FramingError, ParserTyped
<1> QED
  BY <1>2, <1>3 DEF ParserTyped, InBuffer, RxState, CanIdle

LEMMA CanTyped ==
  ASSUME ParserTyped, InBuffer, rx = Idle, NEW b \in Byte, CanParse(b)
  PROVE  ParserTyped' /\ InBuffer' /\ rx' = Idle
<1> DEFINE R == [state : 0 .. 3, len : 0 .. CAN_MAX_PAYLOAD]
<1>0. /\ can_rx \in R /\ can_rx.len \in 0 .. CAN_MAX_PAYLOAD
      /\ \A k \in 0 .. 3 : /\ [can_rx EXCEPT !.state = k] \in R
                           /\ [can_rx EXCEPT !.state = k].state = k
      /\ CanIdle \in R /\ CanIdle.state = 0
      /\ \A n \in 0 .. CAN_MAX_PAYLOAD : [state |-> 3, len |-> n] \in R
  BY BufferSizes DEF ParserTyped, CanIdle
<1> HIDE DEF R
<1>1. pkt \in Packet /\ pkt.data \in Seq(Byte) /\ Len(pkt.data) \in Nat
  BY DEF ParserTyped, Packet
<1>2. /\ can_rx' \in R /\ pkt' \in Packet
      /\ can_rx'.state = 3 => Len(pkt'.data) < can_rx'.len /\ can_rx'.len = pkt'.length
      /\ Len(pkt'.data) <= MaxData
  <2>1. CASE CanScanSof(b) \/ CanLenTooLong(b)
    <3>1. can_rx' \in R /\ can_rx'.state # 3
      BY <2>1, <1>0 DEF R, CanScanSof, CanLenTooLong, CanIdle
    <3>2. pkt' = pkt
      BY <2>1 DEF CanScanSof, CanLenTooLong
    <3> QED BY <3>1, <3>2, <1>1 DEF InBuffer
  <2>2. CASE CanCmdByte(b)
    <3>1. can_rx' \in R /\ can_rx'.state = 2
      BY <2>2, <1>0 DEF CanCmdByte
    <3>2. pkt' \in Packet /\ pkt'.data = pkt.data
      BY <2>2, <1>1, CommandFilled DEF CanCmdByte
    <3> QED BY <3>1, <3>2 DEF InBuffer
  <2>3. CASE CanLenByte(b)
    <3>1. b \in 0 .. CAN_MAX_PAYLOAD /\ b \in 0 .. MaxData
      BY <2>3, BufferSizes DEF CanLenByte, Byte
    <3>2. pkt' \in Packet /\ pkt'.length = b /\ pkt'.data = <<>>
      BY <2>3, <3>1, <1>1, LengthFilled DEF CanLenByte
    <3>3. can_rx' \in R /\ (can_rx'.state = 3 => b # 0 /\ can_rx'.len = b)
      BY <2>3, <3>1, <1>0 DEF CanLenByte
    <3> QED BY <3>1, <3>2, <3>3, BufferSizes
  <2>4. CASE CanDataByte(b)
    <3>1. /\ pkt' \in Packet /\ pkt'.length = pkt.length
          /\ Len(pkt'.data) = Len(pkt.data) + 1
          /\ pkt.length \in 0 .. MaxData
      BY <2>4, <1>1, DataFilled, PacketFields DEF CanDataByte
    <3>2. /\ can_rx' \in R
          /\ can_rx'.state = 3 => Len(pkt.data) + 1 # can_rx.len /\ can_rx' = can_rx
      BY <2>4, <1>0 DEF CanDataByte
    <3>3. Len(pkt.data) < can_rx.len /\ can_rx.len = pkt.length
      BY <2>4 DEF CanDataByte, InBuffer
    <3> QED BY <3>1, <3>2, <3>3, <1>1, <1>0, BufferSizes
  <2> QED BY <2>1, <2>2, <2>3, <2>4 DEF CanParse
<1>3. /\ mode' \in {"receive", "flush"} /\ heard' \in BOOLEAN
      /\ result' \in {"none", "packet", "crc", "frame"}
      /\ rx' = rx
  BY Zenon DEF CanParse, CanScanSof, CanCmdByte, CanLenByte, CanLenTooLong, CanDataByte,
               GoesOn, ReturnsPacket, FramingError, ParserTyped
<1> QED
  BY <1>2, <1>3 DEF ParserTyped, InBuffer, R, Idle

LEMMA OneByteTyped ==
  ASSUME ParserTyped, InBuffer, OtherParserIdle, NEW b \in Byte, Parse(b),
         UNCHANGED driver_type
  PROVE  ParserTyped' /\ InBuffer' /\ OtherParserIdle'
<1>1. CASE SerialParse(b)
  <2>1. driver_type # CAN
    BY <1>1 DEF SerialParse
  <2> QED BY <1>1, <2>1, SerialTyped DEF OtherParserIdle
<1>2. CASE CanParse(b)
  <2>1. driver_type = CAN
    BY <1>2 DEF CanParse
  <2> QED BY <1>2, <2>1, CanTyped DEF OtherParserIdle
<1> QED
  BY <1>1, <1>2 DEF Parse

\* The bytes on the line and what the model adds to them.
LineTyped ==
  /\ driver_type \in DriverTypes
  /\ line \in Seq(Byte)
  /\ current \in Packets
  /\ clean \in BOOLEAN
  /\ faults \in 0 .. MaxFaults

LEMMA Parts == TypeOK <=> ParserTyped /\ InBuffer /\ LineTyped
  BY DEF TypeOK, ParserTyped, InBuffer, LineTyped

ParserInv == ParserTyped /\ InBuffer /\ OtherParserIdle /\ LineTyped

LEMMA LineOfBytes ==
  ASSUME NEW s \in Seq(Byte)
  PROVE  s # <<>> => Head(s) \in Byte /\ Tail(s) \in Seq(Byte)
  OBVIOUS

LEMMA ParserInit == Init => ParserInv
<1> SUFFICES ASSUME Init PROVE ParserInv
  OBVIOUS
<1>1. ParserTyped /\ InBuffer /\ OtherParserIdle
  BY BufferSizes DEF Init, ParserTyped, InBuffer, OtherParserIdle, Idle, CanIdle, Packet, Byte
<1>2. LineTyped
  <2>1. <<>> \in Seq(Byte) /\ 0 \in 0 .. MaxFaults
    BY FramingAssumption
  <2> QED BY <2>1 DEF Init, LineTyped
<1> QED
  BY <1>1, <1>2 DEF ParserInv

LEMMA ParserStep == ParserInv /\ [Next]_vars => ParserInv'
<1> SUFFICES ASSUME ParserInv, [Next]_vars PROVE ParserInv'
  OBVIOUS
<1>0. ParserTyped /\ InBuffer /\ LineTyped /\ OtherParserIdle
  BY DEF ParserInv
<1>1. CASE ReadByte
  <2>1. Head(line) \in Byte /\ Tail(line) \in Seq(Byte)
    BY <1>0, <1>1, LineOfBytes DEF ReadByte, LineTyped
  <2>2. ParserTyped' /\ InBuffer' /\ OtherParserIdle'
    BY <1>0, <1>1, <2>1, OneByteTyped DEF ReadByte
  <2>3. LineTyped'
    BY <1>0, <1>1, <2>1 DEF ReadByte, Rest, LineTyped, ghostVars
  <2> QED BY <2>2, <2>3, <1>0 DEF ParserInv
<1>2. CASE FlushByte
  <2>1. Tail(line) \in Seq(Byte)
    BY <1>0, <1>2, LineOfBytes DEF FlushByte, LineTyped
  <2>2. ParserTyped' /\ InBuffer' /\ OtherParserIdle'
    BY <1>0, <1>2 DEF FlushByte, parserVars, ParserTyped, InBuffer, OtherParserIdle
  <2>3. Rest \in Seq(Byte)
    BY <2>1 DEF Rest
  <2>4. LineTyped'
    BY <1>0, <1>2, <2>3 DEF FlushByte, LineTyped, ghostVars
  <2> QED BY <2>2, <2>4, <1>0 DEF ParserInv
<1>3. CASE FlushEnd
  <2>1. ParserTyped' /\ InBuffer' /\ OtherParserIdle'
    BY <1>0, <1>3, BufferSizes
    DEF FlushEnd, ParserTyped, InBuffer, OtherParserIdle, Idle, CanIdle
  <2>2. LineTyped'
    BY <1>0, <1>3 DEF FlushEnd, LineTyped, ghostVars
  <2> QED BY <2>1, <2>2, <1>0 DEF ParserInv
<1>4. CASE TargetSends
  <2>1. ParserTyped' /\ InBuffer' /\ OtherParserIdle'
    BY <1>0, <1>4 DEF TargetSends, parserVars, ParserTyped, InBuffer, OtherParserIdle
  <2>2. LineTyped'
    BY <1>0, <1>4, FrameTyped DEF TargetSends, LineTyped
  <2> QED BY <2>1, <2>2, <1>0 DEF ParserInv
<1>5. ASSUME Damage PROVE /\ UNCHANGED <<driver_type, current>>
                          /\ clean' \in BOOLEAN /\ faults' \in 0 .. MaxFaults
  <2>1. faults \in 0 .. MaxFaults /\ MaxFaults \in Nat /\ faults < MaxFaults
    BY <1>0, <1>5, FramingAssumption DEF Damage, LineTyped
  <2>2. faults + 1 \in 0 .. MaxFaults
    BY <2>1
  <2> QED BY <1>5, <2>2 DEF Damage
<1>6. CASE LoseByte
  <2>1. Tail(line) \in Seq(Byte)
    BY <1>0, <1>6, LineOfBytes DEF LoseByte, LineTyped
  <2>2. ParserTyped' /\ InBuffer' /\ OtherParserIdle'
    BY <1>0, <1>6, <1>5 DEF LoseByte, parserVars, ParserTyped, InBuffer, OtherParserIdle
  <2>3. LineTyped'
    BY <1>0, <1>5, <1>6, <2>1 DEF LoseByte, LineTyped
  <2> QED BY <2>2, <2>3, <1>0 DEF ParserInv
<1>7. CASE ChangeByte
  <2>1. PICK b \in NoiseBytes : Parse(b)
    BY <1>7 DEF ChangeByte
  <2>2. b \in Byte /\ Tail(line) \in Seq(Byte)
    BY <1>0, <1>7, LineOfBytes, FramingAssumption DEF ChangeByte, LineTyped
  <2>3. ParserTyped' /\ InBuffer' /\ OtherParserIdle'
    BY <1>0, <1>5, <1>7, <2>1, <2>2, OneByteTyped DEF ChangeByte
  <2>4. LineTyped'
    BY <1>0, <1>5, <1>7, <2>2 DEF ChangeByte, LineTyped
  <2> QED BY <2>3, <2>4, <1>0 DEF ParserInv
<1>8. CASE AddByte
  <2>1. PICK b \in NoiseBytes : Parse(b)
    BY <1>8 DEF AddByte
  <2>2. b \in Byte
    BY FramingAssumption
  <2>3. ParserTyped' /\ InBuffer' /\ OtherParserIdle'
    BY <1>0, <1>5, <1>8, <2>1, <2>2, OneByteTyped DEF AddByte
  <2>4. LineTyped'
    BY <1>0, <1>5, <1>8 DEF AddByte, LineTyped
  <2> QED BY <2>3, <2>4, <1>0 DEF ParserInv
<1>9. CASE UNCHANGED vars
  BY <1>9 DEF vars, parserVars, ghostVars, ParserInv, ParserTyped, InBuffer,
               LineTyped, OtherParserIdle
<1> QED
  BY <1>1, <1>2, <1>3, <1>4, <1>6, <1>7, <1>8, <1>9 DEF Next

LEMMA ParserInvariant == Spec => []ParserInv
<1> QED
  BY ParserInit, ParserStep, PTL DEF Spec

\* Whatever bytes arrive, in frames or not, the parsers write inside the
\* packet buffer: for every set of packets, every noise, every buffer size
\* and any number of faults.
THEOREM BufferNeverOverrun == Spec => []TypeOK
<1>1. ParserInv => TypeOK
  BY Parts DEF ParserInv
<1> QED
  BY <1>1, ParserInvariant, PTL

-----------------------------------------------------------------------------
(* Where the parser is in a frame. *)

\* k bytes of the frame of p have been parsed: what the serial parser r and
\* the packet q hold then.
SerialAt(k, r, q, p) ==
  LET n == p.length
  IN  /\ k = 0 => r = Idle
      /\ k \in 1 .. 3 => r.state = k
      /\ k >= 2 => q.command = p.command
      /\ k = 3 => r.length = (n \div 256) * 256
      /\ k \in 4 .. n + 3 =>
           /\ r.state = 4 /\ r.length = n
           /\ q.length = n /\ Len(q.data) = k - 4
           /\ \A i \in 1 .. k - 4 : q.data[i] = p.data[i]
      /\ k \in n + 4 .. n + 5 => r.state = k - n + 1 /\ q = p
      /\ k = n + 5 => r.crc = (crc16(Covered(p)) \div 256) * 256

\* The same for the CAN parser.
CanAt(k, r, q, p) ==
  LET n == p.length
  IN  /\ k = 0 => r = CanIdle
      /\ k \in 1 .. 2 => r.state = k
      /\ k >= 2 => q.command = p.command
      /\ k >= 3 =>
           /\ r.state = 3 /\ r.len = n
           /\ q.length = n /\ Len(q.data) = k - 3
           /\ \A i \in 1 .. k - 3 : q.data[i] = p.data[i]

LEMMA PacketsEqual ==
  ASSUME NEW p \in Packet, NEW q \in Packet,
         q.command = p.command, q.length = p.length, Len(q.data) = Len(p.data),
         \A i \in 1 .. Len(p.data) : q.data[i] = p.data[i]
  PROVE  q = p
<1>1. p.data \in Seq(Byte) /\ q.data \in Seq(Byte)
  BY PacketFields
<1>2. q.data = p.data
  BY <1>1
<1> QED
  BY <1>2, PacketFields

\* A byte more at the end of the data.
LEMMA DataGrows ==
  ASSUME NEW d \in Seq(Byte), NEW e \in Seq(Byte), NEW m \in Nat, NEW b \in Byte,
         Len(d) = m, m < Len(e), b = e[m + 1], \A i \in 1 .. m : d[i] = e[i]
  PROVE  /\ Append(d, b) \in Seq(Byte)
         /\ Len(Append(d, b)) = m + 1
         /\ \A i \in 1 .. m + 1 : Append(d, b)[i] = e[i]
  OBVIOUS

Nothing == result' = "none" /\ UNCHANGED <<mode, heard>>

LEMMA SerialHeader ==
  ASSUME ParserInv, driver_type # CAN, NEW k \in 0 .. 3,
         SerialAt(k, rx, pkt, current), NEW b \in Byte, b = Frame(current)[k + 1],
         SerialParse(b)
  PROVE  Nothing /\ SerialAt(k + 1, rx', pkt', current)
<1> DEFINE n == current.length
<1>0. /\ current \in Packets /\ pkt \in Packet /\ rx \in RxState
  BY DEF ParserInv, ParserTyped, LineTyped, RxState
<1>1. /\ n \in Nat /\ n <= MaxData /\ (n \div 256) * 256 + (n % 256) = n
      /\ current \in Packet /\ Len(current.data) = n /\ current.data \in Seq(Byte)
  BY <1>0, PacketTyped, FramingAssumption, BufferSizes
<1>2. /\ Frame(current)[1] = SOF /\ Frame(current)[2] = current.command
      /\ Frame(current)[3] = n \div 256 /\ Frame(current)[4] = n % 256
  BY <1>0, SerialFrame
<1>3. k \in Nat /\ rx.state = k
  BY DEF SerialAt, Idle
<1> HIDE DEF n
<1>4. CASE k = 0
  <2>1. ScanSof(b)
    BY <1>3, <1>4 DEF SerialParse, ScanSof, CmdByte, LenHigh, LenLow, LenLowTooLong,
                      DataByte, CrcHigh, CrcLow
  <2>2. rx' = [rx EXCEPT !.state = 1] /\ Nothing
    BY <2>1, <1>2, <1>4 DEF ScanSof, GoesOn, Nothing
  <2>3. rx'.state = 1
    BY <2>2, <1>0 DEF RxState
  <2> QED BY <2>2, <2>3, <1>4, <1>1 DEF SerialAt, n
<1>5. CASE k = 1
  <2>1. CmdByte(b)
    BY <1>3, <1>5 DEF SerialParse, ScanSof, CmdByte, LenHigh, LenLow, LenLowTooLong,
                      DataByte, CrcHigh, CrcLow
  <2>2. rx' = [rx EXCEPT !.state = 2] /\ pkt' = [pkt EXCEPT !.command = b] /\ Nothing
    BY <2>1 DEF CmdByte, GoesOn, Nothing
  <2>3. rx'.state = 2 /\ pkt'.command = current.command
    BY <2>2, <1>0, <1>2, <1>5 DEF RxState, Packet
  <2> QED BY <2>2, <2>3, <1>5, <1>1 DEF SerialAt, n
<1>6. CASE k = 2
  <2>1. LenHigh(b)
    BY <1>3, <1>6 DEF SerialParse, ScanSof, CmdByte, LenHigh, LenLow, LenLowTooLong,
                      DataByte, CrcHigh, CrcLow
  <2>2. rx' = WithLength(rx, 3, b * 256) /\ pkt' = pkt /\ Nothing
    BY <2>1 DEF LenHigh, GoesOn, Nothing, WithLength
  <2>3. rx'.state = 3 /\ rx'.length = b * 256
    BY <2>2, <1>0 DEF RxState, WithLength
  <2>4. pkt.command = current.command /\ b = n \div 256
    BY <1>6, <1>2 DEF SerialAt
  <2> QED BY <2>2, <2>3, <2>4, <1>6, <1>1 DEF SerialAt, n
<1>7. CASE k = 3
  <2>1. rx.length = (n \div 256) * 256 /\ b = n % 256 /\ pkt.command = current.command
    BY <1>7, <1>2 DEF SerialAt, n
  <2>2. rx.length + b = n
    BY <2>1, <1>1
  <2>3. LenLow(b)
    BY <1>3, <1>7, <2>2, <1>1, BufferSizes
    DEF SerialParse, ScanSof, CmdByte, LenHigh, LenLow, LenLowTooLong,
        DataByte, CrcHigh, CrcLow
  <2> DEFINE s == IF n = 0 THEN 5 ELSE 4
  <2>4. /\ rx' = WithLength(rx, s, n) /\ Nothing
        /\ pkt' = [pkt EXCEPT !.length = n, !.data = <<>>]
    BY <2>3, <2>2 DEF LenLow, GoesOn, Nothing, WithLength
  <2>5. s \in 0 .. 6
    OBVIOUS
  <2> HIDE DEF s
  <2>6. rx'.state = s /\ rx'.length = n
    <3>1. WithLength(rx, s, n).state = s
      BY <2>5, <1>0, <1>1, RxLengthFilled
    <3>2. WithLength(rx, s, n).length = n
      BY <1>0 DEF WithLength, RxState
    <3> QED BY <2>4, <3>1, <3>2
  <2>7. /\ pkt' \in Packet /\ pkt'.command = current.command
        /\ pkt'.length = n /\ pkt'.data = <<>>
    <3>1. n \in 0 .. MaxData
      BY <1>1, BufferSizes
    <3> QED BY <2>4, <2>1, <3>1, <1>0, LengthFilled, ZenonT(30)
  <2>8. CASE n = 0
    <3>1. pkt' = current
      BY <2>7, <2>8, <1>1, PacketsEqual DEF n
    <3> QED BY <3>1, <2>4, <2>6, <2>7, <2>8, <1>7 DEF SerialAt, n, s
  <2>9. CASE n # 0
    <3>1. 4 \in 4 .. n + 3 /\ 4 \notin n + 4 .. n + 5
      BY <2>9, <1>1
    <3>2. rx'.state = 4 /\ Len(pkt'.data) = 0
      BY <2>6, <2>7, <2>9 DEF s
    <3>3. SerialAt(4, rx', pkt', current)
      BY <3>1, <3>2, <2>6, <2>7, <1>1 DEF SerialAt, n
    <3> QED BY <3>3, <2>4, <1>7
  <2> QED BY <2>8, <2>9
<1> QED
  BY <1>4, <1>5, <1>6, <1>7

LEMMA SerialBody ==
  ASSUME ParserInv, driver_type # CAN, NEW k \in 4 .. current.length + 4,
         SerialAt(k, rx, pkt, current), NEW b \in Byte, b = Frame(current)[k + 1],
         SerialParse(b)
  PROVE  Nothing /\ SerialAt(k + 1, rx', pkt', current)
<1> DEFINE n == current.length
<1>0. /\ current \in Packets /\ pkt \in Packet /\ rx \in RxState
  BY DEF ParserInv, ParserTyped, LineTyped, RxState
<1>1. /\ n \in Nat /\ current \in Packet
      /\ Len(current.data) = n /\ current.data \in Seq(Byte)
  BY <1>0, PacketTyped, FramingAssumption
<1>2. /\ \A i \in 1 .. n : Frame(current)[4 + i] = current.data[i]
      /\ Frame(current)[n + 5] = crc16(Covered(current)) \div 256
  BY <1>0, SerialFrame, ZenonT(30)
<1>3. k \in 4 .. n + 4
  OBVIOUS
<1> HIDE DEF n
<1>4. CASE k = n + 4
  <2>1. rx.state = 5 /\ pkt = current
    <3>1. k \in n + 4 .. n + 5 /\ k - n + 1 = 5
      BY <1>4, <1>1
    <3> QED BY <3>1 DEF SerialAt, n
  <2>2. CrcHigh(b)
    BY <2>1 DEF SerialParse, ScanSof, CmdByte, LenHigh, LenLow, LenLowTooLong,
                DataByte, CrcHigh, CrcLow
  <2>3. rx' = WithCrc(rx, 6, b * 256) /\ pkt' = current /\ Nothing
    BY <2>1, <2>2 DEF CrcHigh, GoesOn, Nothing, WithCrc
  <2>4. rx'.state = 6 /\ rx'.crc = b * 256
    BY <2>3, <1>0 DEF RxState, WithCrc
  <2>5. b = crc16(Covered(current)) \div 256
    BY <1>2, <1>4, <1>1
  <2>6. SerialAt(n + 5, rx', pkt', current)
    <3>1. /\ n + 5 \notin 1 .. 3 /\ n + 5 # 0 /\ n + 5 # 3
          /\ n + 5 \notin 4 .. n + 3 /\ (n + 5) - n + 1 = 6
      BY <1>1
    <3> QED BY <3>1, <2>3, <2>4, <2>5 DEF SerialAt, n
  <2>7. k + 1 = n + 5
    BY <1>4, <1>1
  <2> QED BY <2>3, <2>6, <2>7
<1>5. CASE k \in 4 .. n + 3
  <2> DEFINE m == k - 4
             d == pkt.data
  <2>1. m \in Nat /\ m < n /\ k = m + 4 /\ k \in Nat
    BY <1>5, <1>1
  <2>2. /\ rx.state = 4 /\ rx.length = n /\ pkt.length = n
        /\ pkt.command = current.command
        /\ Len(d) = m /\ \A i \in 1 .. m : d[i] = current.data[i]
    BY <1>5, <2>1 DEF SerialAt, n
  <2>3. DataByte(b)
    BY <2>2 DEF SerialParse, ScanSof, CmdByte, LenHigh, LenLow, LenLowTooLong,
                DataByte, CrcHigh, CrcLow
  <2>4. b = current.data[m + 1]
    <3>1. m + 1 \in 1 .. n /\ k + 1 = 4 + (m + 1)
      BY <2>1, <1>1
    <3> QED BY <3>1, <1>2
  <2>5. d \in Seq(Byte)
    BY <1>0, PacketFields
  <2>6. /\ pkt' \in Packet /\ pkt'.command = current.command /\ pkt'.length = n
        /\ pkt'.data = Append(d, b)
    BY <2>3, <2>2, <1>0, DataFilled DEF DataByte
  <2>7. rx' = (IF m + 1 = n THEN [rx EXCEPT !.state = 5] ELSE rx) /\ Nothing
    BY <2>3, <2>2 DEF DataByte, GoesOn, Nothing
  <2> HIDE DEF m, d
  <2>8. /\ Len(pkt'.data) = m + 1
        /\ \A i \in 1 .. m + 1 : pkt'.data[i] = current.data[i]
    BY <2>1, <2>2, <2>4, <2>5, <2>6, <1>1, DataGrows
  <2>9. CASE m + 1 = n
    <3>1. pkt' = current
      BY <2>6, <2>8, <2>9, <1>1, PacketsEqual DEF n
    <3>2. rx'.state = 5
      BY <2>7, <2>9, <1>0 DEF RxState
    <3>3. SerialAt(n + 4, rx', pkt', current)
      <4>1. /\ n + 4 \notin 1 .. 3 /\ n + 4 # 0 /\ n + 4 # 3 /\ n + 4 # n + 5
            /\ n + 4 \notin 4 .. n + 3 /\ (n + 4) - n + 1 = 5
        BY <1>1
      <4> QED BY <4>1, <3>1, <3>2 DEF SerialAt, n
    <3>4. k + 1 = n + 4
      BY <2>1, <2>9, <1>1
    <3> QED BY <3>3, <3>4, <2>7
  <2>10. CASE m + 1 # n
    <3>1. /\ k + 1 \notin 1 .. 3 /\ k + 1 # 0 /\ k + 1 # 3 /\ k + 1 # n + 5
          /\ k + 1 \notin n + 4 .. n + 5 /\ (k + 1) - 4 = m + 1
      BY <2>1, <2>10, <1>1
    <3>2. rx' = rx
      BY <2>7, <2>10
    <3> QED BY <3>1, <3>2, <2>2, <2>6, <2>7, <2>8 DEF SerialAt, n
  <2> QED BY <2>9, <2>10
<1>6. k = n + 4 \/ k \in 4 .. n + 3
  BY <1>3, <1>1
<1> QED
  BY <1>4, <1>5, <1>6

LEMMA SerialEnd ==
  ASSUME ParserInv, driver_type # CAN,
         SerialAt(current.length + 5, rx, pkt, current),
         NEW b \in Byte, b = Frame(current)[current.length + 6], SerialParse(b)
  PROVE  /\ result' = "packet" /\ heard' = TRUE /\ UNCHANGED mode
         /\ pkt' = current /\ ParserIdle'
<1> DEFINE n == current.length
           crc == crc16(Covered(current))
<1>0. current \in Packets /\ n \in Nat /\ can_rx = CanIdle
  BY PacketTyped DEF ParserInv, LineTyped, OtherParserIdle
<1>1. b = crc % 256 /\ (crc \div 256) * 256 + (crc % 256) = crc
  BY <1>0, SerialFrame
<1>2. rx.state = 6 /\ pkt = current /\ rx.crc = (crc \div 256) * 256
  <2>1. n + 5 \in n + 4 .. n + 5 /\ (n + 5) - n + 1 = 6
    BY <1>0
  <2> QED BY <2>1 DEF SerialAt
<1>3. CrcLow(b) /\ can_rx' = can_rx
  BY <1>2 DEF SerialParse, ScanSof, CmdByte, LenHigh, LenLow, LenLowTooLong,
              DataByte, CrcHigh, CrcLow
<1>4. rx.crc + b = crc16(Covered(pkt))
  BY <1>1, <1>2
<1> QED
  BY <1>0, <1>2, <1>3, <1>4 DEF CrcLow, ReturnsPacket, ParserIdle

\* The CAN frame has neither a checksum nor a second byte of length.
LEMMA CanByte ==
  ASSUME ParserInv, driver_type = CAN, NEW k \in 0 .. current.length + 2,
         CanAt(k, can_rx, pkt, current), NEW b \in Byte, b = Frame(current)[k + 1],
         CanParse(b)
  PROVE  IF k = current.length + 2
         THEN /\ result' = "packet" /\ heard' = TRUE /\ UNCHANGED mode
              /\ pkt' = current /\ ParserIdle'
         ELSE Nothing /\ CanAt(k + 1, can_rx', pkt', current)
<1> DEFINE n == current.length
           R == [state : 0 .. 3, len : 0 .. CAN_MAX_PAYLOAD]
           Returned == /\ result' = "packet" /\ heard' = TRUE /\ UNCHANGED mode
                       /\ can_rx' = CanIdle
<1>0. /\ current \in Packets /\ pkt \in Packet /\ can_rx \in R
      /\ rx = Idle /\ CAN \in DriverTypes
  BY DEF ParserInv, ParserTyped, LineTyped, OtherParserIdle
<1>1. /\ n \in Nat /\ current \in Packet
      /\ Len(current.data) = n /\ current.data \in Seq(Byte)
  BY <1>0, PacketTyped, FramingAssumption
<1>2. /\ Frame(current)[1] = SOF /\ Frame(current)[2] = current.command
      /\ Frame(current)[3] = n /\ \A i \in 1 .. n : Frame(current)[3 + i] = current.data[i]
      /\ n \in 0 .. CAN_MAX_PAYLOAD
  BY <1>0, CanFrame
<1>3. k \in 0 .. n + 2 /\ k \in Nat
  OBVIOUS
<1>4. rx' = Idle
  BY <1>0 DEF CanParse
<1>5. can_rx.state = (IF k <= 2 THEN k ELSE 3)
  BY <1>3 DEF CanAt, CanIdle
<1> HIDE DEF n
<1>6. CASE k = 0
  <2>1. CanScanSof(b)
    BY <1>5, <1>6 DEF CanParse, CanScanSof, CanCmdByte, CanLenTooLong, CanLenByte, CanDataByte
  <2>2. can_rx' = [can_rx EXCEPT !.state = 1] /\ Nothing
    BY <2>1, <1>2, <1>6 DEF CanScanSof, GoesOn, Nothing
  <2>3. can_rx'.state = 1
    BY <2>2, <1>0
  <2>4. CanAt(1, can_rx', pkt', current)
    BY <2>3 DEF CanAt
  <2> QED BY <2>2, <2>4, <1>6, <1>1 DEF n
<1>7. CASE k = 1
  <2>1. CanCmdByte(b)
    BY <1>5, <1>7 DEF CanParse, CanScanSof, CanCmdByte, CanLenTooLong, CanLenByte, CanDataByte
  <2>2. /\ can_rx' = [can_rx EXCEPT !.state = 2] /\ Nothing
        /\ pkt' = [pkt EXCEPT !.command = b]
    BY <2>1 DEF CanCmdByte, GoesOn, Nothing
  <2>3. can_rx'.state = 2 /\ pkt'.command = current.command
    BY <2>2, <1>0, <1>2, <1>7 DEF Packet
  <2>4. CanAt(2, can_rx', pkt', current)
    BY <2>3 DEF CanAt
  <2> QED BY <2>2, <2>4, <1>7, <1>1 DEF n
<1>8. CASE k = 2
  <2>1. b = n /\ b <= CAN_MAX_PAYLOAD /\ pkt.command = current.command
    BY <1>2, <1>8, BufferSizes DEF CanAt
  <2>2. CanLenByte(b)
    BY <2>1, <1>1, <1>5, <1>8, BufferSizes
    DEF CanParse, CanScanSof, CanCmdByte, CanLenTooLong, CanLenByte, CanDataByte
  <2>3. /\ pkt' = [pkt EXCEPT !.length = n, !.data = <<>>]
        /\ IF n = 0 THEN Returned ELSE can_rx' = [state |-> 3, len |-> n] /\ Nothing
    BY <2>2, <2>1 DEF CanLenByte, ReturnsPacket, GoesOn, Nothing
  <2>4. /\ pkt' \in Packet /\ pkt'.command = current.command
        /\ pkt'.length = n /\ pkt'.data = <<>>
    <3>1. n \in 0 .. MaxData
      BY <1>1, <1>2, BufferSizes
    <3> QED BY <2>3, <2>1, <3>1, <1>0, LengthFilled
  <2>5. CASE n = 0
    <3>1. pkt' = current
      BY <2>4, <2>5, <1>1, PacketsEqual DEF n
    <3> QED BY <3>1, <2>3, <2>5, <1>4, <1>8 DEF ParserIdle, n
  <2>6. CASE n # 0
    <3>1. CanAt(3, can_rx', pkt', current)
      BY <2>3, <2>4, <2>6 DEF CanAt, n
    <3>2. k # n + 2
      BY <2>6, <1>8, <1>1
    <3> QED BY <3>1, <3>2, <2>3, <2>6, <1>8 DEF n
  <2> QED BY <2>5, <2>6
<1>9. CASE k >= 3
  <2> DEFINE m == k - 3
             d == pkt.data
  <2>1. m \in Nat /\ m < n /\ k = m + 3
    BY <1>9, <1>3, <1>1
  <2>2. /\ can_rx.state = 3 /\ can_rx.len = n /\ pkt.length = n
        /\ pkt.command = current.command
        /\ Len(d) = m /\ \A i \in 1 .. m : d[i] = current.data[i]
    BY <1>9, <1>3 DEF CanAt, n
  <2>3. CanDataByte(b)
    BY <2>2 DEF CanParse, CanScanSof, CanCmdByte, CanLenTooLong, CanLenByte, CanDataByte
  <2>4. b = current.data[m + 1]
    <3>1. m + 1 \in 1 .. n /\ k + 1 = 3 + (m + 1)
      BY <2>1, <1>1
    <3> QED BY <3>1, <1>2
  <2>5. d \in Seq(Byte)
    BY <1>0, PacketFields
  <2>6. /\ pkt' \in Packet /\ pkt'.command = current.command /\ pkt'.length = n
        /\ pkt'.data = Append(d, b)
    BY <2>3, <2>2, <1>0, DataFilled DEF CanDataByte
  <2>7. IF m + 1 = n THEN Returned ELSE can_rx' = can_rx /\ Nothing
    BY <2>3, <2>2 DEF CanDataByte, ReturnsPacket, GoesOn, Nothing
  <2> HIDE DEF m, d
  <2>8. /\ Len(pkt'.data) = m + 1
        /\ \A i \in 1 .. m + 1 : pkt'.data[i] = current.data[i]
    BY <2>1, <2>2, <2>4, <2>5, <2>6, <1>1, DataGrows
  <2>9. CASE m + 1 = n
    <3>1. pkt' = current
      BY <2>6, <2>8, <2>9, <1>1, PacketsEqual DEF n
    <3>2. k = n + 2
      BY <2>1, <2>9, <1>1
    <3> QED BY <3>1, <3>2, <2>7, <2>9, <1>4 DEF ParserIdle, n
  <2>10. CASE m + 1 # n
    <3>1. k + 1 \notin 1 .. 2 /\ k + 1 # 0 /\ (k + 1) - 3 = m + 1 /\ k # n + 2
      BY <2>1, <2>10, <1>1
    <3>2. CanAt(k + 1, can_rx', pkt', current)
      BY <3>1, <2>10, <2>2, <2>6, <2>7, <2>8 DEF CanAt, n
    <3> QED BY <3>1, <3>2, <2>7, <2>10 DEF n
  <2> QED BY <2>9, <2>10
<1>10. k = 0 \/ k = 1 \/ k = 2 \/ k >= 3
  BY <1>3
<1> QED
  BY <1>10, <1>6, <1>7, <1>8, <1>9

-----------------------------------------------------------------------------
(* Frames on an undamaged line. *)

\* What is left on the line after k bytes of the frame.
LeftOver(k, s, frame) ==
  /\ k \in Nat /\ s # <<>> /\ Len(s) = Len(frame) - k
  /\ \A i \in 1 .. Len(s) : s[i] = frame[k + i]

InFrame ==
  /\ mode = "receive" /\ heard = FALSE
  /\ \E k \in Nat :
       /\ LeftOver(k, line, Frame(current))
       /\ IF driver_type = CAN THEN CanAt(k, can_rx, pkt, current)
                               ELSE SerialAt(k, rx, pkt, current)

BetweenFrames == line = <<>> /\ ParserIdle

LEMMA OneByteLess ==
  ASSUME NEW frame \in Seq(Byte), NEW s \in Seq(Byte), NEW k \in Nat, LeftOver(k, s, frame)
  PROVE  /\ Head(s) = frame[k + 1] /\ Head(s) \in Byte
         /\ k \in 0 .. Len(frame) - 1
         /\ k = Len(frame) - 1 => Tail(s) = <<>>
         /\ k # Len(frame) - 1 => LeftOver(k + 1, Tail(s), frame)
<1>1. /\ k \in Nat /\ s # <<>> /\ Len(s) = Len(frame) - k /\ Len(s) \in Nat /\ Len(s) # 0
      /\ Len(frame) \in Nat /\ \A i \in 1 .. Len(s) : s[i] = frame[k + i]
  BY DEF LeftOver
<1>2. Head(s) = s[1] /\ Head(s) \in Byte /\ Tail(s) \in Seq(Byte) /\ Len(Tail(s)) = Len(s) - 1
      /\ \A i \in 1 .. Len(s) - 1 : Tail(s)[i] = s[i + 1]
  BY <1>1
<1>3. k \in 0 .. Len(frame) - 1
  BY <1>1
<1>4. Head(s) = frame[k + 1]
  BY <1>1, <1>2
<1>5. ASSUME k = Len(frame) - 1 PROVE Tail(s) = <<>>
  <2>1. Len(Tail(s)) = 0
    BY <1>1, <1>2, <1>5
  <2> QED BY <2>1, <1>2
<1>6. ASSUME k # Len(frame) - 1 PROVE LeftOver(k + 1, Tail(s), frame)
  <2>1. Len(Tail(s)) = Len(frame) - (k + 1) /\ Len(Tail(s)) # 0
    BY <1>1, <1>2, <1>6
  <2>2. ASSUME NEW i \in 1 .. Len(Tail(s)) PROVE Tail(s)[i] = frame[(k + 1) + i]
    <3>1. i \in 1 .. Len(s) - 1 /\ i + 1 \in 1 .. Len(s) /\ k + (i + 1) = (k + 1) + i
      BY <1>1, <1>2
    <3> QED BY <3>1, <1>1, <1>2
  <2>3. Tail(s) # <<>>
    <3> DEFINE t == Tail(s)
    <3>1. Len(t) # 0
      BY <2>1
    <3> HIDE DEF t
    <3>2. t # <<>>
      BY <3>1
    <3> QED BY <3>2 DEF t
  <2>4. k + 1 \in Nat
    OBVIOUS
  <2> QED BY <2>1, <2>2, <2>3, <2>4 DEF LeftOver
<1> QED
  BY <1>2, <1>3, <1>4, <1>5, <1>6

\* A byte of a frame that arrives in order takes the parser one byte on, and
\* the last one makes it return the packet.
LEMMA ReadInFrame ==
  ASSUME ParserInv, InFrame, ReadByte, driver_type # UDP
  PROVE  \/ /\ InFrame' /\ result' = "none" /\ heard' = FALSE
         \/ /\ BetweenFrames' /\ mode' = "receive" /\ heard' = TRUE
            /\ result' = "packet" /\ pkt' = current
<1> DEFINE b == Head(line)
           F == Frame(current)
<1>0. /\ line \in Seq(Byte) /\ current \in Packets /\ driver_type \in DriverTypes
  BY DEF ParserInv, LineTyped
<1>1. PICK k \in Nat : LeftOver(k, line, F)
                       /\ IF driver_type = CAN THEN CanAt(k, can_rx, pkt, current)
                                               ELSE SerialAt(k, rx, pkt, current)
  BY DEF InFrame
<1>2. F \in Seq(Byte) /\ current.length \in Nat
  BY <1>0, FrameTyped, PacketTyped
<1>3. /\ mode = "receive" /\ heard = FALSE /\ Parse(b) /\ line' = Tail(line)
      /\ current' = current /\ driver_type' = driver_type
  BY DEF InFrame, ReadByte, Rest, ghostVars
<1>4. Frame(current)' = F
  BY <1>3 DEF Frame
<1> HIDE DEF F, b
<1>5. /\ b = F[k + 1] /\ b \in Byte /\ k \in 0 .. Len(F) - 1
      /\ k = Len(F) - 1 => line' = <<>>
      /\ k # Len(F) - 1 => LeftOver(k + 1, line', F)
  BY <1>0, <1>1, <1>2, <1>3, OneByteLess DEF b
<1>6. CASE driver_type = CAN
  <2>1. Len(F) = current.length + 3
    BY <1>0, <1>6, CanFrame DEF F
  <2>2. CanParse(b) /\ k \in 0 .. current.length + 2
    BY <1>2, <1>3, <1>5, <1>6, <2>1 DEF Parse, SerialParse
  <2>3. IF k = current.length + 2
        THEN /\ result' = "packet" /\ heard' = TRUE /\ UNCHANGED mode
             /\ pkt' = current /\ ParserIdle'
        ELSE Nothing /\ CanAt(k + 1, can_rx', pkt', current)
    BY <1>1, <1>5, <1>6, <2>2, CanByte DEF F
  <2>4. CASE k = current.length + 2
    <3>1. k = Len(F) - 1
      BY <2>1, <2>4, <1>2
    <3> QED BY <3>1, <1>3, <1>5, <2>3, <2>4 DEF BetweenFrames
  <2>5. CASE k # current.length + 2
    <3>1. k # Len(F) - 1 /\ k + 1 \in Nat
      BY <2>1, <2>5, <1>2
    <3>2. Nothing /\ CanAt(k + 1, can_rx', pkt', current)
      BY <2>3, <2>5
    <3>3. InFrame'
      BY <3>1, <3>2, <1>3, <1>4, <1>5, <1>6 DEF InFrame, Nothing
    <3> QED BY <3>2, <3>3, <1>3 DEF Nothing
  <2> QED BY <2>4, <2>5
<1>7. CASE driver_type # CAN
  <2>1. Len(F) = current.length + 6
    BY <1>0, <1>7, SerialFrame DEF F
  <2>2. SerialParse(b) /\ k \in 0 .. current.length + 5
    BY <1>2, <1>3, <1>5, <1>7, <2>1 DEF Parse, CanParse
  <2>3. CASE k = current.length + 5
    <3>1. k = Len(F) - 1
      BY <2>1, <2>3, <1>2
    <3>2. b = Frame(current)[current.length + 6]
      <4>1. k + 1 = current.length + 6
        BY <2>3, <1>2
      <4> QED BY <4>1, <1>5 DEF F
    <3>3. SerialAt(current.length + 5, rx, pkt, current)
      BY <1>1, <1>7, <2>3
    <3>4. /\ result' = "packet" /\ heard' = TRUE /\ UNCHANGED mode
          /\ pkt' = current /\ ParserIdle'
      BY <1>5, <1>7, <2>2, <3>2, <3>3, SerialEnd
    <3> QED BY <3>1, <3>4, <1>3, <1>5 DEF BetweenFrames
  <2>4. CASE k # current.length + 5
    <3>1. k # Len(F) - 1 /\ k + 1 \in Nat
      BY <2>1, <2>4, <1>2
    <3>2. k \in 0 .. 3 \/ k \in 4 .. current.length + 4
      BY <2>2, <2>4, <1>2
    <3>3. SerialAt(k, rx, pkt, current) /\ b = Frame(current)[k + 1]
      BY <1>1, <1>5, <1>7 DEF F
    <3>4. Nothing /\ SerialAt(k + 1, rx', pkt', current)
      <4>1. CASE k \in 0 .. 3
        BY <4>1, <3>3, <1>5, <1>7, <2>2, SerialHeader
      <4>2. CASE k \in 4 .. current.length + 4
        BY <4>2, <3>3, <1>5, <1>7, <2>2, SerialBody
      <4> QED BY <4>1, <4>2, <3>2
    <3>5. InFrame'
      BY <3>1, <3>4, <1>3, <1>4, <1>5, <1>7 DEF InFrame, Nothing
    <3> QED BY <3>4, <3>5, <1>3 DEF Nothing
  <2> QED BY <2>3, <2>4
<1> QED
  BY <1>6, <1>7

\* A frame on the line before an idle parser.
LEMMA FrameBegins ==
  ASSUME ParserInv, mode = "receive", ParserIdle, TargetSends
  PROVE  InFrame'
<1>0. driver_type \in DriverTypes /\ UNCHANGED <<driver_type, mode, rx, can_rx, pkt>>
  BY DEF ParserInv, LineTyped, TargetSends, parserVars
<1>1. PICK p \in Packets : current' = p /\ line' = Frame(p)
  BY DEF TargetSends
<1>2. Frame(p) \in Seq(Byte) /\ Frame(p) # <<>> /\ p.length \in Nat
  BY <1>0, FrameTyped, PacketTyped
<1>3. Frame(current)' = Frame(p)
  BY <1>0, <1>1 DEF Frame
<1>4. LeftOver(0, Frame(p), Frame(p))
  <2> DEFINE F == Frame(p)
  <2> HIDE DEF F
  <2>1. F \in Seq(Byte) /\ F # <<>>
    BY <1>2 DEF F
  <2>2. LeftOver(0, F, F)
    BY <2>1 DEF LeftOver
  <2> QED BY <2>2 DEF F
<1>5. CanAt(0, CanIdle, pkt, p) /\ SerialAt(0, Idle, pkt, p)
  <2>1. 0 \notin p.length + 4 .. p.length + 5 /\ 0 # p.length + 5 /\ 0 \notin 4 .. p.length + 3
    BY <1>2
  <2> QED BY <2>1 DEF CanAt, SerialAt
<1> QED
  BY <1>0, <1>1, <1>3, <1>4, <1>5 DEF InFrame, TargetSends, ParserIdle

\* On a datagram socket no frame survives the first read of one byte.
NoDatagrams == UDP \notin DriverTypes

CleanFollowed == clean => InFrame \/ (line = <<>> /\ heard)

LEMMA CleanStep ==
  ASSUME NoDatagrams, ParserInv, CleanFollowed, [Next]_vars
  PROVE  CleanFollowed'
<1>0. driver_type # UDP
  BY DEF NoDatagrams, ParserInv, LineTyped
<1>1. CASE ReadByte
  <2>1. clean' = clean /\ line # <<>>
    BY <1>1 DEF ReadByte, ghostVars
  <2>2. CASE clean
    <3>1. InFrame
      BY <2>1, <2>2 DEF CleanFollowed
    <3>2. InFrame' \/ (BetweenFrames' /\ heard' = TRUE)
      BY <3>1, <1>0, <1>1, ReadInFrame
    <3> QED BY <3>2 DEF CleanFollowed, BetweenFrames
  <2> QED BY <2>1, <2>2 DEF CleanFollowed
<1>2. CASE FlushByte
  BY <1>2 DEF FlushByte, CleanFollowed
<1>3. CASE FlushEnd
  BY <1>3 DEF FlushEnd, CleanFollowed, InFrame, ghostVars
<1>4. CASE TargetSends
  <2>1. clean' => mode = "receive" /\ ParserIdle
    BY <1>4 DEF TargetSends
  <2> QED BY <1>4, <2>1, FrameBegins DEF CleanFollowed
<1>5. CASE LoseByte \/ ChangeByte \/ AddByte
  BY <1>5 DEF LoseByte, ChangeByte, AddByte, Damage, CleanFollowed
<1>6. CASE UNCHANGED vars
  <2>1. UNCHANGED <<driver_type, mode, rx, can_rx, pkt, line, current, heard, clean>>
    BY <1>6 DEF vars, parserVars, ghostVars
  <2>2. Frame(current)' = Frame(current)
    BY <2>1 DEF Frame
  <2> QED BY <2>1, <2>2 DEF CleanFollowed, InFrame
<1> QED
  BY <1>1, <1>2, <1>3, <1>4, <1>5, <1>6 DEF Next

\* A frame that is sent to an idle parser and not damaged is returned,
\* whatever was on the line before: for every packet, every CRC, any number
\* of faults on earlier frames, on all transports but UDP.
THEOREM CleanFramesReturned == NoDatagrams => (Spec => []CleanFrameHeard)
<1> SUFFICES ASSUME NoDatagrams PROVE Spec => []CleanFrameHeard
  OBVIOUS
<1>1. Init => CleanFollowed
  BY DEF Init, CleanFollowed
<1>2. ParserInv /\ CleanFollowed /\ [Next]_vars => CleanFollowed'
  BY CleanStep
<1>3. CleanFollowed => CleanFrameHeard
  BY DEF CleanFollowed, CleanFrameHeard, InFrame, LeftOver
<1> QED
  BY <1>1, <1>2, <1>3, ParserInvariant, PTL DEF Spec

\* No line of this instance is damaged: CAN controllers and TCP check what
\* they deliver.
NoDamage == SERIAL \notin DriverTypes \/ MaxFaults = 0

Aligned == mode = "receive" => InFrame \/ BetweenFrames

LEMMA NoFaultEver ==
  ASSUME NoDamage, ParserInv
  PROVE  ~Damage
<1>1. driver_type \in DriverTypes /\ faults \in 0 .. MaxFaults
  BY DEF ParserInv, LineTyped
<1> QED
  BY <1>1 DEF NoDamage, Damage

LEMMA AlignedStep ==
  ASSUME NoDatagrams, NoDamage, ParserInv, Aligned, [Next]_vars
  PROVE  /\ Aligned'
         /\ result' = "packet" /\ result # "packet" => pkt' = current /\ ~heard
<1>0. driver_type # UDP
  BY DEF NoDatagrams, ParserInv, LineTyped
<1>1. CASE ReadByte
  <2>1. InFrame
    BY <1>1 DEF ReadByte, Aligned, BetweenFrames
  <2>2. \/ InFrame' /\ result' = "none"
        \/ BetweenFrames' /\ pkt' = current
    BY <2>1, <1>0, <1>1, ReadInFrame
  <2> QED BY <2>1, <2>2 DEF Aligned, InFrame
<1>2. CASE FlushByte
  BY <1>2 DEF FlushByte, Aligned
<1>3. CASE FlushEnd
  BY <1>3 DEF FlushEnd, Aligned, BetweenFrames, ParserIdle
<1>4. CASE TargetSends
  <2>1. mode' = mode /\ result' = "none" /\ line = <<>>
    BY <1>4 DEF TargetSends
  <2>2. ASSUME mode = "receive" PROVE InFrame'
    <3>1. ParserIdle
      BY <2>1, <2>2 DEF Aligned, InFrame, LeftOver, BetweenFrames
    <3> QED BY <3>1, <2>2, <1>4, FrameBegins
  <2> QED BY <2>1, <2>2 DEF Aligned
<1>5. CASE LoseByte \/ ChangeByte \/ AddByte
  BY <1>5, NoFaultEver DEF LoseByte, ChangeByte, AddByte
<1>6. CASE UNCHANGED vars
  <2>1. UNCHANGED <<driver_type, mode, rx, can_rx, pkt, result, line, current, heard>>
    BY <1>6 DEF vars, parserVars, ghostVars
  <2>2. Frame(current)' = Frame(current)
    BY <2>1 DEF Frame
  <2>3. Aligned'
    BY <2>1, <2>2 DEF Aligned, InFrame, BetweenFrames, ParserIdle
  <2> QED BY <2>1, <2>3
<1> QED
  BY <1>1, <1>2, <1>3, <1>4, <1>5, <1>6 DEF Next

\* On an undamaged line no packet is made up and none is returned twice,
\* from the flush at startup on; over CAN, whose frames have no CRC, too.
THEOREM UndamagedWasSent == NoDatagrams /\ NoDamage => (Spec => HeardWasSent)
<1> SUFFICES ASSUME NoDatagrams, NoDamage PROVE Spec => HeardWasSent
  OBVIOUS
<1>1. Init => Aligned
  BY DEF Init, Aligned
<1>2. ParserInv /\ Aligned /\ [Next]_vars =>
        /\ Aligned'
        /\ result' = "packet" /\ result # "packet" => pkt' = current /\ ~heard
  BY AlignedStep
<1> QED
  BY <1>1, <1>2, ParserInvariant, PTL DEF Spec, HeardWasSent

-----------------------------------------------------------------------------
(* Datagrams. *)

\* Of each datagram the parser is given the first byte, which is a start
\* byte; the command and the high byte of the length are start bytes too.
FirstBytesOnly ==
  /\ driver_type = UDP
  /\ line = <<>> \/ Head(line) = SOF
  /\ rx.state \in {0, 1, 2, 3}
  /\ rx.state = 3 => rx.length = SOF * 256
  /\ result # "packet"

LEMMA DatagramStep ==
  ASSUME MaxData < 257 * SOF, ParserInv, FirstBytesOnly, [Next]_vars
  PROVE  FirstBytesOnly'
<1>0. driver_type = UDP /\ driver_type # CAN /\ driver_type # SERIAL
  BY DEF FirstBytesOnly, UDP, CAN, SERIAL
<1>1. CASE ReadByte
  <2> DEFINE b == Head(line)
  <2>1. b = SOF /\ line' = <<>> /\ driver_type' = driver_type
    BY <1>0, <1>1 DEF ReadByte, Rest, FirstBytesOnly
  <2>2. rx \in RxState
    BY DEF ParserInv, ParserTyped, RxState
  <2>3. SerialParse(b)
    BY <1>0, <1>1 DEF ReadByte, Parse, CanParse
  <2> HIDE DEF b
  <2>4. CASE ScanSof(b)
    <3>1. rx' = [rx EXCEPT !.state = 1] /\ result' = "none"
      BY <2>1, <2>4 DEF ScanSof, GoesOn
    <3>2. rx'.state = 1
      BY <2>2, <3>1 DEF RxState
    <3> QED BY <1>0, <2>1, <3>1, <3>2 DEF FirstBytesOnly
  <2>5. CASE CmdByte(b)
    <3>1. rx' = [rx EXCEPT !.state = 2] /\ result' = "none"
      BY <2>5 DEF CmdByte, GoesOn
    <3>2. rx'.state = 2
      BY <2>2, <3>1 DEF RxState
    <3> QED BY <1>0, <2>1, <3>1, <3>2 DEF FirstBytesOnly
  <2>6. CASE LenHigh(b)
    <3>1. rx' = WithLength(rx, 3, SOF * 256) /\ result' = "none"
      BY <2>1, <2>6 DEF LenHigh, GoesOn, WithLength
    <3>2. rx'.state = 3 /\ rx'.length = SOF * 256
      BY <2>2, <3>1 DEF RxState, WithLength
    <3> QED BY <1>0, <2>1, <3>1, <3>2 DEF FirstBytesOnly
  <2>7. CASE LenLow(b)
    <3>1. rx.length = SOF * 256 /\ rx.length + b <= MaxData
      BY <2>7 DEF LenLow, FirstBytesOnly
    <3> QED BY <2>1, <3>1, BufferSizes DEF SOF
  <2>8. CASE LenLowTooLong(b)
    <3>1. rx' = Idle /\ result' = "frame"
      BY <2>8 DEF LenLowTooLong, FramingError
    <3> QED BY <1>0, <2>1, <3>1 DEF FirstBytesOnly, Idle
  <2>9. CASE DataByte(b) \/ CrcHigh(b) \/ CrcLow(b)
    BY <2>9 DEF DataByte, CrcHigh, CrcLow, FirstBytesOnly
  <2> QED BY <2>3, <2>4, <2>5, <2>6, <2>7, <2>8, <2>9 DEF SerialParse
<1>2. CASE FlushByte
  BY <1>0, <1>2 DEF FlushByte, Rest, parserVars, FirstBytesOnly
<1>3. CASE FlushEnd
  BY <1>3 DEF FlushEnd, Idle, FirstBytesOnly
<1>4. CASE TargetSends
  <2>1. PICK p \in Packets : line' = Frame(p)
    BY <1>4 DEF TargetSends
  <2>2. line' \in Seq(Byte) /\ line'[1] = SOF
    BY <1>0, <2>1, SerialFrame
  <2> QED BY <1>4, <2>2 DEF TargetSends, parserVars, FirstBytesOnly
<1>5. CASE LoseByte \/ ChangeByte \/ AddByte
  BY <1>0, <1>5 DEF LoseByte, ChangeByte, AddByte, Damage
<1>6. CASE UNCHANGED vars
  BY <1>6 DEF vars, parserVars, FirstBytesOnly
<1> QED
  BY <1>1, <1>2, <1>3, <1>4, <1>5, <1>6 DEF Next

\* Over UDP transport_receive never returns a packet, whatever the target
\* sends: each recvfrom of one byte takes a whole datagram, so that the parser
\* sees start bytes alone, and refuses the length that two of them make.  The
\* packet buffer (COMM_MAX_DATA, 64 bytes) is far smaller than that.
THEOREM NothingOverUdp ==
  DriverTypes = {UDP} /\ MaxData < 257 * SOF => (Spec => [](result # "packet"))
<1> SUFFICES ASSUME DriverTypes = {UDP}, MaxData < 257 * SOF
             PROVE  Spec => [](result # "packet")
  OBVIOUS
<1>1. Init => FirstBytesOnly
  BY DEF Init, Idle, FirstBytesOnly
<1>2. ParserInv /\ FirstBytesOnly /\ [Next]_vars => FirstBytesOnly'
  BY DatagramStep
<1>3. FirstBytesOnly => result # "packet"
  BY DEF FirstBytesOnly
<1> QED
  BY <1>1, <1>2, <1>3, ParserInvariant, PTL DEF Spec

=============================================================================
