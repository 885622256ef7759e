-------------------------------- MODULE Crc16 -------------------------------
(***************************************************************************)
(* crc16_ccitt of comm/transport_layer.c: polynomial 0x1021, initial value *)
(* 0xFFFF, most significant bit first, in a register of 16 bits.           *)
(***************************************************************************)
EXTENDS Integers, Sequences

TopBit   == 32768         \* 0x8000
Register == 0 .. 2 * TopBit - 1

\* x ^ weight, for the weight of a single bit.
Flip[x \in Register, weight \in Register] ==
  IF (x \div weight) % 2 = 0 THEN x + weight ELSE x - weight

\* One turn of the inner loop; 0x1021 is the bits of weight 4096, 32 and 1.
ShiftBit[crc \in Register] ==
  IF crc >= TopBit
  THEN Flip[Flip[Flip[2 * (crc - TopBit), 4096], 32], 1]
  ELSE 2 * crc

\* crc ^ byte << 8, and then the register after so many turns.
Mixed[crc \in Register, byte \in 0 .. 255, bits \in 0 .. 8] ==
  IF bits = 0 THEN crc
  ELSE LET mixed == Mixed[crc, byte, bits - 1]
       IN  IF (byte \div 2 ^ (bits - 1)) % 2 = 0 THEN mixed
           ELSE Flip[mixed, 256 * 2 ^ (bits - 1)]

Shifted[crc \in Register, turns \in 0 .. 8] ==
  IF turns = 0 THEN crc ELSE ShiftBit[Shifted[crc, turns - 1]]

crc16_ccitt(data) ==
  LET crc[n \in 0 .. Len(data)] ==
        IF n = 0 THEN 2 * TopBit - 1
        ELSE Shifted[Mixed[crc[n - 1], data[n], 8], 8]
  IN  crc[Len(data)]

\* The check value of this CRC, for the digits "123456789": 0x29B1.
ASSUME CheckValue ==
  crc16_ccitt(<<49, 50, 51, 52, 53, 54, 55, 56, 57>>) = 10673
=============================================================================
