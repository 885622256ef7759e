------------------------------- MODULE HexFile ------------------------------
(***************************************************************************)
(* utility/file_mgmt.c: the HEX file is read twice, by get_file_size to    *)
(* count the records and by read_hex_file to fill them in.                 *)
(*                                                                         *)
(* A line is [sof, type, address, data, newline]: it begins with ':', its  *)
(* fields, and whether it ends in a newline (only the last may not).  The  *)
(* fields are numbers; the hexadecimal digits and checksums are left out   *)
(* (the code never compares a checksum).  Lines are taken to fit the       *)
(* buffer of MAX_CHAR_PER_LINE.                                            *)
(***************************************************************************)
EXTENDS Pipeline, FiniteSets

CONSTANT PageSize         \* addresses under one base: 2^16 in the code

ASSUME PageAssumption == PageSize \in Nat \ {0}

EXT_LINEAR == 4           \* record type 0x04

Line == [sof : BOOLEAN, type : Byte, address : 0 .. PageSize - 1,
         data : Seq(Byte), newline : BOOLEAN]

\* The count of newlines.
get_file_size(file) == Cardinality({i \in DOMAIN file : file[i].newline})

\* hex_to_int(line + 9, 4): the two bytes of an extended linear address.
Upper(line) == 256 * line.data[1] + line.data[2]

Nothing == [records |-> <<>>, base |-> 0, data_seen |-> FALSE,
            hex_base |-> 0, hex_end |-> 0]

\* Variation: the lowest address is taken from the first data record alone.
ReadLine_first_only(acc, line) ==
  LET base    == IF line.type = EXT_LINEAR THEN Upper(line) * PageSize
                 ELSE acc.base
      address == (base + line.address) % AddrSpace
      end     == (address + Len(line.data)) % AddrSpace
      stored  == [acc EXCEPT !.base = base,
                    !.records = Append(@, [type    |-> line.type,
                                           address |-> address,
                                           data    |-> line.data])]
  IN  IF ~line.sof THEN acc
      ELSE IF line.type # DATA_RECORD THEN stored
      ELSE [stored EXCEPT !.data_seen = TRUE,
              !.hex_base = IF ~acc.data_seen THEN address ELSE @,
              !.hex_end  = IF end > @ THEN end ELSE @]

\* One turn of the loop in read_hex_file.  An extended linear address moves
\* the base; no other record type does.  (Only the bytes of data records are
\* copied; nothing looks at the others'.)
ReadLine(acc, line) ==
  LET base    == IF line.type = EXT_LINEAR THEN Upper(line) * PageSize
                 ELSE acc.base
      address == (base + line.address) % AddrSpace
      end     == (address + Len(line.data)) % AddrSpace
      stored  == [acc EXCEPT !.base = base,
                    !.records = Append(@, [type    |-> line.type,
                                           address |-> address,
                                           data    |-> line.data])]
  IN  IF ~line.sof THEN acc
      ELSE IF line.type # DATA_RECORD THEN stored
      ELSE [stored EXCEPT !.data_seen = TRUE,
              !.hex_base = IF ~acc.data_seen \/ address < @ THEN address ELSE @,
              !.hex_end  = IF end > @ THEN end ELSE @]

read_hex_file(file) == FoldLeft(ReadLine, Nothing, file)
=============================================================================
