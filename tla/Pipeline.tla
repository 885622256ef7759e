------------------------------ MODULE Pipeline ------------------------------
(***************************************************************************)
(* utility/pipeline.c: HEX records are spread over sector buffers           *)
(* (pipeline_build), a sector is cut into segments (pipeline_next_segment) *)
(* and summed up for the target's check (pipeline_sector_crc).             *)
(*                                                                         *)
(* A record is [type, address, data], data a sequence of bytes.  A sector  *)
(* is [base_addr, size, data, valid], data and valid indexed from 0 as in  *)
(* the C arrays; the sector array of the builder is a sequence.            *)
(*                                                                         *)
(* No operator of this module is RECURSIVE, so modules that use it can be  *)
(* proved about.                                                           *)
(***************************************************************************)
EXTENDS Integers, SequencesExt

CONSTANT AddrSpace        \* number of flash addresses: 2^32 in the code

ASSUME AddrSpaceAssumption == AddrSpace \in Nat \ {0}

Byte == 0 .. 255
ErasedByte == 255         \* the 0xFF of the memset in find_sector

DATA_RECORD == 0

\* sector_pipeline_t for sectors of the given size.
SectorOf(size) ==
  [base_addr : Nat, size : {size},
   data : [0 .. size - 1 -> Byte], valid : [0 .. size - 1 -> BOOLEAN]]

sector_base(addr, size) == addr - (addr % size)

\* Sectors of one size whose programmed bytes lie in base .. end - 1.
SectorsWithin(sectors, size, base, end) ==
  /\ sectors \in Seq(SectorOf(size))
  /\ \A k \in DOMAIN sectors : \A i \in 0 .. size - 1 :
       sectors[k].valid[i] => sectors[k].base_addr + i \in base .. end - 1

\* One sector per base address, which all its bytes share, made for a byte
\* that was programmed.
SectorsApart(sectors, size) ==
  \A k \in DOMAIN sectors :
    /\ \A i \in 0 .. sectors[k].size - 1 :
         sector_base(sectors[k].base_addr + i, size) = sectors[k].base_addr
    /\ \E i \in 0 .. sectors[k].size - 1 : sectors[k].valid[i]
    /\ \A j \in DOMAIN sectors :
         sectors[j].base_addr = sectors[k].base_addr => j = k

\* A sector the HEX image has not touched yet.
EmptySector(base, size) ==
  [base_addr |-> base,
   size      |-> size,
   data      |-> [i \in 0 .. size - 1 |-> ErasedByte],
   valid     |-> [i \in 0 .. size - 1 |-> FALSE]]

\* The sector array with a sector for addr, appended when there is none.
find_sector(sectors, addr, size) ==
  LET base == sector_base(addr, size)
  IN  IF \E i \in DOMAIN sectors : sectors[i].base_addr = base
      THEN sectors
      ELSE Append(sectors, EmptySector(base, size))

\* One byte of a record, stored in the first sector that owns its address.
insert_byte(sectors, addr, byte, size) ==
  LET found == find_sector(sectors, addr, size)
      owner == CHOOSE i \in DOMAIN found :
                 /\ found[i].base_addr = sector_base(addr, size)
                 /\ \A j \in 1 .. i - 1 :
                      found[j].base_addr # sector_base(addr, size)
      off   == addr - found[owner].base_addr
  IN  [found EXCEPT ![owner].data[off] = byte, ![owner].valid[off] = TRUE]

\* Variation: the record type is not looked at.
insert_record_any_type(sectors, rec, size) ==
  FoldLeft(LAMBDA acc, i :
             insert_byte(acc, (rec.address + i - 1) % AddrSpace,
                         rec.data[i], size),
           sectors,
           [i \in DOMAIN rec.data |-> i])

\* Variation: the sector is looked up before it is known that there is a byte
\* to store.
insert_record_finds_first(sectors, rec, size) ==
  IF rec.type # DATA_RECORD
  THEN sectors
  ELSE FoldLeft(LAMBDA acc, i :
                  insert_byte(acc, (rec.address + i - 1) % AddrSpace,
                              rec.data[i], size),
                find_sector(sectors, rec.address % AddrSpace, size),
                [i \in DOMAIN rec.data |-> i])

\* Record addresses are uint32_t: a record may wrap at the end of the space.
insert_record(sectors, rec, size) ==
  IF rec.type # DATA_RECORD
  THEN sectors
  ELSE FoldLeft(LAMBDA acc, i :
                  insert_byte(acc, (rec.address + i - 1) % AddrSpace,
                              rec.data[i], size),
                sectors,
                [i \in DOMAIN rec.data |-> i])

pipeline_build(records, size) ==
  FoldLeft(LAMBDA acc, rec : insert_record(acc, rec, size), <<>>, records)

-----------------------------------------------------------------------------
\* Variation: the scan steps before it looks.
SkipInvalid_steps_first(sector, offset) ==
  IF \E i \in offset + 1 .. sector.size - 1 : sector.valid[i]
  THEN CHOOSE i \in offset + 1 .. sector.size - 1 :
         /\ sector.valid[i]
         /\ \A j \in offset + 1 .. i - 1 : ~sector.valid[j]
  ELSE IF offset < sector.size THEN sector.size ELSE offset

\* Where the scan over unprogrammed bytes that starts at offset stops.
SkipInvalid(sector, offset) ==
  IF \E i \in offset .. sector.size - 1 : sector.valid[i]
  THEN CHOOSE i \in offset .. sector.size - 1 :
         /\ sector.valid[i]
         /\ \A j \in offset .. i - 1 : ~sector.valid[j]
  ELSE IF offset < sector.size THEN sector.size ELSE offset

\* Bytes of a segment that starts at offset: clamped to what the sector holds.
ClampedLength(sector, offset, seg) ==
  IF offset + seg > sector.size THEN sector.size - offset ELSE seg

\* The segment of len bytes that starts at first, next the offset after it.
Segment(sector, first, len, next) ==
  [len    |-> len,
   offset |-> next,
   addr   |-> sector.base_addr + first,
   data   |-> [i \in 1 .. len |-> sector.data[first + i - 1]]]

Exhausted(offset) == [len |-> -1, offset |-> offset, addr |-> 0, data |-> <<>>]

\* Variations of the call: the last byte of a sector is taken for its end;
\* or the offset advances from where the scan began instead of where it
\* stopped.
pipeline_next_segment_short(sector, offset, seg) ==
  LET first == SkipInvalid(sector, offset)
      len   == ClampedLength(sector, first, seg)
  IN  IF first >= sector.size - 1
      THEN Exhausted(first)
      ELSE Segment(sector, first, len, first + len)

pipeline_next_segment_lags(sector, offset, seg) ==
  LET first == SkipInvalid(sector, offset)
      len   == ClampedLength(sector, first, seg)
  IN  IF first >= sector.size
      THEN Exhausted(first)
      ELSE Segment(sector, first, len, offset + len)

\* The result of one call: len = -1 when the sector is exhausted, and the
\* offset the caller goes on with.
pipeline_next_segment(sector, offset, seg) ==
  LET first == SkipInvalid(sector, offset)
      len   == ClampedLength(sector, first, seg)
  IN  IF first >= sector.size
      THEN Exhausted(first)
      ELSE Segment(sector, first, len, first + len)

\* The CRC32 over the whole buffer, erased bytes included.  Ideal: two
\* buffers have the same sum exactly when they are equal, so the buffer
\* stands for its sum.
pipeline_sector_crc(sector) == [i \in 1 .. sector.size |-> sector.data[i - 1]]

=============================================================================
