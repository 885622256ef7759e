---------------------------- MODULE PipelineWalk ----------------------------
(***************************************************************************)
(* From the HEX file to the segments: the file is loaded as main does it,  *)
(* the pipeline built once from its records, then walked sector by sector, *)
(* one pipeline_next_segment call per acknowledgement, a sector possibly   *)
(* restarted from byte 0 after a NACK, the way fsm_actions.c uses it.  The *)
(* reference is the memory image the file describes: the last record that  *)
(* writes an address wins.                                                 *)
(***************************************************************************)
EXTENDS HexFile

CONSTANTS Files,            \* the HEX files considered
          SectorSizes,      \* sector sizes a target may report
          SegmentSizes,     \* segment sizes a target may report
          MaxRewinds        \* bound: restarts of a sector

\* Only the last line may lack a newline.  An extended linear address has its
\* two bytes, as the format demands: of a shorter one hex_to_int would read
\* the checksum, which Line leaves out.
ASSUME WalkAssumption ==
  /\ Files \subseteq Seq(Line)
  /\ \A hex \in Files : \A i \in DOMAIN hex :
       /\ i # Len(hex) => hex[i].newline
       /\ hex[i].type = EXT_LINEAR => Len(hex[i].data) >= 2
  /\ SectorSizes \subseteq Nat \ {0}
  /\ SegmentSizes \subseteq Nat \ {0}
  /\ MaxRewinds \in Nat

VARIABLES file, sector_size, segment_size,
          load,             \* "todo", "done", or "mismatch"
          records, hex_base_address, hex_end_address,
          sectors,          \* the builder's array, <<>> until built
          built,            \* pipeline_build has run
          current_sector,   \* index from 0
          offset,           \* byte offset in the current sector
          segments,         \* segments produced since the sector (re)started
          ended,            \* pipeline_next_segment has returned -1
          rewinds           \* restarts so far (bounded by MaxRewinds)

inputs == <<file, sector_size, segment_size>>
image  == <<load, records, hex_base_address, hex_end_address>>
vars == <<inputs, image, sectors, built, current_sector, offset, segments,
          ended, rewinds>>

\* The code takes these as they come from the HEX file and the target.
Init ==
  /\ file \in Files
  /\ sector_size \in SectorSizes
  /\ segment_size \in SegmentSizes
  /\ load = "todo"
  /\ records = <<>>
  /\ hex_base_address = 0
  /\ hex_end_address = 0
  /\ sectors = <<>>
  /\ built = FALSE
  /\ current_sector = 0
  /\ offset = 0
  /\ segments = <<>>
  /\ ended = FALSE
  /\ rewinds = 0

Sector == sectors[current_sector + 1]

\* main goes on only when the file has a line.  The pool has room for as
\* many records as there are newlines, and as many are used.
Load ==
  /\ load = "todo"
  /\ get_file_size(file) > 0
  /\ LET read == read_hex_file(file)
     IN  /\ Len(read.records) = get_file_size(file)
         /\ records' = read.records
         /\ hex_base_address' = read.hex_base
         /\ hex_end_address' = read.hex_end
  /\ load' = "done"
  /\ UNCHANGED <<inputs, sectors, built, current_sector, offset, segments,
                 ended, rewinds>>

\* Fewer lines that begin with ':' leave records that were never written;
\* a last line without a newline is stored behind the pool.  Both are
\* undefined: the model stops.
LoadMismatch ==
  /\ load = "todo"
  /\ get_file_size(file) > 0
  /\ Len(read_hex_file(file).records) # get_file_size(file)
  /\ load' = "mismatch"
  /\ UNCHANGED <<inputs, records, hex_base_address, hex_end_address, sectors,
                 built, current_sector, offset, segments, ended, rewinds>>

Build ==
  /\ load = "done"
  /\ ~built
  /\ sectors' = pipeline_build(records, sector_size)
  /\ built' = TRUE
  /\ UNCHANGED <<inputs, image, current_sector, offset, segments, ended,
                 rewinds>>

Walking == built /\ current_sector < Len(sectors)

NextSegment ==
  /\ Walking
  /\ ~ended
  /\ LET walk == pipeline_next_segment(Sector, offset, segment_size)
     IN  /\ offset' = walk.offset
         /\ ended' = (walk.len < 0)
         /\ segments' = IF walk.len < 0 THEN segments
                        ELSE Append(segments, [addr |-> walk.addr,
                                               data |-> walk.data])
  /\ UNCHANGED <<inputs, image, sectors, built, current_sector, rewinds>>

\* act_next_sector.
Advance ==
  /\ Walking
  /\ ended
  /\ current_sector' = current_sector + 1
  /\ offset' = 0
  /\ segments' = <<>>
  /\ ended' = FALSE
  /\ UNCHANGED <<inputs, image, sectors, built, rewinds>>

\* act_crc_nack below the retry limit.
Rewind ==
  /\ Walking
  /\ ended
  /\ rewinds < MaxRewinds
  /\ rewinds' = rewinds + 1
  /\ offset' = 0
  /\ segments' = <<>>
  /\ ended' = FALSE
  /\ UNCHANGED <<inputs, image, sectors, built, current_sector>>

Next == Load \/ LoadMismatch \/ Build \/ NextSegment \/ Advance \/ Rewind

Spec == Init /\ [][Next]_vars

-----------------------------------------------------------------------------
\* The reference: the memory image of the file.

\* The lines that are records; any other line is a comment.
RecordLines == {i \in DOMAIN file : file[i].sof}

DataLines == {i \in RecordLines : file[i].type = DATA_RECORD}

\* Where line i of the file starts: above the last extended linear address
\* in front of it.
Start(i) ==
  LET bases == {j \in RecordLines : j < i /\ file[j].type = EXT_LINEAR}
      base  == IF bases = {} THEN 0
               ELSE PageSize *
                    Upper(file[CHOOSE j \in bases : \A k \in bases : k <= j])
  IN  base + file[i].address

\* Positions <<line, byte>> that write address a.
Writers(a) ==
  UNION {{<<i, n>> : n \in {m \in DOMAIN file[i].data :
                              (Start(i) + m - 1) % AddrSpace = a}} :
         i \in DataLines}

Later(w, v) == w[1] > v[1] \/ (w[1] = v[1] /\ w[2] >= v[2])

ImageByte(a) ==
  LET w == CHOOSE w \in Writers(a) : \A v \in Writers(a) : Later(w, v)
  IN  file[w[1]].data[w[2]]

HasData == \E a \in 0 .. AddrSpace - 1 : Writers(a) # {}

\* No data record reaches the end of the address space.
NoneReachesEnd == \A i \in DataLines : Start(i) + Len(file[i].data) < AddrSpace

Addresses(k) ==
  sectors[k].base_addr .. sectors[k].base_addr + sectors[k].size - 1

\* Addresses a segment of the walk covers.
SegAddresses(s) == s.addr .. s.addr + Len(s.data) - 1

-----------------------------------------------------------------------------
\* The range rule 1 and rule 2 of act_target_info compare with the flash of
\* the target holds every byte of the file, in whatever order its records
\* come, as long as none reaches the end of the address space.
RangeHoldsImage ==
  load = "done" /\ NoneReachesEnd
    => \A a \in 0 .. AddrSpace - 1 :
         Writers(a) # {} => hex_base_address <= a /\ a < hex_end_address

\* The loader and pipeline_build place the image: the sectors are aligned and
\* distinct, and a byte is valid exactly when some data record writes its
\* address, with the last such record's value; everything else reads as
\* erased flash.
BuildMatchesImage ==
  built =>
    /\ \A k \in DOMAIN sectors :
         /\ sectors[k].base_addr % sector_size = 0
         /\ \A j \in DOMAIN sectors :
              sectors[j].base_addr = sectors[k].base_addr => j = k
         /\ \A i \in 0 .. sectors[k].size - 1 :
              LET a == sectors[k].base_addr + i
              IN  /\ sectors[k].valid[i] <=> Writers(a) # {}
                  /\ sectors[k].data[i] =
                       IF Writers(a) = {} THEN ErasedByte ELSE ImageByte(a)
    /\ \A a \in 0 .. AddrSpace - 1 :
         Writers(a) # {} => \E k \in DOMAIN sectors : a \in Addresses(k)

\* What HostFsm and UpdateSystem assume of an image and its sectors
\* (ImageAssumption, PipelineAssumption, SectorsAssumption) is what
\* read_hex_file and pipeline_build make of any file: a sector is made only
\* for a byte, so there is none without data and none that is empty.
ImageAsAssumed ==
  built =>
    /\ sectors # <<>> <=> HasData
    /\ SectorsApart(sectors, sector_size)
    /\ NoneReachesEnd =>
         /\ HasData => hex_base_address < hex_end_address
         /\ SectorsWithin(sectors, sector_size,
                          hex_base_address, hex_end_address)

\* The segments of one pass over a sector lie in the sector, start at a
\* programmed byte, never overlap, carry the sector's bytes, and when
\* pipeline_next_segment reports the end no programmed byte was skipped.
SegmentsCoverSector ==
  Walking =>
    /\ \A n \in DOMAIN segments :
         LET s == segments[n]
             first == s.addr - Sector.base_addr
         IN  /\ SegAddresses(s) \subseteq Addresses(current_sector + 1)
             /\ Sector.valid[first]
             /\ \A i \in DOMAIN s.data : s.data[i] = Sector.data[first + i - 1]
             /\ \A m \in DOMAIN segments :
                  m # n => SegAddresses(s) \cap SegAddresses(segments[m]) = {}
    /\ ended =>
         \A i \in 0 .. Sector.size - 1 :
           Sector.valid[i] =>
             \E n \in DOMAIN segments :
               Sector.base_addr + i \in SegAddresses(segments[n])

\* One pass yields at most ceil(sector_size / segment_size) segments, the
\* figure act_build_pipeline multiplies into total_segments.
SegmentsWithinEstimate ==
  Len(segments) * segment_size < sector_size + segment_size
=============================================================================
