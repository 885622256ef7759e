--------------------------- MODULE MCUpdateSystem ---------------------------
(***************************************************************************)
(* Small instances of UpdateSystem: three sectors of four bytes in HEX     *)
(* order 4, 0, 12, the first with two segments, the second sparse, the      *)
(* third with the same content as the first, so that a sector written in   *)
(* the place of another one with an equal sum would be seen.               *)
(***************************************************************************)
EXTENDS UpdateSystem, TLC

MCAddrSpace == 1024

MCRecords ==
  <<[type |-> 0, address |-> 4, data |-> <<14, 15, 16>>],
    [type |-> 0, address |-> 1, data |-> <<11>>],
    [type |-> 0, address |-> 12, data |-> <<14, 15, 16>>]>>

MCTargetInfos == {[flash_addr |-> 0, sector_size |-> 4, segment_size |-> 2]}

\* The sector at base with the bytes of writes, a function of the offset.
SectorWith(base, writes) ==
  [base_addr |-> base,
   size  |-> 4,
   data  |-> [i \in 0 .. 3 |-> IF i \in DOMAIN writes THEN writes[i] ELSE 255],
   valid |-> [i \in 0 .. 3 |-> i \in DOMAIN writes]]

\* The sectors of the image, written out; they are what pipeline_build makes.
MCImage ==
  <<SectorWith(4, 0 :> 14 @@ 1 :> 15 @@ 2 :> 16),
    SectorWith(0, 1 :> 11),
    SectorWith(12, 0 :> 14 @@ 1 :> 15 @@ 2 :> 16)>>

ASSUME ImageIsBuilt == MCImage = pipeline_build(MCRecords, 4)

MCImages ==
  {[base |-> 1, end |-> 15, has_data |-> TRUE, pipelines |-> 4 :> MCImage]}

\* Every response the target of this instance can give.
MCResponses ==
  {[command |-> c, length |-> l, info |-> TheInfo] :
     c \in {uint8(RESP_TARGET_INFO + node_id), RESP_SEG_ACK, RESP_CRC_ACK,
            RESP_CRC_NACK, RESP_APP_JUMP_ACK},
     l \in {AckLength, 8}}
=============================================================================
