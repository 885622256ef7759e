------------------------------ MODULE MCHostFsm -----------------------------
(***************************************************************************)
(* Small instances of HostFsm.  One image has two data records: bytes at   *)
(* 1..3 and 4..5, so that with sectors of four bytes it has a sparse first *)
(* sector and a second one that ends in unprogrammed bytes; the other one  *)
(* has data records without a byte.  The inductive invariant of            *)
(* HostFsmProofs is at hand for the runs.                                  *)
(***************************************************************************)
EXTENDS HostFsmProofs

MCAddrSpace == 1024

MCRecords ==
  <<[type |-> 0, address |-> 1, data |-> <<11, 12, 13>>],
    [type |-> 4, address |-> 0, data |-> <<0, 0>>],
    [type |-> 0, address |-> 4, data |-> <<14, 15>>]>>

\* Two zero-length data records at different addresses: a range, no byte.
MCEmptyRecords ==
  <<[type |-> 0, address |-> 1, data |-> <<>>],
    [type |-> 0, address |-> 7, data |-> <<>>]>>

Info(flash, sector, segment) ==
  [flash_addr |-> flash, sector_size |-> sector, segment_size |-> segment]

\* A fitting target, a sector size that is no multiple of the segment size,
\* a target whose application starts above the image, zero sizes, and
\* segments larger than a transport packet, segments larger than a CAN frame
\* holds.
MCTargetInfos ==
  {Info(0, 4, 2), Info(1, 4, 3), Info(2, 4, 2), Info(0, 4, 0), Info(0, 0, 2),
   Info(0, 64, 64), Info(0, 8, 6)}

\* The image of the records between two addresses.
ImageOf(records, base, end, has_data) ==
  [base |-> base, end |-> end, has_data |-> has_data,
   pipelines |->
     [size \in SectorSizes |-> IF size = 0 THEN <<>>
                               ELSE pipeline_build(records, size)]]

MCImages == {ImageOf(MCRecords, 1, 6, TRUE), ImageOf(MCEmptyRecords, 1, 7, FALSE)}
MCOneImage == {ImageOf(MCRecords, 1, 6, TRUE)}

AnyInfo == CHOOSE info \in TargetInfos : TRUE

Reply(command, length) ==
  [command |-> command, length |-> length, info |-> AnyInfo]

InfoReplies ==
  {[command |-> uint8(RESP_TARGET_INFO + node_id), length |-> 8,
    info |-> info] : info \in TargetInfos}

\* Good and malformed target infos, every response the host knows, one it
\* ignores, one without payload and one of another node.
MCResponses ==
  InfoReplies
    \cup {Reply(uint8(RESP_TARGET_INFO + node_id), 4)}
    \cup {Reply(c, 1) : c \in {RESP_SEG_ACK, RESP_CRC_ACK, RESP_CRC_NACK,
                               RESP_APP_JUMP_ACK, RESP_SEG_NACK}}
    \cup {Reply(RESP_SEG_ACK, 0)}
=============================================================================
