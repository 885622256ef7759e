------------------------------ MODULE HostFsm -------------------------------
(***************************************************************************)
(* The host side of a firmware update: the main loop of init/main.c, the   *)
(* event engine of utility/fsm.c, the transition table of                  *)
(* init/fsm_table.c and the actions of init/fsm_actions.c, with the queue  *)
(* through which comm_rx_thread hands over responses.                      *)
(*                                                                         *)
(* The environment is open: any response may arrive at any time, and the   *)
(* frames handed to the transport are taken away one by one.  UpdateSystem *)
(* closes it with a target and a link.                                     *)
(*                                                                         *)
(* A step is one iteration of the main loop's poll, or the whole handling  *)
(* of one event by fsm_run: pop, action with its sends and dispatches, and *)
(* the change of state.  Only the main thread touches this state, the RX   *)
(* queue excepted, so coarser steps hide no interleaving.                  *)
(***************************************************************************)
EXTENDS BlProtocol, Pipeline

CONSTANTS
  node_id,              \* -n on the command line; -1 is refused there
  DriverTypes,          \* transports considered
  Images,               \* HEX images considered
  TargetInfos,          \* payloads of RESP_TARGET_INFO considered
  Responses,            \* response packets considered
  SendOutcomes,         \* {TRUE}, or {TRUE, FALSE} when a send may fail
  RxqBound,             \* bound: responses waiting in the RX queue
  TxBound,              \* bound: frames waiting in the transport at a poll
  NULL                  \* the NULL pointer

TargetInfo ==
  [flash_addr : Nat, sector_size : uint16, segment_size : uint16]

\* comm_packet_t as it is received; info is what a RESP_TARGET_INFO carries.
Response ==
  [command : 0 .. 255, length : 0 .. COMM_MAX_DATA, info : TargetInfos]

SectorSizes == {info.sector_size : info \in TargetInfos}

ASSUME CommandLineAssumption ==
  /\ node_id \in Int \ {-1}
  /\ DriverTypes \subseteq {SERIAL, TCP, CAN, UDP}

\* read_hex_file: both addresses, the lowest and the highest plus one, are
\* taken over the data records; there may be data records and no byte.
ASSUME ImageAssumption ==
  \A hex \in Images :
    /\ hex.base \in Nat
    /\ hex.end \in Nat
    /\ hex.has_data \in BOOLEAN
    /\ hex.has_data => hex.base < hex.end

\* What pipeline_build returns for each sector size: a sector array whose
\* programmed bytes lie in the image, empty when there is no byte to place.
ASSUME PipelineAssumption ==
  \A hex \in Images :
    /\ DOMAIN hex.pipelines = SectorSizes
    /\ \A size \in SectorSizes :
         LET built == hex.pipelines[size]
         IN  /\ SectorsWithin(built, size, hex.base, hex.end)
             /\ built # <<>> => hex.has_data
             /\ hex.has_data /\ size # 0 => built # <<>>

ASSUME EnvironmentAssumption ==
  /\ TargetInfos \subseteq TargetInfo
  /\ Responses \subseteq Response
  /\ SendOutcomes \subseteq BOOLEAN
  /\ RxqBound \in Nat
  /\ TxBound \in Nat

VARIABLES
  driver_type,      \* set by transport_init
  image,            \* what read_hex_file has made of the HEX file
  pc,               \* main thread: "poll", "run", "exit" or "undefined"
  app_running,      \* cleared by the SIGINT handler
  fsm_running,      \* cleared by the actions that stop the FSM
  current_state,
  fsm_queue,        \* the FSM's event queue
  rx_queue,         \* handle_queue_receive_packets
  sector_size, segment_size, sectors, current_sector, offset,
  retry_count, max_retries,                      \* bootloader_ctx_t
  segments_sent, total_segments,                 \* the progress counters
  to_target,        \* frames handed to the driver, not yet on the wire
  app_start         \* ghost: flash_addr of the accepted target info

setupVars    == <<driver_type, image>>   \* never written by the main loop
queueVars    == <<rx_queue>>
fsmVars      == <<fsm_running, current_state, fsm_queue>>
paramVars    == <<sector_size, segment_size, max_retries, app_start>>
cursorVars   == <<sectors, current_sector, offset, retry_count>>
progressVars == <<segments_sent, total_segments>>
ctxVars      == <<paramVars, cursorVars, progressVars>>

vars == <<setupVars, pc, app_running, fsmVars, queueVars, ctxVars, to_target>>

hex_base_address == image.base
hex_end_address  == image.end
image_has_data   == image.has_data
PipelineOf       == image.pipelines

-----------------------------------------------------------------------------
States == {"ST_INIT", "ST_SEND_RESET", "ST_BUILD_PIPELINE", "ST_SEND_WINDOW",
           "ST_VERIFY", "ST_NEXT_SECTOR", "ST_APP_JUMP", "ST_DONE"}

\* Events an action of the FSM sends to itself, and events from the target.
InternalEvents == {"EVT_START", "EVT_SECTOR_END", "EVT_ALL_SECTORS_DONE"}
ExternalEvents == {"EVT_TARGET_INFO", "EVT_SEG_ACK", "EVT_CRC_OK",
                   "EVT_CRC_NACK", "EVT_APP_ACK"}

Row(from, event, to, action) ==
  [from |-> from, event |-> event, to |-> to, action |-> action]

\* Variation: the rows after act_target_info are missing.
fsm_table_incomplete ==
  {Row("ST_INIT",           "EVT_START",            "ST_SEND_RESET",
       "act_send_reset"),
   Row("ST_SEND_RESET",     "EVT_TARGET_INFO",      "ST_BUILD_PIPELINE",
       "act_target_info"),
   Row("ST_SEND_WINDOW",    "EVT_START",            "ST_SEND_WINDOW",
       "act_send_window"),
   Row("ST_SEND_WINDOW",    "EVT_SEG_ACK",          "ST_SEND_WINDOW",
       "act_send_window")}

fsm_table ==
  {Row("ST_INIT",           "EVT_START",            "ST_SEND_RESET",
       "act_send_reset"),
   Row("ST_SEND_RESET",     "EVT_TARGET_INFO",      "ST_BUILD_PIPELINE",
       "act_target_info"),
   Row("ST_BUILD_PIPELINE", "EVT_START",            "ST_SEND_WINDOW",
       "act_build_pipeline"),
   Row("ST_SEND_WINDOW",    "EVT_START",            "ST_SEND_WINDOW",
       "act_send_window"),
   Row("ST_SEND_WINDOW",    "EVT_SEG_ACK",          "ST_SEND_WINDOW",
       "act_send_window"),
   Row("ST_SEND_WINDOW",    "EVT_SECTOR_END",       "ST_VERIFY",
       "act_crc_verify"),
   Row("ST_VERIFY",         "EVT_CRC_OK",           "ST_NEXT_SECTOR",
       "act_next_sector"),
   Row("ST_VERIFY",         "EVT_CRC_NACK",         "ST_SEND_WINDOW",
       "act_crc_nack"),
   Row("ST_NEXT_SECTOR",    "EVT_START",            "ST_SEND_WINDOW",
       "act_send_window"),
   Row("ST_NEXT_SECTOR",    "EVT_ALL_SECTORS_DONE", "ST_APP_JUMP",
       "act_app_jump"),
   Row("ST_APP_JUMP",       "EVT_APP_ACK",          "ST_DONE",
       "act_done")}

HasRow(state, event) ==
  \E row \in fsm_table : row.from = state /\ row.event = event

Event(type) == [type |-> type, data |-> NULL]

-----------------------------------------------------------------------------
(* Helpers of the actions. *)

\* Variation: the two verdicts on a sector are swapped.
SignalOf_swapped(pkt) ==
  IF pkt.command = uint8(RESP_TARGET_INFO + node_id)
  THEN <<[type |-> "EVT_TARGET_INFO", data |-> pkt]>>
  ELSE CASE pkt.command = RESP_SEG_ACK      -> <<Event("EVT_SEG_ACK")>>
         [] pkt.command = RESP_CRC_ACK      -> <<Event("EVT_CRC_NACK")>>
         [] pkt.command = RESP_CRC_NACK     -> <<Event("EVT_CRC_OK")>>
         [] pkt.command = RESP_APP_JUMP_ACK -> <<Event("EVT_APP_ACK")>>
         [] OTHER -> <<>>

\* act_fsm_signal_generation: the event a response turns into, as a sequence
\* of at most one.  The runtime comparison with the node comes first.
SignalOf(pkt) ==
  IF pkt.command = uint8(RESP_TARGET_INFO + node_id)
  THEN <<[type |-> "EVT_TARGET_INFO", data |-> pkt]>>
  ELSE CASE pkt.command = RESP_SEG_ACK      -> <<Event("EVT_SEG_ACK")>>
         [] pkt.command = RESP_CRC_ACK      -> <<Event("EVT_CRC_OK")>>
         [] pkt.command = RESP_CRC_NACK     -> <<Event("EVT_CRC_NACK")>>
         [] pkt.command = RESP_APP_JUMP_ACK -> <<Event("EVT_APP_ACK")>>
         [] OTHER -> <<>>

\* Variation: rule 2 is missing.
TargetInfoAccepted_any_start(pkt) ==
  /\ pkt.length = 8
  /\ hex_base_address < hex_end_address

\* act_target_info: the length test, then the two address rules.
TargetInfoAccepted(pkt) ==
  /\ pkt.length = 8
  /\ hex_base_address < hex_end_address
  /\ hex_base_address >= pkt.info.flash_addr

\* Variation: the clamp forgets the address header.
ClampedSegmentSize_no_header(seg) ==
  IF driver_type = CAN /\ seg > CAN_MAX_PAYLOAD THEN CAN_MAX_PAYLOAD ELSE seg

\* act_target_info: over CAN a frame holds the address and four data bytes.
ClampedSegmentSize(seg) ==
  IF driver_type = CAN /\ seg > CAN_MAX_PAYLOAD - ADDR_BYTES
  THEN CAN_MAX_PAYLOAD - ADDR_BYTES
  ELSE seg

SegsPerSector == (sector_size + segment_size - 1) \div segment_size

\* Variations: one attempt too many, one too few.
RetryLimitReached_late(count) == count > max_retries
RetryLimitReached_early(count) == count + 1 >= max_retries

RetryLimitReached(count) == count >= max_retries

\* Variation: the counter is not rewound.
RewoundSegments_none(sent) == sent

\* act_crc_nack: the progress counter loses one sector's worth.
RewoundSegments(sent) ==
  IF sent >= SegsPerSector THEN sent - SegsPerSector ELSE 0

Packet(command, length, addr, data) ==
  [command |-> command, length |-> length, addr |-> addr, data |-> data]

\* transport_send: what is framed.  Over CAN the payload is cut to one frame.
Framed(pkt) ==
  IF driver_type = CAN /\ pkt.length > CAN_MAX_PAYLOAD
  THEN [pkt EXCEPT !.length = CAN_MAX_PAYLOAD,
                   !.data = SubSeq(@, 1, CAN_MAX_PAYLOAD - ADDR_BYTES)]
  ELSE pkt

\* transport_send and its result: nothing reaches the wire when it fails.
Transmit(pkt, sent) ==
  to_target' = IF sent THEN Append(to_target, Framed(pkt)) ELSE to_target

Consume        == fsm_queue' = Tail(fsm_queue)
Dispatch(type) == fsm_queue' = Append(Tail(fsm_queue), Event(type))

\* fsm_run pops the head of the queue and finds a row for it.
Takes(action) ==
  /\ pc = "run"
  /\ fsm_queue # <<>>
  /\ \E row \in fsm_table :
       /\ row.from = current_state
       /\ row.event = Head(fsm_queue).type
       /\ row.action = action
       /\ current_state' = row.to
  /\ UNCHANGED <<setupVars, app_running, rx_queue>>

CurrentSector == sectors[current_sector + 1]

-----------------------------------------------------------------------------
Init ==
  /\ driver_type \in DriverTypes
  /\ image \in Images
  /\ pc = "poll"
  /\ app_running = TRUE
  /\ fsm_running = TRUE
  /\ current_state = "ST_INIT"
  /\ fsm_queue = <<Event("EVT_START")>>
  /\ rx_queue = <<>>
  /\ sector_size = 0
  /\ segment_size = 0
  /\ sectors = <<>>
  /\ current_sector = 0
  /\ offset = 0
  /\ retry_count = 0
  /\ max_retries = 0
  /\ segments_sent = 0
  /\ total_segments = 0
  /\ to_target = <<>>
  /\ app_start = 0

-----------------------------------------------------------------------------
(* The main loop and the engine. *)

MainLoopRuns == fsm_running /\ app_running

\* One call of act_fsm_signal_generation with a response waiting.
SignalGeneration ==
  /\ pc = "poll"
  /\ MainLoopRuns
  /\ rx_queue # <<>>
  /\ Len(to_target) < TxBound
  /\ fsm_queue' = fsm_queue \o SignalOf(Head(rx_queue))
  /\ rx_queue' = Tail(rx_queue)
  /\ pc' = "run"
  /\ UNCHANGED <<setupVars, app_running, fsm_running, current_state, ctxVars,
                 to_target>>

\* With no response waiting fsm_run still handles the very first EVT_START;
\* an iteration that finds both queues empty changes nothing.
EmptyPoll ==
  /\ pc = "poll"
  /\ MainLoopRuns
  /\ rx_queue = <<>>
  /\ fsm_queue # <<>>
  /\ pc' = "run"
  /\ UNCHANGED <<setupVars, app_running, fsmVars, rx_queue, ctxVars, to_target>>

\* fsm_run returns once the event queue is drained.
RunDone ==
  /\ pc = "run"
  /\ fsm_queue = <<>>
  /\ pc' = "poll"
  /\ UNCHANGED <<setupVars, app_running, fsmVars, rx_queue, ctxVars, to_target>>

\* fsm_run frees an event no row of the table matches.
DropEvent ==
  /\ pc = "run"
  /\ fsm_queue # <<>>
  /\ ~HasRow(current_state, Head(fsm_queue).type)
  /\ Consume
  /\ UNCHANGED <<setupVars, pc, app_running, fsm_running, current_state,
                 rx_queue, ctxVars, to_target>>

MainExit ==
  /\ pc = "poll"
  /\ ~MainLoopRuns
  /\ pc' = "exit"
  /\ UNCHANGED <<setupVars, app_running, fsmVars, rx_queue, ctxVars, to_target>>

handle_sigint ==
  /\ app_running
  /\ pc \in {"poll", "run"}
  /\ app_running' = FALSE
  /\ UNCHANGED <<setupVars, pc, fsmVars, rx_queue, ctxVars, to_target>>

-----------------------------------------------------------------------------
(* The actions of the transition table. *)

act_send_reset ==
  /\ Takes("act_send_reset")
  /\ \E sent \in SendOutcomes :
       Transmit(Packet(uint8(CMD_RESET_REQ + node_id), 1, 0, <<>>), sent)
  /\ Consume
  /\ UNCHANGED <<pc, fsm_running, ctxVars>>

\* Variation: the rejection goes on to the dispatch at the end.
act_target_info_reject_no_return ==
  /\ Takes("act_target_info")
  /\ ~TargetInfoAccepted(Head(fsm_queue).data)
  /\ sector_size' = Head(fsm_queue).data.info.sector_size
  /\ segment_size' = Head(fsm_queue).data.info.segment_size
  /\ fsm_running' = FALSE
  /\ Dispatch("EVT_START")
  /\ UNCHANGED <<pc, app_start, max_retries, cursorVars, progressVars,
                 to_target>>

act_target_info_reject ==
  /\ Takes("act_target_info")
  /\ ~TargetInfoAccepted(Head(fsm_queue).data)
  /\ fsm_running' = FALSE
  /\ Consume
  /\ UNCHANGED <<pc, ctxVars, to_target>>

act_target_info ==
  /\ Takes("act_target_info")
  /\ LET pkt == Head(fsm_queue).data
     IN  /\ TargetInfoAccepted(pkt)
         /\ sector_size' = pkt.info.sector_size
         /\ segment_size' = ClampedSegmentSize(pkt.info.segment_size)
         /\ app_start' = pkt.info.flash_addr
  /\ retry_count' = 0
  /\ max_retries' = MAX_RETRY
  /\ Dispatch("EVT_START")
  /\ UNCHANGED <<pc, fsm_running, sectors, current_sector, offset,
                 progressVars, to_target>>

\* A zero size from the target: addr % 0 in sector_base for the first data
\* byte, or the division by segment_size.
BuildFaults == segment_size = 0 \/ (sector_size = 0 /\ image_has_data)

act_build_pipeline ==
  /\ Takes("act_build_pipeline")
  /\ ~BuildFaults
  /\ sectors' = PipelineOf[sector_size]
  /\ total_segments' = Len(PipelineOf[sector_size]) * SegsPerSector
  /\ segments_sent' = 0
  /\ current_sector' = 0
  /\ offset' = 0
  /\ Dispatch("EVT_START")
  /\ UNCHANGED <<pc, fsm_running, paramVars, retry_count, to_target>>

\* The division by zero is undefined behaviour: nothing is said of the rest
\* of the run.
act_build_pipeline_undefined ==
  /\ Takes("act_build_pipeline")
  /\ BuildFaults
  /\ pc' = "undefined"
  /\ Consume
  /\ UNCHANGED <<fsm_running, ctxVars, to_target>>

Walk == pipeline_next_segment(CurrentSector, offset, segment_size)

\* memcpy(&tx_pkt.data[4], seg_data, len) stays inside tx_pkt.data.
FitsTxPacket(len) == ADDR_BYTES + len <= COMM_MAX_DATA

DataPacket(walk) ==
  Packet(CMD_PIPELINE_DATA, ADDR_BYTES + walk.len, walk.addr, walk.data)

\* Variation: the next segment is sent without waiting for the answer.
act_send_window_no_wait ==
  /\ Takes("act_send_window")
  /\ current_sector < Len(sectors)
  /\ Walk.len >= 0
  /\ FitsTxPacket(Walk.len)
  /\ offset' = Walk.offset
  /\ \E sent \in SendOutcomes :
       /\ Transmit(DataPacket(Walk), sent)
       /\ segments_sent' = IF sent THEN segments_sent + 1 ELSE segments_sent
  /\ Dispatch("EVT_START")
  /\ UNCHANGED <<pc, fsm_running, paramVars, sectors, current_sector,
                 retry_count, total_segments>>

act_send_window ==
  /\ Takes("act_send_window")
  /\ current_sector < Len(sectors)
  /\ Walk.len >= 0
  /\ FitsTxPacket(Walk.len)
  /\ offset' = Walk.offset
  /\ \E sent \in SendOutcomes :
       /\ Transmit(DataPacket(Walk), sent)
       /\ segments_sent' = IF sent THEN segments_sent + 1 ELSE segments_sent
  /\ Consume
  /\ UNCHANGED <<pc, fsm_running, paramVars, sectors, current_sector,
                 retry_count, total_segments>>

act_send_window_sector_end ==
  /\ Takes("act_send_window")
  /\ current_sector < Len(sectors)
  /\ Walk.len < 0
  /\ offset' = Walk.offset
  /\ Dispatch("EVT_SECTOR_END")
  /\ UNCHANGED <<pc, fsm_running, paramVars, sectors, current_sector,
                 retry_count, progressVars, to_target>>

\* The sector array is empty (NULL), so pb->sectors[0] is read through it.
act_send_window_null ==
  /\ Takes("act_send_window")
  /\ current_sector >= Len(sectors)
  /\ pc' = "undefined"
  /\ Consume
  /\ UNCHANGED <<fsm_running, ctxVars, to_target>>

\* The segment overruns tx_pkt.data and what lies behind it; the oversized
\* packet is handed over, nothing is said of the rest of the run.
act_send_window_overrun ==
  /\ Takes("act_send_window")
  /\ current_sector < Len(sectors)
  /\ Walk.len >= 0
  /\ ~FitsTxPacket(Walk.len)
  /\ Transmit(DataPacket(Walk), TRUE)
  /\ offset' = Walk.offset
  /\ pc' = "undefined"
  /\ Consume
  /\ UNCHANGED <<fsm_running, paramVars, sectors, current_sector, retry_count,
                 progressVars>>

act_crc_verify ==
  /\ Takes("act_crc_verify")
  /\ \E sent \in SendOutcomes :
       Transmit(Packet(CMD_PIPELINE_VERIFY, 4, 0,
                       pipeline_sector_crc(CurrentSector)), sent)
  /\ Consume
  /\ UNCHANGED <<pc, fsm_running, ctxVars>>

\* Variation: the sector is rewound along with the offset.
act_crc_nack_from_start ==
  /\ Takes("act_crc_nack")
  /\ ~RetryLimitReached(retry_count + 1)
  /\ retry_count' = retry_count + 1
  /\ current_sector' = 0
  /\ offset' = 0
  /\ segments_sent' = RewoundSegments(segments_sent)
  /\ Dispatch("EVT_START")
  /\ UNCHANGED <<pc, fsm_running, paramVars, sectors, total_segments, to_target>>

act_crc_nack ==
  /\ Takes("act_crc_nack")
  /\ ~RetryLimitReached(retry_count + 1)
  /\ retry_count' = retry_count + 1
  /\ offset' = 0
  /\ segments_sent' = RewoundSegments(segments_sent)
  /\ Dispatch("EVT_START")
  /\ UNCHANGED <<pc, fsm_running, paramVars, sectors, current_sector,
                 total_segments, to_target>>

act_crc_nack_abort ==
  /\ Takes("act_crc_nack")
  /\ RetryLimitReached(retry_count + 1)
  /\ retry_count' = retry_count + 1
  /\ fsm_running' = FALSE
  /\ Consume
  /\ UNCHANGED <<pc, paramVars, sectors, current_sector, offset, progressVars,
                 to_target>>

\* Variation: the last sector is left out.
AfterSector_early(next) ==
  IF next + 1 >= Len(sectors) THEN "EVT_ALL_SECTORS_DONE" ELSE "EVT_START"

\* The event that tells whether sectors remain.
AfterSector(next) ==
  IF next >= Len(sectors) THEN "EVT_ALL_SECTORS_DONE" ELSE "EVT_START"

\* Variations: the offset, or the retry counter, is left from the sector
\* before.
act_next_sector_keeps_offset ==
  /\ Takes("act_next_sector")
  /\ retry_count' = 0
  /\ current_sector' = current_sector + 1
  /\ Dispatch(AfterSector(current_sector + 1))
  /\ UNCHANGED <<pc, fsm_running, paramVars, sectors, offset, progressVars,
                 to_target>>

act_next_sector_keeps_retries ==
  /\ Takes("act_next_sector")
  /\ offset' = 0
  /\ current_sector' = current_sector + 1
  /\ Dispatch(AfterSector(current_sector + 1))
  /\ UNCHANGED <<pc, fsm_running, paramVars, sectors, retry_count,
                 progressVars, to_target>>

act_next_sector ==
  /\ Takes("act_next_sector")
  /\ retry_count' = 0
  /\ offset' = 0
  /\ current_sector' = current_sector + 1
  /\ Dispatch(AfterSector(current_sector + 1))
  /\ UNCHANGED <<pc, fsm_running, paramVars, sectors, progressVars, to_target>>

act_app_jump ==
  /\ Takes("act_app_jump")
  /\ \E sent \in SendOutcomes :
       Transmit(Packet(CMD_START_APP, 1, 0, <<>>), sent)
  /\ Consume
  /\ UNCHANGED <<pc, fsm_running, ctxVars>>

act_done ==
  /\ Takes("act_done")
  /\ segments_sent' = total_segments
  /\ fsm_running' = FALSE
  /\ Consume
  /\ UNCHANGED <<pc, paramVars, cursorVars, total_segments, to_target>>

FsmAction ==
  \/ act_send_reset
  \/ act_target_info_reject
  \/ act_target_info
  \/ act_build_pipeline
  \/ act_build_pipeline_undefined
  \/ act_send_window
  \/ act_send_window_sector_end
  \/ act_send_window_null
  \/ act_send_window_overrun
  \/ act_crc_verify
  \/ act_crc_nack
  \/ act_crc_nack_abort
  \/ act_next_sector
  \/ act_app_jump
  \/ act_done

Host ==
  \/ SignalGeneration
  \/ EmptyPoll
  \/ RunDone
  \/ DropEvent
  \/ MainExit
  \/ FsmAction

-----------------------------------------------------------------------------
(* The environment. *)

\* comm_rx_thread queues a packet only when transport_receive returns more
\* than zero, that is for a payload of at least one byte.
Queued(pkt) == pkt.length > 0

comm_rx_thread(pkt) ==
  /\ pc \in {"poll", "run"}
  /\ Queued(pkt)
  /\ Len(rx_queue) < RxqBound
  /\ rx_queue' = Append(rx_queue, pkt)
  /\ UNCHANGED <<setupVars, pc, app_running, fsmVars, ctxVars, to_target>>

\* The driver puts the oldest frame on the wire.
FrameLeaves ==
  /\ to_target # <<>>
  /\ to_target' = Tail(to_target)
  /\ UNCHANGED <<setupVars, pc, app_running, fsmVars, rx_queue, ctxVars>>

Next ==
  \/ Host
  \/ handle_sigint
  \/ \E pkt \in Responses : comm_rx_thread(pkt)
  \/ FrameLeaves

Spec == Init /\ [][Next]_vars

-----------------------------------------------------------------------------
(* Correctness. *)

Events ==
  [type : InternalEvents \cup ExternalEvents, data : Responses \cup {NULL}]

Frames ==
  [command : 0 .. 255, length : Nat, addr : Nat, data : Seq(Byte)]

\* Every variable keeps its C type; the sector array is empty or what
\* pipeline_build makes of the image for the accepted sector size.
TypeOK ==
  /\ driver_type \in DriverTypes
  /\ image \in Images
  /\ pc \in {"poll", "run", "exit", "undefined"}
  /\ app_running \in BOOLEAN
  /\ fsm_running \in BOOLEAN
  /\ current_state \in States
  /\ fsm_queue \in Seq(Events)
  /\ rx_queue \in Seq(Responses)
  /\ sector_size \in uint16
  /\ segment_size \in uint16
  /\ sectors = <<>> \/ (sector_size \in SectorSizes
                          /\ sectors = PipelineOf[sector_size])
  /\ current_sector \in 0 .. Len(sectors)
  /\ offset \in 0 .. sector_size
  /\ retry_count \in 0 .. MAX_RETRY
  /\ max_retries \in {0, MAX_RETRY}
  /\ segments_sent \in Nat
  /\ total_segments \in Nat
  /\ to_target \in Seq(Frames)
  /\ app_start \in Nat

\* An event the FSM dispatches to itself always finds a row: whatever
\* response is queued beside it, fsm_run never frees it unhandled, which
\* would leave the update waiting for an event nobody sends again.
InternalEventsHandled ==
  pc = "run" =>
    \A n \in DOMAIN fsm_queue :
      fsm_queue[n].type \in InternalEvents =>
        /\ n = 1
        /\ HasRow(current_state, fsm_queue[n].type)

\* Once an action has cleared fsm_running, what is left in the event queue
\* makes the host send nothing more, though fsm_run keeps draining it.
StoppedIsQuiet ==
  [][~fsm_running => Len(to_target') <= Len(to_target)]_vars

\* A CMD_PIPELINE_DATA lies inside one sector of the image, starts at a
\* programmed byte at or above the target's APP_START_ADDRESS (rule 2 of
\* act_target_info), carries that sector's bytes, and fits a CAN frame when
\* the transport is CAN.
DataFramesSound ==
  \A n \in DOMAIN to_target :
    LET frame == to_target[n]
    IN  frame.command = CMD_PIPELINE_DATA =>
          /\ frame.addr >= app_start
          /\ frame.length = ADDR_BYTES + Len(frame.data)
          /\ driver_type = CAN => frame.length <= CAN_MAX_PAYLOAD
          /\ \E k \in DOMAIN sectors :
               LET first == frame.addr - sectors[k].base_addr
               IN  /\ first \in 0 .. sectors[k].size - Len(frame.data)
                   /\ sectors[k].valid[first]
                   /\ \A i \in DOMAIN frame.data :
                        frame.data[i] = sectors[k].data[first + i - 1]

\* The bytes at sector offsets from .. to - 1 that frame carries.
Carries(frame, i) ==
  /\ frame.command = CMD_PIPELINE_DATA
  /\ CurrentSector.base_addr + i
       \in frame.addr .. frame.addr + Len(frame.data) - 1

\* The transport has refused a segment: the host waits for an answer to it.
SendRefused ==
  /\ act_send_window
  /\ UNCHANGED <<to_target, segments_sent>>

\* The programmed bytes the cursor passes in a step are in the frame of that
\* step, or in one that was refused.
PassesWithFrame ==
  \A i \in offset .. offset' - 1 :
    CurrentSector.valid[i] =>
      \/ /\ Len(to_target') > Len(to_target)
         /\ Carries(to_target'[Len(to_target')], i)
      \/ SendRefused

\* The cursor passes a programmed byte only with the frame that carries it,
\* or when that frame was refused: clamping, skipping and CAN framing lose
\* no byte.
NoValidByteSkipped == [][PassesWithFrame]_vars

\* Each transmission of a sector, the first or a retry, starts at byte 0.
SectorStartsAtZero ==
  /\ current_state \in {"ST_SEND_WINDOW", "ST_NEXT_SECTOR"}
  /\ fsm_queue # <<>>
  /\ Head(fsm_queue).type = "EVT_START"
  => offset = 0

\* A sector is put up for verification only when the walk has passed all of
\* its programmed bytes, whichever acknowledgements came too early or twice.
VerifyAfterWalk ==
  current_state = "ST_VERIFY" =>
    \A i \in offset .. CurrentSector.size - 1 : ~CurrentSector.valid[i]

\* At most MAX_RETRY transmissions of one sector: while the FSM runs the
\* retry counter has not reached the limit, and it is back at zero whenever
\* a sector has been confirmed.
AttemptsBounded ==
  /\ fsm_running => retry_count < MAX_RETRY
  /\ current_state \in {"ST_NEXT_SECTOR", "ST_APP_JUMP", "ST_DONE"}
       => retry_count = 0

\* The progress bar never exceeds 100%: sends, retries and rewinds keep the
\* count of segments sent within the total announced at build time.
ProgressWithinTotal == segments_sent <= total_segments

\* The application is started only after every sector of a non-empty image
\* has been confirmed.
StartAfterAllSectors ==
  current_state \in {"ST_APP_JUMP", "ST_DONE"} =>
    /\ sectors # <<>>
    /\ current_sector = Len(sectors)

-----------------------------------------------------------------------------
(* What the documentation says and the code does not do; see README. *)

\* fsm_actions.c, doc of act_fsm_signal_generation: "RESP_SEG_ACK ->
\* EVT_SEG_ACK", for every node.  Packets of length 8 are left aside: from a
\* node 1 they are target infos.
SegAckBecomesEvent ==
  [][/\ SignalGeneration
     /\ Head(rx_queue).command = RESP_SEG_ACK
     /\ Head(rx_queue).length # 8
     => fsm_queue' = Append(fsm_queue, Event("EVT_SEG_ACK"))]_vars

=============================================================================
