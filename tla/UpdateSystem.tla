---------------------------- MODULE UpdateSystem ----------------------------
(***************************************************************************)
(* The host of HostFsm closed with a target bootloader and a link.  The    *)
(* target is not part of the repository: it is modelled from the protocol  *)
(* the host speaks with it (the command and response tables of the README, *)
(* the comments of fsm_actions.c).  It buffers one sector, checks and      *)
(* writes it on CMD_PIPELINE_VERIFY, and answers each command it accepts.  *)
(*                                                                         *)
(* The link keeps the order of frames.  Bounded numbers of frames are lost *)
(* (or arrive with a bad CRC), of answers repeated, of flash writes failed *)
(* and of target resets are part of the runs.                              *)
(***************************************************************************)
EXTENDS HostFsm, FiniteSets

CONSTANTS AckLength,        \* payload bytes of the acknowledgements
          MaxLostCommands,  \* bound: frames lost on the way to the target
          MaxLostResponses, \* bound: frames lost on the way to the host
          MaxRepeats,       \* bound: answers the target repeats
          MaxWriteFaults,   \* bound: flash writes that fail
          MaxResets         \* bound: target resets

ASSUME SystemAssumption ==
  /\ \E info \in TargetInfos : TargetInfos = {info} /\ info.sector_size > 0
  /\ \E hex \in Images : Images = {hex} /\ hex.has_data
  /\ AckLength \in 0 .. COMM_MAX_DATA
  /\ {MaxLostCommands, MaxLostResponses, MaxRepeats, MaxWriteFaults,
      MaxResets} \subseteq Nat

VARIABLES
  to_host,          \* frames on the way to the host
  target_mode,      \* "boot", or "app" once the application runs
  target_buffer,    \* the sector being received, or NULL
  flash,            \* sector base address -> content, NULL when not written
  last_answer,      \* the answer a target may repeat, or NULL
  lost_commands, lost_responses,
  repeats, write_faults, resets

targetVars == <<target_mode, target_buffer, flash, last_answer>>
faultVars  == <<lost_commands, lost_responses, repeats, write_faults, resets>>
sysVars    == <<vars, to_host, targetVars, faultVars>>

TheInfo == CHOOSE info \in TargetInfos : TRUE
Image   == (CHOOSE hex \in Images : TRUE).pipelines[TheInfo.sector_size]
Bases   == {Image[k].base_addr : k \in DOMAIN Image}

\* What find_sector and insert_record make of an image; a sum is no NULL.
ASSUME SectorsAssumption ==
  /\ SectorsApart(Image, TheInfo.sector_size)
  /\ \A k \in DOMAIN Image : pipeline_sector_crc(Image[k]) # NULL

AnswerPacket(command, length) ==
  [command |-> command, length |-> length, info |-> TheInfo]

\* The answers of this target are among the responses the host is ready for.
ASSUME AnswersAssumption ==
  /\ AnswerPacket(uint8(RESP_TARGET_INFO + node_id), 8) \in Responses
  /\ \A command \in {RESP_SEG_ACK, RESP_CRC_ACK, RESP_CRC_NACK,
                      RESP_APP_JUMP_ACK} :
       AnswerPacket(command, AckLength) \in Responses

SysInit ==
  /\ Init
  /\ to_host = <<>>
  /\ target_mode = "boot"
  /\ target_buffer = NULL
  /\ flash = [base \in Bases |-> NULL]
  /\ last_answer = NULL
  /\ lost_commands = 0
  /\ lost_responses = 0
  /\ repeats = 0
  /\ write_faults = 0
  /\ resets = 0

-----------------------------------------------------------------------------
(* The target. *)

Answer(command, length) ==
  /\ to_host' = Append(to_host, AnswerPacket(command, length))
  /\ last_answer' = AnswerPacket(command, length)

\* The oldest frame on the way arrives at a target in its bootloader.
Arrives(command) ==
  /\ target_mode = "boot"
  /\ to_target # <<>>
  /\ Head(to_target).command = command
  /\ to_target' = Tail(to_target)
  /\ UNCHANGED <<setupVars, pc, app_running, fsmVars, rx_queue, ctxVars,
                 lost_commands, lost_responses, repeats, resets>>

TargetReset ==
  /\ Arrives(uint8(CMD_RESET_REQ + node_id))
  /\ target_buffer' = NULL
  /\ Answer(uint8(RESP_TARGET_INFO + node_id), 8)
  /\ UNCHANGED <<target_mode, flash, write_faults>>

\* A sector buffer starts out erased.
FreshBuffer(base) ==
  [base |-> base,
   data |-> [i \in 1 .. TheInfo.sector_size |-> ErasedByte]]

\* The buffer with a segment stored; a segment of another sector than the
\* buffered one starts a new buffer.
Stored(buffer, frame) ==
  LET base  == sector_base(frame.addr, TheInfo.sector_size)
      start == IF buffer # NULL /\ buffer.base = base
               THEN buffer ELSE FreshBuffer(base)
      first == frame.addr - base
  IN  [start EXCEPT !.data =
         [i \in DOMAIN @ |-> IF i - first \in DOMAIN frame.data
                             THEN frame.data[i - first] ELSE @[i]]]

TargetData ==
  /\ Arrives(CMD_PIPELINE_DATA)
  /\ target_buffer' = Stored(target_buffer, Head(to_target))
  /\ Answer(RESP_SEG_ACK, AckLength)
  /\ UNCHANGED <<target_mode, flash, write_faults>>

\* The sum the host sent is that of the buffered sector.
SumMatches == target_buffer # NULL /\ target_buffer.data = Head(to_target).data

\* The buffer is dropped in every case: a retry sends the sector anew.
TargetVerifyOk ==
  /\ Arrives(CMD_PIPELINE_VERIFY)
  /\ SumMatches
  /\ flash' = [flash EXCEPT ![target_buffer.base] = target_buffer.data]
  /\ target_buffer' = NULL
  /\ Answer(RESP_CRC_ACK, AckLength)
  /\ UNCHANGED <<target_mode, write_faults>>

TargetVerifyMismatch ==
  /\ Arrives(CMD_PIPELINE_VERIFY)
  /\ ~SumMatches
  /\ target_buffer' = NULL
  /\ Answer(RESP_CRC_NACK, AckLength)
  /\ UNCHANGED <<target_mode, flash, write_faults>>

\* The write, or its read-back, fails: the flash sector is left undefined.
TargetWriteFault ==
  /\ write_faults < MaxWriteFaults
  /\ Arrives(CMD_PIPELINE_VERIFY)
  /\ SumMatches
  /\ write_faults' = write_faults + 1
  /\ flash' = [flash EXCEPT ![target_buffer.base] = NULL]
  /\ target_buffer' = NULL
  /\ Answer(RESP_CRC_NACK, AckLength)
  /\ UNCHANGED target_mode

TargetStart ==
  /\ Arrives(CMD_START_APP)
  /\ target_mode' = "app"
  /\ Answer(RESP_APP_JUMP_ACK, AckLength)
  /\ UNCHANGED <<target_buffer, flash, write_faults>>

Target ==
  \/ TargetReset
  \/ TargetData
  \/ TargetVerifyOk
  \/ TargetVerifyMismatch
  \/ TargetWriteFault
  \/ TargetStart

\* The target has heard nothing since its last answer and sends it again.
TargetRepeats ==
  /\ repeats < MaxRepeats
  /\ last_answer # NULL
  /\ to_target = <<>>
  /\ repeats' = repeats + 1
  /\ to_host' = Append(to_host, last_answer)
  /\ UNCHANGED <<vars, targetVars, lost_commands, lost_responses, write_faults,
                 resets>>

\* The bootloader restarts: the buffer is lost, the flash is not.
TargetRestarts ==
  /\ resets < MaxResets
  /\ target_mode = "boot"
  /\ resets' = resets + 1
  /\ target_buffer' = NULL
  /\ last_answer' = NULL
  /\ UNCHANGED <<vars, to_host, target_mode, flash, lost_commands,
                 lost_responses, repeats, write_faults>>

-----------------------------------------------------------------------------
(* The link. *)

LoseCommand ==
  /\ lost_commands < MaxLostCommands
  /\ FrameLeaves
  /\ lost_commands' = lost_commands + 1
  /\ UNCHANGED <<to_host, targetVars, lost_responses, repeats, write_faults,
                 resets>>

\* Lost, or received with a CRC mismatch: comm_rx_thread goes on with the
\* next frame.
LoseResponse ==
  /\ lost_responses < MaxLostResponses
  /\ to_host # <<>>
  /\ to_host' = Tail(to_host)
  /\ lost_responses' = lost_responses + 1
  /\ UNCHANGED <<vars, targetVars, lost_commands, repeats, write_faults,
                 resets>>

\* One pass of comm_rx_thread over a complete frame; a packet without
\* payload is received and not queued.
RxThread ==
  /\ to_host # <<>>
  /\ to_host' = Tail(to_host)
  /\ \/ comm_rx_thread(Head(to_host))
     \/ /\ ~Queued(Head(to_host))
        /\ UNCHANGED vars
  /\ UNCHANGED <<targetVars, faultVars>>

HostStep == Host /\ UNCHANGED <<to_host, targetVars, faultVars>>

Sigint == handle_sigint /\ UNCHANGED <<to_host, targetVars, faultVars>>

SysNext ==
  \/ HostStep
  \/ Sigint
  \/ RxThread
  \/ Target
  \/ TargetRepeats
  \/ TargetRestarts
  \/ LoseCommand
  \/ LoseResponse

\* The main loop and the RX thread never block for good, and a target that
\* has received a command answers it; faults need not happen.
Fairness ==
  /\ WF_sysVars(HostStep)
  /\ WF_sysVars(RxThread)
  /\ WF_sysVars(Target)

SysSpec == SysInit /\ [][SysNext]_sysVars /\ Fairness

-----------------------------------------------------------------------------
(* Correctness. *)

\* The sectors whose content is in the target's flash.
Written == {k \in DOMAIN Image :
              flash[Image[k].base_addr] = pipeline_sector_crc(Image[k])}

\* What the host has counted as written is in the target's flash, through
\* lost frames, repeated answers, failed writes and target resets.
ConfirmedIsFlashed == 1 .. current_sector \subseteq Written

\* The application runs only with the complete image in flash.
StartedIsComplete == target_mode = "app" => Written = DOMAIN Image

\* Answers on their way that act on the FSM: in the link, the RX queue and
\* the event queue.
Outstanding ==
  Len(to_target) + Len(to_host) + Len(rx_queue)
    + Cardinality({n \in DOMAIN fsm_queue :
                     fsm_queue[n].type \in ExternalEvents})

\* One command at a time: the next one is sent only when the one before has
\* been answered (RELEASE_v1.0.0.md: "every segment waits for RESP_SEG_ACK
\* before the next is sent").  An answer the target repeats adds one command
\* at most, for good, and losses, failed writes and resets add none.
StopAndWait == Outstanding <= 1 + repeats

\* The update ends with the application started or with the retry limit of a
\* sector reached, unless it is interrupted or a frame is lost: repeated
\* answers, target resets and failed writes do not stall it.
UpdateCompletes ==
  <>(\/ ~app_running
     \/ lost_commands + lost_responses > 0
     \/ pc = "exit" /\ (current_state = "ST_DONE" \/ retry_count = MAX_RETRY))

\* comm_manager.c on a response with a bad CRC: "The host will time out and
\* resend its last command if needed", so that the update goes on.
LossRecovered ==
  lost_responses > 0 ~> ~app_running \/ pc = "exit"

-----------------------------------------------------------------------------
(* The abstract specification. *)

AbstractPhase ==
  CASE current_state = "ST_DONE"                   -> "done"
    [] ~fsm_running /\ current_state # "ST_DONE"   -> "failed"
    [] target_mode = "app" /\ fsm_running          -> "started"
    [] target_mode = "boot" /\ fsm_running
         /\ current_state \in {"ST_INIT", "ST_SEND_RESET"} -> "idle"
    [] OTHER -> "flashing"

Abstract ==
  INSTANCE FirmwareUpdate WITH N          <- Len(Image),
                               phase      <- AbstractPhase,
                               programmed <- Written,
                               confirmed  <- current_sector

\* The system is a firmware update in the sense of FirmwareUpdate.
ImplementsFirmwareUpdate == Abstract!Spec

=============================================================================
