----------------------------- MODULE BlProtocol -----------------------------
(***************************************************************************)
(* The wire vocabulary shared by the host and the target bootloader: the   *)
(* command and response codes of config/bl_protocol_config.h and the       *)
(* limits of config/app_config.h.  Codes stay numbers because the host     *)
(* does arithmetic on them: the node number is added to a base code in one *)
(* byte.                                                                   *)
(***************************************************************************)
EXTENDS Naturals

\* Commands, host to target.
CMD_RESET_REQ       == 16    \* 0x10, plus the node number
CMD_PIPELINE_DATA   == 17    \* 0x11
CMD_PIPELINE_VERIFY == 19    \* 0x13
CMD_START_APP       == 20    \* 0x14

\* Responses, target to host.
RESP_TARGET_INFO  == 48      \* 0x30, plus the node number
RESP_SEG_ACK      == 49      \* 0x31
RESP_SEG_NACK     == 50      \* 0x32
RESP_CRC_ACK      == 51      \* 0x33
RESP_CRC_NACK     == 52      \* 0x34
RESP_APP_JUMP_ACK == 55      \* 0x37

\* Transports (app_config.h).
SERIAL == 1
TCP    == 2
CAN    == 3
UDP    == 4

\* Bytes of payload in a classic CAN frame, and in comm_packet_t.data.
CAN_MAX_PAYLOAD == 8
COMM_MAX_DATA   == 64

\* The retry limit act_target_info installs.
MAX_RETRY == 2

\* Bytes of address before the firmware bytes of a CMD_PIPELINE_DATA.
ADDR_BYTES == 4

\* The range of a uint16_t.
UINT16_MAX == 65535
uint16 == 0 .. UINT16_MAX

\* (uint8_t)x : command bytes are one byte wide.
uint8(x) == x % 256
=============================================================================
