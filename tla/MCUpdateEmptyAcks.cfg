SPECIFICATION SysSpec
CONSTANTS
  AddrSpace <- MCAddrSpace
  node_id = 2
  DriverTypes = {1}
  Images <- MCImages
  TargetInfos <- MCTargetInfos
  Responses <- MCResponses
  SendOutcomes = {TRUE}
  RxqBound = 3
  TxBound = 3
  NULL = NULL
  AckLength = 0
  MaxLostCommands = 0
  MaxLostResponses = 0
  MaxRepeats = 0
  MaxWriteFaults = 0
  MaxResets = 0
PROPERTIES
  UpdateCompletes
\* The system stops once the host has exited; after a loss it waits for good.
CHECK_DEADLOCK FALSE
