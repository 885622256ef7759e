SPECIFICATION SysSpec
CONSTANTS
  AddrSpace <- MCAddrSpace
  node_id = 2
  DriverTypes = {1}
  Images <- MCImages
  TargetInfos <- MCTargetInfos
  Responses <- MCResponses
  SendOutcomes = {TRUE}
  RxqBound = 3
  TxBound = 3
  NULL = NULL
  AckLength = 1
  MaxLostCommands = 2
  MaxLostResponses = 2
  MaxRepeats = 2
  MaxWriteFaults = 3
  MaxResets = 2
INVARIANTS
  ConfirmedIsFlashed
  StartedIsComplete
  StopAndWait
PROPERTIES
  ImplementsFirmwareUpdate
  UpdateCompletes
\* The system stops once the host has exited; after a loss it waits for good.
CHECK_DEADLOCK FALSE
