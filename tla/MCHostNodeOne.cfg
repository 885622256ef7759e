SPECIFICATION Spec
CONSTANTS
  AddrSpace <- MCAddrSpace
  node_id = 1
  DriverTypes = {1}
  Images <- MCOneImage
  TargetInfos <- MCTargetInfos
  Responses <- MCResponses
  SendOutcomes = {TRUE}
  RxqBound = 2
  TxBound = 2
  NULL = NULL
PROPERTIES
  SegAckBecomesEvent
\* The host stops after an abort, after completion and on SIGINT.
CHECK_DEADLOCK FALSE
