SPECIFICATION Spec
CONSTANTS
  AddrSpace <- MCAddrSpace
  node_id = 2
  DriverTypes = {1, 3}
  Images <- MCImages
  TargetInfos <- MCTargetInfos
  Responses <- MCResponses
  SendOutcomes = {TRUE, FALSE}
  RxqBound = 1
  TxBound = 2
  NULL = NULL
INVARIANTS
  TypeOK
  InternalEventsHandled
  DataFramesSound
  VerifyAfterWalk
  AttemptsBounded
  ProgressWithinTotal
  StartAfterAllSectors
  Phases
PROPERTIES
  StoppedIsQuiet
  NoValidByteSkipped
\* The host stops after an abort, after completion and on SIGINT.
CHECK_DEADLOCK FALSE
