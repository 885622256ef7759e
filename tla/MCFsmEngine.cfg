SPECIFICATION Spec
CONSTANTS
  States <- MCStates
  Parent <- MCParent
  Types = {"e", "f"}
  Table <- MCTable
  Nodes = {n1, n2, n3}
  NULL = NULL
INVARIANTS
  EventsAccounted
  ParentsEnteredFirst
  EnteredIsCurrent
PROPERTIES
  ImplementsRunToCompletion
  EventsHandled
\* The main loop ends once an action has cleared fsm_running.
CHECK_DEADLOCK FALSE
