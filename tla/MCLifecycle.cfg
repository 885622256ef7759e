SPECIFICATION Spec
CONSTANTS
  Threads <- MCThreads
  Packets <- MCPackets
  Nodes = {n1, n2, n3}
  NULL = NULL
  DriverTypes = {1, 2, 3, 4}
  MaxPackets = 3
INVARIANTS
  CallsWhileAlive
  NodesFreed
  PortClosed
PROPERTIES
  ImplementsFifo
  ExitCompletes
\* The program ends.
CHECK_DEADLOCK FALSE
