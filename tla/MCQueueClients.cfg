SPECIFICATION ClientsSpec
CONSTANTS
  Threads <- MCThreads
  Producers = {p1, p2}
  Consumers = {c1, c2}
  Packets <- MCPackets
  Nodes = {n1, n2, n3}
  NULL = NULL
  MaxPushes = 3
INVARIANTS
  QueueWellFormed
  PopFindsNode
  NoLostWakeup
PROPERTIES
  ImplementsFifo
  PacketReachesWaiter
\* A consumer may wait for a packet nobody pushes.
CHECK_DEADLOCK FALSE
