SPECIFICATION Spec
CONSTANTS
  DriverTypes = {1, 3}
  Packets <- MCPackets
  NoiseBytes <- MCNoiseBytes
  MaxData = 14
  MaxFaults = 1
  crc16 <- MCcrc16
INVARIANTS
  TypeOK
  CleanFrameHeard
PROPERTIES
  HeardWasSent
  Resynchronises
  FlushReturns
