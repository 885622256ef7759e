SPECIFICATION Spec
CONSTANTS
  DriverTypes = {4}
  Packets <- MCPackets
  NoiseBytes <- MCNoiseBytes
  MaxData = 14
  MaxFaults = 0
  crc16 <- MCcrc16
PROPERTIES
  Resynchronises
