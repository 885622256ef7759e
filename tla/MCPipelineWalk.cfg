SPECIFICATION Spec
CONSTANTS
  AddrSpace = 8
  PageSize = 4
  Files <- MCFiles
  SectorSizes = {2, 4}
  SegmentSizes = {1, 3}
  MaxRewinds = 1
INVARIANTS
  RangeHoldsImage
  BuildMatchesImage
  ImageAsAssumed
  SegmentsCoverSector
  SegmentsWithinEstimate
\* The walk stops after the last sector.
CHECK_DEADLOCK FALSE
