SPECIFICATION Spec
CONSTANTS
  a = a
  b = b
  x = x
  y = y
  NoToken = NoToken
  Color <- MCColors
  Data <- MCData
  VEntries <- MCWriters
  Marking <- MCMarking
  Depth = 3
  fifoOutOfOrder = 0
  DataThresholds = {1, 2, 3}
  SpaceThresholds = {1, 2}
INVARIANT SearchEnds
