SPECIFICATION Spec
CONSTANTS
  a = a
  b = b
  x = x
  y = y
  NoToken = NoToken
  Color <- MCColors
  Data <- MCData
  VEntries <- MCWriters
  Marking <- MCMarking
  Depth = 4
  fifoOutOfOrder = 1
  DataThresholds = {1, 2, 3}
  SpaceThresholds = {1, 2}
INVARIANT TypeOK
INVARIANT WindowExact
INVARIANT EventsExact
INVARIANT AssertionsHold
INVARIANT SlotsValid
PROPERTY EachIsAQueue
PROPERTY ImplementsStream
