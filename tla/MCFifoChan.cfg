CONSTANTS
  Depth = 4
  t1 = t1
  t2 = t2
  NoToken = NoToken
  Token <- MCToken
  Marking <- MCMarking
  DataThresholds = {1, 2, 3, 5}
  SpaceThresholds = {1, 2, 4}
SPECIFICATION Spec
INVARIANTS
  TypeOK
  AreasAddUp
  EventsExact
  AssertionsHold
  SlotsValid
PROPERTY
  ImplementsStream
