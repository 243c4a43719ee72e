CONSTANTS
  src = src
  mid = mid
  snk = snk
  c1 = c1
  c2 = c2
  rst = rst
  None = None
  Chan = {c1, c2}
  Node <- SharedNode
  ResetChan = {rst}
  Shared = {c1}
  Depth <- ThreeDeep
  Marking <- OneEach
  ResetScope <- ResetAll
  Initial <- SharedInitial
  Rules <- SharedRules
SPECIFICATION Spec
CHECK_DEADLOCK FALSE
INVARIANTS
  EventsTrue
  ChoiceExact
PROPERTY
  ImplementsDataflow
