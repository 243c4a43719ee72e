CONSTANTS
  src = src
  mid = mid
  snk = snk
  c1 = c1
  c2 = c2
  rst = rst
  None = None
  Chan = {c1, c2}
  Node <- PipelineNode
  ResetChan = {}
  Shared = {}
  Depth <- TwoDeep
  Marking <- OneEach
  ResetScope <- NoScope
  Initial <- PipelineInitial
  Rules <- PipelineRules
SPECIFICATION FairSpec
CHECK_DEADLOCK FALSE
INVARIANTS
  TypeOK
  NoLostActivation
PROPERTIES
  GuardsSeeTokens
  Served
  ImplementsDataflow
