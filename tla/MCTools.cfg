SPECIFICATION ToolsSpec
CONSTANTS
  CommandLines <- Lines
  Flags <- FlagSets
  Defaults <- DefaultOptions
  ActorCount = 3
  Borders <- Requested
  DelayFactors = {1}
  InternalComm = 100
  BorderComm = 9
  ReadRatios = {0, 2}
  ElaboratedDesigns <- Dumpable
  CommScales = {3}
CHECK_DEADLOCK FALSE
INVARIANTS ShapeAsRequested DelaysSuffice WithinBudget RoundTrip DumpExact
PROPERTY Finishes
