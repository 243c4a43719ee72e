CONSTANTS
  Depth = 2
  t1 = t1
  t2 = t2
  NoToken = NoToken
  Idle = Idle
  Refused = Refused
  Unset = Unset
  Token <- TwoTokens
  Marking <- OneMarked
  DataThresholds = {1, 2}
  SpaceThresholds = {1}
  VoidToken <- VoidTick
  KeepsBytes = TRUE
SPECIFICATION AFairSpec
PROPERTIES
  ImplementsTlm
  ThreadsServed
