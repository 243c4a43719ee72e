CONSTANTS
  Period = 3
  Offset = 1
  Jitter = 1
  Wrap = 32
  MaxTime = 12
SPECIFICATION Spec
INVARIANTS
  NoLostRelease
PROPERTIES
  Punctual
  OncePerPeriod
