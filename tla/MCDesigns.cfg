CONSTANTS Iter = 6
 Steps = 2
 Factor = 2
 Dummies = 1
SPECIFICATION Spec
INVARIANT LogsAsGolden
PROPERTY RunsComplete
CHECK_DEADLOCK FALSE
