SPECIFICATION Spec
CONSTANTS
  i1 = i1
  i2 = i2
  i3 = i3
  a = a
  b = b
  Item = {i1, i2, i3}
  TaskOf <- MCTaskOf
  Step = {a, b}
  StepsOf <- MCStepsOf
  Single = {i3}
  p1 = p1
  Path = {p1}
  PathOf <- MCPathOf
  NoPath = NoPath
  Command <- MCCommand
  Expected <- MCExpected
  MaxHead = 2
  MaxFaults = 2
  NoCall = NoCall
  NoWork = NoWork
INVARIANT CompletedMeansRun
INVARIANT ReplaysAreOwed
INVARIANT EveryRunApproved
INVARIANT ClaimsAreReleased
CHECK_DEADLOCK FALSE
