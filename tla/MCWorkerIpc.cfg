SPECIFICATION Spec
CONSTANTS
  build = build
  ask = ask
  Action = {a1}
  NoAction = NoAction
  Client = {c1, c2}
  Task = {build, ask}
  Kind <- MCKind
  For <- MCFor
  Harness = {h1}
  InitHarness = h1
  Budget = 2
  MaxCalls = 3
  MaxSpawns = 2
  NoTask = NoTask
  Nobody = Nobody
  Quiet = Quiet
  NoLine = NoLine
  NoTokens = NoTokens
 
INVARIANT CommandsRunOnce
 
INVARIANT NoDelayedReconfigure
INVARIANT LocksAreReleased
 
PROPERTY ImplementsOneShot
SYMMETRY ClientSymmetry
CHECK_DEADLOCK FALSE
