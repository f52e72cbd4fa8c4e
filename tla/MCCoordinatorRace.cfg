SPECIFICATION Spec
CONSTANTS
  t1 = t1
  t2 = t2
  r1 = r1
  r2 = r2
  Task = {t1, t2}
  Run = {r1, r2}
  RunOf <- RaceRunOf
  Deps <- RaceDeps
  Key = {k1, k2}
  Tree = {treeA}
  InitTree = treeA
  DispatchId <- MCDispatchId
  Allowance <- MixedAllowance
  MaxTokens = 3
  MaxCost = 2
  MaxWorkers = 1
  ConfiguredWorkers = 2
  MaxReceipts = 1
  NoDispatch = NoDispatch
  NoTree = NoTree
  NoVerdict = NoVerdict
  Idle = Idle
INVARIANT NoUnpaidDispatch
INVARIANT CeilingsHold
SYMMETRY RaceSymmetry
CHECK_DEADLOCK FALSE
