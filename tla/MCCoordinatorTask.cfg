SPECIFICATION Spec
CONSTANTS
  t1 = t1
  t2 = t2
  r1 = r1
  r2 = r2
  Task = {t1}
  Run = {r1}
  RunOf <- SoloRunOf
  Deps <- SoloDeps
  Key = {k1, k2}
  Tree = {treeA, treeB}
  InitTree = treeA
  DispatchId <- MCDispatchId
  Allowance <- UnitAllowance
  MaxTokens = 3
  MaxCost = 3
  MaxWorkers = 2
  ConfiguredWorkers = 2
  MaxReceipts = 2
  NoDispatch = NoDispatch
  NoTree = NoTree
  NoVerdict = NoVerdict
  Idle = Idle
INVARIANT TypeOK
INVARIANT VerifiedIsEarned
INVARIANT ReservationsAccountedFor
INVARIANT ExhaustedNeverVerified
CHECK_DEADLOCK FALSE
