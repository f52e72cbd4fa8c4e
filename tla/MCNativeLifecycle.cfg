SPECIFICATION LifecycleSpec
CONSTANTS
  Server = {s1, s2}
  Goal = {g1}
  CommandMaps <- Maps
  TheKey = k1
  NoRow = NoRow
  MaxCalls = 3
  MaxFaults = 1
  Run <- Runs
  Task <- Tasks
  RunOf <- Owner
  Deps <- ChainOf
  Key <- Keys
  DispatchId <- Dispatches
  Allowance <- OneUnit
  MaxTokens = 4
  MaxCost = 9
  MaxWorkers = 1
  ConfiguredWorkers = 1
  MaxReceipts = 6
  Tree = {tree0, tree1}
  InitTree = tree0
  NoDispatch = NoDispatch
  NoTree = NoTree
  NoVerdict = NoVerdict
  Idle = Idle
INVARIANT EvidenceIsGenuine
INVARIANT CompletedRunIsVerified
INVARIANT NoPhantomInFlight
PROPERTY FinishedRunsStayFinished
 
CHECK_DEADLOCK FALSE
