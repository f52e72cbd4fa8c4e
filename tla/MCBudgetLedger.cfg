SPECIFICATION LedgerSpec
CONSTANTS
  DispatchId = {d1, d2, d3}
  Allowance <- MCAllowance
  MaxTokens = 3
  MaxCost = 3
  MaxWorkers = 2
INVARIANT CeilingsHold
INVARIANT NoBudgetCreated
CHECK_DEADLOCK FALSE
