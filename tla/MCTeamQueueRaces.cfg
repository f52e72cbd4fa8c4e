SPECIFICATION Spec
CONSTANTS
  Item = {i1}
  Worker = {w1}
  Caller = {c1, c2}
  Key = {}
  Note = {n1}
  Calls <- AllCalls
  Updates <- DispatcherUpdates
  Marks = {"IDLE", "ARCHIVED"}
  NoKey = NoKey
  NoItem = NoItem
  Idle = Idle
INVARIANT HandoffOnce
INVARIANT CompletionIsEvidenced
SYMMETRY CallerSymmetry
