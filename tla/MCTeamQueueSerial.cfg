SPECIFICATION Spec
CONSTANTS
  Item = {i1, i2}
  Worker = {w1}
  Caller = {c1}
  Key = {k1}
  Note = {n1}
  Calls <- ForwardCalls
  Updates <- DispatcherUpdates
  Marks = {"IDLE", "ARCHIVED"}
  NoKey = NoKey
  NoItem = NoItem
  Idle = Idle
INVARIANT DedupHolds
 
PROPERTY LateHandoffRejected
