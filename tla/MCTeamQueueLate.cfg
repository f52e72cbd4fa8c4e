SPECIFICATION Spec
CONSTANTS
  Item = {i1}
  Worker = {w1}
  Caller = {c1, c2}
  Key = {}
  Note = {n1}
  Calls <- HandoffCalls
  Updates <- HandoutUpdates
  Marks = {"IDLE", "ARCHIVED"}
  NoKey = NoKey
  NoItem = NoItem
  Idle = Idle
PROPERTY LateHandoffRejected
CHECK_DEADLOCK FALSE
