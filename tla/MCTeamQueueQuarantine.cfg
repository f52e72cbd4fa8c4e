SPECIFICATION Spec
CONSTANTS
  Item = {i1}
  Worker = {w1}
  Caller = {c1}
  Key = {}
  Note = {n1}
  Calls <- RecoveryCalls
  Updates <- HandoutUpdates
  Marks = {"IDLE", "ARCHIVED"}
  NoKey = NoKey
  NoItem = NoItem
  Idle = Idle
INVARIANT QuarantineHolds
CHECK_DEADLOCK FALSE
