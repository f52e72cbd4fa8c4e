SPECIFICATION Spec
CONSTANTS
  Action = {a1}
  Sup = {s1, s2}
  ActionBound = {s1}
  Operator = {o1, o2}
  Question = {q1}
  NoOperator = NoOperator
  NoRow = NoRow
  Unlocked = Unlocked
INVARIANT OneTicket
INVARIANT DecisionAudited
INVARIANT TicketsAreActionBound
PROPERTY NoLostUpdate
PROPERTY ImplementsOneShot
CHECK_DEADLOCK FALSE
