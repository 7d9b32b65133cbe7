CONSTANTS
  Tasks = {t1, t2}
  Messages = {}
  Sems = {s1, s2}
  SemList <- TwoSems
  Null = Null
  MaxHold = 1
  Simple = {}
  ListWithBids = FALSE
  s1 = s1
  s2 = s2
SPECIFICATION Spec
INVARIANT NoCountMismatch
CHECK_DEADLOCK FALSE
