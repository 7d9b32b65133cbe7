CONSTANTS
  Tasks = {t1, t2, t3}
  Messages = {m1}
  Sems = {s1, s2}
  SemList <- TwoSems
  Null = Null
  MaxHold = 2
  Simple = {s2}
  ListWithBids = FALSE
  s1 = s1
  s2 = s2
SPECIFICATION Spec
SYMMETRY TaskSymmetry
CHECK_DEADLOCK FALSE
INVARIANTS TypeOK CountsAgree MutualExclusion WakeMeansGranted NoLostWakeup WaitersHaveHolder BidAnsweredOnce
PROPERTIES ListObtainsAll ImplementsRWLock
