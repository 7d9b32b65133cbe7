CONSTANTS
  t1 = t1
  t2 = t2
  t3 = t3
  Tasks <- MCTasks
  First = t1
  Notify <- MCNotify
  Sync <- MCSync
  Null = Null
SPECIFICATION FairSpec
CHECK_DEADLOCK FALSE
INVARIANTS TypeOK FamilyAgrees FreedOnce NoMissedChild
PROPERTIES WaitsForChildEnd
