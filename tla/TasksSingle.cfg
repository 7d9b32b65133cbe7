CONSTANTS
  t1 = t1
  t2 = t2
  t3 = t3
  Tasks <- MCTasks
  First = t1
  Notify <- MCNotify
  Sync <- MCSync
  Null = Null
SPECIFICATION Spec
CHECK_DEADLOCK FALSE
INVARIANTS SingleMeansGranted
