CONSTANTS
  a = a
  b = b
  c = c
  SoftInts = {a}
  Pri <- Priorities
  None = None
  MaxNest = 1
SPECIFICATION Spec
INVARIANTS SchedulerAlone
