CONSTANTS
  a = a
  b = b
  c = c
  SoftInts = {a, b, c}
  Pri <- Priorities
  None = None
  MaxNest = 2
SPECIFICATION FairSpec
INVARIANTS TypeOK TypeTellsQueued NoneForgotten
PROPERTIES ServedUnlessHigher
