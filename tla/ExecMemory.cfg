CONSTANTS
  h1 = h1
  h2 = h2
  h3 = h3
  Tasks = {t1}
  Handlers = {h1, h2, h3}
  Pri <- TwoEqual
  None = None
  Unit = 2
  FirstPot = 4
  MaxLevels = 10
  Lower = 2
  Upper = 18
  Sizes = {1, 8}
  Flags <- Combinations
  Ranges <- Placed
SPECIFICATION Spec
INVARIANTS MemorySound
PROPERTIES ImplementsStore WhoFailsAskedAll
CONSTRAINT BlocksOrHandlers
