CONSTANTS
  t1 = t1
  t2 = t2
  r1 = r1
  r2 = r2
  Tasks = {t1}
  Requests = {r1, r2}
  Owner <- OwnersOf
  None = None
  Length <- Lengths
  Buffer = 3
  Paste = 2
  MaxPaste = 1
  Aborters = {t1}
  Below = TRUE
SPECIFICATION FairSpec
INVARIANTS TypeOK NoStarvedRead ReplyReachesOwner
PROPERTIES ReadsInOrder EveryReadAnswered
