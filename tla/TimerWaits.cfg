CONSTANTS
  t1 = t1
  t2 = t2
  r1 = r1
  r2 = r2
  Tasks = {t1}
  Requests = {r1, r2}
  Owner <- OwnersOf
  None = None
  VBlank = VBlank
  Period = 2
  Reload = 3
  Units = {"micro", "vblank"}
  Delays = {1, 2}
  Times = {}
  MaxTime = 2
SPECIFICATION FairSpec
INVARIANTS RepliesKept
PROPERTIES EveryRequestAnswered
