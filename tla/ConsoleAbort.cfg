CONSTANTS
  t1 = t1
  t2 = t2
  r1 = r1
  r2 = r2
  Tasks = {t1, t2}
  Requests = {r1, r2}
  Owner <- OwnersOf
  None = None
  Length <- Lengths
  Buffer = 2
  Paste = 2
  MaxPaste = 0
  Aborters = {t1}
  Below = FALSE
SPECIFICATION Spec
INVARIANTS NoCommandLost
