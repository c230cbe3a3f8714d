SPECIFICATION Spec
CONSTANTS
  Thread = {t1, t2}
  Cont = {c1, c2}
  Limit = 1
  None = None
INVARIANTS
  TcbPresent
