SPECIFICATION Spec
CONSTANTS
  t1 = t1
  t2 = t2
  c1 = c1
  c2 = c2
  Thread = {t1}
  Cont = {c1}
  May <- Movable
  Us = {"zero", "us", "max"}
  None = None
  Shared = Shared
INVARIANTS
  ZeroBudgetRunsNothing
