SPECIFICATION Spec
CONSTANTS
  Thread = {t1, t2}
  Tcb = {b1, b2, b3}
  None = None
CHECK_DEADLOCK FALSE
INVARIANTS
  OwnIdentity
  RestoredOutside
  InstalledOnce
  DestroyedOnce
