SPECIFICATION Spec
CONSTANTS
  Thread = {t1, t2, t3}
  Limit = 2
  None = None
SYMMETRY Symmetry
CHECK_DEADLOCK FALSE
INVARIANTS
  NeverKilled
  TimerOwned
  ShieldedToTheEnd
PROPERTIES
  RefusedOnlyIfExhausted
  AllocSpec
