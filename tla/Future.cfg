SPECIFICATION FairSpec
CONSTANT
  Polls = 6
INVARIANTS
  NoLostWakeup
  ReadyOnce
PROPERTIES
  PrepFresh
  UnlimitedReturns
CHECK_DEADLOCK FALSE
