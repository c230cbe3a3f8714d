SPECIFICATION Spec
CONSTANTS
  K = 2
  Max = 15
  Quantum = 3
  Epoch = 1
  Horizon = 10
  Slip = 2
  Us = {0, 2, 4, 7, 10, 15}
CHECK_DEADLOCK FALSE
INVARIANTS
  NeverEarly
  Timely
  YieldedTruthful
