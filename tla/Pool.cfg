SPECIFICATION Spec
CONSTANTS
  Client = {p1, p2}
  Limit = 4
  Count = 2
  Nobody = Nobody
  Lost = Lost
INVARIANTS
  Exclusive
  NothingLost
  HighWater
PROPERTY
  AllocSpec
CHECK_DEADLOCK FALSE
