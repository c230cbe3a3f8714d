SPECIFICATION FairSpec
CONSTANT
  Polls = 6
PROPERTY
  PollReturns
CHECK_DEADLOCK FALSE
