SPECIFICATION CSpec
CONSTANTS
  Thread = {t1, t2}
  Cont = {c1, c2, c3}
  Limit = 2
  None = None
  C = {c1}
SYMMETRY Alike
INVARIANTS
  Renewed
  StacksSuffice
  TcbsBounded
  Separate
  TcbsAccounted
  FlagTruthful
