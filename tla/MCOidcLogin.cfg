SPECIFICATION FairSpec
CONSTANTS
  Tab = {t1, t2}
  Flow = {f1, f2, f3, f4}
  Root = root
  Page = {root}
  MaxMoves = 3
  None = None
INVARIANTS
  AskedAtMostOnce
  ConsumedFlowGone
PROPERTIES
  LoginEnds
CHECK_DEADLOCK FALSE
