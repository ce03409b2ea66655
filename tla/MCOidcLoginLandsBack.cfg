SPECIFICATION Spec
CONSTANTS
  Tab = {t1, t2}
  Flow = {f1, f2, f3, f4}
  Root = root
  Page = {root, p1}
  MaxMoves = 2
  None = None
INVARIANT LandsBack
CHECK_DEADLOCK FALSE
