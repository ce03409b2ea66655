SPECIFICATION Spec
CONSTANTS
  User = {1, 2}
  Reuse = TRUE
  Overlap = 1
  Lag = 0
  MaxRenames = 2
  MaxFaults = 0
  MaxClock = 2
  None = None
INVARIANT RepeatIsNoOp
CHECK_DEADLOCK FALSE
