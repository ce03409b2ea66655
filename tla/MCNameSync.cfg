SPECIFICATION FairSpec
CONSTANTS
  User = {1, 2}
  Reuse = FALSE
  Overlap = 1
  Lag = 1
  MaxRenames = 3
  MaxFaults = 1
  MaxClock = 2
  None = None
INVARIANTS
  NoRenameSkipped
  RepeatIsNoOp
PROPERTIES
  RowsBecomeCurrent
CHECK_DEADLOCK FALSE
