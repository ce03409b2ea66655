SPECIFICATION Spec
CONSTANTS
  c1 = c1  c2 = c2
  logic = logic  logo = logo
  first = first  second = second
  old = old  new = new
  Caller = {c1, c2}
  Name = {logic, logo}
  Path = {first, second}
  Outside = Outside
  Content = {old, new}
  Pin <- MCPin
  Coarse = FALSE
  MaxClock = 2
  None = None
SYMMETRY Symmetry
INVARIANTS
  ReadsAreCurrent
  PinnedOrRefused
  NoEntryStaysStale
CHECK_DEADLOCK FALSE
