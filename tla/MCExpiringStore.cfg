SPECIFICATION StoreSpec
SYMMETRY Symmetry
CONSTANTS
  Client = {c1, c2}
  Id = {i1, i2}
  Value = {v1}
  MaxAge = 1
  MaxWall = 2
  None = None
INVARIANTS
  MapMatchesHistory
PROPERTIES
  ImplementsRegistry
