SPECIFICATION Spec
CONSTANTS
  HYPERCUBE_DIM = 5
  MaxShares = 6
CHECK_DEADLOCK FALSE
INVARIANTS
  TypeOK
  RoutesDisjoint
  ReturnsExactly
PROPERTIES
  Terminates
