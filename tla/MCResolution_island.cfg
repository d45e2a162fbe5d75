SPECIFICATION ResolutionSpec
CONSTANTS
  MaxLines = 1
  MaxJunk = 1
  APs = {a1, a2}
  MinAPs = 2
INVARIANTS
  NoFabricatedCoordinate
CHECK_DEADLOCK FALSE
