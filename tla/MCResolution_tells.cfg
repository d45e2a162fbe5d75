SPECIFICATION ResolutionSpec
CONSTANTS
  MaxLines = 3
  MaxJunk = 2
  APs = {a1, a2}
  MinAPs = 2
SYMMETRY Symmetry
INVARIANTS
  AnchorRight
  RequestTells
  FixFromAnswer
  QuotaNamed
CHECK_DEADLOCK FALSE
