SPECIFICATION Spec
CONSTANTS
  Cells = {c1}
  NoCell = NoCell
  APs = {a1}
  NIfaces = 1
  MinAPs = 1
  Interval = 3
  StaleFloor = 4
  PollTimeout = 5
  ExecTimeout = 1
  WaitDelay = 1
  HTTPTimeout = 1
  MaxTime = 26
INVARIANT StaleIsNoFix
