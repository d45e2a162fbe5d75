SPECIFICATION LiveSpec
CONSTANTS
  Cells = {c1}
  NoCell = NoCell
  APs = {a1, a2}
  NIfaces = 2
  MinAPs = 2
  Interval = 3
  StaleFloor = 4
  PollTimeout = 4
  ExecTimeout = 1
  WaitDelay = 1
  HTTPTimeout = 1
  MaxTime = 18
INVARIANTS
  ServedAgeBounded
  YoungFixServed
  Attributed
  OneRequestPerInterval
  BudgetKept
  StopsPromptly
  PollBounded
PROPERTIES
  FeedSpec
  KeepsPolling
