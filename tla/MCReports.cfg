SPECIFICATION Spec
CONSTANTS
  Instants <- MCInstants
  Clock <- MCClock
  TicksPerMs = 4
  Coords = {0, 52}
  Cells = {c1, c2}
  NoCell = NoCell
  Radioless = {c2}
  MaxAPs = 2
  Nil = Nil
  Bad = Bad
INVARIANTS
  TypeOK
  RoundTrip
  PointHonest
  PointWritten
  AgeTrue
CHECK_DEADLOCK FALSE
