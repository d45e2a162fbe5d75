SPECIFICATION StreamSpec
CONSTANTS
  MinInterval = 1
  WriteTimeout = 0
  ReadTimeout = 1
  RetryDelay = 0
  DialTimeout = 0
  FeedCap = 1
  MaxOthers = 1
  MaxTime = 9
  StaleAfter = 1
  MaxServedAge = 2
  FlightCap = 2
VIEW View
INVARIANTS
  Pipeline
  PointAge
  LossTold
PROPERTIES
  PointsAdvance
CHECK_DEADLOCK FALSE
