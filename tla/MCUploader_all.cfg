SPECIFICATION LiveSpec
CONSTANTS
  MinInterval = 3
  WriteTimeout = 1
  ReadTimeout = 2
  RetryDelay = 1
  DialTimeout = 2
  FeedCap = 2
  MaxOthers = 1
  MaxTime = 11
INVARIANTS
  StatusTells
  NoBacklog
  SilenceBounded
PROPERTIES
  GeoSpacing
  StatusPaced
  Stops
