SPECIFICATION Spec
CONSTANTS
  NumIfaces = 2
  BSSIDs = {b1, b2}
  NoBSSID = NoBSSID
  Signals <- MCSignals
  noSignal <- MCNoSignal
  SSIDs = {home, home_nomap}
  NoMap = {home_nomap}
  NoSSID = NoSSID
  MaxLines = 4
INVARIANT
  ErrorOnlyIfAllFailed
CHECK_DEADLOCK FALSE
