SPECIFICATION LiveSpec
CONSTANTS
  Second = 2
  Int64 = 8
  DefaultSeconds = 1
  Edits <- MCEdits
  MaxFaults = 1
  Cap = 1
  Unlimited = 9
  Names <- MCNames
  MaxRuns = 2
INVARIANTS
  Guarded
  UpToDate
PROPERTIES
  KeepsTrying
