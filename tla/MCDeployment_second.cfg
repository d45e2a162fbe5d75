SPECIFICATION DeploymentSpec
CONSTANTS
  Second = 2
  Int64 = 8
  DefaultSeconds = 1
  Edits <- MCEdits
  MaxFaults = 0
  Cap = 1
  Unlimited = 9
  Names <- MCNames
  MaxRuns = 2
INVARIANT
  OneKey
