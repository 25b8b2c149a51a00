SPECIFICATION FaultsSpec
CONSTANTS
  N = 2
  MaxKey = 3
  Idle = Idle
  KeyLen <- MCKeyLen
  ValLen <- MCValLen
  InitKey <- MCInitKey
  Values = {1}
  MaxFaults = 1
  MaxLives = 2
  OkKeys = {}
  OkVals = {}
  StoresEnd = FALSE
CHECK_DEADLOCK FALSE
INVARIANTS
  CommitsItsEntry
