SPECIFICATION FairFaultsSpec
CONSTANTS
  N = 2
  MaxKey = 3
  Idle = Idle
  KeyLen <- MCKeyLen
  ValLen <- MCValLen
  InitKey <- MCInitKey
  Values = {1}
  MaxFaults = 1
  MaxLives = 1
  OkKeys = {}
  OkVals = {}
  StoresEnd = TRUE
CHECK_DEADLOCK FALSE
INVARIANTS
  BothLogged
