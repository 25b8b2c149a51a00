SPECIFICATION FaultsSpec
CONSTANTS
  N = 3
  MaxKey = 4
  Idle = Idle
  KeyLen <- MCKeyLen
  ValLen <- MCValLen
  InitKey <- MCInitKey
  Values = {1, 2}
  MaxFaults = 1
  MaxLives = 1
  OkKeys = {}
  OkVals = {}
  StoresEnd = FALSE
CHECK_DEADLOCK FALSE
INVARIANTS
  ToldIsKept
  MovedNotCopied
  LosesOneEntry
