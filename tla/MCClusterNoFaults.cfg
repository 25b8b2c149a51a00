SPECIFICATION FaultsSpec
CONSTANTS
  N = 3
  MaxKey = 5
  Idle = Idle
  KeyLen <- MCKeyLen
  ValLen <- MCValLen
  InitKey <- MCInitKey
  Values = {1, 2}
  MaxFaults = 0
  MaxLives = 1
  OkKeys = {}
  OkVals = {}
  StoresEnd = FALSE
PROPERTIES
  ImplementsCluster
