SPECIFICATION FairFaultsSpec
CONSTANTS
  N = 2
  MaxKey = 3
  Idle = Idle
  KeyLen <- MCKeyLen
  ValLen <- MCValLen
  InitKey <- MCInitKey
  Values = {1}
  MaxFaults = 1
  MaxLives = 2
  OkKeys = {2}
  OkVals = {1}
  StoresEnd = TRUE
CHECK_DEADLOCK FALSE
INVARIANTS
  FaultsTypeOK
  LookupFindsEntry
  AckIsServed
PROPERTIES
  StoresImplement
  CommandEnds
  CommandStaysFinite
