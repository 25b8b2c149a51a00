SPECIFICATION FairSpec
CONSTANTS
  MaxKey = 5
  Values = {1, 2}
  N = 3
  Idle = Idle
  KeyLen <- MCKeyLen
  ValLen <- MCValLen
  InitKey <- MCInitKey
INVARIANTS
  TypeOK
  MetaOrdered
  RoutedToOwner
  RangesHold
  NeighbourIsPeer
  LogsArePending
  SizesExact
  TotalStaysExact
  PassedWithinShare
PROPERTIES
  CommandCompletes
  CommandDescends
  ImplementsKV
