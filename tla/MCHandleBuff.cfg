SPECIFICATION Spec
CONSTANTS
  Base = 3
  Strings <- MCStrings
  Words <- MCWords
  Ints = {5}
  BuffLen = 17
INVARIANTS
  RoundTrip
  LogOrder
