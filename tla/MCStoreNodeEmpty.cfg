SPECIFICATION Spec
CONSTANTS
  MaxKey = 3
  Values = {0, 1}
  KeyLen <- MCKeyLen
  ValLen <- MCValLen
INVARIANT
  SizeExact
