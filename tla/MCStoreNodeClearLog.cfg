SPECIFICATION Spec
CONSTANTS
  MaxKey = 3
  Values = {1, 2}
  KeyLen <- MCKeyLen
  ValLen <- MCValLen
PROPERTY
  ClearLogEmpties
