SPECIFICATION FairSpec
CONSTANTS
  MaxRequests = 5
  RequestParts <- MCRequestParts
  AnswerParts <- MCAnswerParts
CHECK_DEADLOCK FALSE
INVARIANTS
  
  StuckOnlyBehindTest
PROPERTIES
  AloneIsAnswered
