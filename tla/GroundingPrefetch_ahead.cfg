\* A plan of three steps: the requests for the second and the third.
SPECIFICATION FairSpec
CONSTANT
  MaxStep = 3
INVARIANTS
  OneRequestCounts
PROPERTIES
  AnswersAreEarned
  WaitsEnd
CHECK_DEADLOCK FALSE
