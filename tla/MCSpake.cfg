SPECIFICATION FairSpec
CONSTANTS
  c1 = c1
  c2 = c2
  none = none
  zeros = zeros
  rkey = rkey
  Client <- MCClient
  Knows <- MCKnows
  Named <- MCNamed
  Preloaded = FALSE
  FailureLimit = 1
  Capacity = 2
  TokenMax = 1
  MaxTries <- MCMaxTries
INVARIANTS
  
  FailuresBounded
PROPERTIES
  UndisturbedIsShared
  BlockingEnds
CHECK_DEADLOCK FALSE
