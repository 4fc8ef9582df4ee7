SPECIFICATION FairSpec
CONSTANTS
  n1 = n1  n2 = n2
  get = get  put1 = put1  put2 = put2
  NoToken = NoToken
  Node = {n1, n2}
  Request = {get, put1, put2}
  From <- FromOne
  To <- ToOne
  Confirmable = {get}
  Silent = {put1}
  Behaviour <- BehaviourAll
  StartMid <- StartApart
  MidRange = 65536
  MaxRetransmit = 2
  HistorySize = 1
  MaxDuplicates = 1
  MaxInFlight = 2
INVARIANTS
  TypeOK OneOutcome TransactionHasCallback RepeatsDropped
PROPERTIES
  EveryConEnds EverythingReleased
CHECK_DEADLOCK FALSE
