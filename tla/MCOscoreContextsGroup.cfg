SPECIFICATION Spec
CONSTANTS
  NumEntries = 2
  PoolSize = 5
  MaxPending = 1
  None = None
  NoFile = NoFile
  o1 = o1
  o2 = o2
  k1 = k1
  k2 = k2
  c1 = c1
  c2 = c2
  g = g
  Kids <- MCKids
  Keys <- MCKeys
  KidCtxs <- MCKidCtxs
  GroupAddresses <- MCGroupAddresses
  Posts <- MCComplete
  SharedTokens <- MCSharedTokens
INVARIANTS
  GroupMessageHasKid
SYMMETRY Symmetry
