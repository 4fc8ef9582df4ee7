SPECIFICATION Spec
CONSTANTS
  GotMax = 2
  GptMax = 2
  GroupPosts <- MCGroupPosts
  PublisherPosts <- MCPublisherPosts
  Ids = {0, 1}
  Iids = {1}
  MaxFingerprint = 2
  MaxResets = 1
INVARIANTS
  UnloadedIsEmpty
  UniqueIds
  AcceptedIsStored
  RuntimeSubscribed
  FactoryResetHolds
