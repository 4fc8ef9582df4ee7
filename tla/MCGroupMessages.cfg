SPECIFICATION FairSpec
CONSTANTS
  switch = switch
  lamp = lamp
  panel = panel
  spare = spare
  Device <- MCDevice
  Objects <- MCObjects
  PublisherRows <- MCPublishers
  RecipientRows <- MCRecipients
  NumPublishers = 2
  Running <- MCRunning
  IgnoreSelf = FALSE
  NumScopes = 2
  Source <- MCSource
  Restarting <- MCRestarting
  MaxValue = 2
  MaxRestarts = 1
  MaxLost = 1
  MaxInbox = 16
INVARIANTS
  FollowersAgree
PROPERTIES
  NeverBackwards
  DiesDown
CHECK_DEADLOCK FALSE
