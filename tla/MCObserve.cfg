SPECIFICATION FairSpec
CONSTANTS
  none = none
  Client = {a}
  Token = {1, 2}
  Mid = {1}
  RefreshInterval = 2
  MaxRetransmit = 2
  MaxUp = 1
  MaxDown = 2
  MaxCallbacks = 1
  MaxPending = 1
PROPERTIES
  GoneIsFound
  PeriodicHeals
