SPECIFICATION FairSpec
CONSTANTS
  none = none
  UploadSize <- MCUploadSize
  VersionSize <- MCVersionSize
  MaxTransfers = 2
  MaxVersions = 2
  MaxRepeats = 1
INVARIANTS
  UploadIntact
  DoneIsHandled
  DownloadIntact
PROPERTIES
  BuffersReleased
CHECK_DEADLOCK FALSE
