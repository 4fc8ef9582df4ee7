SPECIFICATION Spec
CONSTANTS
  Request = {r1}
  WriteFreq = 2
  PadFactor = 1
  MaxRetransmit = 3
  Chosen = {1, 4}
  MaxSsn = 7
  MaxRebuilds = 1
INVARIANTS
  TypeOK
  NewMessagesDiffer
  StorageTrails
CHECK_DEADLOCK FALSE
