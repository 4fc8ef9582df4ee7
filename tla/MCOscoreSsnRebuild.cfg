SPECIFICATION Spec
CONSTANTS
  Request = {r1}
  WriteFreq = 2
  PadFactor = 1
  MaxRetransmit = 3
  Chosen = {}
  MaxSsn = 7
  MaxRebuilds = 1
INVARIANTS
  NoReuseAfterRebuild
CHECK_DEADLOCK FALSE
