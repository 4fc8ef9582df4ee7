SPECIFICATION RingSpec
CONSTANTS
  Event = {e1, e2}
  Cleared = cleared
  InitialSize = 2
  MaxEvents = 6
INVARIANTS
  RingTypeOK
PROPERTY
  RingIsFifo
