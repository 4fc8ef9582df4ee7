SPECIFICATION FairSpec
CONSTANTS
  Thread = {t1, t2}
  t1 = t1
  t2 = t2
  Messages <- TwoAndOne
  Secured <- OtherSecured
  HasTimer = TRUE
INVARIANTS
  TypeOK
  NoLostPoll
  SleepEnds
PROPERTIES
  LoopIsMailbox
  EveryMessageHandled
  TimerServed
