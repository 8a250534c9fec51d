SPECIFICATION FairSpec
CONSTANTS
  Capacity = 2
  MaxPush = 4
  Budget = 3
  Backends = {"flag", "callback", "silent"}
  MayStop = TRUE
INVARIANTS NoLostWakeup
PROPERTY TaskProgresses
CHECK_DEADLOCK FALSE
