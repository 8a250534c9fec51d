SPECIFICATION FairSpec
CONSTANTS
  Readers = {r1, r2}
  Blocking = {r1}
  Polling = {r2}
  Stoppers = {s1, s2}
  Capacity = 1
  MaxPush = 1
  Notifies = TRUE
  SyncStop = TRUE
  StopMayFail = FALSE
  MayFail = TRUE
INVARIANTS StoppedIsQuiet ParkedHasReason
PROPERTIES LifecycleRefined CallsReturn
CHECK_DEADLOCK FALSE
