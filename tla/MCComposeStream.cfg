SPECIFICATION ComposeFair
CONSTANTS
  Readers = {r1, r2}
  Stoppers = {s1}
  Blocking = {r2}
  Polling = {r1}
  Capacity = 1
  MaxPush = 1
  Notifies = FALSE
  SyncStop = FALSE
  StopMayFail = FALSE
  MayFail = TRUE
PROPERTIES EndIsLast CompositionEnds
CHECK_DEADLOCK FALSE
