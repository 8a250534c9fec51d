SPECIFICATION FairSpec
CONSTANTS
  Plain = {p}
  Reporting = {q}
  Drains = {d}
  Variants = {v}
  Capacity = 1
  Room = 1
  MaxPush = 2
  MaxErrors = 2
  MaxTicks = 1
INVARIANTS BuffersAccounted EndsTidily ErrorsCoalesced
PROPERTIES PumpsEnd
CHECK_DEADLOCK FALSE
