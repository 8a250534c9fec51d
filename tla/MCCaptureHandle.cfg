SPECIFICATION HandleFair
CONSTANTS
  Apps = {a1, a2}
  MaxStreams = 3
INVARIANTS OnePumpPerStream LostPumpsAreOver
PROPERTIES NothingHangs
CHECK_DEADLOCK FALSE
