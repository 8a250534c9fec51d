SPECIFICATION Spec
CONSTANTS
  Capacity = 2
  SeedLimit = 1
  RtCapacity = 2
  Lengths = {2}
  Durations = {1, 2}
  Threshold = 2
  Calls = {"samples", "buffer"}
  WakerMayPanic = TRUE
  MaxOffers = 5
INVARIANTS CountersAgree Timeline BlocksCirculate
PROPERTIES AllocatesOnlyWhenLagging
CHECK_DEADLOCK FALSE
