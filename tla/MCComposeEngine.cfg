SPECIFICATION EngineFair
CONSTANTS
  N = 2
  Master = 1
  Candidates = {2}
  Quantum = 2
  MaxFifo = 2
  Rates = {0, 1}
  Chunk = 2
  MaxDrain = 2
  MaxClock = 5
INVARIANTS LanesOnTime NaturalEndDrains
PROPERTIES EngineProgresses
CHECK_DEADLOCK FALSE
