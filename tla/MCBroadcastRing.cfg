SPECIFICATION FairSpec
CONSTANTS
  Capacities = {1, 2}
  Chunk = 1
  MaxBuffer = 2
  MaxFrames = 3
  MaxGen = 2
  MaxRefused = 1
CHECK_DEADLOCK FALSE
INVARIANTS RingIsSound 
PROPERTIES TerminalSignalled EndsWithProducer
