SPECIFICATION FairSpec
CONSTANTS
  Threads = {t1, t2, t3}
  JS = t1
  Workers = {t2}
  NoOne = NoOne
  MaxGeneration = 4
INVARIANTS HandleOutlivesCalls Served
PROPERTY TeardownsReturn
CHECK_DEADLOCK FALSE
