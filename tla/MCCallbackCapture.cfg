SPECIFICATION FairSpec
CONSTANTS
  Backends = {"aaudio", "playback", "auhal", "avaudio"}
  MaxPush = 2
INVARIANTS ContextsOutliveCallbacks TeardownIsClean
PROPERTIES StopIsFinal DeathIsSeen
