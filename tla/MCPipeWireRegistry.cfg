SPECIFICATION RegistrySpec
CONSTANTS
  Names = {a, b}
  Pids = {p}
  MaxDump = 2
  MaxGlobal = 3
  MaxChanges = 2
SYMMETRY Symmetry
INVARIANTS DiscoveryIsTrue WatchFollows
