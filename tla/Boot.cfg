SPECIFICATION FairSpec
CONSTANTS
  Machines <- MCMachines
  Infos <- MCInfos
  Address <- MCAddress
  Entries = 3
  PageSize = 2097152
  MapSize = 10
  Word = 1073741824
CHECK_DEADLOCK FALSE
INVARIANTS
  Vectored
  FirstRegion
PROPERTIES
  DamageConfined
  Handled
