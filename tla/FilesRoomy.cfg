SPECIFICATION Spec
CONSTANTS
  INODES = 4
  BLOCKS = 5
  SLOTS = 3
  LINKS = 1
  Name <- MCTwoNames
  NameLen <- MCTwoLengths
  RootName = "root"
  Path <- MCTwoPaths
  InodesAtBoot = {}
  BlocksAtBoot = {}
  TailsAtBoot = {}
CHECK_DEADLOCK FALSE
INVARIANTS
  TreeShows
PROPERTIES
  IsDirectoryTree
  NoPathNoChange
