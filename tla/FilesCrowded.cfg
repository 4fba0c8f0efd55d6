SPECIFICATION Spec
CONSTANTS
  INODES = 5
  BLOCKS = 4
  SLOTS = 2
  LINKS = 2
  Name <- MCNames
  NameLen <- MCLengths
  RootName = "root"
  Path <- MCNamePaths
  InodesAtBoot = {2}
  BlocksAtBoot = {2}
  TailsAtBoot = {2, 3}
CHECK_DEADLOCK FALSE
INVARIANTS
  OneEntry
  OneOwner
  Descends
  Created
