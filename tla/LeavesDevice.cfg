SPECIFICATION Spec
CONSTANTS
  INODES = 5
  BLOCKS = 2
  SLOTS = 2
  LINKS = 2
  Name <- MCNames
  NameLen <- MCLengths
  RootName = "root"
  Path <- MCNamePaths
  InodesAtBoot = {}
  BlocksAtBoot = {}
  TailsAtBoot = {}
CHECK_DEADLOCK FALSE
INVARIANTS
  BlocksInDevice
