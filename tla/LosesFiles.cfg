SPECIFICATION Spec
CONSTANTS
  INODES = 6
  BLOCKS = 5
  SLOTS = 2
  LINKS = 2
  Name <- MCNames
  NameLen <- MCLengths
  RootName = "root"
  Path <- MCNamePaths
  InodesAtBoot = {}
  BlocksAtBoot = {}
  TailsAtBoot = {}
CHECK_DEADLOCK FALSE
PROPERTIES
  EntriesKept
