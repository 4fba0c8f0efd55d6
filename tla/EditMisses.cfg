SPECIFICATION Spec
CONSTANTS
  INODES = 5
  BLOCKS = 6
  SLOTS = 3
  LINKS = 1
  Name <- MCNames
  NameLen <- MCLengths
  RootName = "root"
  Path <- MCNamePaths
  InodesAtBoot = {}
  BlocksAtBoot = {}
  TailsAtBoot = {}
CHECK_DEADLOCK FALSE
PROPERTIES
  EditWritesFile
