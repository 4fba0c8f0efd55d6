SPECIFICATION Spec
CONSTANTS
  INODES = 5
  BLOCKS = 6
  SLOTS = 3
  LINKS = 1
  Name <- MCLetterNames
  NameLen <- MCLetterLengths
  RootName = "root"
  Path <- MCLetterPaths
  InodesAtBoot = {}
  BlocksAtBoot = {}
  TailsAtBoot = {}
CHECK_DEADLOCK FALSE
PROPERTIES
  NoPathNoChange
