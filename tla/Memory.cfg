SPECIFICATION MemorySpec
CONSTANTS
  MmapAddr <- MCMmapAddr
  MmapLen <- MCMmapLen
  HeaderSize <- MCHeaderSize
  Requests <- MCRequests
  Lines <- MCLines
  MaxLines = 4
  HighByte = 1048576
CHECK_DEADLOCK FALSE
INVARIANTS
  Apart
  VariablesKept
  GivesBack
