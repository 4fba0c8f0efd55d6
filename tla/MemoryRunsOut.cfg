SPECIFICATION MemorySpec
CONSTANTS
  MmapAddr <- MCMmapAddr
  MmapLen <- MCMmapLen
  HeaderSize <- MCHeaderSize
  Requests <- MCRequests
  Lines <- MCLeaky
  MaxLines = 150
  HighByte = 1048576
CHECK_DEADLOCK FALSE
INVARIANTS
  MemoryLasts
