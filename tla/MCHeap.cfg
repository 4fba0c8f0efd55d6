SPECIFICATION FairSpec
CONSTANTS
  MmapAddr <- MCMmapAddr
  MmapLen <- MCMmapLen
  HeaderSize <- MCHeaderSize
  Requests <- MCRequests
INVARIANTS
  Tiling
  LiveIsUsed
  Coalesced
PROPERTIES
  RefinesAbstract
  CallsReturn
