SPECIFICATION Spec
CONSTANTS
  N_LISTS = 8
  MAX_REQ = 2
  kMemorySize = 160
  kMaxAllocationSize = 208
  MmapBases <- OneBase
  MmapTop = 1160
  Requests <- GcRequests
  Fields = {0}
  Tolerated <- LinksLeft
INVARIANT
  AllocatedListed
CHECK_DEADLOCK FALSE
