SPECIFICATION Spec
CONSTANTS
  N_LISTS = 8
  MAX_REQ = 2
  kMemorySize = 208
  kMaxAllocationSize = 208
  MmapBases <- OneBase
  MmapTop = 1208
  Requests <- GcRequests
  Fields = {}
  Tolerated <- FreesTwice
INVARIANT
  HeldNotFree
CHECK_DEADLOCK FALSE
