SPECIFICATION Spec
CONSTANTS
  N_LISTS = 8
  MAX_REQ = 2
  kMemorySize = 112
  kMaxAllocationSize = 208
  MmapBases <- AdjacentBases
  MmapTop = 1224
  Ascending = TRUE
  MmapMayFail = FALSE
  Requests <- EdgeRequests
  ForeignPtrs <- FarPtrs
INVARIANT
  NoNullBlock
CHECK_DEADLOCK FALSE
