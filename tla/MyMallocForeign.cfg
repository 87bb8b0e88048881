SPECIFICATION Spec
CONSTANTS
  N_LISTS = 8
  MAX_REQ = 2
  kMemorySize = 112
  kMaxAllocationSize = 208
  MmapBases <- AdjacentBases
  MmapTop = 1224
  Ascending = TRUE
  MmapMayFail = FALSE
  Requests <- MixedRequests
  ForeignPtrs <- EdgePtrs
INVARIANT
  ForeignIgnored
CHECK_DEADLOCK FALSE
