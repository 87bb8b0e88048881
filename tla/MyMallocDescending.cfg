SPECIFICATION Spec
CONSTANTS
  N_LISTS = 8
  MAX_REQ = 2
  kMemorySize = 112
  kMaxAllocationSize = 208
  MmapBases <- AdjacentBases
  MmapTop = 1224
  Ascending = FALSE
  MmapMayFail = FALSE
  Requests <- MixedRequests
  ForeignPtrs <- FarPtrs
INVARIANT
  NoWildAccess
CHECK_DEADLOCK FALSE
