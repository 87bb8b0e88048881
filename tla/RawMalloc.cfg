SPECIFICATION Spec
CONSTANTS
  HalfWord = 256
  FENCEPOST = 239
  kMemorySize = 144
  kMaxAllocationSize = 250
  MmapBases <- AdjacentBases
  MmapTop = 1288
  MmapMayFail = TRUE
  Requests <- RawRequests
  Tolerated <- NoMishap
INVARIANTS
  RawTypeOK
  RawBlocksTile
  RawListsSorted
  RawLiveFits
PROPERTY
  MallocReturns
CHECK_DEADLOCK FALSE
