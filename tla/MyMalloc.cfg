SPECIFICATION Spec
CONSTANTS
  N_LISTS = 8
  MAX_REQ = 2
  kMemorySize = 112
  kMaxAllocationSize = 208
  MmapBases <- AdjacentBases
  MmapTop = 1224
  Ascending = TRUE
  MmapMayFail = TRUE
  Requests <- MixedRequests
  ForeignPtrs <- FarPtrs
INVARIANTS
  TypeOK
  BlocksTileChunks
  HeapWalkExact
  PrevBitsExact
  NoFreeNeighbours
  FreeListsExact
  FootersExact
  LiveBlocksFit
  NoWildAccess
  AllFreeMeansWhole
PROPERTIES
  BestFit
  ImplementsAllocator
CHECK_DEADLOCK FALSE
