SPECIFICATION Spec
CONSTANTS
  N_LISTS = 8
  MAX_REQ = 2
  kMemorySize = 160
  kMaxAllocationSize = 208
  MmapBases <- OneBase
  MmapTop = 1160
  Requests <- GcRequests
  Fields = {0}
  Tolerated <- NoMishap
INVARIANTS
  GcTypeOK
  WalkMeetsEveryBlock
  ListsPartitionBlocks
  StackRetained
  HandedFits
  SweepReclaims
PROPERTIES
  SweepEnds
  CollectorImplementsAllocator
CHECK_DEADLOCK FALSE
