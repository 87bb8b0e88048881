SPECIFICATION Spec
CONSTANTS
  N_LISTS = 8
  MAX_REQ = 2
  kMemorySize = 200
  kMaxAllocationSize = 208
  MmapBases <- OneBase
  MmapTop = 1300
  Blocks <- ThreeBlocks
  BlockSizes <- ThreeSizes
  Totals <- ThreeTotals
  OffsetLimit = 128
INVARIANTS
  LinksTypeOK
  ListsSpelled
  WalkKeepsPlace
PROPERTIES
  WalkEnds
  ImplementsFreeLists
CHECK_DEADLOCK FALSE
