SPECIFICATION KHSpec
CONSTANTS
  TotalFrames = 6
  PAGE_SIZE = 8
  KernBytes = 6
  BootHeapBytes = 16
  BITMAP_BIT_SIZE = 1
  FrameHeader = 1
  AllocHeader = 1
  CacheBytes = 1
  NodeBytes = 1
  PtrAlign = 1
  KMALLOC_MIN_SIZE = 2
  NUM_SLAB_BUCKETS = 2
  SizeMod = 64
  Sizes <- SmallSizes
  Nums <- MCNums
  TypeSizes <- MCTypeSizes
  MaxCaches = 4
  MaxLive = 2
  MaxObjs = 1
  MaxOthers = 1
CHECK_DEADLOCK FALSE
INVARIANTS
  MemoryOwned
  UsableFits
PROPERTIES
  FramesAccounted
  ImplementsPhysFrame
