SPECIFICATION Spec
CONSTANTS
  TotalFrames = 10
  PAGE_SIZE = 4
  KernBytes = 6
  BootHeapBytes = 16
  BITMAP_BIT_SIZE = 1
INVARIANTS
  TypeOK
  Partition
  ImageSafe
  HintTight
PROPERTY
  LowestFirst
