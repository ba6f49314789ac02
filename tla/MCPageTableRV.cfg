SPECIFICATION RVSpec
CONSTANTS
  TotalFrames = 12
  PAGE_SIZE = 4
  KernBytes = 6
  BootHeapBytes = 16
  BITMAP_BIT_SIZE = 1
  PT_ENTRIES = 4
  RamFrames = 11
  KernPage = 17
  RoBytes = 3
  UartPage = 0
  UserPages <- MCUserPages
  MaxOthers = 10
CHECK_DEADLOCK FALSE
INVARIANTS
  TableTree
  KernelMapped
PROPERTY
  ImplementsAddrSpace
