SPECIFICATION A64Spec
CONSTANTS
  TotalFrames = 5
  PAGE_SIZE = 4
  KernBytes = 3
  BootHeapBytes = 16
  BITMAP_BIT_SIZE = 1
  PT_ENTRIES = 2
  PT_LEVELS = 3
  ASID_POOL_SIZE = 3
  s1 = s1
  s2 = s2
  s3 = s3
  Spaces <- MCSpaces
  MapPages <- MCMapPages
  MapPhys <- MCMapPhys
  Prots <- MCProts
  MaxTlb = 1
SYMMETRY MCSymmetry
CHECK_DEADLOCK FALSE
INVARIANTS
  AsidsExclusive
  TablesAccounted
  TlbCoherent
PROPERTY
  ImplementsAddrSpace
