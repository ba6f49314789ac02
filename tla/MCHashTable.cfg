SPECIFICATION HashSpec
CONSTANTS
  n1 = n1
  n2 = n2
  n3 = n3
  NULL = NULL
  Keys <- MCKeys
  Values = {10, 20}
  Buckets <- MCBuckets
  hash_u64 <- MCHash
  Nodes <- MCNodes
SYMMETRY MCSymmetry
INVARIANTS
  ListsExact
PROPERTY
  ImplementsKeyStacks
