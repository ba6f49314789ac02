SPECIFICATION Spec
CONSTANTS
  s1 = s1
  s2 = s2
  t1 = t1
  t2 = t2
  read = read
  write = write
  NULL = NULL
  Threads = {t1, t2}
  Slots = {s1, s2}
  CAP_TABLE_MAX = 2
  Rights = {}
  DefaultRights = {}
  IdMod = 16
  CountMod = 16
  FreshDestroyed = {TRUE, FALSE}
  StoreKeepsValue = TRUE
  MaxId = 2
  MaxHeld = 1
SYMMETRY MCSymmetry
CHECK_DEADLOCK FALSE
INVARIANTS
  TypeOK
  NoDoubleFree
  LockHasHolder
  NoLostDestruction
  IdTableExact
PROPERTY
  HandlesStable
