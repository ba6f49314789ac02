SPECIFICATION FairSpec
CONSTANTS
  s1 = s1
  s2 = s2
  t1 = t1
  t2 = t2
  read = read
  write = write
  NULL = NULL
  Threads = {t1}
  Slots = {s1, s2}
  CAP_TABLE_MAX = 2
  Rights = {read, write}
  DefaultRights = {read}
  IdMod = 16
  CountMod = 16
  FreshDestroyed = {FALSE}
  StoreKeepsValue = FALSE
  MaxId = 3
  MaxHeld = 2
CHECK_DEADLOCK FALSE
INVARIANTS
  RefsAlive
  NoLateAccess
PROPERTY
  UnusedIsFreed
