SPECIFICATION Spec
CONSTANTS
  TIMER_IRQ_ID = 30
  OtherIrqs = {33}
  SPURIOUS = 1023
  NULL = NULL
  MaxTicks = 2
CHECK_DEADLOCK FALSE
INVARIANT ReachesItsEntry
