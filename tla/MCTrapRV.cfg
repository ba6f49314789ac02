SPECIFICATION FairSpec
CONSTANTS
  PERIOD = 3
  WaitTicks = 2
  MaxStart = 4
  MaxTime = 16
CHECK_DEADLOCK FALSE
INVARIANTS
  ResumedIntact
  WedgedOnlyByWindow
  TicksExact
  WaitIsLong
PROPERTIES
  WaitEnds
  IpiHalts
