CONSTANTS
  Threads = {1, 2}
  TIMER_NUM_ALLOCATED = 1
  Intervals = {0, 1}
  SecondLength = 2
  MaxBlocks = 2
  MaxCalls = 4
  MaxTime = 3
  Stops = TRUE
SPECIFICATION FairSpec
CHECK_DEADLOCK FALSE
INVARIANT OnTime
PROPERTY DueIsHandled
INVARIANT TimersInv
