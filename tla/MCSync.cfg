CONSTANTS
  Threads = {1, 2}
  None = none
  Never = never
  Boot = 2
  MaxTime = 2
  MaxDepth = 2
  MaxTokens = 1
  Timeouts = {1}
SPECIFICATION Spec
CHECK_DEADLOCK FALSE
INVARIANT TimedWaitEnds
