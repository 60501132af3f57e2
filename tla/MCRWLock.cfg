SPECIFICATION FairSpec
CONSTANTS
  Threads = {t1, t2, t3}
  MaxSignals = 1
INVARIANT AccountedUntilOvertaken
INVARIANT ExclusionUntilOvertaken
INVARIANT LeftOpen
PROPERTY SomeoneReturns
CHECK_DEADLOCK FALSE
