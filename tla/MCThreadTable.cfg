SPECIFICATION FairSpec
CONSTANTS
  Main = Main
  Nobody = Nobody
  NoPulse = NoPulse
  Tids = {t1, t2}
  Statuses = {5}
  WaitTargets = {t1, t2}
  MaxCreates = 3
INVARIANT EntriesAgree
INVARIANT ReadyGateAgrees
INVARIANT GoneIsVisible
PROPERTY EndCompletes
PROPERTY RunReturns
PROPERTY DestroyedWaiterReturns
CHECK_DEADLOCK FALSE
