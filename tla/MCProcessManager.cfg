CONSTANTS
  Apps = {0, 1}
  Configs = {0, 1}
  config <- MCConfig
  load_timeout <- MCLoad
  terminate_timeout <- MCTerminate
  auto_restart <- MCRestart
  SAL_MAX_APPS = 3
  PM_DEFERRED_QUEUE_SIZE = 1
  PM_QUEUE_SIZE = 3
  MaxPids = 2
  MaxRequests = 2
  MaxFailures = 1
  MaxInbox = 1
SPECIFICATION FairSpec
CHECK_DEADLOCK FALSE
INVARIANT ManagerInv
PROPERTY ShutdownEnds
PROPERTY ConfigIsReached
