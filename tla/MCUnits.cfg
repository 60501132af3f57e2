SPECIFICATION Spec
CHECK_DEADLOCK FALSE
CONSTANTS
  Apps = {1, 2}
  ProcMan = 1
  Ports = {0, 1}
  RouterPort = 0
  Channels = {ch1, ch2}
  Events = {5}
  OtherIds = {9}
  SAL_MAX_CHANNELS = 3
  TR_NUM_MODULE_IDS = 2
  Unbound = unbound
  c1 = c1
  c2 = c2
  thread = thread
  free = free
  none = none
  wrong = wrong
INVARIANT StructuresHold
INVARIANT CallsAreSettled
INVARIANT FunctionsHold
PROPERTY ImplementsDirectory
