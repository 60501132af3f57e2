CONSTANTS
  Apps = {1, 2}
  ProcMan = 1
  Ports = {0}
  RouterPort = 0
  a1 = a1
  a2 = a2
  cA = cA
  cP = cP
  Channels = {cA, cP}
  Events = {11, 12}
  OtherIds = {19}
  SAL_MAX_CHANNELS = 3
  TR_NUM_MODULE_IDS = 2
  Unbound = Unbound
  Nobody = Nobody
  Pending = Pending
  Threads <- MCThreads
  Clients <- MCClients
  AppOf <- MCAppOf
  ChannelOf <- MCChannelOf
  EventLists <- MCEventLists
  Mortal = {2}
  MaxFailures = 1
  MaxStarts = 2
SPECIFICATION FairSpec
CHECK_DEADLOCK FALSE
INVARIANT RemovedLeavesNothing
INVARIANT SubscriptionsInv
PROPERTY NobodyWaitsForever
