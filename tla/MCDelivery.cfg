CONSTANTS
  s1 = s1
  s2 = s2
  Senders <- MCSenders
  SendTids <- MCSendTids
  Publishers = {s1}
  Receivers = {2}
  Mortal = {2}
  MaxThreads = 2
  Subscribed <- MCSubscribed
  QueueSize = 2
  max_number_of_trials = 2
  MaxCalls <- MCMaxCalls
  MaxLives = 2
  MaxFaults = 1
SPECIFICATION FairSpec
CHECK_DEADLOCK FALSE
INVARIANT SteadyReceiverServed
PROPERTY SenderOrder
PROPERTY CallReturns
INVARIANT DeliveryInv
