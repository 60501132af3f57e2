SPECIFICATION FairSpec
CONSTANTS
  p1 = p1
  p2 = p2
  c1 = c1
  c2 = c2
  e1 = e1
  e2 = e2
  EndMarker = EndMarker
  NoNode = NoNode
  NoMessage = NoMessage
  NoThread = NoThread
  Posters = {p1, p2}
  Router = p1
  Consumers = {c1}
  Owner = c1
  Nodes = {n1, n2}
  Events = {e1, e2}
  Messages <- OnlyNormal
  Calls <- AllCalls
  Selections <- SelectLists
  PurgeLists <- AnyList
  MaxTokens = 2
  MaxLeaks = 1
PROPERTY WaitingReceiverServed
PROPERTY SelectiveReceiverServed
PROPERTY OwedTokenArrives
