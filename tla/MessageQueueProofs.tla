------------------------- MODULE MessageQueueProofs -------------------------
(* Proofs about MessageQueue, for every number of threads and nodes, and    *)
(* about QueueLife, the queues that one entry of the thread table has.      *)
EXTENDS MessageQueue, SequenceLemmas

-----------------------------------------------------------------------------
(* The list operations of MessageQueue keep the shape of the node table. *)

LEMMA RemoveNodeFacts ==
  ASSUME TypeOK, IsInjective(queue), NEW i \in 1 .. Len(queue),
         RemoveNodeFromQueue(i)
  PROVE  /\ queue[i] \in Nodes /\ queue[i] \in Range(queue)
         /\ queue' \in Seq(Nodes) /\ IsInjective(queue')
         /\ Range(queue') = Range(queue) \ {queue[i]}
         /\ Len(queue') = Len(queue) - 1
         /\ urgentTail' \in Nodes \cup {EndMarker}
         /\ messageCount' = messageCount - 1
<1>1. queue \in Seq(Nodes) /\ urgentTail \in Nodes \cup {EndMarker}
  BY DEF TypeOK
<1>2. queue[i] \in Nodes /\ queue[i] \in Range(queue)
  BY <1>1 DEF Range
<1>3. i > 1 => queue[i - 1] \in Nodes
  BY <1>1
<1>4. urgentTail' \in Nodes \cup {EndMarker}
  BY <1>1, <1>3 DEF RemoveNodeFromQueue
<1> QED BY <1>1, <1>2, <1>4, RemoveAtProperties DEF RemoveNodeFromQueue

LEMMA InsertNodeFacts ==
  ASSUME TypeOK, IsInjective(queue), NEW n \in Nodes, n \notin Range(queue),
         NEW m \in AnyMessage, InsertNode(n, m)
  PROVE  /\ queue' \in Seq(Nodes) /\ IsInjective(queue')
         /\ Range(queue') = Range(queue) \cup {n}
         /\ Len(queue') = Len(queue) + 1
         /\ urgentTail' \in Nodes \cup {EndMarker}
         /\ messageCount' = messageCount + 1
         /\ message' \in [Nodes -> AnyMessage \cup {NoMessage}]
         /\ message' = [message EXCEPT ![n] = m]
         /\ heap' = IF m.big THEN heap \cup {n} ELSE heap
<1>1. queue \in Seq(Nodes) /\ urgentTail \in Nodes \cup {EndMarker}
  BY DEF TypeOK
<1>2. \E i \in 1 .. Len(queue) + 1 : queue' = InsertAt(queue, i, n)
  <2>1. InsertPositions(m) \subseteq 1 .. Len(queue) + 1
    BY <1>1 DEF InsertPositions
  <2> QED BY <2>1 DEF InsertNode
<1>3. message' \in [Nodes -> AnyMessage \cup {NoMessage}]
  BY DEF InsertNode, TypeOK
<1> QED BY <1>1, <1>2, <1>3, InsertAtProperties DEF InsertNode

LEMMA FrontFacts ==
  ASSUME TypeOK, IsInjective(queue), queue # <<>>
  PROVE  /\ Last(queue) \in Nodes /\ Last(queue) \in Range(queue)
         /\ Front(queue) \in Seq(Nodes) /\ IsInjective(Front(queue))
         /\ Range(Front(queue)) = Range(queue) \ {Last(queue)}
         /\ Len(Front(queue)) = Len(queue) - 1
<1>1. queue \in Seq(Nodes) /\ Len(queue) \in 1 .. Len(queue)
  BY DEF TypeOK
<1>2. Last(queue) \in Nodes /\ Last(queue) \in Range(queue)
  BY <1>1 DEF Last, Range
<1>3. Front(queue) = RemoveAt(queue, Len(queue))
  <2>1. SubSeq(queue, 1, Len(queue) - 1) \in Seq(Nodes)
    BY <1>1, SubSeqProperties
  <2>2. SubSeq(queue, Len(queue) + 1, Len(queue)) = <<>>
    BY <1>1, SubSeqEmpty
  <2> QED BY <2>1, <2>2, ConcatEmptySeq DEF Front, RemoveAt
<1> QED BY <1>1, <1>2, <1>3, RemoveAtProperties DEF Last

(* Filling and emptying the slot of a consumer. *)

LEMMA FillSlot ==
  ASSUME TypeOK, NodeConservation, NEW h \in Consumers \X Slots,
         held[h] = NoNode, NEW n \in Nodes, n \notin HeldNodes,
         held' = [held EXCEPT ![h] = n]
  PROVE  /\ held' \in [Consumers \X Slots -> Nodes \cup {NoNode}]
         /\ HeldNodes' = HeldNodes \cup {n}
         /\ \A f, g \in Consumers \X Slots :
              held'[f] = held'[g] /\ held'[f] # NoNode => f = g
<1>1. held \in [Consumers \X Slots -> Nodes \cup {NoNode}] /\ n # NoNode
  BY NodesAssumption DEF TypeOK
<1>2. \A g \in Consumers \X Slots : held'[g] = IF g = h THEN n ELSE held[g]
  BY <1>1
<1>3. \A g \in Consumers \X Slots : held[g] # n
  BY <1>1 DEF HeldNodes
<1> QED BY <1>1, <1>2, <1>3 DEF HeldNodes, NodeConservation, InHand

LEMMA EmptySlot ==
  ASSUME TypeOK, NodeConservation, NEW h \in Consumers \X Slots,
         held[h] # NoNode, held' = [held EXCEPT ![h] = NoNode]
  PROVE  /\ held' \in [Consumers \X Slots -> Nodes \cup {NoNode}]
         /\ held[h] \in Nodes /\ held[h] \in HeldNodes
         /\ HeldNodes' = HeldNodes \ {held[h]}
         /\ \A f, g \in Consumers \X Slots :
              held'[f] = held'[g] /\ held'[f] # NoNode => f = g
<1>1. held \in [Consumers \X Slots -> Nodes \cup {NoNode}]
  BY DEF TypeOK
<1>2. \A g \in Consumers \X Slots : held'[g] = IF g = h THEN NoNode ELSE held[g]
  BY <1>1
<1>3. \A g \in Consumers \X Slots : held[g] = held[h] => g = h
  BY DEF NodeConservation, InHand
<1> QED BY <1>1, <1>2, <1>3 DEF HeldNodes, NodeConservation, InHand

-----------------------------------------------------------------------------
(* What the steps do to the nodes.                                         *)

LEMMA NodesUnchanged ==
  ASSUME NodeInv, UNCHANGED <<nodeVars, held, displaced, filling>>
  PROVE  /\ NodeConservation' /\ NodesCarryMessages' /\ BuffersMatchMessages'
         /\ CountIsLength'
BY DEF NodeInv, NodeConservation, InHand, NodesCarryMessages, BuffersMatchMessages, Carriers,
       CountIsLength, HeldNodes, nodeVars

\* A node that carried a message is cleared and its buffer given back.
LEMMA ClearNode ==
  ASSUME NodeInv, NEW n \in Nodes, Carriers' = Carriers \ {n},
         message' = [message EXCEPT ![n] = NoMessage],
         n \in Carriers,
         heap' = IF message[n].big THEN heap \ {n} ELSE heap
  PROVE  NodesCarryMessages' /\ BuffersMatchMessages'
<1>1. Carriers \subseteq Nodes
  BY DEF NodeInv, NodeConservation, InHand, Carriers
<1>2. \A k \in Carriers' : message'[k] = message[k] /\ k \in Carriers
  BY <1>1 DEF NodeInv, TypeOK
<1>3. heap = {k \in Carriers : message[k].big}
  BY DEF NodeInv, BuffersMatchMessages
<1>4. \A k \in Carriers : message[k] \in AnyMessage
  BY DEF NodeInv, NodesCarryMessages
<1>5. heap' = {k \in Carriers' : message'[k].big}
  <2>1. heap' = heap \ {n}
    BY <1>3
  <2> QED BY <1>2, <1>3, <2>1
<1> QED BY <1>2, <1>4, <1>5 DEF NodesCarryMessages, BuffersMatchMessages

\* A node that is nowhere else is filled and linked.
LEMMA LinkNode ==
  ASSUME NodeInv, NEW n \in Nodes, n \notin Range(queue) \cup HeldNodes,
         NEW m \in AnyMessage, InsertNode(n, m),
         held' = held, displaced' = NoNode, filling' = NoNode,
         free' = free \ {n}, displaced # NoNode => displaced = n,
         filling # NoNode => filling = n /\ message[n] = m
  PROVE  /\ NodeConservation' /\ NodesCarryMessages' /\ BuffersMatchMessages'
         /\ CountIsLength'
<1>1. /\ queue' \in Seq(Nodes) /\ IsInjective(queue')
      /\ Range(queue') = Range(queue) \cup {n}
      /\ Len(queue') = Len(queue) + 1
      /\ messageCount' = messageCount + 1
      /\ message' = [message EXCEPT ![n] = m]
      /\ heap' = IF m.big THEN heap \cup {n} ELSE heap
  BY InsertNodeFacts DEF NodeInv, NodeConservation, InHand
<1>2. HeldNodes' = HeldNodes
  BY DEF HeldNodes
<1>3. \A k \in Nodes : message'[k] = IF k = n THEN m ELSE message[k]
  BY <1>1 DEF NodeInv, TypeOK
<1>4. Range(queue) \subseteq Nodes /\ HeldNodes \subseteq Nodes
  BY DEF NodeInv, NodeConservation, InHand
<1>5. NodeConservation'
  BY <1>1, <1>2, <1>4, NodesAssumption DEF NodeInv, NodeConservation, InHand
<1>6. NodesCarryMessages' /\ BuffersMatchMessages'
  <2>1. Carriers' = Range(queue) \cup HeldNodes \cup {n}
    BY <1>1, <1>2, NodesAssumption DEF Carriers
  <2>2. \A k \in Nodes \ {n} : k \in Carriers <=> k \in Carriers'
    BY <2>1 DEF Carriers
  <2>3. n \in Carriers => message[n] = m
    BY NodesAssumption DEF Carriers
  <2>4. n \in Carriers' /\ Carriers' \subseteq Nodes
    BY <1>4, <2>1
  <2>5. heap = {k \in Carriers : message[k].big} /\ heap \subseteq Nodes
        /\ \A k \in Carriers : message[k] \in AnyMessage
    BY DEF NodeInv, BuffersMatchMessages, NodesCarryMessages, TypeOK
  <2>6. \A k \in Carriers' : message'[k] \in AnyMessage
    BY <1>3, <2>2, <2>4, <2>5
  <2>7. \A k \in Nodes : k \in heap' <=> k \in Carriers' /\ message'[k].big
    BY <1>1, <1>3, <2>2, <2>3, <2>4, <2>5
  <2>8. heap' \subseteq Nodes
    BY <1>1, <2>5
  <2> QED BY <2>4, <2>6, <2>7, <2>8 DEF NodesCarryMessages, BuffersMatchMessages
<1>7. CountIsLength'
  BY <1>1 DEF NodeInv, CountIsLength
<1> QED BY <1>5, <1>6, <1>7

\* A node moves from the queue into an empty slot.
LEMMA TakeNode ==
  ASSUME NodeInv, NEW i \in 1 .. Len(queue), RemoveNodeFromQueue(i),
         NEW h \in Consumers \X Slots, held[h] = NoNode,
         held' = [held EXCEPT ![h] = queue[i]],
         UNCHANGED <<free, message, heap, displaced, filling>>
  PROVE  /\ NodeConservation' /\ NodesCarryMessages' /\ BuffersMatchMessages'
         /\ CountIsLength'
         /\ queue' \in Seq(Nodes) /\ urgentTail' \in Nodes \cup {EndMarker}
         /\ messageCount' = messageCount - 1
         /\ held' \in [Consumers \X Slots -> Nodes \cup {NoNode}]
<1> DEFINE n == queue[i]
<1>1. /\ n \in Nodes /\ n \in Range(queue)
      /\ queue' \in Seq(Nodes) /\ IsInjective(queue')
      /\ Range(queue') = Range(queue) \ {n}
      /\ Len(queue') = Len(queue) - 1
      /\ urgentTail' \in Nodes \cup {EndMarker}
      /\ messageCount' = messageCount - 1
  BY RemoveNodeFacts DEF NodeInv, NodeConservation, InHand
<1>2. n \notin HeldNodes
  BY <1>1 DEF NodeInv, NodeConservation, InHand
<1>3. held' = [held EXCEPT ![h] = n]
  OBVIOUS
<1> HIDE DEF n
<1>4. /\ held' \in [Consumers \X Slots -> Nodes \cup {NoNode}]
      /\ HeldNodes' = HeldNodes \cup {n}
      /\ \A f, g \in Consumers \X Slots :
           held'[f] = held'[g] /\ held'[f] # NoNode => f = g
  BY <1>1, <1>2, <1>3, FillSlot DEF NodeInv
<1>5. NodeConservation'
  BY <1>1, <1>4 DEF NodeInv, NodeConservation, InHand
<1>6. NodesCarryMessages' /\ BuffersMatchMessages'
  BY <1>1, <1>4 DEF NodeInv, NodesCarryMessages, BuffersMatchMessages, Carriers
<1>7. CountIsLength'
  BY <1>1 DEF NodeInv, CountIsLength
<1> QED BY <1>1, <1>4, <1>5, <1>6, <1>7

\* The message of a previous call is given back.
LEMMA ReleaseNode ==
  ASSUME NodeInv, NEW h \in Consumers \X Slots, held[h] # NoNode,
         FreeNode(held[h]), held' = [held EXCEPT ![h] = NoNode],
         UNCHANGED <<queue, messageCount, displaced, filling>>
  PROVE  /\ NodeConservation' /\ NodesCarryMessages' /\ BuffersMatchMessages'
         /\ CountIsLength'
         /\ free' \subseteq Nodes /\ heap' \subseteq Nodes
         /\ message' \in [Nodes -> AnyMessage \cup {NoMessage}]
         /\ held' \in [Consumers \X Slots -> Nodes \cup {NoNode}]
<1> DEFINE n == held[h]
<1>1. /\ held' \in [Consumers \X Slots -> Nodes \cup {NoNode}]
      /\ n \in Nodes /\ n \in HeldNodes
      /\ HeldNodes' = HeldNodes \ {n}
      /\ \A f, g \in Consumers \X Slots :
           held'[f] = held'[g] /\ held'[f] # NoNode => f = g
  BY EmptySlot DEF NodeInv
<1>2. /\ free' = free \cup {n}
      /\ heap' = IF message[n].big THEN heap \ {n} ELSE heap
      /\ message' = [message EXCEPT ![n] = NoMessage]
  BY DEF FreeNode
<1> HIDE DEF n
<1>3. \A k \in Nodes : message'[k] = IF k = n THEN NoMessage ELSE message[k]
  BY <1>1, <1>2 DEF NodeInv, TypeOK
<1>4. Range(queue) \subseteq Nodes /\ HeldNodes \subseteq Nodes
  BY DEF NodeInv, NodeConservation, InHand
<1>5. n \notin Range(queue)
  BY <1>1 DEF NodeInv, NodeConservation, InHand
<1>6. NodeConservation'
  BY <1>1, <1>2, <1>5 DEF NodeInv, NodeConservation, InHand
<1>7. NodesCarryMessages' /\ BuffersMatchMessages'
  <2>1. n # filling
    BY <1>1, NodesAssumption DEF NodeInv, NodeConservation, InHand
  <2>2. Carriers' = Carriers \ {n} /\ n \in Carriers
    BY <1>1, <1>5, <2>1 DEF Carriers
  <2> QED BY <1>1, <1>2, <2>2, ClearNode
<1>8. CountIsLength'
  BY DEF NodeInv, CountIsLength
<1>9. /\ free' \subseteq Nodes /\ heap' \subseteq Nodes
      /\ message' \in [Nodes -> AnyMessage \cup {NoMessage}]
  BY <1>1, <1>2 DEF NodeInv, TypeOK
<1> QED BY <1>1, <1>6, <1>7, <1>8, <1>9

\* A node is unlinked and freed at once (SAL_Purge).
LEMMA DropNode ==
  ASSUME NodeInv, NEW i \in 1 .. Len(queue), RemoveNodeFromQueue(i),
         FreeNode(queue[i]), UNCHANGED <<held, displaced, filling>>
  PROVE  /\ NodeConservation' /\ NodesCarryMessages' /\ BuffersMatchMessages'
         /\ CountIsLength'
         /\ queue' \in Seq(Nodes) /\ urgentTail' \in Nodes \cup {EndMarker}
         /\ messageCount' = messageCount - 1
         /\ free' \subseteq Nodes /\ heap' \subseteq Nodes
         /\ message' \in [Nodes -> AnyMessage \cup {NoMessage}]
<1> DEFINE n == queue[i]
<1>1. /\ n \in Nodes /\ n \in Range(queue)
      /\ queue' \in Seq(Nodes) /\ IsInjective(queue')
      /\ Range(queue') = Range(queue) \ {n}
      /\ Len(queue') = Len(queue) - 1
      /\ urgentTail' \in Nodes \cup {EndMarker}
      /\ messageCount' = messageCount - 1
  BY RemoveNodeFacts DEF NodeInv, NodeConservation, InHand
<1>2. /\ free' = free \cup {n}
      /\ heap' = IF message[n].big THEN heap \ {n} ELSE heap
      /\ message' = [message EXCEPT ![n] = NoMessage]
  BY DEF FreeNode
<1> HIDE DEF n
<1>3. \A k \in Nodes : message'[k] = IF k = n THEN NoMessage ELSE message[k]
  BY <1>1, <1>2 DEF NodeInv, TypeOK
<1>4. Range(queue) \subseteq Nodes /\ HeldNodes \subseteq Nodes
  BY DEF NodeInv, NodeConservation, InHand
<1>5. HeldNodes' = HeldNodes /\ n \notin HeldNodes
  BY <1>1 DEF HeldNodes, NodeInv, NodeConservation, InHand
<1>6. NodeConservation'
  BY <1>1, <1>2, <1>5 DEF NodeInv, NodeConservation, InHand
<1>7. NodesCarryMessages' /\ BuffersMatchMessages'
  <2>1. n # filling
    BY <1>1, NodesAssumption DEF NodeInv, NodeConservation, InHand
  <2>2. Carriers' = Carriers \ {n} /\ n \in Carriers
    BY <1>1, <1>5, <2>1 DEF Carriers
  <2> QED BY <1>1, <1>2, <2>2, ClearNode
<1>8. CountIsLength'
  BY <1>1 DEF NodeInv, CountIsLength
<1>9. /\ free' \subseteq Nodes /\ heap' \subseteq Nodes
      /\ message' \in [Nodes -> AnyMessage \cup {NoMessage}]
  BY <1>1, <1>2 DEF NodeInv, TypeOK
<1> QED BY <1>1, <1>6, <1>7, <1>8, <1>9

-----------------------------------------------------------------------------
(* What the steps do to the program counters.                              *)

InCall == PcState \ {"idle", "purging", "owing"}
KeepsLock == {"displacing", "reading", "purging"}

LEMMA GotoFacts ==
  ASSUME TypeOK, NEW t \in Threads, NEW from, NEW to \in PcState,
         Goto(t, from, to)
  PROVE  /\ pc' \in [Threads -> PcState]
         /\ \A u \in Threads : pc'[u] = IF u = t THEN to ELSE pc[u]
         /\ pc[t] = from
BY DEF TypeOK, Goto

\* A thread moves between states in which it does not keep the lock.
LEMMA QuietGoto ==
  ASSUME TypeOK, LockDiscipline, NEW t \in Threads, NEW from,
         NEW to \in PcState, Goto(t, from, to),
         from \notin KeepsLock, to \notin KeepsLock,
         t \in Posters => to \in {"idle", "signal"},
         t \in Consumers => to # "signal",
         UNCHANGED <<lock, displaced, posting, filling>>
  PROVE  LockDiscipline'
<1>1. /\ \A u \in Threads : pc'[u] = IF u = t THEN to ELSE pc[u]
      /\ pc[t] = from
  BY GotoFacts
<1>2. Posters \subseteq Threads /\ Consumers \subseteq Threads
  BY DEF Threads
<1>3. \A u \in Threads : pc'[u] = pc[u] \/ (u = t /\ pc'[u] = to)
  BY <1>1
<1>4. \A u \in Threads, s \in KeepsLock : pc'[u] = s <=> pc[u] = s
  BY <1>1
<1>5. \A p \in Posters : pc'[p] \in {"idle", "signal", "displacing", "reading"}
  BY <1>2, <1>3 DEF LockDiscipline
<1>6. \A c \in Consumers :
        /\ pc'[c] \notin {"signal", "displacing", "reading"}
        /\ pc'[c] = "purging" => c = Owner
  BY <1>2, <1>3, <1>4 DEF LockDiscipline, KeepsLock
<1>7. \A u \in Threads : lock' = u <=> pc'[u] \in KeepsLock
  BY <1>4 DEF LockDiscipline, KeepsLock
<1>8. \A p \in Posters : /\ pc'[p] = "displacing" <=> pc[p] = "displacing"
                         /\ pc'[p] = "reading" <=> pc[p] = "reading"
  BY <1>2, <1>4 DEF KeepsLock
<1>9. /\ displaced' # NoNode <=> \E p \in Posters : pc'[p] = "displacing"
      /\ filling' # NoNode <=> pc'[Router] = "reading"
  BY <1>8, ThreadsAssumption DEF LockDiscipline
<1>10. \A p \in Posters :
         /\ pc'[p] = "reading" => p = Router
         /\ pc'[p] = "displacing" => posting'[p] \in AnyMessage /\ posting'[p].urgent
  BY <1>8 DEF LockDiscipline
<1> QED BY <1>5, <1>6, <1>7, <1>9, <1>10 DEF LockDiscipline, KeepsLock

\* No slot is filled, and nobody enters a call without an empty one.
LEMMA QuietSlots ==
  ASSUME TypeOK, SlotEmptyInCall, NEW t \in Threads, NEW from,
         NEW to \in PcState, Goto(t, from, to),
         t \in Consumers => from \in InCall \/ to \notin InCall,
         UNCHANGED <<held, call>>
  PROVE  SlotEmptyInCall'
BY GotoFacts DEF SlotEmptyInCall, Threads, InCall, TypeOK

\* Steps that only move tokens.
LEMMA QuietStep ==
  ASSUME NodeInv, NEW t \in Threads, NEW from, NEW to \in PcState,
         Goto(t, from, to), from \notin KeepsLock, to \notin KeepsLock,
         t \in Posters => to \in {"idle", "signal"},
         t \in Consumers => to # "signal" /\ (from \in InCall \/ to \notin InCall),
         UNCHANGED <<nodeVars, lock, posterVars, held, call, selected>>,
         sem' \in Nat, msgCnt' \in [Consumers -> Nat]
  PROVE  NodeInv'
<1>1. TypeOK /\ LockDiscipline /\ SlotEmptyInCall
  BY DEF NodeInv
<1>2. pc' \in [Threads -> PcState]
  BY <1>1, GotoFacts
<1>3. TypeOK'
  BY <1>1, <1>2 DEF TypeOK, nodeVars, posterVars
<1>4. LockDiscipline'
  BY <1>1, QuietGoto DEF posterVars
<1>5. SlotEmptyInCall'
  BY <1>1, QuietSlots
<1> QED BY <1>3, <1>4, <1>5, NodesUnchanged DEF NodeInv, posterVars

LEMMA FreeLock ==
  ASSUME NodeInv, lock = NoThread
  PROVE  /\ displaced = NoNode /\ filling = NoNode
         /\ \A t \in Threads : pc[t] \notin KeepsLock
BY ThreadsAssumption DEF NodeInv, LockDiscipline, KeepsLock, Threads

-----------------------------------------------------------------------------
(* Every step keeps the invariant: posting.                                *)

LEMMA InitNodeInv == Init => NodeInv
<1> SUFFICES ASSUME Init PROVE NodeInv
  OBVIOUS
<1>1. queue = <<>> /\ Len(queue) = 0 /\ queue \in Seq(Nodes) /\ Range(queue) = {}
  BY DEF Init, Range
<1>2. HeldNodes = {}
  BY DEF Init, HeldNodes
<1>3. TypeOK
  BY <1>1 DEF Init, TypeOK, NoCall, AnyCall, Slots, WaitKinds, PcState
<1>4. LockDiscipline
  BY ThreadsAssumption DEF Init, LockDiscipline, Threads
<1>5. SlotEmptyInCall
  BY DEF Init, SlotEmptyInCall, Threads
<1>6. NodeConservation
  BY <1>1, <1>2, NodesAssumption DEF Init, NodeConservation, InHand, IsInjective
<1>7. NodesCarryMessages /\ BuffersMatchMessages /\ CountIsLength
  BY <1>1, <1>2
  DEF Init, NodesCarryMessages, BuffersMatchMessages, Carriers, CountIsLength
<1> QED BY <1>3, <1>4, <1>5, <1>6, <1>7 DEF NodeInv

\* A post that finds a free node, before the poster moves on.
LEMMA LinkFree ==
  ASSUME NodeInv, lock = NoThread, NEW n \in free, NEW m \in Messages,
         InsertNode(n, m), free' = free \ {n},
         UNCHANGED <<lock, posterVars, consumerVars>>, sem' \in Nat,
         pc' \in [Threads -> PcState], LockDiscipline', SlotEmptyInCall'
  PROVE  NodeInv'
<1>1. m \in AnyMessage /\ n \in Nodes /\ n \notin Range(queue) \cup HeldNodes
  BY MessagesAssumption DEF NodeInv, NodeConservation, InHand, TypeOK
<1>2. /\ displaced = NoNode /\ displaced' = NoNode /\ held' = held
      /\ filling = NoNode /\ filling' = NoNode
  BY FreeLock DEF posterVars, consumerVars
<1>3. /\ NodeConservation' /\ NodesCarryMessages' /\ BuffersMatchMessages'
      /\ CountIsLength'
  BY <1>1, <1>2, LinkNode
<1>4. TypeOK'
  <2>1. /\ queue' \in Seq(Nodes) /\ urgentTail' \in Nodes \cup {EndMarker}
        /\ messageCount' = messageCount + 1
        /\ message' \in [Nodes -> AnyMessage \cup {NoMessage}]
        /\ heap' = IF m.big THEN heap \cup {n} ELSE heap
    BY <1>1, InsertNodeFacts DEF NodeInv, NodeConservation, InHand
  <2> QED BY <1>1, <2>1 DEF NodeInv, TypeOK, posterVars, consumerVars
<1> QED BY <1>3, <1>4 DEF NodeInv

LEMMA PostMessageStep ==
  ASSUME NodeInv, NEW p \in Posters, NEW m \in Messages, PostMessage(p, m)
  PROVE  NodeInv'
<1>1. p \in Threads /\ p \notin Consumers
  BY ThreadsAssumption DEF Threads
<1>2. Goto(p, "idle", "signal")
  BY DEF PostMessage
<1>3. pc' \in [Threads -> PcState]
  BY <1>1, <1>2, GotoFacts DEF NodeInv, PcState
<1>4. LockDiscipline' /\ SlotEmptyInCall'
  BY <1>1, <1>2, QuietGoto, QuietSlots
  DEF PostMessage, posterVars, consumerVars, NodeInv, KeepsLock, PcState
<1>5. sem' \in Nat
  BY DEF PostMessage, NodeInv, TypeOK
<1> QED BY <1>3, <1>4, <1>5, LinkFree DEF PostMessage

LEMMA DisplaceStep ==
  ASSUME NodeInv, NEW p \in Posters, NEW m \in Messages, Displace(p, m)
  PROVE  NodeInv'
<1> DEFINE n == Last(queue)
<1>1. /\ n \in Nodes /\ n \in Range(queue)
      /\ queue' \in Seq(Nodes) /\ IsInjective(queue')
      /\ Range(queue') = Range(queue) \ {n}
      /\ Len(queue') = Len(queue) - 1
  BY FrontFacts DEF Displace, NodeInv, NodeConservation, InHand
<1>2. /\ heap' = IF message[n].big THEN heap \ {n} ELSE heap
      /\ message' = [message EXCEPT ![n] = NoMessage]
      /\ displaced' = n /\ displaced = NoNode /\ held' = held /\ free' = free
      /\ filling = NoNode /\ filling' = NoNode
  BY FreeLock DEF Displace, consumerVars
<1> HIDE DEF n
<1>3. \A k \in Nodes : message'[k] = IF k = n THEN NoMessage ELSE message[k]
  BY <1>1, <1>2 DEF NodeInv, TypeOK
<1>4. Range(queue) \subseteq Nodes /\ HeldNodes \subseteq Nodes
  BY DEF NodeInv, NodeConservation, InHand
<1>5. HeldNodes' = HeldNodes /\ n \notin HeldNodes
  BY <1>1, <1>2 DEF HeldNodes, NodeInv, NodeConservation, InHand
<1>6. p \in Threads /\ Goto(p, "idle", "displacing")
  BY DEF Displace, Threads
<1>7. pc' \in [Threads -> PcState]
      /\ \A u \in Threads : pc'[u] = IF u = p THEN "displacing" ELSE pc[u]
  BY <1>6, GotoFacts DEF NodeInv, PcState
<1>8. TypeOK'
  <2>1. m \in AnyMessage
    BY MessagesAssumption
  <2> QED BY <1>1, <1>2, <1>6, <1>7, <2>1
          DEF Displace, NodeInv, TypeOK, consumerVars
<1>9. LockDiscipline'
  <2>1. \A u \in Threads : pc[u] \notin KeepsLock
    BY FreeLock DEF Displace
  <2>2. lock' = p /\ n # NoNode
    BY <1>1, NodesAssumption DEF Displace
  <2>3. posting'[p] = m /\ m \in AnyMessage /\ m.urgent
    BY MessagesAssumption DEF Displace, NodeInv, TypeOK
  <2>4. p \notin Consumers /\ Posters \subseteq Threads /\ Consumers \subseteq Threads
    BY ThreadsAssumption DEF Threads
  <2>5. \A u \in Threads : pc'[u] \in {"displacing", "reading", "purging"} <=> u = p
    BY <1>7, <2>1 DEF KeepsLock
  <2>6. \A c \in Consumers : pc'[c] = pc[c]
    BY <1>7, <2>4
  <2>7. \A q \in Posters : q # p => pc'[q] = pc[q]
    BY <1>7, <2>4
  <2>8. \A q \in Posters : /\ pc'[q] = "displacing" => q = p
                           /\ pc'[q] # "reading"
    BY <1>7, <2>4, <2>5
  <2> QED BY ThreadsAssumption, <1>2, <1>6, <1>7, <2>2, <2>3, <2>4, <2>5, <2>6, <2>7, <2>8
          DEF NodeInv, LockDiscipline
<1>10. SlotEmptyInCall'
  BY <1>6, <1>7, ThreadsAssumption
  DEF Displace, consumerVars, NodeInv, SlotEmptyInCall, Threads
<1>11. NodeConservation'
  <2>1. InHand = {} /\ InHand' = {n}
    BY <1>1, <1>2, NodesAssumption DEF InHand
  <2>2. \A g, h \in Consumers \X Slots : held'[g] = held'[h] /\ held'[g] # NoNode => g = h
    BY <1>2 DEF NodeInv, NodeConservation
  <2>3. /\ free' \cap Range(queue') = {}
        /\ HeldNodes' \cap (free' \cup Range(queue')) = {}
        /\ InHand' \cap (free' \cup Range(queue') \cup HeldNodes') = {}
        /\ Nodes = free' \cup Range(queue') \cup HeldNodes' \cup InHand'
    BY <1>1, <1>2, <1>5, <2>1 DEF NodeInv, NodeConservation
  <2> QED BY <1>1, <1>2, <2>2, <2>3 DEF NodeConservation
<1>12. NodesCarryMessages' /\ BuffersMatchMessages'
  <2>1. Carriers' = Carriers \ {n} /\ n \in Carriers
    BY <1>1, <1>2, <1>5 DEF Carriers
  <2> QED BY <1>1, <1>2, <2>1, ClearNode
<1>13. CountIsLength'
  BY <1>1 DEF Displace, NodeInv, CountIsLength
<1> QED BY <1>8, <1>9, <1>10, <1>11, <1>12, <1>13 DEF NodeInv

\* The poster that displaced a message is the only one, and holds its node.
LEMMA DisplacerFacts ==
  ASSUME NodeInv, NEW p \in Posters, pc[p] = "displacing"
  PROVE  /\ lock = p /\ p \in Threads /\ p \notin Consumers
         /\ \A u \in Threads : pc[u] \in KeepsLock => u = p
         /\ displaced \in Nodes /\ filling = NoNode
         /\ displaced \notin free \cup Range(queue) \cup HeldNodes
         /\ posting[p] \in AnyMessage
<1>1. /\ lock = p /\ p \in Threads /\ p \notin Consumers
      /\ \A u \in Threads : pc[u] \in KeepsLock => u = p
  BY ThreadsAssumption DEF NodeInv, LockDiscipline, Threads, KeepsLock
<1>2. displaced # NoNode /\ posting[p] \in AnyMessage
  BY DEF NodeInv, LockDiscipline
<1> QED BY <1>1, <1>2 DEF NodeInv, NodeConservation, InHand, TypeOK

\* The holder of the lock leaves its critical section.
LEMMA HolderLeaves ==
  ASSUME NodeInv, NEW p \in Posters, pc[p] \in {"displacing", "reading"},
         NEW to \in {"signal", "idle"}, Goto(p, pc[p], to),
         lock' = NoThread, displaced' = NoNode, filling' = NoNode,
         \A q \in Posters : q # p => posting'[q] = posting[q],
         UNCHANGED consumerVars
  PROVE  /\ LockDiscipline' /\ SlotEmptyInCall'
         /\ pc' \in [Threads -> PcState]
<1>1. /\ lock = p /\ p \in Threads /\ p \notin Consumers
      /\ \A u \in Threads : pc[u] \in KeepsLock => u = p
  BY ThreadsAssumption DEF NodeInv, LockDiscipline, Threads, KeepsLock
<1>2. /\ pc' \in [Threads -> PcState]
      /\ \A u \in Threads : pc'[u] = IF u = p THEN to ELSE pc[u]
  BY <1>1, GotoFacts DEF NodeInv, PcState
<1>3. Posters \subseteq Threads /\ Consumers \subseteq Threads /\ NoThread \notin Threads
  BY ThreadsAssumption DEF Threads
<1>4. \A u \in Threads : pc'[u] \notin KeepsLock
  BY <1>1, <1>2 DEF KeepsLock
<1>5. \A c \in Consumers : pc'[c] = pc[c]
  BY <1>1, <1>2, <1>3
<1>6. LockDiscipline'
  <2>1. \A q \in Posters : pc'[q] \in {"idle", "signal", "displacing", "reading"}
    BY <1>2, <1>3 DEF NodeInv, LockDiscipline
  <2>2. \A q \in Posters : pc'[q] \notin {"displacing", "reading"}
    BY <1>3, <1>4 DEF KeepsLock
  <2>3. \A u \in Threads : lock' # u
    BY <1>3
  <2>4. Router \in Posters
    BY ThreadsAssumption
  <2> QED BY <1>3, <1>4, <1>5, <2>1, <2>2, <2>3, <2>4
          DEF NodeInv, LockDiscipline, KeepsLock
<1>7. SlotEmptyInCall'
  BY <1>5 DEF NodeInv, SlotEmptyInCall, consumerVars
<1> QED BY <1>2, <1>6, <1>7

LEMMA DisplacementEnds ==
  ASSUME NodeInv, NEW p \in Posters, NEW to \in {"signal", "idle"},
         Goto(p, "displacing", to), EndDisplacement(p),
         lock' = NoThread, UNCHANGED filling
  PROVE  /\ LockDiscipline' /\ SlotEmptyInCall'
         /\ pc' \in [Threads -> PcState] /\ sem' \in Nat
         /\ displaced' = NoNode /\ filling = NoNode /\ filling' = NoNode
         /\ UNCHANGED <<consumerVars, leaked>>
         /\ posting' \in [Posters -> AnyMessage \cup {NoMessage}]
<1>1. pc[p] = "displacing"
  BY DEF Goto
<1>2. /\ displaced' = NoNode /\ UNCHANGED <<consumerVars, leaked>>
      /\ posting' = [posting EXCEPT ![p] = NoMessage] /\ sem > 0 /\ sem' = sem - 1
  BY DEF EndDisplacement
<1>3. filling = NoNode /\ filling' = NoNode
  BY <1>1, DisplacerFacts
<1>4. posting' \in [Posters -> AnyMessage \cup {NoMessage}] /\ sem' \in Nat
  BY <1>2 DEF NodeInv, TypeOK
<1>5. \A q \in Posters : q # p => posting'[q] = posting[q]
  BY <1>2 DEF NodeInv, TypeOK
<1>6. /\ LockDiscipline' /\ SlotEmptyInCall'
      /\ pc' \in [Threads -> PcState]
  BY <1>1, <1>2, <1>3, <1>5, HolderLeaves
<1> QED BY <1>2, <1>3, <1>4, <1>6

LEMMA DisplacedInsertStep ==
  ASSUME NodeInv, NEW p \in Posters, DisplacedInsert(p)
  PROVE  NodeInv'
<1>1. /\ Goto(p, "displacing", "signal") /\ EndDisplacement(p)
      /\ lock' = NoThread /\ UNCHANGED filling
  BY DEF DisplacedInsert
<1>2. /\ LockDiscipline' /\ SlotEmptyInCall'
      /\ pc' \in [Threads -> PcState] /\ sem' \in Nat
      /\ displaced' = NoNode /\ filling = NoNode /\ filling' = NoNode
      /\ UNCHANGED <<consumerVars, leaked>>
      /\ posting' \in [Posters -> AnyMessage \cup {NoMessage}]
  BY <1>1, DisplacementEnds
<1>3. /\ displaced \in Nodes /\ posting[p] \in AnyMessage
      /\ displaced \notin free \cup Range(queue) \cup HeldNodes
  BY DisplacerFacts DEF DisplacedInsert
<1>4. InsertNode(displaced, posting[p]) /\ free' = free /\ free = free \ {displaced}
      /\ held' = held
  BY <1>2, <1>3 DEF DisplacedInsert, consumerVars
<1>5. /\ NodeConservation' /\ NodesCarryMessages' /\ BuffersMatchMessages'
      /\ CountIsLength'
  BY <1>2, <1>3, <1>4, LinkNode
<1>6. TypeOK'
  <2>1. /\ queue' \in Seq(Nodes) /\ urgentTail' \in Nodes \cup {EndMarker}
        /\ messageCount' = messageCount + 1
        /\ message' \in [Nodes -> AnyMessage \cup {NoMessage}]
        /\ heap' = IF posting[p].big THEN heap \cup {displaced} ELSE heap
    BY <1>3, <1>4, InsertNodeFacts DEF NodeInv, NodeConservation
  <2> QED BY <1>1, <1>2, <1>3, <1>4, <2>1 DEF NodeInv, TypeOK, consumerVars
<1> QED BY <1>2, <1>5, <1>6 DEF NodeInv

LEMMA DisplacedNoMemoryStep ==
  ASSUME NodeInv, NEW p \in Posters, DisplacedNoMemory(p)
  PROVE  NodeInv'
<1>1. /\ Goto(p, "displacing", "idle") /\ EndDisplacement(p)
      /\ lock' = NoThread /\ UNCHANGED filling
  BY DEF DisplacedNoMemory
<1>2. /\ LockDiscipline' /\ SlotEmptyInCall'
      /\ pc' \in [Threads -> PcState] /\ sem' \in Nat
      /\ displaced' = NoNode /\ filling = NoNode /\ filling' = NoNode
      /\ UNCHANGED <<consumerVars, leaked>>
      /\ posting' \in [Posters -> AnyMessage \cup {NoMessage}]
  BY <1>1, DisplacementEnds
<1>3. /\ displaced \in Nodes
      /\ displaced \notin free \cup Range(queue) \cup HeldNodes
  BY DisplacerFacts DEF DisplacedNoMemory
<1>4. /\ free' = free \cup {displaced}
      /\ UNCHANGED <<queue, urgentTail, message, heap, messageCount, held>>
  BY <1>2 DEF DisplacedNoMemory, consumerVars
<1>5. HeldNodes' = HeldNodes
  BY <1>4 DEF HeldNodes
<1>6. NodeConservation'
  BY <1>2, <1>3, <1>4, <1>5, NodesAssumption DEF NodeInv, NodeConservation, InHand
<1>7. NodesCarryMessages' /\ BuffersMatchMessages' /\ CountIsLength'
  BY <1>2, <1>4, <1>5
  DEF NodeInv, NodesCarryMessages, BuffersMatchMessages, Carriers, CountIsLength
<1>8. TypeOK'
  BY <1>1, <1>2, <1>3, <1>4 DEF NodeInv, TypeOK, consumerVars
<1> QED BY <1>2, <1>6, <1>7, <1>8 DEF NodeInv

(* The router. *)

\* A node that is nowhere else gets the header and the buffer of a message.
LEMMA NodeFilled ==
  ASSUME NodeInv, NEW n \in Nodes, n \notin Range(queue) \cup HeldNodes,
         NEW m \in AnyMessage, FillNode(n, m),
         UNCHANGED <<queue, held, messageCount>>, displaced' = NoNode,
         free' = free \ {n}, displaced # NoNode => displaced = n, filling = NoNode
  PROVE  /\ NodeConservation' /\ NodesCarryMessages' /\ BuffersMatchMessages'
         /\ CountIsLength'
         /\ message' \in [Nodes -> AnyMessage \cup {NoMessage}]
         /\ heap' \subseteq Nodes /\ filling' \in Nodes
<1>1. /\ filling' = n /\ message' = [message EXCEPT ![n] = m]
      /\ heap' = IF m.big THEN heap \cup {n} ELSE heap
  BY DEF FillNode
<1>2. HeldNodes' = HeldNodes
  BY DEF HeldNodes
<1>3. \A k \in Nodes : message'[k] = IF k = n THEN m ELSE message[k]
  BY <1>1 DEF NodeInv, TypeOK
<1>4. Range(queue) \subseteq Nodes /\ HeldNodes \subseteq Nodes /\ n # NoNode
  BY NodesAssumption DEF NodeInv, NodeConservation
<1>5. NodeConservation'
  BY <1>1, <1>2, <1>4 DEF NodeInv, NodeConservation, InHand
<1>6. NodesCarryMessages'
  BY <1>1, <1>2, <1>3, <1>4 DEF NodeInv, NodesCarryMessages, Carriers
<1>7. BuffersMatchMessages'
  BY <1>1, <1>2, <1>3, <1>4 DEF NodeInv, BuffersMatchMessages, Carriers
<1>8. /\ message' \in [Nodes -> AnyMessage \cup {NoMessage}]
      /\ heap' \subseteq Nodes /\ filling' \in Nodes
  BY <1>1 DEF NodeInv, TypeOK
<1> QED BY <1>5, <1>6, <1>7, <1>8 DEF NodeInv, CountIsLength

\* The router enters its read, with the lock.
LEMMA ReadingBegins ==
  ASSUME NodeInv, NEW from, Goto(Router, from, "reading"), from \in PcState,
         \A u \in Threads : pc[u] \in KeepsLock => u = Router,
         lock' = Router, displaced' = NoNode, filling' # NoNode,
         UNCHANGED consumerVars
  PROVE  LockDiscipline' /\ SlotEmptyInCall' /\ pc' \in [Threads -> PcState]
<1>1. Router \in Threads /\ Router \in Posters /\ Router \notin Consumers
  BY ThreadsAssumption DEF Threads
<1>2. /\ pc' \in [Threads -> PcState]
      /\ \A u \in Threads : pc'[u] = IF u = Router THEN "reading" ELSE pc[u]
  BY <1>1, GotoFacts DEF NodeInv, PcState
<1>3. Posters \subseteq Threads /\ Consumers \subseteq Threads
  BY DEF Threads
<1>4. \A u \in Threads : pc'[u] \in KeepsLock <=> u = Router
  BY <1>2 DEF KeepsLock
<1>5. \A c \in Consumers : pc'[c] = pc[c]
  BY <1>1, <1>2, <1>3
<1>6. \A q \in Posters :
        /\ pc'[q] \in {"idle", "signal", "displacing", "reading"}
        /\ pc'[q] # "displacing"
        /\ pc'[q] = "reading" => q = Router
  BY <1>2, <1>3, <1>4 DEF NodeInv, LockDiscipline, KeepsLock
<1>7. LockDiscipline'
  BY <1>1, <1>2, <1>3, <1>4, <1>5, <1>6 DEF NodeInv, LockDiscipline, KeepsLock
<1>8. SlotEmptyInCall'
  BY <1>5 DEF NodeInv, SlotEmptyInCall, consumerVars
<1> QED BY <1>2, <1>7, <1>8

LEMMA TakeFreeNodeStep ==
  ASSUME NodeInv, NEW m \in Messages, TakeFreeNode(m)
  PROVE  NodeInv'
<1>1. PICK n \in free : FillNode(n, m) /\ free' = free \ {n}
  BY DEF TakeFreeNode
<1>2. m \in AnyMessage /\ n \in Nodes /\ n \notin Range(queue) \cup HeldNodes
  BY MessagesAssumption DEF NodeInv, NodeConservation, TypeOK
<1>3. /\ displaced = NoNode /\ filling = NoNode
      /\ \A u \in Threads : pc[u] \notin KeepsLock
  BY FreeLock DEF TakeFreeNode
<1>4. /\ displaced' = NoNode /\ UNCHANGED <<queue, held, messageCount>>
      /\ UNCHANGED <<urgentTail, sem, posting, leaked, consumerVars>>
      /\ lock' = Router /\ Goto(Router, "idle", "reading")
  BY <1>3 DEF TakeFreeNode, consumerVars
<1>5. /\ NodeConservation' /\ NodesCarryMessages' /\ BuffersMatchMessages'
      /\ CountIsLength'
      /\ message' \in [Nodes -> AnyMessage \cup {NoMessage}]
      /\ heap' \subseteq Nodes /\ filling' \in Nodes
  BY <1>1, <1>2, <1>3, <1>4, NodeFilled
<1>6. LockDiscipline' /\ SlotEmptyInCall' /\ pc' \in [Threads -> PcState]
  BY <1>3, <1>4, <1>5, NodesAssumption, ReadingBegins DEF PcState
<1>7. TypeOK'
  BY <1>1, <1>4, <1>5, <1>6, ThreadsAssumption
  DEF NodeInv, TypeOK, consumerVars, Threads
<1> QED BY <1>5, <1>6, <1>7 DEF NodeInv

LEMMA TakeDisplacedNodeStep ==
  ASSUME NodeInv, TakeDisplacedNode
  PROVE  NodeInv'
<1>1. Router \in Posters /\ pc[Router] = "displacing"
  BY ThreadsAssumption DEF TakeDisplacedNode, Goto
<1>2. /\ lock = Router /\ \A u \in Threads : pc[u] \in KeepsLock => u = Router
      /\ displaced \in Nodes /\ filling = NoNode
      /\ displaced \notin free \cup Range(queue) \cup HeldNodes
      /\ posting[Router] \in AnyMessage
  BY <1>1, DisplacerFacts
<1>3. /\ FillNode(displaced, posting[Router]) /\ displaced' = NoNode
      /\ Goto(Router, "displacing", "reading") /\ lock' = Router
      /\ sem > 0 /\ sem' = sem - 1
      /\ posting' = [posting EXCEPT ![Router] = NoMessage]
      /\ UNCHANGED <<queue, urgentTail, free, held, messageCount, leaked, consumerVars>>
  BY <1>2 DEF TakeDisplacedNode, EndDisplacement, consumerVars
<1>4. free' = free \ {displaced}
  BY <1>2, <1>3
<1>5. /\ NodeConservation' /\ NodesCarryMessages' /\ BuffersMatchMessages'
      /\ CountIsLength'
      /\ message' \in [Nodes -> AnyMessage \cup {NoMessage}]
      /\ heap' \subseteq Nodes /\ filling' \in Nodes
  BY <1>2, <1>3, <1>4, NodeFilled
<1>6. LockDiscipline' /\ SlotEmptyInCall' /\ pc' \in [Threads -> PcState]
  BY <1>2, <1>3, <1>5, NodesAssumption, ReadingBegins DEF PcState
<1>7. TypeOK'
  <2>1. /\ posting' \in [Posters -> AnyMessage \cup {NoMessage}]
        /\ sem' \in Nat /\ Router \in Threads
    BY <1>1, <1>3 DEF NodeInv, TypeOK, Threads
  <2> QED BY <1>3, <1>5, <1>6, <2>1 DEF NodeInv, TypeOK, consumerVars
<1> QED BY <1>5, <1>6, <1>7 DEF NodeInv

\* The node the router reads into is nowhere else and carries a message.
LEMMA ReaderFacts ==
  ASSUME NodeInv, pc[Router] = "reading"
  PROVE  /\ Router \in Posters /\ lock = Router
         /\ filling \in Nodes /\ filling # NoNode /\ displaced = NoNode
         /\ filling \notin free \cup Range(queue) \cup HeldNodes
         /\ message[filling] \in AnyMessage
<1>1. Router \in Posters /\ Router \in Threads
  BY ThreadsAssumption DEF Threads
<1>2. lock = Router /\ filling # NoNode
  BY <1>1 DEF NodeInv, LockDiscipline
<1>3. /\ filling \in Nodes /\ displaced = NoNode
      /\ filling \notin free \cup Range(queue) \cup HeldNodes
  BY <1>2 DEF NodeInv, NodeConservation, InHand, TypeOK
<1>4. message[filling] \in AnyMessage
  BY <1>2 DEF NodeInv, NodesCarryMessages, Carriers
<1> QED BY <1>1, <1>2, <1>3, <1>4

LEMMA ReadingEnds ==
  ASSUME NodeInv, EndReading
  PROVE  /\ LockDiscipline' /\ SlotEmptyInCall' /\ pc' \in [Threads -> PcState]
         /\ lock' = NoThread /\ displaced' = NoNode /\ filling' = NoNode
         /\ UNCHANGED <<posting, consumerVars>>
<1>1. pc[Router] = "reading" /\ Goto(Router, pc[Router], "idle")
  BY DEF EndReading, Goto
<1>2. Router \in Posters /\ displaced = NoNode
  BY <1>1, ReaderFacts
<1>3. /\ lock' = NoThread /\ displaced' = NoNode /\ filling' = NoNode
      /\ UNCHANGED <<posting, consumerVars>>
  BY <1>2 DEF EndReading
<1> QED BY <1>1, <1>2, <1>3, HolderLeaves

LEMMA PostMessageNodeStep ==
  ASSUME NodeInv, PostMessageNode
  PROVE  NodeInv'
<1>1. pc[Router] = "reading" /\ EndReading /\ InsertNode(filling, message[filling])
  BY DEF PostMessageNode, EndReading, Goto
<1>2. /\ LockDiscipline' /\ SlotEmptyInCall' /\ pc' \in [Threads -> PcState]
      /\ lock' = NoThread /\ displaced' = NoNode /\ filling' = NoNode
      /\ UNCHANGED <<posting, consumerVars>>
  BY <1>1, ReadingEnds
<1>3. /\ filling \in Nodes /\ displaced = NoNode
      /\ filling \notin free \cup Range(queue) \cup HeldNodes
      /\ message[filling] \in AnyMessage
  BY <1>1, ReaderFacts
<1>4. free' = free \ {filling} /\ free' = free /\ held' = held /\ leaked' = leaked
      /\ sem' = sem + 1
  BY <1>2, <1>3 DEF PostMessageNode, consumerVars
<1>5. /\ NodeConservation' /\ NodesCarryMessages' /\ BuffersMatchMessages'
      /\ CountIsLength'
  BY <1>1, <1>2, <1>3, <1>4, LinkNode
<1>6. TypeOK'
  <2>1. /\ queue' \in Seq(Nodes) /\ urgentTail' \in Nodes \cup {EndMarker}
        /\ messageCount' = messageCount + 1
        /\ message' \in [Nodes -> AnyMessage \cup {NoMessage}]
        /\ heap' = IF message[filling].big THEN heap \cup {filling} ELSE heap
    BY <1>1, <1>3, InsertNodeFacts DEF NodeInv, NodeConservation
  <2> QED BY <1>2, <1>3, <1>4, <2>1 DEF NodeInv, TypeOK, consumerVars
<1> QED BY <1>2, <1>5, <1>6 DEF NodeInv

LEMMA ReadFailsStep ==
  ASSUME NodeInv, ReadFails
  PROVE  NodeInv'
<1> DEFINE n == filling
<1>1. pc[Router] = "reading" /\ EndReading
  BY DEF ReadFails, EndReading, Goto
<1>2. /\ LockDiscipline' /\ SlotEmptyInCall' /\ pc' \in [Threads -> PcState]
      /\ lock' = NoThread /\ displaced' = NoNode /\ filling' = NoNode
      /\ UNCHANGED <<posting, consumerVars>>
  BY <1>1, ReadingEnds
<1>3. /\ n \in Nodes /\ n # NoNode /\ displaced = NoNode
      /\ n \notin free \cup Range(queue) \cup HeldNodes
  BY <1>1, ReaderFacts
<1>4. /\ free' = free \cup {n}
      /\ heap' = IF message[n].big THEN heap \ {n} ELSE heap
      /\ message' = [message EXCEPT ![n] = NoMessage]
      /\ UNCHANGED <<queue, urgentTail, messageCount, sem, held>>
      /\ leaked' \in Nat
  BY <1>2 DEF ReadFails, FreeNode, consumerVars, NodeInv, TypeOK
<1>5. HeldNodes' = HeldNodes
  BY <1>4 DEF HeldNodes
<1>6. \A k \in Nodes : message'[k] = IF k = n THEN NoMessage ELSE message[k]
  BY <1>4 DEF NodeInv, TypeOK
<1>7. Range(queue) \subseteq Nodes /\ HeldNodes \subseteq Nodes
  BY DEF NodeInv, NodeConservation
<1>8. NodeConservation'
  BY <1>2, <1>3, <1>4, <1>5 DEF NodeInv, NodeConservation, InHand
<1>9. NodesCarryMessages' /\ BuffersMatchMessages'
  BY <1>2, <1>3, <1>4, <1>5, <1>6, <1>7
  DEF NodeInv, NodesCarryMessages, BuffersMatchMessages, Carriers
<1>10. TypeOK'
  BY <1>2, <1>3, <1>4 DEF NodeInv, TypeOK, consumerVars
<1> QED BY <1>2, <1>4, <1>8, <1>9, <1>10 DEF NodeInv, CountIsLength

LEMMA SignalStep ==
  ASSUME NodeInv, NEW p \in Posters, Signal(p)
  PROVE  NodeInv'
<1>1. Goto(p, "signal", "idle") /\ p \in Threads /\ p \notin Consumers
  BY ThreadsAssumption DEF Signal, Threads
<1>2. sem' \in Nat /\ msgCnt' \in [Consumers -> Nat]
  BY DEF Signal, NodeInv, TypeOK, consumerVars
<1> QED BY <1>1, <1>2, QuietStep
        DEF Signal, posterVars, consumerVars, KeepsLock, PcState

-----------------------------------------------------------------------------
(* Every step keeps the invariant: receiving.                              *)

LEMMA ConsumerFacts ==
  ASSUME NEW c \in Consumers
  PROVE  c \in Threads /\ c \notin Posters
BY ThreadsAssumption DEF Threads

\* A new call may be entered once its slot is empty.
LEMMA ReceiveStep ==
  ASSUME NodeInv, NEW c \in Consumers, NEW k \in Calls, Receive(c, k)
  PROVE  NodeInv'
<1> DEFINE h == <<c, k.slot>>
<1>1. PICK to \in {"search", "poll", "wait"} : Goto(c, "idle", to)
  BY DEF Receive
<1>2. /\ k \in AnyCall /\ h \in Consumers \X Slots
      /\ call' = [call EXCEPT ![c] = k]
      /\ UNCHANGED <<queue, urgentTail, messageCount, lock, sem, posterVars,
                     msgCnt, selected>>
  BY CallsAssumption DEF Receive, AnyCall
<1>3. /\ NodeConservation' /\ NodesCarryMessages' /\ BuffersMatchMessages'
      /\ CountIsLength'
      /\ free' \subseteq Nodes /\ heap' \subseteq Nodes
      /\ message' \in [Nodes -> AnyMessage \cup {NoMessage}]
      /\ held' \in [Consumers \X Slots -> Nodes \cup {NoNode}]
      /\ held'[h] = NoNode
      /\ \A g \in Consumers \X Slots : held[g] = NoNode => held'[g] = NoNode
  <2>0. displaced' = displaced /\ filling' = filling
    BY <1>2 DEF posterVars
  <2>1. CASE held[h] = NoNode
    <3>1. UNCHANGED <<free, heap, message, held>>
      BY <2>1 DEF Receive
    <3> QED BY <1>2, <2>0, <2>1, <3>1, NodesUnchanged DEF nodeVars, NodeInv, TypeOK
  <2>2. CASE held[h] # NoNode
    <3>1. FreeNode(held[h]) /\ held' = [held EXCEPT ![h] = NoNode]
      BY <2>2 DEF Receive
    <3> QED BY <1>2, <2>0, <2>2, <3>1, ReleaseNode DEF NodeInv, TypeOK
  <2> QED BY <2>1, <2>2
<1>4. /\ pc' \in [Threads -> PcState]
      /\ \A u \in Threads : pc'[u] = IF u = c THEN to ELSE pc[u]
  BY <1>1, ConsumerFacts, GotoFacts DEF NodeInv, PcState
<1>5. TypeOK'
  BY <1>2, <1>3, <1>4 DEF NodeInv, TypeOK, posterVars
<1>6. LockDiscipline'
  BY <1>1, <1>2, ConsumerFacts, QuietGoto
  DEF NodeInv, posterVars, KeepsLock, PcState
<1>7. SlotEmptyInCall'
  <2> SUFFICES ASSUME NEW d \in Consumers,
                      pc'[d] \notin {"idle", "purging", "owing"}
               PROVE  held'[<<d, call'[d].slot>>] = NoNode
    BY DEF SlotEmptyInCall
  <2>1. CASE d = c
    BY <1>2, <1>3, <2>1 DEF NodeInv, TypeOK
  <2>2. CASE d # c
    <3>1. pc'[d] = pc[d] /\ call'[d] = call[d] /\ call[d] \in AnyCall
      BY <1>2, <1>4, <2>2, ConsumerFacts DEF NodeInv, TypeOK
    <3>2. held[<<d, call[d].slot>>] = NoNode /\ <<d, call[d].slot>> \in Consumers \X Slots
      BY <3>1 DEF NodeInv, SlotEmptyInCall, AnyCall
    <3> QED BY <1>3, <3>1, <3>2
  <2> QED BY <2>1, <2>2
<1> QED BY <1>3, <1>5, <1>6, <1>7 DEF NodeInv

\* A step inside a call that takes the message of node i into the call's slot.
LEMMA TakeStep ==
  ASSUME NodeInv, NEW c \in Consumers, NEW i \in 1 .. Len(queue),
         RemoveNodeFromQueue(i),
         held' = [held EXCEPT ![<<c, call[c].slot>>] = queue[i]],
         UNCHANGED <<free, message, heap, lock, posterVars, call, selected>>,
         NEW from \in InCall \ {"signal", "displacing", "reading"}, NEW to \in {"idle", "owing"},
         Goto(c, from, to),
         sem' \in Nat, msgCnt' \in [Consumers -> Nat]
  PROVE  NodeInv'
<1> DEFINE h == <<c, call[c].slot>>
<1>1. h \in Consumers \X Slots
  BY DEF NodeInv, TypeOK, AnyCall
<1>2. held[h] = NoNode
  BY DEF NodeInv, SlotEmptyInCall, Goto, InCall
<1>3. /\ pc' \in [Threads -> PcState]
      /\ \A u \in Threads : pc'[u] = IF u = c THEN to ELSE pc[u]
  BY ConsumerFacts, GotoFacts DEF NodeInv, PcState
<1>4. UNCHANGED <<displaced, posting, filling, leaked>>
  BY DEF posterVars
<1>5. /\ NodeConservation' /\ NodesCarryMessages' /\ BuffersMatchMessages'
      /\ CountIsLength'
      /\ queue' \in Seq(Nodes) /\ urgentTail' \in Nodes \cup {EndMarker}
      /\ messageCount' = messageCount - 1
      /\ held' \in [Consumers \X Slots -> Nodes \cup {NoNode}]
  BY <1>1, <1>2, <1>4, TakeNode
<1>6. TypeOK'
  BY <1>3, <1>4, <1>5 DEF NodeInv, TypeOK
<1>7. LockDiscipline'
  BY <1>4, ConsumerFacts, QuietGoto DEF NodeInv, KeepsLock, PcState, InCall
<1>8. SlotEmptyInCall'
  <2> SUFFICES ASSUME NEW d \in Consumers,
                      pc'[d] \notin {"idle", "purging", "owing"}
               PROVE  held'[<<d, call[d].slot>>] = NoNode
    BY DEF SlotEmptyInCall
  <2>1. d # c /\ pc'[d] = pc[d] /\ call[d] \in AnyCall
    BY <1>3, ConsumerFacts DEF NodeInv, TypeOK
  <2>2. held[<<d, call[d].slot>>] = NoNode /\ <<d, call[d].slot>> \in Consumers \X Slots
    BY <2>1 DEF NodeInv, SlotEmptyInCall, AnyCall
  <2> QED BY <1>1, <2>1, <2>2 DEF NodeInv, TypeOK
<1> QED BY <1>5, <1>6, <1>7, <1>8 DEF NodeInv

\* Taking a token, and not finding one or a message.
LEMMA PendStepKeeps ==
  ASSUME NodeInv, NEW c \in Consumers, PendStep(c)
  PROVE  NodeInv'
<1>1. c \in Threads /\ c \notin Posters /\ sem \in Nat
      /\ msgCnt \in [Consumers -> Nat]
  BY ConsumerFacts DEF NodeInv, TypeOK
<1>2. CASE TakeToken(c)
  <2>1. /\ \E from \in {"wait", "poll"} : Goto(c, from, "woken")
        /\ sem' \in Nat
    BY <1>1, <1>2 DEF TakeToken
  <2> QED BY <1>1, <1>2, <2>1, QuietStep
          DEF TakeToken, posterVars, consumerVars, KeepsLock, PcState, InCall
<1>3. CASE NoTokenInTime(c)
  <2>1. \E from \in {"wait", "poll"} : Goto(c, from, "idle")
    BY <1>3 DEF NoTokenInTime
  <2> QED BY <1>1, <1>3, <2>1, QuietStep
          DEF NoTokenInTime, posterVars, consumerVars, KeepsLock, PcState, InCall
<1>4. CASE FindEmpty(c)
  <2>1. \E to \in {"wait", "idle"} : Goto(c, "woken", to)
    BY <1>4 DEF FindEmpty
  <2> QED BY <1>1, <1>4, <2>1, QuietStep
          DEF FindEmpty, posterVars, consumerVars, KeepsLock, PcState, InCall
<1>5. CASE TakeFirst(c)
  <2>1. queue \in Seq(Nodes) /\ 1 \in 1 .. Len(queue) /\ Head(queue) = queue[1]
    BY <1>5 DEF TakeFirst, NodeInv, TypeOK
  <2>2. /\ RemoveNodeFromQueue(1) /\ Goto(c, "woken", "idle")
        /\ held' = [held EXCEPT ![<<c, call[c].slot>>] = queue[1]]
        /\ UNCHANGED <<free, message, heap, lock, posterVars, call, selected>>
        /\ sem' \in Nat /\ msgCnt' \in [Consumers -> Nat]
    BY <1>1, <1>5, <2>1 DEF TakeFirst
  <2> QED BY <2>1, <2>2, TakeStep DEF InCall, PcState
<1> QED BY <1>2, <1>3, <1>4, <1>5 DEF PendStep

LEMMA TakeMatchingStep ==
  ASSUME NodeInv, NEW c \in Consumers, TakeMatching(c),
         NEW from \in InCall \ {"signal", "displacing", "reading"}, NEW to \in {"idle", "owing"},
         Goto(c, from, to),
         sem' \in Nat, msgCnt' \in [Consumers -> Nat]
  PROVE  NodeInv'
BY TakeStep DEF TakeMatching

\* Looking for a message and settling the tokens.
LEMMA SelectiveStepKeeps ==
  ASSUME NodeInv, NEW c \in Consumers, SelectiveStep(c)
  PROVE  NodeInv'
<1>1. c \in Threads /\ c \notin Posters /\ sem \in Nat /\ msgCnt[c] \in Nat
      /\ msgCnt \in [Consumers -> Nat]
  BY ConsumerFacts DEF NodeInv, TypeOK
<1> USE <1>1
<1>2. CASE SearchHit(c)
  BY <1>2, TakeMatchingStep DEF SearchHit, InCall, PcState
<1>3. CASE PayToken(c)
  BY <1>3, QuietStep
  DEF PayToken, posterVars, consumerVars, KeepsLock, PcState, InCall
<1>4. CASE PayTimeout(c)
  BY <1>4, QuietStep
  DEF PayTimeout, posterVars, consumerVars, KeepsLock, PcState, InCall
<1>5. CASE SearchMiss(c)
  <2>1. /\ \E to \in {"idle", "drained"} : Goto(c, "search", to)
        /\ sem' \in Nat /\ msgCnt' \in [Consumers -> Nat]
    BY <1>5 DEF SearchMiss
  <2> QED BY <1>5, <2>1, QuietStep
          DEF SearchMiss, posterVars, KeepsLock, PcState, InCall
<1>6. CASE Wake(c)
  BY <1>6, QuietStep
  DEF Wake, posterVars, consumerVars, KeepsLock, PcState, InCall
<1>7. CASE GiveUp(c)
  BY <1>7, QuietStep
  DEF GiveUp, posterVars, consumerVars, KeepsLock, PcState, InCall
<1>8. CASE RescanHit(c)
  <2>1. sem' \in Nat /\ msgCnt' \in [Consumers -> Nat]
    BY <1>8 DEF RescanHit
  <2> QED BY <1>8, <2>1, TakeMatchingStep DEF RescanHit, InCall, PcState
<1>9. CASE RescanMiss(c)
  <2>1. /\ \E to \in {"idle", "drained"} : Goto(c, "rescan", to)
        /\ sem' \in Nat /\ msgCnt' \in [Consumers -> Nat]
    BY <1>9 DEF RescanMiss
  <2> QED BY <1>9, <2>1, QuietStep
          DEF RescanMiss, posterVars, KeepsLock, PcState, InCall
<1>10. CASE Expire(c)
  <2>1. sem' \in Nat /\ msgCnt' \in [Consumers -> Nat]
    BY <1>10 DEF Expire
  <2> QED BY <1>10, <2>1, QuietStep
          DEF Expire, posterVars, KeepsLock, PcState, InCall
<1> QED BY <1>2, <1>3, <1>4, <1>5, <1>6, <1>7, <1>8, <1>9, <1>10
        DEF SelectiveStep

-----------------------------------------------------------------------------
(* Every step keeps the invariant: the owner between its calls.            *)

LEMMA SelectStep ==
  ASSUME NodeInv, NEW events \in Selections, Select(events)
  PROVE  NodeInv'
<1>1. /\ NodeConservation' /\ NodesCarryMessages' /\ BuffersMatchMessages'
      /\ CountIsLength'
  BY NodesUnchanged DEF Select, posterVars
<1>2. TypeOK' /\ LockDiscipline' /\ SlotEmptyInCall'
  BY CallsAssumption
  DEF Select, NodeInv, TypeOK, LockDiscipline, SlotEmptyInCall, nodeVars, posterVars
<1> QED BY <1>1, <1>2 DEF NodeInv

LEMMA OwnerFacts == Owner \in Consumers /\ Owner \in Threads /\ Owner \notin Posters
BY ThreadsAssumption DEF Threads

LEMMA PurgeBeginStep ==
  ASSUME NodeInv, NEW events \in PurgeLists, PurgeBegin(events)
  PROVE  NodeInv'
<1>1. /\ NodeConservation' /\ NodesCarryMessages' /\ BuffersMatchMessages'
      /\ CountIsLength'
  BY NodesUnchanged DEF PurgeBegin, posterVars
<1>2. /\ pc' \in [Threads -> PcState]
      /\ \A u \in Threads : pc'[u] = IF u = Owner THEN "purging" ELSE pc[u]
      /\ pc[Owner] = "idle"
  BY OwnerFacts, GotoFacts DEF PurgeBegin, NodeInv, PcState
<1>3. call' \in [Consumers -> AnyCall]
      /\ \A d \in Consumers : d # Owner => call'[d] = call[d]
  <2>1. events \subseteq Events /\ call \in [Consumers -> AnyCall]
    BY CallsAssumption DEF NodeInv, TypeOK
  <2>2. [call[Owner] EXCEPT !.events = events] \in AnyCall
    BY <2>1, OwnerFacts DEF AnyCall
  <2>3. call' = [call EXCEPT ![Owner] = [call[Owner] EXCEPT !.events = events]]
    BY <2>1, OwnerFacts DEF PurgeBegin
  <2> QED BY <2>1, <2>2, <2>3
<1>4. TypeOK'
  BY <1>2, <1>3, OwnerFacts DEF PurgeBegin, NodeInv, TypeOK, nodeVars, posterVars
<1>5. LockDiscipline'
  <2>1. \A u \in Threads : pc[u] \notin KeepsLock
    BY FreeLock DEF PurgeBegin
  <2>2. \A u \in Threads : pc'[u] \in {"displacing", "reading", "purging"} <=> u = Owner
    BY <1>2, <2>1 DEF KeepsLock
  <2>3. \A p \in Posters : p \in Threads /\ pc'[p] = pc[p]
    BY <1>2, OwnerFacts DEF Threads
  <2>4. \A c \in Consumers : c \in Threads /\ (c # Owner => pc'[c] = pc[c])
    BY <1>2, ConsumerFacts
  <2> QED BY <1>2, <2>2, <2>3, <2>4, OwnerFacts, ThreadsAssumption
          DEF PurgeBegin, NodeInv, LockDiscipline, posterVars
<1>6. SlotEmptyInCall'
  BY <1>2, <1>3, ConsumerFacts DEF PurgeBegin, NodeInv, SlotEmptyInCall
<1> QED BY <1>1, <1>4, <1>5, <1>6 DEF NodeInv

LEMMA PurgeNextStep ==
  ASSUME NodeInv, PurgeNext
  PROVE  NodeInv'
<1>1. PICK i \in 1 .. Len(queue) : RemoveNodeFromQueue(i) /\ FreeNode(queue[i])
  BY DEF PurgeNext
<1>2. UNCHANGED <<lock, held, call, msgCnt, selected, displaced, posting, filling,
               leaked, pc>>
  BY DEF PurgeNext, posterVars, consumerVars
<1>3. /\ NodeConservation' /\ NodesCarryMessages' /\ BuffersMatchMessages'
      /\ CountIsLength'
      /\ queue' \in Seq(Nodes) /\ urgentTail' \in Nodes \cup {EndMarker}
      /\ messageCount' = messageCount - 1
      /\ free' \subseteq Nodes /\ heap' \subseteq Nodes
      /\ message' \in [Nodes -> AnyMessage \cup {NoMessage}]
  BY <1>1, <1>2, DropNode
<1>4. sem' \in Nat
  BY DEF PurgeNext, NodeInv, TypeOK
<1>5. TypeOK'
  BY <1>2, <1>3, <1>4 DEF NodeInv, TypeOK
<1>6. LockDiscipline' /\ SlotEmptyInCall'
  BY <1>2 DEF NodeInv, LockDiscipline, SlotEmptyInCall
<1> QED BY <1>3, <1>5, <1>6 DEF NodeInv

LEMMA PurgeEndStep ==
  ASSUME NodeInv, PurgeEnd
  PROVE  NodeInv'
<1>1. /\ NodeConservation' /\ NodesCarryMessages' /\ BuffersMatchMessages'
      /\ CountIsLength'
  BY NodesUnchanged DEF PurgeEnd, posterVars, consumerVars
<1>2. /\ pc' \in [Threads -> PcState]
      /\ \A u \in Threads : pc'[u] = IF u = Owner THEN "idle" ELSE pc[u]
      /\ pc[Owner] = "purging"
  BY OwnerFacts, GotoFacts DEF PurgeEnd, NodeInv, PcState
<1>3. TypeOK'
  BY <1>2 DEF PurgeEnd, NodeInv, TypeOK, nodeVars, posterVars, consumerVars
<1>4. LockDiscipline'
  <2>1. \A u \in Threads : pc[u] \in {"displacing", "reading", "purging"} => u = Owner
    BY <1>2, OwnerFacts DEF NodeInv, LockDiscipline
  <2>2. \A u \in Threads : pc'[u] \notin {"displacing", "reading", "purging"}
    BY <1>2, <2>1
  <2>3. \A p \in Posters : p \in Threads /\ pc'[p] = pc[p]
    BY <1>2, OwnerFacts DEF Threads
  <2>4. \A c \in Consumers : c \in Threads /\ (c # Owner => pc'[c] = pc[c])
    BY <1>2, ConsumerFacts
  <2>5. \A u \in Threads : lock' # u
    BY ThreadsAssumption DEF PurgeEnd
  <2> QED BY <1>2, <2>2, <2>3, <2>4, <2>5, OwnerFacts, ThreadsAssumption
          DEF PurgeEnd, NodeInv, LockDiscipline, posterVars
<1>5. SlotEmptyInCall'
  BY <1>2, ConsumerFacts DEF PurgeEnd, NodeInv, SlotEmptyInCall, consumerVars
<1> QED BY <1>1, <1>3, <1>4, <1>5 DEF NodeInv

-----------------------------------------------------------------------------

\* The invariant of the node table is inductive.
LEMMA NextNodeInv == NodeInv /\ [Next]_vars => NodeInv'
<1> SUFFICES ASSUME NodeInv, [Next]_vars PROVE NodeInv'
  OBVIOUS
<1>1. CASE UNCHANGED vars
  <2>1. /\ NodeConservation' /\ NodesCarryMessages' /\ BuffersMatchMessages'
        /\ CountIsLength'
    BY <1>1, NodesUnchanged DEF vars, nodeVars
  <2>2. TypeOK' /\ LockDiscipline' /\ SlotEmptyInCall'
    BY <1>1 DEF vars, NodeInv, TypeOK, LockDiscipline, SlotEmptyInCall
  <2> QED BY <2>1, <2>2 DEF NodeInv
<1>2. ASSUME NEW p \in Posters, NEW m \in Messages,
             PostMessage(p, m) \/ RejectMessage(p, m) \/ Displace(p, m)
      PROVE  NodeInv'
  <2>1. CASE RejectMessage(p, m)
    BY <2>1, <1>1 DEF RejectMessage
  <2> QED BY <1>2, <2>1, PostMessageStep, DisplaceStep
<1>3. ASSUME NEW p \in Posters, PosterStep(p) PROVE NodeInv'
  BY <1>3, DisplacedInsertStep, DisplacedNoMemoryStep, SignalStep DEF PosterStep
<1>6. CASE RouterStep
  BY <1>6, TakeDisplacedNodeStep, PostMessageNodeStep, ReadFailsStep DEF RouterStep
<1>4. ASSUME NEW c \in Consumers, PendStep(c) \/ SelectiveStep(c) PROVE NodeInv'
  BY <1>4, PendStepKeeps, SelectiveStepKeeps
<1>5. CASE PurgeStep
  BY <1>5, PurgeNextStep, PurgeEndStep DEF PurgeStep
<1> QED BY <1>1, <1>2, <1>3, <1>4, <1>5, <1>6, ReceiveStep, SelectStep,
           PurgeBeginStep, TakeFreeNodeStep
        DEF Next

\* The table of nodes keeps its shape in every reachable state, with any
\* number of posting and receiving threads and nodes: nodes are neither lost
\* nor shared, whether a message is posted, displaced, not read to its end,
\* received or purged; heap buffers match messages, message_count is the length.
THEOREM NodeTableCorrect == Spec => []NodeInv
<1>1. Init => NodeInv
  BY InitNodeInv
<1>2. NodeInv /\ [Next]_vars => NodeInv'
  BY NextNodeInv
<1> QED BY <1>1, <1>2, PTL DEF Spec

\* Every variable keeps its type (C: the ranges of the fields of the queue
\* structure and of the threads' pointers into it).
THEOREM TypeCorrect == Spec => []TypeOK
<1>1. NodeInv => TypeOK
  BY DEF NodeInv
<1> QED BY <1>1, NodeTableCorrect, PTL

\* No node is in two places or in none (SAL_I_Get_Free_Node and
\* SAL_I_Free_Node are the only ways in and out of the free list).
THEOREM NodesConserved == Spec => []NodeConservation
<1>1. NodeInv => NodeConservation
  BY DEF NodeInv
<1> QED BY <1>1, NodeTableCorrect, PTL

\* A node has a heap buffer exactly while it carries a big message, so no
\* buffer is freed twice and none is overwritten by the next one; the buffers
\* that are never freed are those of failed reads of a publish
\* (SAL_I_Free_Message_Data_Buffer, xsal_i_run.c:219,231).
THEOREM BuffersMatched == Spec => []BuffersMatchMessages
<1>1. NodeInv => BuffersMatchMessages
  BY DEF NodeInv
<1> QED BY <1>1, NodeTableCorrect, PTL

-----------------------------------------------------------------------------
(* The message of a node that stays with a consumer is left alone.         *)

HeldMessagesKept ==
  \A h \in Consumers \X Slots :
    held[h] # NoNode /\ held'[h] = held[h]
      => message'[held[h]] = message[held[h]] /\ message[held[h]] # NoMessage

LEMMA HeldCarryMessages ==
  ASSUME NodeInv, NEW h \in Consumers \X Slots, held[h] # NoNode
  PROVE  /\ held[h] \in Nodes /\ held[h] \in HeldNodes
         /\ message[held[h]] # NoMessage
BY MessagesAssumption DEF NodeInv, NodesCarryMessages, Carriers, HeldNodes, TypeOK

\* A step that writes the header of one node that no consumer keeps.
LEMMA OtherNodeWritten ==
  ASSUME NodeInv, NEW n, NEW m, message' = [message EXCEPT ![n] = m],
         \A h \in Consumers \X Slots :
           held[h] # NoNode /\ held'[h] = held[h] => held[h] # n
  PROVE  HeldMessagesKept
BY HeldCarryMessages DEF HeldMessagesKept, NodeInv, TypeOK

LEMMA UnheldNodeWritten ==
  ASSUME NodeInv, NEW n, NEW m, message' = [message EXCEPT ![n] = m],
         n \notin HeldNodes
  PROVE  HeldMessagesKept
<1>1. \A h \in Consumers \X Slots : held[h] # NoNode => held[h] # n
  BY HeldCarryMessages
<1> QED BY <1>1, OtherNodeWritten

LEMMA NoHeaderWritten ==
  ASSUME NodeInv, UNCHANGED message
  PROVE  HeldMessagesKept
BY HeldCarryMessages DEF HeldMessagesKept

\* The router writes into the node it took, which is in no other place; only
\* a message it posts changes the list.
LEMMA RouterWrites ==
  ASSUME NodeInv, RouterStep \/ \E m \in Messages : TakeFreeNode(m)
  PROVE  \E n \in Nodes :
           /\ n \notin Range(queue) \cup HeldNodes
           /\ \E m : message' = [message EXCEPT ![n] = m]
           /\ \/ UNCHANGED <<queue, urgentTail>>
              \/ InsertNode(n, message[n]) /\ message[n] \in AnyMessage
<1>1. ASSUME NEW m \in Messages, TakeFreeNode(m)
      PROVE  \E n \in free : /\ message' = [message EXCEPT ![n] = m]
                             /\ UNCHANGED <<queue, urgentTail>>
  BY <1>1 DEF TakeFreeNode, FillNode
<1>2. \A n \in free : n \in Nodes /\ n \notin Range(queue) \cup HeldNodes
  BY DEF NodeInv, NodeConservation, TypeOK
<1>3. CASE TakeDisplacedNode
  <2>1. Router \in Posters /\ pc[Router] = "displacing"
    BY <1>3, ThreadsAssumption DEF TakeDisplacedNode, Goto
  <2>2. displaced \in Nodes /\ displaced \notin Range(queue) \cup HeldNodes
    BY <2>1, DisplacerFacts
  <2>3. /\ message' = [message EXCEPT ![displaced] = posting[Router]]
        /\ UNCHANGED <<queue, urgentTail>>
    BY <1>3 DEF TakeDisplacedNode, FillNode
  <2> QED BY <2>2, <2>3
<1>4. CASE PostMessageNode \/ ReadFails
  <2>1. pc[Router] = "reading"
    BY <1>4 DEF PostMessageNode, ReadFails, EndReading, Goto
  <2>2. /\ filling \in Nodes /\ filling \notin Range(queue) \cup HeldNodes
        /\ message[filling] \in AnyMessage
    BY <2>1, ReaderFacts
  <2>3. /\ \E m : message' = [message EXCEPT ![filling] = m]
        /\ UNCHANGED <<queue, urgentTail>> \/ InsertNode(filling, message[filling])
    BY <1>4 DEF PostMessageNode, ReadFails, InsertNode, FreeNode
  <2> QED BY <2>2, <2>3
<1> QED BY <1>1, <1>2, <1>3, <1>4 DEF RouterStep

LEMMA NextHeldMessages == NodeInv /\ [Next]_vars => HeldMessagesKept
<1> SUFFICES ASSUME NodeInv, [Next]_vars PROVE HeldMessagesKept
  OBVIOUS
<1>1. CASE UNCHANGED vars
  BY <1>1, NoHeaderWritten DEF vars
<1>2. ASSUME NEW p \in Posters, NEW m \in Messages,
             PostMessage(p, m) \/ RejectMessage(p, m) \/ Displace(p, m)
      PROVE  HeldMessagesKept
  <2>1. CASE PostMessage(p, m)
    <3>1. PICK n \in free : message' = [message EXCEPT ![n] = m]
      BY <2>1 DEF PostMessage, InsertNode
    <3>2. n \notin HeldNodes
      BY DEF NodeInv, NodeConservation
    <3> QED BY <3>1, <3>2, UnheldNodeWritten
  <2>2. CASE Displace(p, m)
    <3>1. message' = [message EXCEPT ![Last(queue)] = NoMessage]
      BY <2>2 DEF Displace
    <3>2. Last(queue) \notin HeldNodes
      BY <2>2, FrontFacts DEF Displace, NodeInv, NodeConservation
    <3> QED BY <3>1, <3>2, UnheldNodeWritten
  <2>3. CASE RejectMessage(p, m)
    BY <2>3, <1>1 DEF RejectMessage
  <2> QED BY <1>2, <2>1, <2>2, <2>3
<1>3. ASSUME NEW p \in Posters, PosterStep(p) PROVE HeldMessagesKept
  <2>1. CASE DisplacedInsert(p)
    <3>1. message' = [message EXCEPT ![displaced] = posting[p]]
      BY <2>1 DEF DisplacedInsert, InsertNode
    <3>2. displaced \notin HeldNodes
      BY <2>1, DisplacerFacts DEF DisplacedInsert
    <3> QED BY <3>1, <3>2, UnheldNodeWritten
  <2>2. CASE DisplacedNoMemory(p) \/ Signal(p)
    BY <2>2, NoHeaderWritten DEF DisplacedNoMemory, Signal, nodeVars
  <2> QED BY <1>3, <2>1, <2>2 DEF PosterStep
<1>4. ASSUME NEW c \in Consumers, NEW k \in Calls, Receive(c, k)
      PROVE  HeldMessagesKept
  <2> DEFINE h == <<c, k.slot>>
  <2>1. h \in Consumers \X Slots
    BY CallsAssumption DEF AnyCall
  <2>2. CASE held[h] = NoNode
    BY <1>4, <2>2, NoHeaderWritten DEF Receive
  <2>3. CASE held[h] # NoNode
    <3>1. /\ message' = [message EXCEPT ![held[h]] = NoMessage]
          /\ held' = [held EXCEPT ![h] = NoNode]
      BY <1>4, <2>3 DEF Receive, FreeNode
    <3>2. \A g \in Consumers \X Slots : held'[g] = held[g] => held[g] # held[h]
      BY <2>1, <2>3, <3>1 DEF NodeInv, NodeConservation, TypeOK
    <3> QED BY <3>1, <3>2, OtherNodeWritten
  <2> QED BY <2>2, <2>3
<1>5. ASSUME NEW c \in Consumers, PendStep(c) \/ SelectiveStep(c)
      PROVE  HeldMessagesKept
  BY <1>5, NoHeaderWritten
  DEF PendStep, SelectiveStep, TakeToken, TakeFirst, FindEmpty, NoTokenInTime,
      SearchHit, PayToken, PayTimeout, SearchMiss, Wake, GiveUp, RescanHit,
      RescanMiss, Expire, TakeMatching, nodeVars
<1>6. CASE PurgeNext
  <2>1. PICK i \in 1 .. Len(queue) : message' = [message EXCEPT ![queue[i]] = NoMessage]
    BY <1>6 DEF PurgeNext, FreeNode
  <2>2. queue[i] \notin HeldNodes
    BY <2>1 DEF NodeInv, NodeConservation, TypeOK, Range
  <2> QED BY <2>1, <2>2, UnheldNodeWritten
<1>7. ASSUME NEW events, Select(events) \/ PurgeBegin(events)
      PROVE  HeldMessagesKept
  BY <1>7, NoHeaderWritten DEF Select, PurgeBegin, nodeVars
<1>8. CASE PurgeEnd
  BY <1>8, NoHeaderWritten DEF PurgeEnd, nodeVars
<1>9. CASE RouterStep \/ \E m \in Messages : TakeFreeNode(m)
  BY <1>9, RouterWrites, UnheldNodeWritten
<1> QED BY <1>1, <1>2, <1>3, <1>4, <1>5, <1>6, <1>7, <1>8, <1>9
        DEF Next, PurgeStep

\* Until a consumer's next call the message it received is its own: no post,
\* purge, displacement or call of another consumer reuses the node.
THEOREM HeldMessagesStable == Spec => HeldMessageStable
<1>1. NodeInv /\ [Next]_vars => [HeldMessagesKept]_vars
  BY NextHeldMessages
<1> QED BY <1>1, NodeTableCorrect, PTL DEF Spec, HeldMessageStable, HeldMessagesKept

-----------------------------------------------------------------------------
(* The order of the queue: urgent messages before normal ones, urgent_tail  *)
(* on the last of them, for every number of threads and nodes.              *)

\* The first k nodes, and only they, are urgent; urgent_tail is the k-th.
UrgentPrefix(k) ==
  /\ k \in 0 .. Len(queue)
  /\ \A i \in 1 .. Len(queue) : message[queue[i]].urgent <=> i <= k
  /\ urgentTail = IF k = 0 THEN EndMarker ELSE queue[k]

OrderInv == \E k \in Nat : UrgentPrefix(k)

LEMMA PrefixMarked ==
  ASSUME NodeInv, OrderInv
  PROVE  UrgentTailMarksPrefix
<1>1. PICK k \in Nat : UrgentPrefix(k)
  BY DEF OrderInv
<1>2. /\ queue \in Seq(Nodes) /\ Len(queue) \in Nat /\ k <= Len(queue)
      /\ \A i \in 1 .. Len(queue) : queue[i] \in Nodes /\ queue[i] # EndMarker
      /\ \A i, j \in 1 .. Len(queue) : queue[i] = queue[j] => i = j
  BY <1>1, NodesAssumption
  DEF UrgentPrefix, NodeInv, TypeOK, NodeConservation, IsInjective
<1>3. \A i \in 1 .. Len(queue) : message[queue[i]].urgent <=> i <= k
  BY <1>1 DEF UrgentPrefix
<1>4. urgentTail = IF k = 0 THEN EndMarker ELSE queue[k]
  BY <1>1 DEF UrgentPrefix
<1>5. \A i, j \in 1 .. Len(queue) :
        i < j /\ message[queue[j]].urgent => message[queue[i]].urgent
  BY <1>2, <1>3
<1>6. \A i \in 1 .. Len(queue) : queue[i] = urgentTail <=> i = k
  BY <1>2, <1>4
<1>7. ASSUME NEW i \in 1 .. Len(queue)
      PROVE  i = k <=> /\ message[queue[i]].urgent
                       /\ i < Len(queue) => ~message[queue[i + 1]].urgent
  <2>1. message[queue[i]].urgent <=> i <= k
    BY <1>3
  <2>2. CASE i < Len(queue)
    <3>1. message[queue[i + 1]].urgent <=> i + 1 <= k
      BY <1>2, <1>3, <2>2
    <3> QED BY <2>1, <2>2, <3>1, <1>2
  <2>3. CASE i = Len(queue)
    BY <2>1, <2>3, <1>2
  <2> QED BY <2>2, <2>3, <1>2
<1>8. urgentTail = EndMarker \/ urgentTail \in Range(queue)
  BY <1>2, <1>4 DEF Range
<1> QED BY <1>5, <1>6, <1>7, <1>8 DEF UrgentTailMarksPrefix

\* The nodes behind position i move up.
LEMMA RemoveKeepsOrder ==
  ASSUME NodeInv, NEW k \in Nat, UrgentPrefix(k),
         NEW i \in 1 .. Len(queue), RemoveNodeFromQueue(i),
         \A n \in Nodes : n # queue[i] => message'[n] = message[n]
  PROVE  /\ i <= k => UrgentPrefix(k - 1)'
         /\ i > k => UrgentPrefix(k)'
         /\ Len(queue') = Len(queue) - 1
         /\ \A j \in 1 .. Len(queue) - 1 :
              message'[queue'[j]] = IF j < i THEN message[queue[j]]
                                    ELSE message[queue[j + 1]]
<1>1. UrgentPrefix(k)
  OBVIOUS
<1>2. /\ queue \in Seq(Nodes) /\ Len(queue) \in Nat /\ k <= Len(queue)
      /\ \A j \in 1 .. Len(queue) : queue[j] \in Nodes /\ queue[j] # EndMarker
      /\ \A g, h \in 1 .. Len(queue) : queue[g] = queue[h] => g = h
      /\ IsInjective(queue)
  BY <1>1, NodesAssumption
  DEF UrgentPrefix, NodeInv, TypeOK, NodeConservation, IsInjective
<1>3. /\ Len(queue') = Len(queue) - 1
      /\ \A j \in 1 .. Len(queue) - 1 :
           queue'[j] = IF j < i THEN queue[j] ELSE queue[j + 1]
  BY <1>2, RemoveAtProperties DEF RemoveNodeFromQueue
<1>4. urgentTail' = CASE queue[i] # urgentTail -> urgentTail
                      [] queue[i] = urgentTail /\ i > 1 -> queue[i - 1]
                      [] OTHER -> EndMarker
  BY DEF RemoveNodeFromQueue
<1>5. /\ \A j \in 1 .. Len(queue) : message[queue[j]].urgent <=> j <= k
      /\ urgentTail = IF k = 0 THEN EndMarker ELSE queue[k]
  BY <1>1 DEF UrgentPrefix
<1>6. \A j \in 1 .. Len(queue) : j # i => (message'[queue[j]].urgent <=> j <= k)
  BY <1>2, <1>5
<1>7. ASSUME i <= k PROVE UrgentPrefix(k - 1)'
  <2>1. k - 1 \in 0 .. Len(queue') /\ k - 1 \in Nat
    BY <1>2, <1>3, <1>7
  <2>2. ASSUME NEW j \in 1 .. Len(queue')
        PROVE  message'[queue'[j]].urgent <=> j <= k - 1
    <3>1. CASE j < i
      BY <1>2, <1>3, <1>6, <1>7, <3>1
    <3>2. CASE j >= i
      <4>1. queue'[j] = queue[j + 1] /\ j + 1 \in 1 .. Len(queue) /\ j + 1 # i
        BY <1>2, <1>3, <3>2
      <4>2. message'[queue[j + 1]].urgent <=> j + 1 <= k
        BY <4>1, <1>6
      <4> QED BY <4>1, <4>2, <1>2
    <3> QED BY <3>1, <3>2, <1>2
  <2>3. urgentTail' = IF k - 1 = 0 THEN EndMarker ELSE queue'[k - 1]
    <3>1. urgentTail = queue[k]
      BY <1>5, <1>7
    <3>2. CASE i = k
      BY <1>2, <1>3, <1>4, <3>1, <3>2
    <3>3. CASE i < k
      <4>1. queue[i] # urgentTail
        BY <1>2, <3>1, <3>3
      <4>2. k - 1 \in 1 .. Len(queue) - 1 /\ ~(k - 1 < i) /\ (k - 1) + 1 = k
        BY <1>2, <3>3
      <4>3. queue'[k - 1] = queue[k]
        BY <4>2, <1>3
      <4> QED BY <4>1, <4>2, <4>3, <3>1, <1>4
    <3> QED BY <3>2, <3>3, <1>2, <1>7
  <2> QED BY <2>1, <2>2, <2>3 DEF UrgentPrefix
<1>8. ASSUME i > k PROVE UrgentPrefix(k)'
  <2>1. k \in 0 .. Len(queue')
    BY <1>2, <1>3, <1>8
  <2>2. ASSUME NEW j \in 1 .. Len(queue')
        PROVE  message'[queue'[j]].urgent <=> j <= k
    <3>1. CASE j < i
      BY <1>2, <1>3, <1>6, <1>8, <3>1
    <3>2. CASE j >= i
      <4>1. queue'[j] = queue[j + 1] /\ j + 1 \in 1 .. Len(queue) /\ j + 1 # i
        BY <1>2, <1>3, <3>2
      <4>2. message'[queue[j + 1]].urgent <=> j + 1 <= k
        BY <4>1, <1>6
      <4> QED BY <4>1, <4>2, <3>2, <1>2, <1>8
    <3> QED BY <3>1, <3>2, <1>2
  <2>3. queue[i] # urgentTail
    BY <1>2, <1>5, <1>8
  <2>4. urgentTail' = IF k = 0 THEN EndMarker ELSE queue'[k]
    BY <1>2, <1>3, <1>4, <1>5, <1>8, <2>3
  <2> QED BY <2>1, <2>2, <2>4 DEF UrgentPrefix
<1>9. ASSUME NEW j \in 1 .. Len(queue) - 1
      PROVE  message'[queue'[j]] = IF j < i THEN message[queue[j]]
                                   ELSE message[queue[j + 1]]
  <2>1. /\ j \in 1 .. Len(queue) /\ j + 1 \in 1 .. Len(queue)
        /\ j < i => j # i
        /\ ~(j < i) => j + 1 # i
    BY <1>2
  <2>2. \A h \in 1 .. Len(queue) : h # i => message'[queue[h]] = message[queue[h]]
    BY <1>2
  <2> QED BY <1>3, <2>1, <2>2
<1> QED BY <1>3, <1>7, <1>8, <1>9

\* A normal message goes to the end, an urgent one behind the k-th node.
LEMMA InsertKeepsOrder ==
  ASSUME NodeInv, NEW k \in Nat, UrgentPrefix(k),
         NEW n \in Nodes, n \notin Range(queue), NEW m \in AnyMessage,
         InsertNode(n, m)
  PROVE  \E i \in Nat :
           /\ i = IF m.urgent THEN k + 1 ELSE Len(queue) + 1
           /\ m.urgent => UrgentPrefix(k + 1)'
           /\ ~m.urgent => UrgentPrefix(k)'
           /\ Len(queue') = Len(queue) + 1
           /\ \A j \in 1 .. Len(queue) + 1 :
                message'[queue'[j]] = IF j < i THEN message[queue[j]]
                                      ELSE IF j = i THEN m ELSE message[queue[j - 1]]
<1>1. UrgentPrefix(k)
  OBVIOUS
<1>2. /\ queue \in Seq(Nodes) /\ Len(queue) \in Nat /\ k <= Len(queue)
      /\ \A j \in 1 .. Len(queue) :
           queue[j] \in Nodes /\ queue[j] # EndMarker /\ queue[j] # n
      /\ \A g, h \in 1 .. Len(queue) : queue[g] = queue[h] => g = h
      /\ IsInjective(queue)
  BY <1>1, NodesAssumption
  DEF UrgentPrefix, NodeInv, TypeOK, NodeConservation, IsInjective, Range
<1>3. /\ \A j \in 1 .. Len(queue) : message[queue[j]].urgent <=> j <= k
      /\ urgentTail = IF k = 0 THEN EndMarker ELSE queue[k]
  BY <1>1 DEF UrgentPrefix
<1>4. PICK i \in InsertPositions(m) : queue' = InsertAt(queue, i, n)
  BY DEF InsertNode
<1>5. i \in 1 .. Len(queue) + 1
  BY <1>2, <1>4 DEF InsertPositions
<1>6. IF m.urgent THEN i = k + 1 ELSE i = Len(queue) + 1
  <2>1. CASE m.urgent
    <3>1. IF i = 1 THEN urgentTail = EndMarker ELSE queue[i - 1] = urgentTail
      BY <1>4, <2>1 DEF InsertPositions
    <3>2. CASE i = 1
      BY <1>2, <1>3, <3>1, <3>2, <2>1
    <3>3. CASE i # 1
      <4>1. i - 1 \in 1 .. Len(queue) /\ queue[i - 1] = urgentTail
        BY <1>2, <1>5, <3>1, <3>3
      <4>2. k # 0 /\ i - 1 = k
        BY <4>1, <1>2, <1>3
      <4> QED BY <4>2, <1>5, <2>1
    <3> QED BY <3>2, <3>3
  <2>2. CASE ~m.urgent
    BY <1>4, <2>2 DEF InsertPositions
  <2> QED BY <2>1, <2>2
<1>7. /\ Len(queue') = Len(queue) + 1
      /\ \A j \in 1 .. Len(queue) + 1 :
           queue'[j] = IF j < i THEN queue[j] ELSE IF j = i THEN n ELSE queue[j - 1]
  BY <1>2, <1>4, <1>5, InsertAtProperties DEF NodeInv, NodeConservation
<1>8. /\ message'[n] = m
      /\ \A j \in 1 .. Len(queue) : message'[queue[j]].urgent <=> j <= k
      /\ \A j \in 1 .. Len(queue) : message'[queue[j]] = message[queue[j]]
  <2>1. \A j \in 1 .. Len(queue) : message'[queue[j]] = message[queue[j]]
    BY <1>2 DEF InsertNode, NodeInv, TypeOK
  <2>2. message'[n] = m
    BY DEF InsertNode, NodeInv, TypeOK
  <2> QED BY <2>1, <2>2, <1>3
<1>9. urgentTail' = IF m.urgent THEN n ELSE urgentTail
  BY DEF InsertNode
<1>10. ASSUME m.urgent PROVE UrgentPrefix(k + 1)'
  <2>1. k + 1 \in 0 .. Len(queue') /\ k + 1 \in Nat /\ k + 1 # 0
    BY <1>2, <1>7
  <2>2. ASSUME NEW j \in 1 .. Len(queue')
        PROVE  message'[queue'[j]].urgent <=> j <= k + 1
    <3>1. CASE j < i
      BY <1>2, <1>6, <1>7, <1>8, <1>10, <3>1
    <3>2. CASE j = i
      BY <1>2, <1>6, <1>7, <1>8, <1>10, <3>2
    <3>3. CASE j > i
      <4>1. queue'[j] = queue[j - 1] /\ j - 1 \in 1 .. Len(queue)
        BY <1>2, <1>5, <1>7, <3>3
      <4>2. message'[queue[j - 1]].urgent <=> j - 1 <= k
        BY <4>1, <1>8
      <4> QED BY <4>1, <4>2, <1>2, <1>6, <1>10, <3>3
    <3> QED BY <3>1, <3>2, <3>3, <1>5
  <2>3. urgentTail' = queue'[k + 1]
    BY <1>5, <1>6, <1>7, <1>9, <1>10
  <2> QED BY <2>1, <2>2, <2>3 DEF UrgentPrefix
<1>11. ASSUME ~m.urgent PROVE UrgentPrefix(k)'
  <2>1. k \in 0 .. Len(queue')
    BY <1>2, <1>7
  <2>2. ASSUME NEW j \in 1 .. Len(queue')
        PROVE  message'[queue'[j]].urgent <=> j <= k
    <3>1. CASE j < i
      BY <1>2, <1>6, <1>7, <1>8, <1>11, <3>1
    <3>2. CASE j >= i
      <4>1. j = i /\ j = Len(queue) + 1 /\ queue'[j] = n
        BY <1>2, <1>6, <1>7, <1>11, <3>2
      <4> QED BY <4>1, <1>2, <1>8, <1>11
    <3> QED BY <3>1, <3>2, <1>5
  <2>3. urgentTail' = IF k = 0 THEN EndMarker ELSE queue'[k]
    BY <1>2, <1>3, <1>6, <1>7, <1>9, <1>11
  <2> QED BY <2>1, <2>2, <2>3 DEF UrgentPrefix
<1>12. ASSUME NEW j \in 1 .. Len(queue) + 1
       PROVE  message'[queue'[j]] = IF j < i THEN message[queue[j]]
                                    ELSE IF j = i THEN m ELSE message[queue[j - 1]]
  <2>1. /\ j < i => j \in 1 .. Len(queue)
        /\ ~(j < i) /\ j # i => j - 1 \in 1 .. Len(queue)
    BY <1>2, <1>5
  <2> QED BY <1>7, <1>8, <2>1
<1>13. i \in Nat /\ i = IF m.urgent THEN k + 1 ELSE Len(queue) + 1
  BY <1>2, <1>5, <1>6
<1>14. Len(queue') = Len(queue) + 1
  BY <1>7
<1> WITNESS i \in Nat
<1> QED BY <1>10, <1>11, <1>12, <1>13, <1>14

\* Steps that leave the list alone.
LEMMA SameListKeepsOrder ==
  ASSUME NodeInv, OrderInv, UNCHANGED <<queue, urgentTail>>,
         \A n \in Range(queue) : message'[n] = message[n]
  PROVE  OrderInv'
<1>1. PICK k \in Nat : UrgentPrefix(k)
  BY DEF OrderInv
<1>2. \A i \in 1 .. Len(queue) : queue[i] \in Range(queue)
  BY DEF Range, NodeInv, TypeOK
<1>3. UrgentPrefix(k)'
  BY <1>1, <1>2 DEF UrgentPrefix
<1> QED BY <1>3 DEF OrderInv

LEMMA SameHeaders ==
  ASSUME NodeInv, OrderInv, UNCHANGED <<queue, urgentTail, message>>
  PROVE  OrderInv'
BY SameListKeepsOrder

\* The last normal message goes; the urgent ones before it stay.
LEMMA DisplaceKeepsOrder ==
  ASSUME NodeInv, NEW k \in Nat, UrgentPrefix(k),
         NEW p \in Posters, NEW m \in Messages, Displace(p, m)
  PROVE  /\ UrgentPrefix(k)' /\ k < Len(queue)
         /\ Len(queue') = Len(queue) - 1
         /\ \A j \in 1 .. Len(queue) - 1 : message'[queue'[j]] = message[queue[j]]
<1>1. UrgentPrefix(k)
  OBVIOUS
<1>2. /\ queue \in Seq(Nodes) /\ Len(queue) \in Nat /\ queue # <<>>
      /\ Last(queue) = queue[Len(queue)] /\ Last(queue) # urgentTail
      /\ \A g, h \in 1 .. Len(queue) : queue[g] = queue[h] => g = h
      /\ UNCHANGED urgentTail
  BY DEF Displace, NodeInv, TypeOK, NodeConservation, IsInjective, Last
<1>3. k \in 0 .. Len(queue) - 1
  BY <1>1, <1>2 DEF UrgentPrefix
<1>4. /\ Len(queue') = Len(queue) - 1
      /\ \A j \in 1 .. Len(queue) - 1 : queue'[j] = queue[j]
  <2>1. queue' = SubSeq(queue, 1, Len(queue) - 1) /\ Len(queue) - 1 \in Nat
    BY <1>2 DEF Displace, Front
  <2> DEFINE N == Len(queue) - 1
  <2>2. N \in Int /\ 1 \in Int /\ \A j \in 1 .. N : queue[j] \in Nodes
    BY <1>2, <2>1
  <2> HIDE DEF N
  <2>3. /\ Len(SubSeq(queue, 1, N)) = IF 1 <= N THEN N - 1 + 1 ELSE 0
        /\ \A j \in 1 .. N - 1 + 1 : SubSeq(queue, 1, N)[j] = queue[1 + j - 1]
    BY <2>2, SubSeqProperties
  <2>4. queue' = SubSeq(queue, 1, N) /\ N \in Nat /\ N = Len(queue) - 1
    BY <2>1 DEF N
  <2>5. /\ Len(SubSeq(queue, 1, N)) = N
        /\ \A j \in 1 .. N : SubSeq(queue, 1, N)[j] = queue[j]
    BY <2>3, <2>4
  <2> QED BY <2>4, <2>5
<1>5. \A j \in 1 .. Len(queue) - 1 : message'[queue[j]] = message[queue[j]]
  <2>1. \A j \in 1 .. Len(queue) - 1 :
          queue[j] \in Nodes /\ queue[j] # queue[Len(queue)]
    BY <1>2
  <2>2. message' = [message EXCEPT ![queue[Len(queue)]] = NoMessage]
    BY <1>2 DEF Displace
  <2> QED BY <2>1, <2>2 DEF NodeInv, TypeOK
<1>6. /\ \A j \in 1 .. Len(queue) : message[queue[j]].urgent <=> j <= k
      /\ urgentTail = IF k = 0 THEN EndMarker ELSE queue[k]
  BY <1>1 DEF UrgentPrefix
<1>7. k \in 0 .. Len(queue')
  BY <1>3, <1>4
<1>8. \A j \in 1 .. Len(queue') : message'[queue'[j]].urgent <=> j <= k
  BY <1>2, <1>4, <1>5, <1>6
<1>9. urgentTail' = IF k = 0 THEN EndMarker ELSE queue'[k]
  BY <1>2, <1>3, <1>4, <1>6
<1>10. UrgentPrefix(k)'
  BY <1>7, <1>8, <1>9 DEF UrgentPrefix
<1> QED BY <1>2, <1>3, <1>4, <1>5, <1>10

LEMMA NextOrderInv == NodeInv /\ OrderInv /\ [Next]_vars => OrderInv'
<1> SUFFICES ASSUME NodeInv, OrderInv, [Next]_vars PROVE OrderInv'
  OBVIOUS
<1> PICK k \in Nat : UrgentPrefix(k)
  BY DEF OrderInv
<1>0. ASSUME NEW i \in 1 .. Len(queue), RemoveNodeFromQueue(i),
             \A n \in Nodes : n # queue[i] => message'[n] = message[n]
      PROVE  OrderInv'
  <2>1. i <= k => k - 1 \in Nat
    OBVIOUS
  <2> QED BY <1>0, <2>1, RemoveKeepsOrder DEF OrderInv
<1>1. CASE UNCHANGED vars
  BY <1>1, SameHeaders DEF vars
<1>2. ASSUME NEW p \in Posters, NEW m \in Messages,
             PostMessage(p, m) \/ RejectMessage(p, m) \/ Displace(p, m)
      PROVE  OrderInv'
  <2>1. CASE PostMessage(p, m)
    <3>1. PICK n \in free : InsertNode(n, m)
      BY <2>1 DEF PostMessage
    <3>2. n \in Nodes /\ n \notin Range(queue) /\ m \in AnyMessage
      BY MessagesAssumption DEF NodeInv, NodeConservation, TypeOK
    <3> QED BY <3>1, <3>2, InsertKeepsOrder DEF OrderInv
  <2>2. CASE RejectMessage(p, m)
    BY <2>2, <1>1 DEF RejectMessage
  <2> QED BY <1>2, <2>1, <2>2, DisplaceKeepsOrder DEF OrderInv
<1>3. ASSUME NEW p \in Posters, PosterStep(p) PROVE OrderInv'
  <2>1. CASE DisplacedInsert(p)
    BY <2>1, DisplacerFacts, InsertKeepsOrder DEF DisplacedInsert, OrderInv
  <2>2. CASE DisplacedNoMemory(p) \/ Signal(p)
    BY <2>2, SameHeaders DEF DisplacedNoMemory, Signal, nodeVars
  <2> QED BY <1>3, <2>1, <2>2 DEF PosterStep
<1>4. ASSUME NEW c \in Consumers, NEW l \in Calls, Receive(c, l)
      PROVE  OrderInv'
  <2> DEFINE h == <<c, l.slot>>
  <2>1. h \in Consumers \X Slots /\ UNCHANGED <<queue, urgentTail>>
    BY <1>4, CallsAssumption DEF AnyCall, Receive
  <2>2. CASE held[h] = NoNode
    BY <1>4, <2>2, SameHeaders DEF Receive
  <2>3. CASE held[h] # NoNode
    <3>1. message' = [message EXCEPT ![held[h]] = NoMessage]
      BY <1>4, <2>3 DEF Receive, FreeNode
    <3>2. held[h] \notin Range(queue)
      BY <2>1, <2>3, HeldCarryMessages DEF NodeInv, NodeConservation
    <3>3. Range(queue) \subseteq Nodes
      BY DEF NodeInv, NodeConservation
    <3>4. \A n \in Range(queue) : message'[n] = message[n]
      BY <3>1, <3>2, <3>3 DEF NodeInv, TypeOK
    <3> QED BY <2>1, <3>4, SameListKeepsOrder
  <2> QED BY <2>2, <2>3
<1>5. ASSUME NEW c \in Consumers, PendStep(c) \/ SelectiveStep(c)
      PROVE  OrderInv'
  <2>1. CASE TakeFirst(c)
    <3>1. 1 \in 1 .. Len(queue) /\ RemoveNodeFromQueue(1) /\ message' = message
      BY <2>1 DEF TakeFirst, NodeInv, TypeOK
    <3> QED BY <1>0, <3>1
  <2>2. CASE TakeMatching(c)
    <3>1. PICK i \in 1 .. Len(queue) : RemoveNodeFromQueue(i) /\ message' = message
      BY <2>2 DEF TakeMatching
    <3> QED BY <1>0, <3>1
  <2>3. CASE UNCHANGED nodeVars
    BY <2>3, SameHeaders DEF nodeVars
  <2> QED
    BY <1>5, <2>1, <2>2, <2>3
    DEF PendStep, SelectiveStep, TakeToken, FindEmpty, NoTokenInTime,
        SearchHit, PayToken, PayTimeout, SearchMiss, Wake, GiveUp, RescanHit,
        RescanMiss, Expire
<1>6. CASE PurgeNext
  <2>1. PICK i \in 1 .. Len(queue) :
          RemoveNodeFromQueue(i) /\ message' = [message EXCEPT ![queue[i]] = NoMessage]
    BY <1>6 DEF PurgeNext, FreeNode
  <2>2. \A n \in Nodes : n # queue[i] => message'[n] = message[n]
    BY <2>1 DEF NodeInv, TypeOK
  <2> QED BY <1>0, <2>1, <2>2
<1>7. ASSUME NEW events, Select(events) \/ PurgeBegin(events) PROVE OrderInv'
  BY <1>7, SameHeaders DEF Select, PurgeBegin, nodeVars
<1>8. CASE PurgeEnd
  BY <1>8, SameHeaders DEF PurgeEnd, nodeVars
<1>9. CASE RouterStep \/ \E m \in Messages : TakeFreeNode(m)
  <2>1. PICK n \in Nodes :
          /\ n \notin Range(queue)
          /\ \E m : message' = [message EXCEPT ![n] = m]
          /\ \/ UNCHANGED <<queue, urgentTail>>
             \/ InsertNode(n, message[n]) /\ message[n] \in AnyMessage
    BY <1>9, RouterWrites
  <2>2. \A l \in Range(queue) : message'[l] = message[l]
    BY <2>1 DEF NodeInv, NodeConservation, TypeOK
  <2> QED BY <2>1, <2>2, SameListKeepsOrder, InsertKeepsOrder DEF OrderInv
<1> QED BY <1>1, <1>2, <1>3, <1>4, <1>5, <1>6, <1>7, <1>8, <1>9
        DEF Next, PurgeStep

\* Urgent messages are always a prefix of the queue and urgent_tail marks its
\* end, through every receive from the middle, purge and displacement: the
\* next urgent message overtakes all normal messages and no urgent one.
THEOREM UrgentMessagesFirst == Spec => []UrgentTailMarksPrefix
<1>1. Init => OrderInv
  <2> SUFFICES ASSUME Init PROVE UrgentPrefix(0)
    BY DEF OrderInv
  <2> QED BY DEF Init, UrgentPrefix
<1>2. NodeInv /\ OrderInv /\ [Next]_vars => OrderInv'
  BY NextOrderInv
<1>3. NodeInv /\ OrderInv => UrgentTailMarksPrefix
  BY PrefixMarked
<1> QED BY <1>1, <1>2, <1>3, NodeTableCorrect, PTL DEF Spec

-----------------------------------------------------------------------------
(* The tokens of message_available never fall behind the messages, for      *)
(* every number of posters and nodes, in the two set-ups in which the code  *)
(* keeps that promise: one receiving thread, or a pool of threads that only *)
(* use the plain receive.                                                   *)

\* Only the owner receives.
SingleReceiver == Consumers = {Owner}

\* Nobody asks for particular events: no selection, no SAL_Receive_Only.
PlainCallsOnly ==
  /\ Selections \subseteq {{}}
  /\ \A k \in Calls : k.slot = "current"

\* What PlainCallsOnly means for the states.
PlainState ==
  /\ selected = {}
  /\ \A c \in Consumers : msgCnt[c] = 0 /\ pc[c] \in
       {"idle", "wait", "poll", "woken", "purging"}

\* Tokens are collected between the first and the last look at the list.
CollectedWhileWaiting ==
  \A c \in Consumers :
    pc[c] \notin {"drained", "rescan", "expired"} => msgCnt[c] = 0

TokenInv ==
  /\ NodeInv
  /\ NoLostWakeup
  /\ CollectedWhileWaiting
  /\ SingleReceiver \/ PlainState

-----------------------------------------------------------------------------
(* Counting threads. *)

One(b) == IF b THEN 1 ELSE 0

LEMMA CountMoved ==
  ASSUME NEW D, IsFiniteSet(D), NEW St, NEW t \in D,
         \A u \in D : u # t => pc'[u] = pc[u]
  PROVE  /\ Cardinality(InState(D, St)) \in Nat
         /\ Cardinality(InState(D, St))'
              = Cardinality(InState(D, St)) - One(pc[t] \in St) + One(pc'[t] \in St)
<1> DEFINE before == InState(D, St)
           after  == {u \in D : pc'[u] \in St}
           others == before \ {t}
<1>1. /\ IsFiniteSet(before) /\ Cardinality(before) \in Nat
  BY FS_Subset, FS_CardinalityType DEF InState
<1>2. /\ IsFiniteSet(others) /\ t \notin others
      /\ Cardinality(others) = IF t \in before THEN Cardinality(before) - 1
                                               ELSE Cardinality(before)
  BY <1>1, FS_RemoveElement
<1>3. Cardinality(others \cup {t}) = Cardinality(others) + 1
  BY <1>2, FS_AddElement
<1>4. after = IF pc'[t] \in St THEN others \cup {t} ELSE others
  BY DEF InState
<1>5. (t \in before <=> pc[t] \in St) /\ InState(D, St)' = after
  BY DEF InState
<1> HIDE DEF before, after, others
<1>6. Cardinality(after)
        = Cardinality(before) - One(pc[t] \in St) + One(pc'[t] \in St)
  BY <1>1, <1>2, <1>3, <1>4, <1>5 DEF One
<1>7. Cardinality(InState(D, St))' = Cardinality(after)
  BY <1>5
<1> QED BY <1>1, <1>6, <1>7 DEF before

Signalling == Cardinality(InState(Posters, {"signal"}))
Taking     == Cardinality(InState(Consumers, {"woken", "rescan"}))
Owing      == Cardinality(InState(Consumers, {"owing"}))
Displacing == IF displaced = NoNode THEN 0 ELSE 1

LEMMA NoLostWakeupCounts ==
  NoLostWakeup <=>
    sem + (Signalling + Taking + Cardinality(Collected))
      >= Len(queue) + (Owing + Displacing)
BY DEF NoLostWakeup, TokensInFlight, TokensOwed, Signalling, Taking, Owing,
       Displacing

LEMMA CountTypes ==
  ASSUME NodeInv
  PROVE  /\ Signalling \in Nat /\ Taking \in Nat /\ Owing \in Nat
         /\ Displacing \in {0, 1} /\ Len(queue) \in Nat /\ sem \in Nat
<1>1. IsFiniteSet(Posters) /\ IsFiniteSet(Consumers)
  BY ThreadsAssumption, FS_Subset DEF Threads
<1>2. ASSUME NEW D, IsFiniteSet(D), NEW St
      PROVE  Cardinality(InState(D, St)) \in Nat
  BY <1>2, FS_Subset, FS_CardinalityType DEF InState
<1> QED BY <1>1, <1>2
        DEF Signalling, Taking, Owing, Displacing, NodeInv, TypeOK

\* A poster changes its program counter.
LEMMA PosterMoves ==
  ASSUME NodeInv, NEW p \in Posters, NEW from, NEW to \in PcState,
         Goto(p, from, to)
  PROVE  /\ Signalling' = Signalling - One(from = "signal") + One(to = "signal")
         /\ Taking' = Taking /\ Owing' = Owing
<1>1. /\ \A u \in Threads : pc'[u] = IF u = p THEN to ELSE pc[u]
      /\ pc[p] = from /\ p \in Threads
  BY GotoFacts DEF NodeInv, Threads
<1>2. IsFiniteSet(Posters) /\ \A u \in Posters : u # p => pc'[u] = pc[u]
  BY <1>1, ThreadsAssumption, FS_Subset DEF Threads
<1>3. Signalling' = Signalling - One(pc[p] \in {"signal"}) + One(pc'[p] \in {"signal"})
  BY <1>2, CountMoved DEF Signalling
<1>4. \A c \in Consumers : pc'[c] = pc[c]
  BY <1>1, ThreadsAssumption DEF Threads
<1>5. Taking' = Taking /\ Owing' = Owing
  BY <1>4 DEF Taking, Owing, InState
<1> QED BY <1>1, <1>3, <1>5 DEF One

\* A consumer changes its program counter.
LEMMA ConsumerMoves ==
  ASSUME NodeInv, NEW c \in Consumers, NEW from, NEW to \in PcState,
         Goto(c, from, to)
  PROVE  /\ Signalling' = Signalling
         /\ Taking' = Taking - One(from \in {"woken", "rescan"})
                             + One(to \in {"woken", "rescan"})
         /\ Owing' = Owing - One(from = "owing") + One(to = "owing")
<1>1. /\ \A u \in Threads : pc'[u] = IF u = c THEN to ELSE pc[u]
      /\ pc[c] = from /\ c \in Threads
  BY GotoFacts, ConsumerFacts DEF NodeInv
<1>2. IsFiniteSet(Consumers) /\ \A u \in Consumers : u # c => pc'[u] = pc[u]
  BY <1>1, ThreadsAssumption, FS_Subset DEF Threads
<1>3. Taking' = Taking - One(pc[c] \in {"woken", "rescan"})
                       + One(pc'[c] \in {"woken", "rescan"})
  BY <1>2, CountMoved DEF Taking
<1>4. Owing' = Owing - One(pc[c] \in {"owing"}) + One(pc'[c] \in {"owing"})
  BY <1>2, CountMoved DEF Owing
<1>5. \A p \in Posters : pc'[p] = pc[p]
  BY <1>1, ThreadsAssumption DEF Threads
<1>6. Signalling' = Signalling
  BY <1>5 DEF Signalling, InState
<1> QED BY <1>1, <1>3, <1>4, <1>6 DEF One

\* The tokens collected by a single receiver.
LEMMA PairsWithOwner ==
  ASSUME NEW n \in Nat
  PROVE  Cardinality({Owner} \X (1 .. n)) = n
<1>1. 1 \in Int /\ n \in Int
  OBVIOUS
<1>2. IsFiniteSet(1 .. n) /\ Cardinality(1 .. n) = IF 1 > n THEN 0 ELSE n - 1 + 1
  BY <1>1, FS_Interval
<1>3. IsFiniteSet({Owner}) /\ Cardinality({Owner}) = 1
  BY FS_Singleton
<1>4. Cardinality({Owner} \X (1 .. n)) = Cardinality({Owner}) * Cardinality(1 .. n)
  BY <1>2, <1>3, FS_Product
<1> QED BY <1>2, <1>3, <1>4

LEMMA CollectedBySingle ==
  ASSUME SingleReceiver, msgCnt[Owner] \in Nat
  PROVE  Cardinality(Collected) = msgCnt[Owner]
<1>1. Collected = {Owner} \X (1 .. msgCnt[Owner])
  BY DEF Collected, SingleReceiver
<1> QED BY <1>1, PairsWithOwner

LEMMA CollectedNext ==
  ASSUME SingleReceiver, msgCnt'[Owner] \in Nat
  PROVE  Cardinality(Collected)' = msgCnt'[Owner]
<1>1. Collected' = {Owner} \X (1 .. msgCnt'[Owner])
  BY DEF Collected, SingleReceiver
<1> QED BY <1>1, PairsWithOwner

LEMMA CollectedCount ==
  ASSUME TokenInv
  PROVE  Cardinality(Collected) \in Nat
<1>1. CASE SingleReceiver
  BY <1>1, CollectedBySingle, OwnerFacts DEF TokenInv, NodeInv, TypeOK
<1>2. CASE PlainState
  <2>1. Collected = {}
    BY <1>2 DEF PlainState, Collected
  <2> QED BY <2>1, FS_EmptySet
<1> QED BY <1>1, <1>2 DEF TokenInv

LEMMA CollectedSame ==
  ASSUME msgCnt' = msgCnt PROVE Cardinality(Collected)' = Cardinality(Collected)
BY DEF Collected

-----------------------------------------------------------------------------
(* Every step keeps a token for each message. *)

\* The number of tokens, and of the messages they are for.
Tokens == sem + (Signalling + Taking + Cardinality(Collected))
Due    == Len(queue) + (Owing + Displacing)

LEMMA TokenTypes ==
  ASSUME TokenInv
  PROVE  /\ NodeInv
         /\ Signalling \in Nat /\ Taking \in Nat /\ Owing \in Nat
         /\ Displacing \in {0, 1} /\ Len(queue) \in Nat /\ sem \in Nat
         /\ Cardinality(Collected) \in Nat
BY CountTypes, CollectedCount DEF TokenInv

LEMMA Balance ==
  ASSUME NEW a \in Int, NEW b \in Int, NEW d \in Int, NEW e \in Int,
         a >= b, d >= e
  PROVE  a + d >= b + e
OBVIOUS

\* It suffices that a step adds as much to Tokens as it adds to Due.
LEMMA KeepsUp ==
  ASSUME TokenInv, NEW d \in Int, NEW e \in Int, d >= e,
         Tokens' = Tokens + d, Due' = Due + e
  PROVE  NoLostWakeup'
<1>1. Tokens \in Int /\ Due \in Int
  BY TokenTypes, SMTT(40) DEF Tokens, Due
<1>2. Tokens >= Due
  BY NoLostWakeupCounts DEF TokenInv, Tokens, Due
<1>3. Tokens' >= Due'
  BY <1>1, <1>2, Balance
<1> QED BY <1>3
        DEF Tokens, Due, NoLostWakeup, TokensInFlight, TokensOwed, Signalling,
            Taking, Owing, Displacing

LEMMA PostMessageToken ==
  ASSUME TokenInv, NEW p \in Posters, NEW m \in Messages, PostMessage(p, m)
  PROVE  NoLostWakeup'
<1> USE TokenTypes
<1>1. Len(queue') = Len(queue) + 1
  <2>1. PICK n \in free : InsertNode(n, m)
    BY DEF PostMessage
  <2>2. n \in Nodes /\ n \notin Range(queue) /\ m \in AnyMessage
    BY MessagesAssumption DEF NodeInv, NodeConservation, TypeOK
  <2> QED BY <2>1, <2>2, InsertNodeFacts DEF NodeInv, NodeConservation
<1>2. Displacing' = Displacing /\ Cardinality(Collected)' = Cardinality(Collected)
  BY CollectedSame DEF PostMessage, posterVars, consumerVars, Displacing
<1>3. Goto(p, "idle", "signal") /\ sem' = sem
  BY DEF PostMessage
<1>4. Signalling' = Signalling + 1 /\ Taking' = Taking /\ Owing' = Owing
  BY <1>3, PosterMoves DEF PcState, One
<1>5. Tokens' = Tokens + 1
  BY <1>1, <1>2, <1>3, <1>4, SMTT(40) DEF Tokens
<1>6. Due' = Due + 1
  BY <1>1, <1>2, <1>3, <1>4, SMTT(40) DEF Due
<1> QED BY <1>5, <1>6, KeepsUp

LEMMA DisplaceToken ==
  ASSUME TokenInv, NEW p \in Posters, NEW m \in Messages, Displace(p, m)
  PROVE  NoLostWakeup'
<1> USE TokenTypes
<1>1. Len(queue') = Len(queue) - 1 /\ Last(queue) \in Nodes
  BY FrontFacts DEF Displace, NodeInv, NodeConservation
<1>2. Displacing = 0 /\ Displacing' = 1
  BY <1>1, FreeLock, NodesAssumption DEF Displace, Displacing
<1>3. sem' = sem /\ Cardinality(Collected)' = Cardinality(Collected)
  BY CollectedSame DEF Displace, consumerVars
<1>4. Signalling' = Signalling /\ Taking' = Taking /\ Owing' = Owing
  <2>1. Goto(p, "idle", "displacing")
    BY DEF Displace
  <2> QED BY <2>1, PosterMoves DEF PcState, One
<1>5. Tokens' = Tokens + 0 /\ Due' = Due + 0
  <2>1. Tokens' = Tokens + 0
    BY <1>1, <1>2, <1>3, <1>4 DEF Tokens
  <2>2. Due' = Due + 0
    BY <1>1, <1>2, <1>3, <1>4 DEF Due
  <2> QED BY <2>1, <2>2
<1> QED BY <1>5, KeepsUp

LEMMA PosterStepToken ==
  ASSUME TokenInv, NEW p \in Posters, PosterStep(p)
  PROVE  NoLostWakeup'
<1> USE TokenTypes
<1>1. CASE Signal(p)
  <2>1. /\ Goto(p, "signal", "idle") /\ sem' = sem + 1 /\ Len(queue)' = Len(queue)
        /\ Displacing' = Displacing
        /\ Cardinality(Collected)' = Cardinality(Collected)
    BY <1>1, CollectedSame
    DEF Signal, nodeVars, posterVars, consumerVars, Displacing
  <2>2. Signalling' = Signalling - 1 /\ Taking' = Taking /\ Owing' = Owing
    BY <2>1, PosterMoves DEF PcState, One
  <2>3. Tokens' = Tokens + 0 /\ Due' = Due + 0
    <3>1. Tokens' = Tokens + 0
      BY <2>1, <2>2, SMTT(40) DEF Tokens
    <3>2. Due' = Due + 0
      BY <2>1, <2>2 DEF Due
    <3> QED BY <3>1, <3>2
  <2> QED BY <2>3, KeepsUp
<1>2. CASE DisplacedInsert(p) \/ DisplacedNoMemory(p)
  <2>1. /\ displaced \in Nodes /\ displaced' = NoNode
        /\ displaced \notin Range(queue) /\ posting[p] \in AnyMessage
        /\ Cardinality(Collected)' = Cardinality(Collected)
    BY <1>2, DisplacerFacts, CollectedSame
    DEF DisplacedInsert, DisplacedNoMemory, EndDisplacement, Goto, consumerVars
  <2>2. Displacing = 1 /\ Displacing' = 0
    BY <2>1, NodesAssumption DEF Displacing
  <2>3. CASE DisplacedInsert(p)
    <3>1. Len(queue') = Len(queue) + 1
      BY <2>1, <2>3, InsertNodeFacts DEF DisplacedInsert, NodeInv, NodeConservation
    <3>2. Goto(p, "displacing", "signal") /\ sem' = sem - 1
      BY <2>3 DEF DisplacedInsert, EndDisplacement
    <3>3. Signalling' = Signalling + 1 /\ Taking' = Taking /\ Owing' = Owing
      BY <3>2, PosterMoves DEF PcState, One
    <3>4. Tokens' = Tokens + 0
      BY <2>1, <2>2, <3>1, <3>2, <3>3, SMTT(40) DEF Tokens
    <3>5. Due' = Due + 0
      BY <2>1, <2>2, <3>1, <3>2, <3>3 DEF Due
    <3> QED BY <3>4, <3>5, KeepsUp
  <2>4. CASE DisplacedNoMemory(p)
    <3>1. Goto(p, "displacing", "idle") /\ sem' = sem - 1 /\ Len(queue)' = Len(queue)
      BY <2>4 DEF DisplacedNoMemory, EndDisplacement
    <3>2. Signalling' = Signalling /\ Taking' = Taking /\ Owing' = Owing
      BY <3>1, PosterMoves DEF PcState, One
    <3>3. Tokens' = Tokens + (-1) /\ Due' = Due + (-1)
      <4>1. Tokens' = Tokens + (-1)
        BY <2>1, <2>2, <3>1, <3>2 DEF Tokens
      <4>2. Due' = Due + (-1)
        BY <2>1, <2>2, <3>1, <3>2 DEF Due
      <4> QED BY <4>1, <4>2
    <3> QED BY <3>3, KeepsUp
  <2> QED BY <1>2, <2>3, <2>4
<1> QED BY <1>1, <1>2 DEF PosterStep

RouterStates == {"idle", "displacing", "reading"}

LEMMA RouterMoves ==
  ASSUME RouterStep \/ \E m \in Messages : TakeFreeNode(m)
  PROVE  /\ \E from \in RouterStates, to \in RouterStates : Goto(Router, from, to)
         /\ UNCHANGED consumerVars
<1>1. CASE \E m \in Messages : TakeFreeNode(m)
  BY <1>1 DEF TakeFreeNode, RouterStates
<1>2. CASE TakeDisplacedNode
  BY <1>2 DEF TakeDisplacedNode, EndDisplacement, RouterStates
<1>3. CASE PostMessageNode \/ ReadFails
  BY <1>3 DEF PostMessageNode, ReadFails, EndReading, RouterStates
<1> QED BY <1>1, <1>2, <1>3 DEF RouterStep

\* The router pays the token of the message it displaced before it reads, and
\* signals with the message it posts.
LEMMA RouterToken ==
  ASSUME TokenInv, RouterStep \/ \E m \in Messages : TakeFreeNode(m)
  PROVE  NoLostWakeup'
<1> USE TokenTypes, ThreadsAssumption
<1>1. Cardinality(Collected)' = Cardinality(Collected)
  BY RouterMoves, CollectedSame DEF consumerVars
<1>2. Signalling' = Signalling /\ Taking' = Taking /\ Owing' = Owing
  <2>1. PICK from \in RouterStates, to \in RouterStates : Goto(Router, from, to)
    BY RouterMoves
  <2> QED BY <2>1, PosterMoves DEF One, RouterStates, PcState
<1>3. CASE \/ \E m \in Messages : TakeFreeNode(m)
           \/ ReadFails
  <2>1. Len(queue)' = Len(queue) /\ sem' = sem /\ Displacing' = Displacing
    BY <1>3 DEF TakeFreeNode, ReadFails, EndReading, Displacing
  <2>2. Tokens' = Tokens + 0
    BY <1>1, <1>2, <2>1 DEF Tokens
  <2>3. Due' = Due + 0
    BY <1>2, <2>1 DEF Due
  <2> QED BY <2>2, <2>3, KeepsUp
<1>4. CASE TakeDisplacedNode
  <2>1. Router \in Posters /\ pc[Router] = "displacing"
    BY <1>4 DEF TakeDisplacedNode, Goto
  <2>2. /\ Len(queue)' = Len(queue) /\ sem' = sem - 1
        /\ Displacing = 1 /\ Displacing' = 0
    BY <1>4, <2>1, DisplacerFacts, NodesAssumption
    DEF TakeDisplacedNode, EndDisplacement, Displacing
  <2>3. Tokens' = Tokens + (-1)
    BY <1>1, <1>2, <2>2 DEF Tokens
  <2>4. Due' = Due + (-1)
    BY <1>2, <2>2 DEF Due
  <2> QED BY <2>3, <2>4, KeepsUp
<1>5. CASE PostMessageNode
  <2>1. pc[Router] = "reading" /\ InsertNode(filling, message[filling])
    BY <1>5 DEF PostMessageNode, EndReading, Goto
  <2>2. /\ filling \in Nodes /\ filling \notin Range(queue)
        /\ message[filling] \in AnyMessage
    BY <2>1, ReaderFacts
  <2>3. /\ Len(queue') = Len(queue) + 1 /\ sem' = sem + 1
        /\ Displacing' = Displacing
    BY <1>5, <2>1, <2>2, InsertNodeFacts
    DEF NodeInv, NodeConservation, PostMessageNode, EndReading, Displacing
  <2>4. Tokens' = Tokens + 1
    BY <1>1, <1>2, <2>3 DEF Tokens
  <2>5. Due' = Due + 1
    BY <1>2, <2>3 DEF Due
  <2> QED BY <2>4, <2>5, KeepsUp
<1> QED BY <1>3, <1>4, <1>5 DEF RouterStep

LEMMA PendToken ==
  ASSUME TokenInv, NEW c \in Consumers, PendStep(c)
  PROVE  NoLostWakeup'
<1> USE TokenTypes
<1>1. CASE TakeToken(c)
  <2>1. /\ \E from \in {"wait", "poll"} : Goto(c, from, "woken")
        /\ sem' = sem - 1 /\ Len(queue)' = Len(queue) /\ Displacing' = Displacing
        /\ Cardinality(Collected)' = Cardinality(Collected)
    BY <1>1, CollectedSame
    DEF TakeToken, nodeVars, posterVars, consumerVars, Displacing
  <2>2. Signalling' = Signalling /\ Taking' = Taking + 1 /\ Owing' = Owing
    BY <2>1, ConsumerMoves DEF PcState, One
  <2>3. Tokens' = Tokens + 0
    BY <2>1, <2>2 DEF Tokens
  <2>4. Due' = Due + 0
    BY <2>1, <2>2 DEF Due
  <2> QED BY <2>3, <2>4, KeepsUp
<1>2. CASE NoTokenInTime(c)
  <2>1. /\ \E from \in {"wait", "poll"} : Goto(c, from, "idle")
        /\ sem' = sem /\ Len(queue)' = Len(queue) /\ Displacing' = Displacing
        /\ Cardinality(Collected)' = Cardinality(Collected)
    BY <1>2, CollectedSame
    DEF NoTokenInTime, nodeVars, posterVars, consumerVars, Displacing
  <2>2. Signalling' = Signalling /\ Taking' = Taking /\ Owing' = Owing
    BY <2>1, ConsumerMoves DEF PcState, One
  <2>3. Tokens' = Tokens + 0
    BY <2>1, <2>2 DEF Tokens
  <2>4. Due' = Due + 0
    BY <2>1, <2>2 DEF Due
  <2> QED BY <2>3, <2>4, KeepsUp
<1>3. CASE TakeFirst(c)
  <2>1. Len(queue') = Len(queue) - 1
    <3>1. 1 \in 1 .. Len(queue) /\ RemoveNodeFromQueue(1)
      BY <1>3 DEF TakeFirst, NodeInv, TypeOK
    <3> QED BY <3>1, RemoveNodeFacts DEF NodeInv, NodeConservation
  <2>2. /\ Goto(c, "woken", "idle") /\ sem' = sem /\ Displacing' = Displacing
        /\ Cardinality(Collected)' = Cardinality(Collected)
    BY <1>3, CollectedSame DEF TakeFirst, posterVars, Displacing
  <2>3. Signalling' = Signalling /\ Taking' = Taking - 1 /\ Owing' = Owing
    BY <2>2, ConsumerMoves DEF PcState, One
  <2>4. Tokens' = Tokens + (-1)
    BY <2>2, <2>3 DEF Tokens
  <2>5. Due' = Due + (-1)
    BY <2>1, <2>2, <2>3 DEF Due
  <2> QED BY <2>4, <2>5, KeepsUp
<1>4. CASE FindEmpty(c)
    \* nobody has a message to pay for, so the token is not missed
  <2>1. /\ \E to \in {"wait", "idle"} : Goto(c, "woken", to)
        /\ sem' = sem /\ queue' = <<>> /\ Displacing' = Displacing
        /\ Displacing = 0
        /\ Cardinality(Collected)' = Cardinality(Collected)
    BY <1>4, CollectedSame, FreeLock
    DEF FindEmpty, nodeVars, posterVars, consumerVars, Displacing
  <2>2. Signalling' = Signalling /\ Taking' = Taking - 1 /\ Owing' = Owing
    BY <2>1, ConsumerMoves DEF PcState, One
  <2>3. pc[c] = "woken"
    BY <2>1 DEF Goto
  <2>4. \A d \in Consumers : pc[d] # "owing"
    BY <2>3 DEF TokenInv, SingleReceiver, PlainState
  <2>5. Owing = 0
    BY <2>4, FS_EmptySet DEF Owing, InState
  <2>6. Taking > 0
    <3>1. IsFiniteSet(Consumers)
      BY ThreadsAssumption, FS_Subset DEF Threads
    <3>2. IsFiniteSet(InState(Consumers, {"woken", "rescan"}))
      BY <3>1, FS_Subset DEF InState
    <3>3. c \in InState(Consumers, {"woken", "rescan"})
      BY <2>3 DEF InState
    <3>4. Taking # 0
      BY <3>2, <3>3, FS_EmptySet DEF Taking
    <3> QED BY <3>4
  <2>7. Due' = 0
    BY <2>1, <2>2, <2>5 DEF Due
  <2>8. Taking' \in Nat
    BY <2>2, <2>6
  <2>9. Tokens' \in Nat
    BY <2>1, <2>2, <2>8 DEF Tokens
  <2>10. Tokens' >= Due'
    BY <2>7, <2>9
  <2> QED BY <2>10
          DEF Tokens, Due, NoLostWakeup, TokensInFlight, TokensOwed, Signalling,
              Taking, Owing, Displacing
<1> QED BY <1>1, <1>2, <1>3, <1>4 DEF PendStep

\* A consumer in a selective receive is the only consumer.
LEMMA SelectiveIsSingle ==
  ASSUME TokenInv, NEW c \in Consumers,
         pc[c] \in {"search", "owing", "drained", "rescan", "expired"}
  PROVE  SingleReceiver /\ c = Owner
BY DEF TokenInv, SingleReceiver, PlainState

LEMMA TakeMatchingLength ==
  ASSUME NodeInv, NEW c \in Consumers, TakeMatching(c)
  PROVE  Len(queue') = Len(queue) - 1 /\ Displacing' = Displacing
<1>1. Len(queue') = Len(queue) - 1
  BY RemoveNodeFacts DEF TakeMatching, NodeInv, NodeConservation
<1>2. Displacing' = Displacing
  BY DEF TakeMatching, posterVars, Displacing
<1> QED BY <1>1, <1>2

\* Removing a message before its token, and paying for it.
LEMMA PayingToken ==
  ASSUME TokenInv, NEW c \in Consumers,
         SearchHit(c) \/ PayToken(c) \/ PayTimeout(c)
  PROVE  NoLostWakeup'
<1> USE TokenTypes
<1>1. CASE SearchHit(c)
  <2>1. Len(queue') = Len(queue) - 1 /\ Displacing' = Displacing
    BY <1>1, TakeMatchingLength DEF SearchHit
  <2>2. /\ Goto(c, "search", "owing") /\ sem' = sem
        /\ Cardinality(Collected)' = Cardinality(Collected)
    BY <1>1, CollectedSame DEF SearchHit
  <2>3. Signalling' = Signalling /\ Taking' = Taking /\ Owing' = Owing + 1
    BY <2>2, ConsumerMoves DEF PcState, One
  <2>4. Tokens' = Tokens + 0
    BY <2>2, <2>3 DEF Tokens
  <2>5. Due' = Due + 0
    BY <2>1, <2>3 DEF Due
  <2> QED BY <2>4, <2>5, KeepsUp
<1>2. CASE PayToken(c)
  <2>1. /\ Goto(c, "owing", "idle") /\ sem' = sem - 1
        /\ Len(queue)' = Len(queue) /\ Displacing' = Displacing
        /\ Cardinality(Collected)' = Cardinality(Collected)
    BY <1>2, CollectedSame
    DEF PayToken, nodeVars, posterVars, consumerVars, Displacing
  <2>2. Signalling' = Signalling /\ Taking' = Taking /\ Owing' = Owing - 1
    BY <2>1, ConsumerMoves DEF PcState, One
  <2>3. Tokens' = Tokens + (-1)
    BY <2>1, <2>2 DEF Tokens
  <2>4. Due' = Due + (-1)
    BY <2>1, <2>2, SMTT(40) DEF Due
  <2> QED BY <2>3, <2>4, KeepsUp
<1>3. CASE PayTimeout(c)
  <2>1. /\ Goto(c, "owing", "idle") /\ sem' = sem
        /\ UNCHANGED <<queue, displaced, msgCnt>>
    BY <1>3 DEF PayTimeout, nodeVars, posterVars, consumerVars
  <2>0. /\ Len(queue)' = Len(queue) /\ Displacing' = Displacing
        /\ Cardinality(Collected)' = Cardinality(Collected)
    BY <2>1, CollectedSame DEF Displacing
  <2>2. Signalling' = Signalling /\ Taking' = Taking /\ Owing' = Owing - 1
    BY <2>0, <2>1, ConsumerMoves DEF PcState, One
  <2>3. Tokens' = Tokens + 0
    BY <2>0, <2>1, <2>2 DEF Tokens
  <2>4. Due' = Due + (-1)
    BY <2>0, <2>1, <2>2 DEF Due
  <2> QED BY <2>3, <2>4, KeepsUp
<1> QED BY <1>1, <1>2, <1>3

\* Collecting tokens while waiting, and returning them.
LEMMA CollectingToken ==
  ASSUME TokenInv, NEW c \in Consumers,
         \/ SearchMiss(c) \/ Wake(c) \/ GiveUp(c)
         \/ RescanHit(c) \/ RescanMiss(c) \/ Expire(c)
  PROVE  NoLostWakeup'
<1> USE TokenTypes
<1>1. /\ pc[c] \in {"search", "drained", "rescan", "expired"}
      /\ SingleReceiver /\ c = Owner
  BY SelectiveIsSingle
  DEF SearchMiss, Wake, GiveUp, RescanHit, RescanMiss, Expire, Goto
<1>2. msgCnt[c] \in Nat /\ Cardinality(Collected) = msgCnt[c] /\ msgCnt \in [Consumers -> Nat]
  BY <1>1, CollectedBySingle, OwnerFacts DEF NodeInv, TypeOK
<1>3. pc[c] = "search" => msgCnt[c] = 0
  BY <1>1, OwnerFacts DEF TokenInv, CollectedWhileWaiting
<1>4. msgCnt' = msgCnt => Cardinality(Collected)' = Cardinality(Collected)
  BY CollectedSame
<1>5. ASSUME NEW n \in Nat, msgCnt' = [msgCnt EXCEPT ![c] = n] PROVE Cardinality(Collected)' = n
  BY <1>1, <1>2, <1>5, CollectedNext, OwnerFacts
<1>6. UNCHANGED posterVars => Displacing' = Displacing
  BY DEF posterVars, Displacing
<1>7. UNCHANGED nodeVars => Len(queue)' = Len(queue)
  BY DEF nodeVars
<1>8. CASE SearchMiss(c)
  <2>1. CASE call[c].wait = "try"
    <3>1. /\ Goto(c, "search", "idle") /\ sem' = sem
          /\ Len(queue)' = Len(queue) /\ Displacing' = Displacing
          /\ Cardinality(Collected)' = Cardinality(Collected)
      BY <1>4, <1>6, <1>7, <1>8, <2>1 DEF SearchMiss
    <3>2. Signalling' = Signalling /\ Taking' = Taking /\ Owing' = Owing
      BY <3>1, ConsumerMoves DEF PcState, One
    <3>3. Tokens' = Tokens + 0
      BY <3>1, <3>2 DEF Tokens
    <3>4. Due' = Due + 0
      BY <3>1, <3>2 DEF Due
    <3> QED BY <3>3, <3>4, KeepsUp
  <2>2. CASE call[c].wait # "try"
    <3>1. /\ Goto(c, "search", "drained") /\ sem' = 0
          /\ Len(queue)' = Len(queue) /\ Displacing' = Displacing
          /\ msgCnt' = [msgCnt EXCEPT ![c] = sem]
      BY <1>6, <1>7, <1>8, <2>2 DEF SearchMiss
    <3>2. Signalling' = Signalling /\ Taking' = Taking /\ Owing' = Owing
      BY <3>1, ConsumerMoves DEF PcState, One
    <3>3. Cardinality(Collected) = 0 /\ Cardinality(Collected)' = sem
      BY <1>2, <1>3, <1>5, <3>1 DEF Goto
    <3>4. Tokens' = Tokens + 0
      BY <3>1, <3>2, <3>3 DEF Tokens
    <3>5. Due' = Due + 0
      BY <3>1, <3>2 DEF Due
    <3> QED BY <3>4, <3>5, KeepsUp
  <2> QED BY <2>1, <2>2
<1>9. CASE Wake(c)
  <2>1. /\ Goto(c, "drained", "rescan") /\ sem' = sem - 1
        /\ Len(queue)' = Len(queue) /\ Displacing' = Displacing
        /\ Cardinality(Collected)' = Cardinality(Collected)
    BY <1>4, <1>6, <1>7, <1>9 DEF Wake, consumerVars
  <2>2. Signalling' = Signalling /\ Taking' = Taking + 1 /\ Owing' = Owing
    BY <2>1, ConsumerMoves DEF PcState, One
  <2>3. Tokens' = Tokens + 0
    BY <2>1, <2>2 DEF Tokens
  <2>4. Due' = Due + 0
    BY <2>1, <2>2 DEF Due
  <2> QED BY <2>3, <2>4, KeepsUp
<1>10. CASE GiveUp(c)
  <2>1. /\ Goto(c, "drained", "expired") /\ sem' = sem
        /\ Len(queue)' = Len(queue) /\ Displacing' = Displacing
        /\ Cardinality(Collected)' = Cardinality(Collected)
    BY <1>4, <1>6, <1>7, <1>10 DEF GiveUp, consumerVars
  <2>2. Signalling' = Signalling /\ Taking' = Taking /\ Owing' = Owing
    BY <2>1, ConsumerMoves DEF PcState, One
  <2>3. Tokens' = Tokens + 0
    BY <2>1, <2>2 DEF Tokens
  <2>4. Due' = Due + 0
    BY <2>1, <2>2 DEF Due
  <2> QED BY <2>3, <2>4, KeepsUp
<1>11. CASE RescanHit(c)
  <2>1. Len(queue') = Len(queue) - 1 /\ Displacing' = Displacing
    BY <1>11, TakeMatchingLength DEF RescanHit
  <2>2. /\ Goto(c, "rescan", "idle") /\ sem' = sem + msgCnt[c]
        /\ Cardinality(Collected)' = 0
    BY <1>5, <1>11 DEF RescanHit
  <2>3. Signalling' = Signalling /\ Taking' = Taking - 1 /\ Owing' = Owing
    BY <2>2, ConsumerMoves DEF PcState, One
  <2>4. Tokens' = Tokens + (-1)
    BY <1>2, <2>2, <2>3 DEF Tokens
  <2>5. Due' = Due + (-1)
    BY <2>1, <2>3 DEF Due
  <2> QED BY <2>4, <2>5, KeepsUp
<1>12. CASE RescanMiss(c)
  <2>1. Len(queue)' = Len(queue) /\ Displacing' = Displacing
    BY <1>6, <1>7, <1>12 DEF RescanMiss
  <2>2. CASE /\ msgCnt' = [msgCnt EXCEPT ![c] = @ + 1 + sem] /\ sem' = 0
             /\ Goto(c, "rescan", "drained")
    <3>1. Signalling' = Signalling /\ Taking' = Taking - 1 /\ Owing' = Owing
      BY <2>2, ConsumerMoves DEF PcState, One
    <3>2. Cardinality(Collected)' = msgCnt[c] + 1 + sem
      <4>1. msgCnt[c] + 1 + sem \in Nat
        BY <1>2
      <4>2. msgCnt' = [msgCnt EXCEPT ![c] = msgCnt[c] + 1 + sem]
        BY <2>2
      <4> QED BY <4>1, <4>2, <1>5
    <3>3. Tokens' = Tokens + 0
      BY <1>2, <2>2, <3>1, <3>2 DEF Tokens
    <3>4. Due' = Due + 0
      BY <2>1, <3>1 DEF Due
    <3> QED BY <3>3, <3>4, KeepsUp
  <2>3. CASE /\ msgCnt' = [msgCnt EXCEPT ![c] = 0] /\ sem' = sem + msgCnt[c] + 1
             /\ Goto(c, "rescan", "idle")
    <3>1. Signalling' = Signalling /\ Taking' = Taking - 1 /\ Owing' = Owing
      BY <2>3, ConsumerMoves DEF PcState, One
    <3>2. Cardinality(Collected)' = 0
      BY <1>5, <2>3
    <3>3. Tokens' = Tokens + 0
      BY <1>2, <2>3, <3>1, <3>2 DEF Tokens
    <3>4. Due' = Due + 0
      BY <2>1, <3>1 DEF Due
    <3> QED BY <3>3, <3>4, KeepsUp
  <2> QED BY <1>12, <2>2, <2>3 DEF RescanMiss
<1>13. CASE Expire(c)
  <2>1. /\ Goto(c, "expired", "idle") /\ sem' = sem + msgCnt[c]
        /\ Len(queue)' = Len(queue) /\ Displacing' = Displacing
        /\ Cardinality(Collected)' = 0
    BY <1>5, <1>6, <1>7, <1>13 DEF Expire
  <2>2. Signalling' = Signalling /\ Taking' = Taking /\ Owing' = Owing
    BY <2>1, ConsumerMoves DEF PcState, One
  <2>3. Tokens' = Tokens + 0
    BY <1>2, <2>1, <2>2 DEF Tokens
  <2>4. Due' = Due + 0
    BY <2>1, <2>2 DEF Due
  <2> QED BY <2>3, <2>4, KeepsUp
<1> QED BY <1>8, <1>9, <1>10, <1>11, <1>12, <1>13

\* Starting a call, selecting events, purging.
LEMMA OwnerToken ==
  ASSUME TokenInv,
         \/ \E c \in Consumers, k \in Calls : Receive(c, k)
         \/ \E events \in Selections : Select(events)
         \/ \E events \in PurgeLists : PurgeBegin(events)
         \/ PurgeStep
  PROVE  NoLostWakeup'
<1> USE TokenTypes, OwnerFacts
<1>1. ASSUME NEW c \in Consumers, NEW k \in Calls, Receive(c, k)
      PROVE  NoLostWakeup'
  <2>1. /\ \E to \in {"search", "poll", "wait"} : Goto(c, "idle", to)
        /\ sem' = sem /\ Len(queue)' = Len(queue) /\ Displacing' = Displacing
        /\ Cardinality(Collected)' = Cardinality(Collected)
    BY <1>1, CollectedSame DEF Receive, posterVars, Displacing
  <2>2. Signalling' = Signalling /\ Taking' = Taking /\ Owing' = Owing
    BY <2>1, ConsumerMoves DEF PcState, One
  <2>3. Tokens' = Tokens + 0
    BY <2>1, <2>2 DEF Tokens
  <2>4. Due' = Due + 0
    BY <2>1, <2>2 DEF Due
  <2> QED BY <2>3, <2>4, KeepsUp
<1>2. ASSUME NEW events, Select(events) PROVE NoLostWakeup'
  BY <1>2 DEF Select, nodeVars, posterVars, TokenInv, NoLostWakeup,
              TokensInFlight, TokensOwed, InState, Collected
<1>3. ASSUME NEW events, PurgeBegin(events) \/ PurgeEnd PROVE NoLostWakeup'
  <2>1. /\ \/ Goto(Owner, "idle", "purging") \/ Goto(Owner, "purging", "idle")
        /\ sem' = sem /\ Len(queue)' = Len(queue) /\ Displacing' = Displacing
        /\ Cardinality(Collected)' = Cardinality(Collected)
    BY <1>3, CollectedSame
    DEF PurgeBegin, PurgeEnd, nodeVars, posterVars, consumerVars, Displacing
  <2>2. Signalling' = Signalling /\ Taking' = Taking /\ Owing' = Owing
    BY <2>1, ConsumerMoves DEF PcState, One
  <2>3. Tokens' = Tokens + 0
    BY <2>1, <2>2 DEF Tokens
  <2>4. Due' = Due + 0
    BY <2>1, <2>2 DEF Due
  <2> QED BY <2>3, <2>4, KeepsUp
<1>4. CASE PurgeNext
  <2>1. Len(queue') = Len(queue) - 1
    BY <1>4, RemoveNodeFacts DEF PurgeNext, NodeInv, NodeConservation
  <2>2. /\ Displacing' = Displacing
        /\ Cardinality(Collected)' = Cardinality(Collected)
        /\ Signalling' = Signalling /\ Taking' = Taking /\ Owing' = Owing
    BY <1>4, CollectedSame
    DEF PurgeNext, posterVars, consumerVars, Displacing, Signalling, Taking,
        Owing, InState
  <2>3. Due' = Due + (-1)
    BY <2>1, <2>2 DEF Due
  <2>4. CASE sem > 0
    <3>1. sem' = sem - 1
      BY <1>4, <2>4 DEF PurgeNext
    <3>2. Tokens' = Tokens + (-1)
      BY <2>2, <3>1 DEF Tokens
    <3> QED BY <2>3, <3>2, KeepsUp
  <2>5. CASE ~(sem > 0)
    <3>1. sem' = sem
      BY <1>4, <2>5 DEF PurgeNext
    <3>2. Tokens' = Tokens + 0
      BY <2>2, <3>1 DEF Tokens
    <3> QED BY <2>3, <3>2, KeepsUp
  <2> QED BY <2>4, <2>5
<1> QED BY <1>1, <1>2, <1>3, <1>4 DEF PurgeStep

-----------------------------------------------------------------------------

LEMMA NextToken == TokenInv /\ [Next]_vars => NoLostWakeup'
<1> SUFFICES ASSUME TokenInv, [Next]_vars PROVE NoLostWakeup'
  OBVIOUS
<1>1. CASE UNCHANGED vars
  BY <1>1 DEF vars, TokenInv, NoLostWakeup, TokensInFlight, TokensOwed, InState,
              Collected
<1>2. ASSUME NEW p \in Posters, NEW m \in Messages,
             PostMessage(p, m) \/ RejectMessage(p, m) \/ Displace(p, m)
      PROVE  NoLostWakeup'
  <2>1. CASE RejectMessage(p, m)
    BY <2>1, <1>1 DEF RejectMessage
  <2> QED BY <1>2, <2>1, PostMessageToken, DisplaceToken
<1>3. ASSUME NEW c \in Consumers, PendStep(c) \/ SelectiveStep(c)
      PROVE  NoLostWakeup'
  BY <1>3, PendToken, PayingToken, CollectingToken DEF SelectiveStep
<1> QED BY <1>1, <1>2, <1>3, PosterStepToken, RouterToken, OwnerToken DEF Next

\* A selective receive settles what it collected before it returns.
LEMMA NextCollected ==
  NodeInv /\ CollectedWhileWaiting /\ [Next]_vars => CollectedWhileWaiting'
<1> SUFFICES ASSUME NodeInv, CollectedWhileWaiting, [Next]_vars,
                    NEW c \in Consumers,
                    pc'[c] \notin {"drained", "rescan", "expired"}
             PROVE  msgCnt'[c] = 0
  BY DEF CollectedWhileWaiting
<1> DEFINE waiting == pc[c] \in {"drained", "rescan", "expired"}
<1>1. c \in Threads /\ c \notin Posters /\ msgCnt \in [Consumers -> Nat]
      /\ pc \in [Threads -> PcState] /\ \A p \in Posters : p \in Threads
  BY ConsumerFacts DEF NodeInv, TypeOK, Threads
<1>2. CASE UNCHANGED <<msgCnt, pc>>
  BY <1>2 DEF CollectedWhileWaiting
<1>3. ASSUME NEW t \in Threads, NEW from, NEW to, Goto(t, from, to),
             msgCnt' = msgCnt, t = c => ~waiting \/ to \in {"drained", "rescan", "expired"}
      PROVE  msgCnt'[c] = 0
  BY <1>1, <1>3 DEF Goto, CollectedWhileWaiting
<1>4. ASSUME NEW d \in Consumers, PendStep(d) \/ SelectiveStep(d)
      PROVE  msgCnt'[c] = 0
  <2>1. d \in Threads
    BY ConsumerFacts
  <2>2. CASE PendStep(d)
    BY <1>3, <2>1, <2>2
    DEF PendStep, TakeToken, TakeFirst, FindEmpty, NoTokenInTime, consumerVars, Goto
  <2>3. CASE SearchHit(d) \/ PayToken(d) \/ PayTimeout(d) \/ Wake(d) \/ GiveUp(d)
    BY <1>3, <2>1, <2>3
    DEF SearchHit, PayToken, PayTimeout, Wake, GiveUp, consumerVars, Goto
  <2>4. CASE SearchMiss(d) \/ RescanHit(d) \/ RescanMiss(d) \/ Expire(d)
    BY <1>1, <2>1, <2>4
    DEF SearchMiss, RescanHit, RescanMiss, Expire, Goto, CollectedWhileWaiting
  <2> QED BY <1>4, <2>2, <2>3, <2>4 DEF SelectiveStep
<1>5. ASSUME NEW p \in Posters, NEW m,
             \/ PostMessage(p, m) \/ RejectMessage(p, m) \/ Displace(p, m)
             \/ PosterStep(p)
      PROVE  msgCnt'[c] = 0
  <2>1. p # c /\ p \in Threads
    BY <1>1
  <2> QED
    BY <1>2, <1>3, <1>5, <2>1
    DEF PostMessage, RejectMessage, Displace, PosterStep,
        DisplacedInsert, DisplacedNoMemory, EndDisplacement, Signal,
        consumerVars, vars
<1>6. ASSUME NEW d \in Consumers, NEW k \in Calls, Receive(d, k)
      PROVE  msgCnt'[c] = 0
  <2>1. d \in Threads /\ \E to : Goto(d, "idle", to)
    BY <1>6, ConsumerFacts DEF Receive
  <2> QED BY <1>3, <1>6, <2>1 DEF Receive, Goto
<1>7. ASSUME NEW events, Select(events) \/ PurgeBegin(events) \/ PurgeStep
      PROVE  msgCnt'[c] = 0
  BY <1>2, <1>3, <1>7, OwnerFacts
  DEF Select, PurgeBegin, PurgeStep, PurgeNext, PurgeEnd, consumerVars, Goto
<1>8. CASE UNCHANGED vars
  BY <1>2, <1>8 DEF vars
<1>9. CASE RouterStep \/ \E m \in Messages : TakeFreeNode(m)
  BY <1>1, <1>3, <1>9, RouterMoves, ThreadsAssumption DEF consumerVars, Threads
<1> QED BY <1>4, <1>5, <1>6, <1>7, <1>8, <1>9 DEF Next

\* Without selections nobody enters a selective receive.
LEMMA NextPlain ==
  ASSUME PlainCallsOnly, NodeInv, PlainState, [Next]_vars
  PROVE  PlainState'
<1>1. /\ msgCnt \in [Consumers -> Nat] /\ pc \in [Threads -> PcState]
      /\ Posters \subseteq Threads /\ Consumers \subseteq Threads
      /\ Posters \cap Consumers = {}
  BY ThreadsAssumption DEF NodeInv, TypeOK, Threads
<1>2. ASSUME NEW t \in Threads, NEW from, NEW to, Goto(t, from, to),
             t \in Posters \/ to \in {"idle", "wait", "poll", "woken", "purging"},
             UNCHANGED <<msgCnt, selected>>
      PROVE  PlainState'
  BY <1>1, <1>2 DEF Goto, PlainState
<1>3. CASE UNCHANGED <<msgCnt, selected, pc>>
  BY <1>3 DEF PlainState
<1>4. ASSUME NEW p \in Posters, NEW m,
             \/ PostMessage(p, m) \/ RejectMessage(p, m) \/ Displace(p, m)
             \/ PosterStep(p)
      PROVE  PlainState'
  BY <1>1, <1>2, <1>3, <1>4
  DEF PostMessage, RejectMessage, Displace, PosterStep,
      DisplacedInsert, DisplacedNoMemory, EndDisplacement, Signal,
      consumerVars, vars
<1>5. ASSUME NEW c \in Consumers, NEW k \in Calls, Receive(c, k)
      PROVE  PlainState'
  <2>1. \E to \in {"wait", "poll"} : Goto(c, "idle", to)
    BY <1>5 DEF Receive, PlainCallsOnly, PlainState
  <2>2. UNCHANGED <<msgCnt, selected>>
    BY <1>5 DEF Receive
  <2> QED BY <1>1, <1>2, <2>1, <2>2
<1>6. ASSUME NEW c \in Consumers, PendStep(c) PROVE PlainState'
  BY <1>1, <1>2, <1>6
  DEF PendStep, TakeToken, TakeFirst, FindEmpty, NoTokenInTime, consumerVars
<1>7. ASSUME NEW c \in Consumers PROVE ~SelectiveStep(c)
  BY <1>7
  DEF PlainState, SelectiveStep, SearchHit, PayToken, PayTimeout, SearchMiss,
      Wake, GiveUp, RescanHit, RescanMiss, Expire, Goto
<1>8. ASSUME NEW events \in Selections, Select(events) PROVE PlainState'
  BY <1>8 DEF Select, PlainState, PlainCallsOnly
<1>9. ASSUME NEW events, PurgeBegin(events) \/ PurgeStep PROVE PlainState'
  BY <1>1, <1>2, <1>3, <1>9, OwnerFacts
  DEF PurgeBegin, PurgeStep, PurgeNext, PurgeEnd, consumerVars
<1>10. CASE UNCHANGED vars
  BY <1>3, <1>10 DEF vars
<1>11. CASE RouterStep \/ \E m \in Messages : TakeFreeNode(m)
  BY <1>1, <1>2, <1>11, RouterMoves, ThreadsAssumption DEF consumerVars
<1> QED BY <1>4, <1>5, <1>6, <1>7, <1>8, <1>9, <1>10, <1>11 DEF Next

LEMMA InitToken == Init => NoLostWakeup /\ CollectedWhileWaiting /\ PlainState
<1> SUFFICES ASSUME Init PROVE NoLostWakeup /\ CollectedWhileWaiting /\ PlainState
  OBVIOUS
<1>1. NodeInv /\ \A t \in Threads : pc[t] = "idle"
  BY InitNodeInv DEF Init
<1>2. PlainState
  BY <1>1, ConsumerFacts DEF Init, PlainState
<1>3. CollectedWhileWaiting
  BY <1>2 DEF PlainState, CollectedWhileWaiting
<1>4. Collected = {}
  BY <1>2 DEF PlainState, Collected
<1>5. Owing = 0
  BY <1>1, ConsumerFacts, FS_EmptySet DEF Owing, InState
<1>6. Due = 0
  BY <1>5 DEF Init, Due, Displacing
<1>7. Tokens \in Nat
  BY <1>1, <1>4, CountTypes, FS_EmptySet DEF Tokens
<1>8. NoLostWakeup
  BY <1>6, <1>7, NoLostWakeupCounts DEF Tokens, Due
<1> QED BY <1>2, <1>3, <1>8

\* One receiving thread never sleeps beside a message whose token was lost,
\* whatever mixture of plain, selective and purging calls it makes.
THEOREM NoWakeupLostForOwner ==
  ASSUME SingleReceiver
  PROVE  Spec => []NoLostWakeup
<1>1. Init => TokenInv
  BY InitNodeInv, InitToken DEF TokenInv
<1>2. TokenInv /\ [Next]_vars => TokenInv'
  BY NextNodeInv, NextToken, NextCollected DEF TokenInv, SingleReceiver
<1>3. TokenInv => NoLostWakeup
  BY DEF TokenInv
<1> QED BY <1>1, <1>2, <1>3, PTL DEF Spec

\* Nor does a pool of any size whose threads only use the plain receives;
\* with selective receives in a pool it does (README, section 8).
THEOREM NoWakeupLostInPool ==
  ASSUME PlainCallsOnly
  PROVE  Spec => []NoLostWakeup
<1> DEFINE Inv == TokenInv /\ PlainState
<1>1. Init => Inv
  BY InitNodeInv, InitToken DEF TokenInv
<1>2. Inv /\ [Next]_vars => Inv'
  <2> SUFFICES ASSUME TokenInv, PlainState, [Next]_vars PROVE Inv'
    OBVIOUS
  <2>1. NodeInv' /\ NoLostWakeup' /\ CollectedWhileWaiting'
    BY NextNodeInv, NextToken, NextCollected DEF TokenInv
  <2>2. PlainState'
    BY NextPlain DEF TokenInv
  <2> QED BY <2>1, <2>2 DEF TokenInv
<1>3. Inv => NoLostWakeup
  BY DEF TokenInv
<1> QED BY <1>1, <1>2, <1>3, PTL DEF Spec

-----------------------------------------------------------------------------
(* The abstract queue: the list, the free list and the held nodes implement *)
(* PriorityQueue, for every number of threads and nodes.                    *)

\* A list of messages of which the first k are urgent, as two lists.
Urgents(C, k) == SubSeq(C, 1, k)
Normals(C, k) == SubSeq(C, k + 1, Len(C))

PartsShape(S, C, k, n) ==
  /\ Urgents(C, k) \in Seq(S) /\ Len(Urgents(C, k)) = k
  /\ \A j \in 1 .. k : Urgents(C, k)[j] = C[j]
  /\ Normals(C, k) \in Seq(S) /\ Len(Normals(C, k)) = n
  /\ \A j \in 1 .. n : Normals(C, k)[j] = C[k + j]

LEMMA PartsAre ==
  ASSUME NEW S, NEW C \in Seq(S), NEW k \in 0 .. Len(C), NEW n, n = Len(C) - k
  PROVE  PartsShape(S, C, k, n)
<1>1. /\ Urgents(C, k) \in Seq(S) /\ Len(Urgents(C, k)) = k
      /\ \A j \in 1 .. k : Urgents(C, k)[j] = C[j]
  BY SubSeqProperties DEF Urgents
<1>2. PICK a, b : a = k + 1 /\ b = Len(C)
  OBVIOUS
<1>3. a \in Int /\ b \in Int /\ k \in Nat /\ k <= b /\ \A j \in a .. b : C[j] \in S
  BY <1>2
<1>4. /\ Normals(C, k) \in Seq(S)
      /\ Len(Normals(C, k)) = IF a <= b THEN b - a + 1 ELSE 0
      /\ \A j \in 1 .. b - a + 1 : Normals(C, k)[j] = C[a + j - 1]
  <2>1. Normals(C, k) = SubSeq(C, a, b)
    BY <1>2 DEF Normals
  <2> QED BY <1>3, <2>1, SubSeqProperties
<1>5. b - a + 1 = n /\ (IF a <= b THEN b - a + 1 ELSE 0) = n
      /\ \A j \in 1 .. n : a + j - 1 = k + j
  BY <1>2, <1>3
<1>6. Len(Normals(C, k)) = n /\ \A j \in 1 .. n : Normals(C, k)[j] = C[k + j]
  BY <1>4, <1>5
<1> QED BY <1>1, <1>4, <1>6 DEF PartsShape

\* D is C with m inserted at position i; D is C without its i-th message.
Inserted(C, D, i, m) ==
  \A j \in 1 .. Len(C) + 1 :
    D[j] = IF j < i THEN C[j] ELSE IF j = i THEN m ELSE C[j - 1]

Removed(C, D, i) ==
  \A j \in 1 .. Len(C) - 1 : D[j] = IF j < i THEN C[j] ELSE C[j + 1]

\* An urgent message goes behind the urgent ones, a normal one to the end.
LEMMA PartsOfInserted ==
  ASSUME NEW S, NEW C \in Seq(S), NEW D \in Seq(S), NEW k \in 0 .. Len(C), NEW m \in S,
         Len(D) = Len(C) + 1
  PROVE  /\ Inserted(C, D, k + 1, m) =>
              /\ Urgents(D, k + 1) = Append(Urgents(C, k), m)
              /\ Normals(D, k + 1) = Normals(C, k)
         /\ Inserted(C, D, Len(C) + 1, m) =>
              /\ Urgents(D, k) = Urgents(C, k)
              /\ Normals(D, k) = Append(Normals(C, k), m)
<1> PICK L \in Nat : L = Len(C)
  OBVIOUS
<1>1. /\ Urgents(C, k) \in Seq(S) /\ Len(Urgents(C, k)) = k
      /\ \A j \in 1 .. k : Urgents(C, k)[j] = C[j]
      /\ Normals(C, k) \in Seq(S) /\ Len(Normals(C, k)) = L - k
      /\ \A j \in 1 .. L - k : Normals(C, k)[j] = C[k + j]
  <2>1. PartsShape(S, C, k, L - k)
    BY PartsAre
  <2> QED BY <2>1 DEF PartsShape
<1>2. Len(D) = L + 1 /\ k \in 0 .. L
  OBVIOUS
<1>3. ASSUME \A j \in 1 .. L + 1 :
               D[j] = IF j < k + 1 THEN C[j] ELSE IF j = k + 1 THEN m ELSE C[j - 1]
      PROVE  /\ Urgents(D, k + 1) = Append(Urgents(C, k), m)
             /\ Normals(D, k + 1) = Normals(C, k)
  <2> PICK u : u = k + 1
    OBVIOUS
  <2>1. u \in 0 .. Len(D) /\ L + 1 - u = L - k
    BY <1>2
  <2>2. /\ Urgents(D, u) \in Seq(S) /\ Len(Urgents(D, u)) = u
        /\ \A j \in 1 .. u : Urgents(D, u)[j] = D[j]
        /\ Normals(D, u) \in Seq(S) /\ Len(Normals(D, u)) = L - k
        /\ \A j \in 1 .. L - k : Normals(D, u)[j] = D[u + j]
    <3>1. L - k = Len(D) - u
      BY <1>2, <2>1
    <3>2. PartsShape(S, D, u, L - k)
      BY <2>1, <3>1, PartsAre
    <3> QED BY <3>2 DEF PartsShape
  <2>3. /\ \A j \in 1 .. k : j \in 1 .. L + 1 /\ j < k + 1
        /\ u \in 1 .. L + 1
        /\ \A j \in 1 .. L - k : u + j \in 1 .. L + 1 /\ ~(u + j < k + 1) /\ u + j # k + 1
                                 /\ (u + j) - 1 = k + j
        /\ \A j \in 1 .. u : j \in 1 .. k \/ j = u
    BY <1>2
  <2>4. /\ \A j \in 1 .. k : D[j] = C[j]
        /\ D[u] = m
        /\ \A j \in 1 .. L - k : D[u + j] = C[k + j]
    BY <1>3, <2>3
  <2>5. /\ Append(Urgents(C, k), m) \in Seq(S)
        /\ Len(Append(Urgents(C, k), m)) = u
        /\ \A j \in 1 .. k : Append(Urgents(C, k), m)[j] = C[j]
        /\ Append(Urgents(C, k), m)[u] = m
    BY <1>1, AppendProperties
  <2>6. Urgents(D, u) = Append(Urgents(C, k), m)
    <3>1. \A j \in 1 .. u : Urgents(D, u)[j] = Append(Urgents(C, k), m)[j]
      BY <2>2, <2>3, <2>4, <2>5
    <3> QED BY <2>2, <2>5, <3>1, SeqEqual
  <2>7. Normals(D, u) = Normals(C, k)
    <3>1. \A j \in 1 .. L - k : Normals(D, u)[j] = Normals(C, k)[j]
      BY <1>1, <2>2, <2>4
    <3> QED BY <1>1, <2>2, <3>1, SeqEqual
  <2> QED BY <2>6, <2>7
<1>4. ASSUME \A j \in 1 .. L + 1 :
               D[j] = IF j < L + 1 THEN C[j] ELSE IF j = L + 1 THEN m ELSE C[j - 1]
      PROVE  /\ Urgents(D, k) = Urgents(C, k)
             /\ Normals(D, k) = Append(Normals(C, k), m)
  <2> PICK n : n = L + 1 - k
    OBVIOUS
  <2>1. k \in 0 .. Len(D) /\ n \in Nat /\ n = (L - k) + 1 /\ k + n = L + 1
    BY <1>2
  <2>2. /\ Urgents(D, k) \in Seq(S) /\ Len(Urgents(D, k)) = k
        /\ \A j \in 1 .. k : Urgents(D, k)[j] = D[j]
        /\ Normals(D, k) \in Seq(S) /\ Len(Normals(D, k)) = n
        /\ \A j \in 1 .. n : Normals(D, k)[j] = D[k + j]
    <3>1. n = Len(D) - k
      BY <1>2, <2>1
    <3>2. PartsShape(S, D, k, n)
      BY <2>1, <3>1, PartsAre
    <3> QED BY <3>2 DEF PartsShape
  <2>3. /\ \A j \in 1 .. k : j \in 1 .. L + 1 /\ j < L + 1
        /\ \A j \in 1 .. L - k : k + j \in 1 .. L + 1 /\ k + j < L + 1
        /\ L + 1 \in 1 .. L + 1
        /\ \A j \in 1 .. n : j \in 1 .. L - k \/ j = n
    BY <1>2, <2>1
  <2>4. /\ \A j \in 1 .. k : D[j] = C[j]
        /\ \A j \in 1 .. L - k : D[k + j] = C[k + j]
        /\ D[k + n] = m
    BY <1>4, <2>1, <2>3
  <2>5. /\ Append(Normals(C, k), m) \in Seq(S)
        /\ Len(Append(Normals(C, k), m)) = n
        /\ \A j \in 1 .. L - k : Append(Normals(C, k), m)[j] = C[k + j]
        /\ Append(Normals(C, k), m)[n] = m
    <3> PICK N \in Seq(S) : N = Normals(C, k)
      BY <1>1
    <3>1. n = Len(N) + 1 /\ \A j \in 1 .. L - k : j \in 1 .. Len(N) /\ N[j] = C[k + j]
      BY <1>1, <2>1
    <3>2. /\ Append(N, m) \in Seq(S) /\ Len(Append(N, m)) = Len(N) + 1
          /\ \A j \in 1 .. Len(N) : Append(N, m)[j] = N[j]
          /\ Append(N, m)[Len(N) + 1] = m
      BY AppendProperties
    <3> QED BY <3>1, <3>2
  <2>6. Urgents(D, k) = Urgents(C, k)
    <3>1. \A j \in 1 .. k : Urgents(D, k)[j] = Urgents(C, k)[j]
      BY <1>1, <2>2, <2>4
    <3> QED BY <1>1, <2>2, <3>1, SeqEqual
  <2>7. Normals(D, k) = Append(Normals(C, k), m)
    <3>1. \A j \in 1 .. n : Normals(D, k)[j] = Append(Normals(C, k), m)[j]
      BY <2>2, <2>3, <2>4, <2>5
    <3> QED BY <2>2, <2>5, <3>1, SeqEqual
  <2> QED BY <2>6, <2>7
<1> QED BY <1>3, <1>4 DEF Inserted

\* What that does to the two lists.
RemovedParts(C, D, i, k) ==
  /\ i <= k => /\ Urgents(D, k - 1) = RemoveAt(Urgents(C, k), i)
               /\ Normals(D, k - 1) = Normals(C, k)
  /\ i > k => /\ Urgents(D, k) = Urgents(C, k)
              /\ Normals(D, k) = RemoveAt(Normals(C, k), i - k)

\* A message leaves one of the two lists.
LEMMA PartsOfRemoved ==
  ASSUME NEW S, NEW C \in Seq(S), NEW D \in Seq(S), NEW k \in 0 .. Len(C),
         NEW i \in 1 .. Len(C), Len(D) = Len(C) - 1, Removed(C, D, i)
  PROVE  RemovedParts(C, D, i, k)
<1> PICK L \in Nat : L = Len(C)
  OBVIOUS
<1>1. /\ Urgents(C, k) \in Seq(S) /\ Len(Urgents(C, k)) = k
      /\ \A j \in 1 .. k : Urgents(C, k)[j] = C[j]
      /\ Normals(C, k) \in Seq(S) /\ Len(Normals(C, k)) = L - k
      /\ \A j \in 1 .. L - k : Normals(C, k)[j] = C[k + j]
  <2>1. PartsShape(S, C, k, L - k)
    BY PartsAre
  <2> QED BY <2>1 DEF PartsShape
<1>2. /\ Len(D) = L - 1 /\ k \in 0 .. L /\ i \in 1 .. L
      /\ \A j \in 1 .. L - 1 : D[j] = IF j < i THEN C[j] ELSE C[j + 1]
  BY DEF Removed
<1>3. ASSUME NEW u \in 0 .. L - 1, NEW n, n = (L - 1) - u
      PROVE  /\ Urgents(D, u) \in Seq(S) /\ Len(Urgents(D, u)) = u
             /\ \A j \in 1 .. u : Urgents(D, u)[j] = D[j]
             /\ Normals(D, u) \in Seq(S) /\ Len(Normals(D, u)) = n
             /\ \A j \in 1 .. n : Normals(D, u)[j] = D[u + j]
  <2>1. u \in 0 .. Len(D) /\ n = Len(D) - u
    BY <1>2, <1>3
  <2>2. PartsShape(S, D, u, n)
    BY <2>1, PartsAre
  <2> QED BY <2>2 DEF PartsShape
<1>4. ASSUME i <= k
      PROVE  /\ Urgents(D, k - 1) = RemoveAt(Urgents(C, k), i)
             /\ Normals(D, k - 1) = Normals(C, k)
  <2> PICK u : u = k - 1
    OBVIOUS
  <2>1. u \in 0 .. L - 1 /\ L - k = (L - 1) - u /\ i \in 1 .. k
    BY <1>2, <1>4
  <2>2. /\ Urgents(D, u) \in Seq(S) /\ Len(Urgents(D, u)) = u
        /\ \A j \in 1 .. u : Urgents(D, u)[j] = D[j]
        /\ Normals(D, u) \in Seq(S) /\ Len(Normals(D, u)) = L - k
        /\ \A j \in 1 .. L - k : Normals(D, u)[j] = D[u + j]
    BY <1>3, <2>1
  <2>3. /\ RemoveAt(Urgents(C, k), i) \in Seq(S)
        /\ Len(RemoveAt(Urgents(C, k), i)) = u
        /\ \A j \in 1 .. u : RemoveAt(Urgents(C, k), i)[j] =
                               IF j < i THEN Urgents(C, k)[j] ELSE Urgents(C, k)[j + 1]
    <3>1. /\ Urgents(C, k) \in Seq(S) /\ i \in 1 .. Len(Urgents(C, k))
          /\ Len(Urgents(C, k)) - 1 = u
      BY <1>1, <1>2, <2>1
    <3>2. /\ RemoveAt(Urgents(C, k), i) \in Seq(S)
          /\ Len(RemoveAt(Urgents(C, k), i)) = Len(Urgents(C, k)) - 1
          /\ \A j \in 1 .. Len(Urgents(C, k)) - 1 :
               RemoveAt(Urgents(C, k), i)[j] =
                 IF j < i THEN Urgents(C, k)[j] ELSE Urgents(C, k)[j + 1]
      BY <3>1, RemoveAtElements
    <3> QED BY <3>1, <3>2
  <2>4. /\ \A j \in 1 .. u : j \in 1 .. k /\ j + 1 \in 1 .. k /\ j \in 1 .. L - 1
        /\ \A j \in 1 .. L - k : u + j \in 1 .. L - 1 /\ ~(u + j < i)
                                 /\ (u + j) + 1 = k + j
    <3>1. k \in Nat /\ L \in Nat /\ k <= L /\ i <= k /\ i \in Nat /\ u = k - 1
      BY <1>2, <1>4
    <3>2. \A j \in 1 .. u : j \in 1 .. k /\ j + 1 \in 1 .. k /\ j \in 1 .. L - 1
      BY <3>1
    <3>3. ASSUME NEW j \in 1 .. L - k
          PROVE  u + j \in 1 .. L - 1 /\ ~(u + j < i) /\ (u + j) + 1 = k + j
      BY <3>1
    <3> QED BY <3>2, <3>3
  <2>5. Urgents(D, u) = RemoveAt(Urgents(C, k), i)
    <3> SUFFICES ASSUME NEW j \in 1 .. u
                 PROVE  Urgents(D, u)[j] = RemoveAt(Urgents(C, k), i)[j]
      BY <2>2, <2>3, SeqEqual
    <3>1. Urgents(D, u)[j] = IF j < i THEN C[j] ELSE C[j + 1]
      BY <1>2, <2>2, <2>4
    <3>2. Urgents(C, k)[j] = C[j] /\ Urgents(C, k)[j + 1] = C[j + 1]
      BY <1>1, <2>4
    <3>3. RemoveAt(Urgents(C, k), i)[j] =
            IF j < i THEN Urgents(C, k)[j] ELSE Urgents(C, k)[j + 1]
      BY <2>3
    <3> QED BY <3>1, <3>2, <3>3
  <2>6. Normals(D, u) = Normals(C, k)
    <3> SUFFICES ASSUME NEW j \in 1 .. L - k PROVE Normals(D, u)[j] = Normals(C, k)[j]
      BY <1>1, <2>2, SeqEqual
    <3>1. Normals(D, u)[j] = C[(u + j) + 1]
      <4> PICK g : g = u + j
        OBVIOUS
      <4>1. g \in 1 .. L - 1 /\ ~(g < i)
        BY <2>4
      <4>2. D[g] = C[g + 1]
        BY <1>2, <4>1
      <4> QED BY <2>2, <4>2
    <3>2. Normals(C, k)[j] = C[k + j]
      BY <1>1
    <3> QED BY <2>4, <3>1, <3>2
  <2> QED BY <2>5, <2>6
<1>5. ASSUME i > k
      PROVE  /\ Urgents(D, k) = Urgents(C, k)
             /\ Normals(D, k) = RemoveAt(Normals(C, k), i - k)
  <2> PICK n, h : n = (L - 1) - k /\ h = i - k
    OBVIOUS
  <2>1. k \in 0 .. L - 1 /\ n = (L - k) - 1 /\ h \in 1 .. L - k
    BY <1>2, <1>5
  <2>2. /\ Urgents(D, k) \in Seq(S) /\ Len(Urgents(D, k)) = k
        /\ \A j \in 1 .. k : Urgents(D, k)[j] = D[j]
        /\ Normals(D, k) \in Seq(S) /\ Len(Normals(D, k)) = n
        /\ \A j \in 1 .. n : Normals(D, k)[j] = D[k + j]
    BY <1>3, <2>1
  <2>3. /\ RemoveAt(Normals(C, k), h) \in Seq(S)
        /\ Len(RemoveAt(Normals(C, k), h)) = n
        /\ \A j \in 1 .. n : RemoveAt(Normals(C, k), h)[j] =
                               IF j < h THEN Normals(C, k)[j] ELSE Normals(C, k)[j + 1]
    <3>1. /\ Normals(C, k) \in Seq(S) /\ h \in 1 .. Len(Normals(C, k))
          /\ Len(Normals(C, k)) - 1 = n
      BY <1>1, <1>2, <2>1
    <3>2. /\ RemoveAt(Normals(C, k), h) \in Seq(S)
          /\ Len(RemoveAt(Normals(C, k), h)) = Len(Normals(C, k)) - 1
          /\ \A j \in 1 .. Len(Normals(C, k)) - 1 :
               RemoveAt(Normals(C, k), h)[j] =
                 IF j < h THEN Normals(C, k)[j] ELSE Normals(C, k)[j + 1]
      BY <3>1, RemoveAtElements
    <3> QED BY <3>1, <3>2
  <2>4. /\ \A j \in 1 .. k : j < i /\ j \in 1 .. L - 1
        /\ \A j \in 1 .. n : /\ k + j \in 1 .. L - 1 /\ (k + j < i <=> j < h)
                             /\ j \in 1 .. L - k /\ j + 1 \in 1 .. L - k
                             /\ (k + j) + 1 = k + (j + 1)
    BY <1>2, <1>5, <2>1, SMTT(40)
  <2>5. Urgents(D, k) = Urgents(C, k)
    <3>1. \A j \in 1 .. k : Urgents(D, k)[j] = Urgents(C, k)[j]
      BY <1>1, <1>2, <2>2, <2>4
    <3> QED BY <1>1, <2>2, <3>1, SeqEqual
  <2>6. Normals(D, k) = RemoveAt(Normals(C, k), h)
    <3>1. \A j \in 1 .. n : Normals(D, k)[j] = RemoveAt(Normals(C, k), h)[j]
      <4> TAKE j \in 1 .. n
      <4>1. Normals(D, k)[j] = IF k + j < i THEN C[k + j] ELSE C[(k + j) + 1]
        BY <1>2, <2>2, <2>4
      <4>2. Normals(C, k)[j] = C[k + j] /\ Normals(C, k)[j + 1] = C[k + (j + 1)]
        BY <1>1, <2>4
      <4> QED BY <2>3, <2>4, <4>1, <4>2
    <3> QED BY <2>2, <2>3, <3>1, SeqEqual
  <2> QED BY <2>5, <2>6
<1> QED BY <1>4, <1>5 DEF RemovedParts

\* The last normal message goes.
LEMMA PartsOfFront ==
  ASSUME NEW S, NEW C \in Seq(S), NEW D \in Seq(S), NEW k \in 0 .. Len(C),
         k < Len(C), Len(D) = Len(C) - 1,
         \A j \in 1 .. Len(C) - 1 : D[j] = C[j]
  PROVE  /\ Urgents(D, k) = Urgents(C, k)
         /\ Normals(C, k) # << >> /\ Normals(D, k) = Front(Normals(C, k))
<1> PICK L \in Nat : L = Len(C)
  OBVIOUS
<1> PICK n : n = (L - k) - 1
  OBVIOUS
<1>1. /\ Urgents(C, k) \in Seq(S) /\ Len(Urgents(C, k)) = k
      /\ \A j \in 1 .. k : Urgents(C, k)[j] = C[j]
      /\ Normals(C, k) \in Seq(S) /\ Len(Normals(C, k)) = L - k
      /\ \A j \in 1 .. L - k : Normals(C, k)[j] = C[k + j]
  <2>1. PartsShape(S, C, k, L - k)
    BY PartsAre
  <2> QED BY <2>1 DEF PartsShape
<1>2. /\ Len(D) = L - 1 /\ k \in 0 .. L - 1 /\ n \in Nat /\ n + 1 = L - k
      /\ k \in 0 .. Len(D) /\ n = Len(D) - k
      /\ \A j \in 1 .. L - 1 : D[j] = C[j]
  OBVIOUS
<1>3. /\ Urgents(D, k) \in Seq(S) /\ Len(Urgents(D, k)) = k
      /\ \A j \in 1 .. k : Urgents(D, k)[j] = D[j]
      /\ Normals(D, k) \in Seq(S) /\ Len(Normals(D, k)) = n
      /\ \A j \in 1 .. n : Normals(D, k)[j] = D[k + j]
  <2>1. PartsShape(S, D, k, n)
    BY <1>2, PartsAre
  <2> QED BY <2>1 DEF PartsShape
<1>4. /\ \A j \in 1 .. k : j \in 1 .. L - 1
      /\ \A j \in 1 .. n : k + j \in 1 .. L - 1 /\ j \in 1 .. L - k
  BY <1>2
<1>5. Urgents(D, k) = Urgents(C, k)
  <2>1. \A j \in 1 .. k : Urgents(D, k)[j] = Urgents(C, k)[j]
    BY <1>1, <1>2, <1>3, <1>4
  <2> QED BY <1>1, <1>3, <2>1, SeqEqual
<1>6. Normals(C, k) # << >>
  BY <1>1, <1>2
<1>7. Normals(D, k) = Front(Normals(C, k))
  <2> PICK q \in Seq(S) : q = Normals(C, k)
    BY <1>1
  <2>1. Front(q) = SubSeq(q, 1, n)
    BY <1>1, <1>2 DEF Front
  <2>2. Len(q) = n + 1 /\ \A j \in 1 .. n : q[j] \in S
    BY <1>1, <1>2
  <2>3. /\ SubSeq(q, 1, n) \in Seq(S)
        /\ Len(SubSeq(q, 1, n)) = n
        /\ \A j \in 1 .. n : SubSeq(q, 1, n)[j] = q[j]
    BY <1>2, <2>2, SubSeqProperties
  <2>4. \A j \in 1 .. n : Normals(D, k)[j] = SubSeq(q, 1, n)[j]
    BY <1>1, <1>2, <1>3, <1>4, <2>3
  <2> QED BY <1>3, <2>1, <2>3, <2>4, SeqEqual
<1> QED BY <1>5, <1>6, <1>7

\* The two lists of the store, when the first k messages are urgent.
PartsAt(k) ==
  /\ Contents \in Seq(AnyMessage) /\ Len(Contents) = Len(queue)
  /\ k \in 0 .. Len(Contents)
  /\ \A j \in 1 .. Len(queue) : Contents[j] = message[queue[j]]
  /\ UrgentMessages = Urgents(Contents, k)
  /\ NormalMessages = Normals(Contents, k)

PartsFit == \A k \in Nat : UrgentPrefix(k) => PartsAt(k)

LEMMA PartsNow == NodeInv => PartsFit
<1> SUFFICES ASSUME NEW k \in Nat, NodeInv, UrgentPrefix(k) PROVE PartsAt(k)
  BY DEF PartsFit
<1>1. /\ queue \in Seq(Nodes) /\ Len(queue) \in Nat /\ k \in 0 .. Len(queue)
      /\ \A j \in 1 .. Len(queue) : queue[j] \in Range(queue)
      /\ \A j \in 1 .. Len(queue) : message[queue[j]].urgent <=> j <= k
  BY DEF NodeInv, TypeOK, UrgentPrefix, Range
<1>2. \A j \in 1 .. Len(queue) : message[queue[j]] \in AnyMessage
  BY <1>1 DEF NodeInv, NodesCarryMessages, Carriers
<1>3. /\ Contents \in Seq(AnyMessage) /\ Len(Contents) = Len(queue)
      /\ \A j \in 1 .. Len(queue) : Contents[j] = message[queue[j]]
  BY <1>1, <1>2 DEF Contents
<1>4. UrgentLength = k
  <2>1. {i \in 1 .. Len(queue) : message[queue[i]].urgent} = 1 .. k
    BY <1>1
  <2>2. Cardinality(1 .. k) = k
    <3>1. 1 \in Int /\ k \in Int
      OBVIOUS
    <3>2. Cardinality(1 .. k) = IF 1 > k THEN 0 ELSE k - 1 + 1
      BY <3>1, FS_Interval
    <3> QED BY <3>2
  <2> QED BY <2>1, <2>2 DEF UrgentLength
<1> QED BY <1>1, <1>3, <1>4 DEF PartsAt, UrgentMessages, NormalMessages, Urgents, Normals

LEMMA PartsNext == NodeInv' => PartsFit'
BY PartsNow, PTL

LEMMA CountsKnown ==
  ASSUME NodeInv
  PROVE  /\ IsFiniteSet(free) /\ IsFiniteSet(HeldNodes)
         /\ Cardinality(free) \in Nat /\ Taken \in Nat
<1>1. free \subseteq Nodes /\ HeldNodes \subseteq Nodes
  BY DEF NodeInv, TypeOK, NodeConservation
<1>2. IsFiniteSet(free) /\ IsFiniteSet(HeldNodes)
  BY <1>1, NodesAssumption, FS_Subset
<1> QED BY <1>2, FS_CardinalityType DEF Taken

LEMMA RemoveFree ==
  ASSUME NodeInv, NEW n \in free
  PROVE  /\ Cardinality(free) > 0
         /\ Cardinality(free \ {n}) = Cardinality(free) - 1
<1>1. IsFiniteSet(free) /\ Cardinality(free) \in Nat
  BY CountsKnown
<1>2. /\ IsFiniteSet(free \ {n})
      /\ Cardinality(free \ {n}) = Cardinality(free) - 1
  BY <1>1, FS_RemoveElement
<1>3. Cardinality(free \ {n}) \in Nat
  BY <1>2, FS_CardinalityType
<1> QED BY <1>1, <1>2, <1>3

LEMMA AddFree ==
  ASSUME NodeInv, NEW n, n \notin free
  PROVE  /\ Cardinality(free) \in Nat
         /\ Cardinality(free \cup {n}) = Cardinality(free) + 1
<1>1. IsFiniteSet(free) /\ Cardinality(free) \in Nat
  BY CountsKnown
<1> QED BY <1>1, FS_AddElement

LEMMA RoomShrinks ==
  ASSUME NodeInv, NEW n \in free, free' = free \ {n}, UNCHANGED filling
  PROVE  Room > 0 /\ Room' = Room - 1
BY RemoveFree, CountsKnown DEF Room

LEMMA RoomGrows ==
  ASSUME NodeInv, NEW n, n \notin free, free' = free \cup {n}, UNCHANGED filling
  PROVE  Room' = Room + 1
BY AddFree DEF Room

LEMMA TakenGrows ==
  ASSUME NodeInv, NEW n, n \notin HeldNodes, HeldNodes' = HeldNodes \cup {n}
  PROVE  Taken' = Taken + 1
<1>1. IsFiniteSet(HeldNodes)
  BY CountsKnown
<1> QED BY <1>1, FS_AddElement DEF Taken

LEMMA TakenShrinks ==
  ASSUME NodeInv, NEW n \in HeldNodes, HeldNodes' = HeldNodes \ {n}
  PROVE  Taken > 0 /\ Taken' = Taken - 1
<1>1. IsFiniteSet(HeldNodes) /\ Taken \in Nat
  BY CountsKnown
<1>2. Cardinality(HeldNodes \ {n}) = Cardinality(HeldNodes) - 1
  BY <1>1, FS_RemoveElement
<1>3. IsFiniteSet(HeldNodes \ {n})
  BY <1>1, FS_RemoveElement
<1>4. Cardinality(HeldNodes \ {n}) \in Nat
  BY <1>3, FS_CardinalityType
<1> QED BY <1>1, <1>2, <1>4 DEF Taken

\* An inserted message is enqueued.
LEMMA InsertEnqueues ==
  ASSUME NodeInv, NodeInv', NEW k \in Nat, UrgentPrefix(k),
         NEW n \in Nodes, n \notin Range(queue), NEW m \in AnyMessage,
         InsertNode(n, m)
  PROVE  Store!Enqueue(m)
<1>1. PartsAt(k)
  BY PartsNow DEF PartsFit
<1> PICK C, D : C = Contents /\ D = Contents'
  OBVIOUS
<1>2. PICK i \in Nat :
           /\ i = IF m.urgent THEN k + 1 ELSE Len(queue) + 1
           /\ m.urgent => UrgentPrefix(k + 1)'
           /\ ~m.urgent => UrgentPrefix(k)'
           /\ Len(queue') = Len(queue) + 1
           /\ \A j \in 1 .. Len(queue) + 1 :
                message'[queue'[j]] = IF j < i THEN message[queue[j]]
                                      ELSE IF j = i THEN m ELSE message[queue[j - 1]]
  BY InsertKeepsOrder
<1>3. m.urgent => PartsAt(k + 1)'
  <2>1. k + 1 \in Nat
    OBVIOUS
  <2> QED BY <1>2, <2>1, PartsNext DEF PartsFit
<1>4. ~m.urgent => PartsAt(k)'
  BY <1>2, PartsNext DEF PartsFit
<1>5. /\ C \in Seq(AnyMessage) /\ D \in Seq(AnyMessage) /\ k \in 0 .. Len(C) /\ Len(D) = Len(C) + 1
      /\ Len(C) = Len(queue)
      /\ \A j \in 1 .. Len(C) : C[j] = message[queue[j]]
      /\ \A j \in 1 .. Len(C) + 1 : D[j] = message'[queue'[j]]
  BY <1>1, <1>2, <1>3, <1>4 DEF PartsAt
<1>6. Inserted(C, D, i, m)
  <2>1. i \in 1 .. Len(C) + 1
    BY <1>2, <1>5
  <2>2. \A j \in 1 .. Len(C) + 1 : /\ j < i => j \in 1 .. Len(C)
                                   /\ ~(j < i) /\ j # i => j - 1 \in 1 .. Len(C)
    BY <1>5, <2>1
  <2>3. \A j \in 1 .. Len(C) + 1 :
          D[j] = IF j < i THEN message[queue[j]] ELSE IF j = i THEN m ELSE message[queue[j - 1]]
    BY <1>2, <1>5
  <2> SUFFICES ASSUME NEW j \in 1 .. Len(C) + 1
               PROVE  D[j] = IF j < i THEN C[j] ELSE IF j = i THEN m ELSE C[j - 1]
    BY DEF Inserted
  <2>4. j < i => C[j] = message[queue[j]]
    BY <1>5, <2>2
  <2>5. ~(j < i) /\ j # i => C[j - 1] = message[queue[j - 1]]
    BY <1>5, <2>2
  <2> QED BY <2>3, <2>4, <2>5
<1>7. CASE m.urgent
  <2>1. /\ Urgents(D, k + 1) = Append(Urgents(C, k), m)
        /\ Normals(D, k + 1) = Normals(C, k)
    <3>1. Inserted(C, D, k + 1, m)
      BY <1>2, <1>6, <1>7
    <3> QED BY <1>5, <3>1, PartsOfInserted
  <2>2. UrgentMessages' = Append(UrgentMessages, m) /\ NormalMessages' = NormalMessages
    BY <1>1, <1>3, <1>7, <2>1 DEF PartsAt
  <2> QED BY <1>7, <2>2 DEF Store!Enqueue
<1>8. CASE ~m.urgent
  <2>1. /\ Urgents(D, k) = Urgents(C, k)
        /\ Normals(D, k) = Append(Normals(C, k), m)
    <3>1. Inserted(C, D, Len(C) + 1, m)
      BY <1>2, <1>5, <1>6, <1>8
    <3> QED BY <1>5, <3>1, PartsOfInserted
  <2>2. NormalMessages' = Append(NormalMessages, m) /\ UrgentMessages' = UrgentMessages
    BY <1>1, <1>4, <1>8, <2>1 DEF PartsAt
  <2> QED BY <1>8, <2>2 DEF Store!Enqueue
<1> QED BY <1>7, <1>8

\* A message that leaves the list is the first that is wanted.
LEMMA RemovalIsFirst ==
  ASSUME NodeInv, NodeInv', NEW k \in Nat, UrgentPrefix(k), NEW events,
         NEW i \in 1 .. Len(queue), IsFirst(i, Matching(events)),
         RemoveNodeFromQueue(i),
         \A n \in Nodes : n # queue[i] => message'[n] = message[n]
  PROVE  Store!RemoveFirstOf(events)
<1>1. PartsAt(k)
  BY PartsNow DEF PartsFit
<1> PICK C, D : C = Contents /\ D = Contents'
  OBVIOUS
<1>2. /\ i <= k => UrgentPrefix(k - 1)'
      /\ i > k => UrgentPrefix(k)'
      /\ Len(queue') = Len(queue) - 1
      /\ \A j \in 1 .. Len(queue) - 1 :
           message'[queue'[j]] = IF j < i THEN message[queue[j]]
                                 ELSE message[queue[j + 1]]
  BY RemoveKeepsOrder
<1>3. i <= k => PartsAt(k - 1)'
  <2>1. i <= k => k - 1 \in Nat
    OBVIOUS
  <2> QED BY <1>2, <2>1, PartsNext DEF PartsFit
<1>4. i > k => PartsAt(k)'
  BY <1>2, PartsNext DEF PartsFit
<1>5. /\ C \in Seq(AnyMessage) /\ D \in Seq(AnyMessage) /\ k \in 0 .. Len(C)
      /\ Len(D) = Len(C) - 1 /\ i \in 1 .. Len(C)
      /\ Len(C) = Len(queue)
      /\ \A j \in 1 .. Len(C) : C[j] = message[queue[j]]
      /\ \A j \in 1 .. Len(C) - 1 : D[j] = message'[queue'[j]]
  BY <1>1, <1>2, <1>3, <1>4 DEF PartsAt
<1>6. Removed(C, D, i)
  <2>1. \A j \in 1 .. Len(C) - 1 : j \in 1 .. Len(C) /\ j + 1 \in 1 .. Len(C)
    BY <1>5
  <2>2. \A j \in 1 .. Len(C) - 1 :
          D[j] = IF j < i THEN message[queue[j]] ELSE message[queue[j + 1]]
    BY <1>2, <1>5
  <2> SUFFICES ASSUME NEW j \in 1 .. Len(C) - 1
               PROVE  D[j] = IF j < i THEN C[j] ELSE C[j + 1]
    BY DEF Removed
  <2>3. C[j] = message[queue[j]] /\ C[j + 1] = message[queue[j + 1]]
    BY <1>5, <2>1
  <2> QED BY <2>2, <2>3
<1>7. RemovedParts(C, D, i, k)
  BY <1>5, <1>6, PartsOfRemoved
<1>8. C[i].event \in events /\ \A j \in 1 .. Len(C) : j < i => C[j].event \notin events
  BY <1>5 DEF IsFirst, Matching
<1>9. /\ Urgents(C, k) \in Seq(AnyMessage) /\ Len(Urgents(C, k)) = k
      /\ \A j \in 1 .. k : Urgents(C, k)[j] = C[j]
      /\ Normals(C, k) \in Seq(AnyMessage) /\ Len(Normals(C, k)) = Len(C) - k
      /\ \A j \in 1 .. Len(C) - k : Normals(C, k)[j] = C[k + j]
  <2>1. PartsShape(AnyMessage, C, k, Len(C) - k)
    BY <1>5, PartsAre
  <2> QED BY <2>1 DEF PartsShape
<1>10. CASE i <= k
  <2> PICK u \in Seq(AnyMessage) : u = Urgents(C, k)
    BY <1>9
  <2>1. i \in 1 .. Len(u) /\ u[i].event \in events
    BY <1>5, <1>8, <1>9, <1>10
  <2>2. Store!Unwanted(SubSeq(u, 1, i - 1), events)
    <3>1. i - 1 \in 0 .. Len(u) /\ \A j \in 1 .. i - 1 : j \in 1 .. k /\ j < i /\ j \in 1 .. Len(C)
      BY <1>5, <1>10, <2>1
    <3> PICK h : h = i - 1
      OBVIOUS
    <3>2. /\ Len(SubSeq(u, 1, h)) = h
          /\ \A j \in 1 .. h : SubSeq(u, 1, h)[j] = u[j]
      BY <3>1, SubSeqProperties
    <3>3. \A j \in 1 .. h : SubSeq(u, 1, h)[j].event \notin events
      BY <1>8, <1>9, <3>1, <3>2
    <3> QED BY <3>2, <3>3 DEF Store!Unwanted
  <2>3. /\ UrgentMessages = u /\ UrgentMessages' = RemoveAt(u, i)
        /\ UNCHANGED NormalMessages
    BY <1>1, <1>3, <1>7, <1>10 DEF PartsAt, RemovedParts
  <2>4. /\ i \in 1 .. Len(UrgentMessages) /\ UrgentMessages[i].event \in events
        /\ Store!Unwanted(SubSeq(UrgentMessages, 1, i - 1), events)
        /\ UrgentMessages' = RemoveAt(UrgentMessages, i)
        /\ UNCHANGED NormalMessages
    BY <2>1, <2>2, <2>3
  <2> QED BY <2>4 DEF Store!RemoveFirstOf, Store!RemoveAt, RemoveAt
<1>11. CASE i > k
  <2> PICK u, w \in Seq(AnyMessage) : u = Urgents(C, k) /\ w = Normals(C, k)
    BY <1>9
  <2> PICK h \in Nat : h = i - k
    BY <1>11
  <2>1. h \in 1 .. Len(w) /\ w[h].event \in events
    BY <1>5, <1>8, <1>9, <1>11
  <2>2. Store!Unwanted(u, events)
    <3>1. \A j \in 1 .. Len(u) : u[j].event \notin events
      <4>1. \A j \in 1 .. k : j < i /\ j \in 1 .. Len(C)
        BY <1>5, <1>11
      <4> QED BY <1>8, <1>9, <4>1
    <3> QED BY <3>1 DEF Store!Unwanted
  <2>3. Store!Unwanted(SubSeq(w, 1, h - 1), events)
    <3> PICK g : g = h - 1
      OBVIOUS
    <3>1. g \in 0 .. Len(w) /\ \A j \in 1 .. g : j \in 1 .. Len(C) - k /\ k + j < i /\ k + j \in 1 .. Len(C)
      BY <1>5, <1>9, <1>11, <2>1
    <3>2. /\ Len(SubSeq(w, 1, g)) = g
          /\ \A j \in 1 .. g : SubSeq(w, 1, g)[j] = w[j]
      BY <3>1, SubSeqProperties
    <3> PICK q : q = SubSeq(w, 1, g)
      OBVIOUS
    <3>3. ASSUME NEW j \in 1 .. g PROVE q[j].event \notin events
      <4>1. q[j] = w[j] /\ w[j] = C[k + j]
        BY <1>9, <3>1, <3>2
      <4>2. C[k + j].event \notin events
        BY <1>8, <3>1
      <4> QED BY <4>1, <4>2
    <3>4. \A j \in 1 .. Len(q) : q[j].event \notin events
      BY <3>2, <3>3
    <3> QED BY <3>4 DEF Store!Unwanted
  <2>4. /\ UrgentMessages = u /\ UNCHANGED UrgentMessages
        /\ NormalMessages = w /\ NormalMessages' = RemoveAt(w, h)
    BY <1>1, <1>4, <1>7, <1>11 DEF PartsAt, RemovedParts
  <2>5. /\ Store!Unwanted(UrgentMessages, events)
        /\ h \in 1 .. Len(NormalMessages) /\ NormalMessages[h].event \in events
        /\ Store!Unwanted(SubSeq(NormalMessages, 1, h - 1), events)
        /\ NormalMessages' = RemoveAt(NormalMessages, h)
        /\ UNCHANGED UrgentMessages
    BY <2>1, <2>2, <2>3, <2>4
  <2> QED BY <2>5 DEF Store!RemoveFirstOf, Store!RemoveAt, RemoveAt
<1> QED BY <1>5, <1>10, <1>11

\* The list stays as it is.
LEMMA ListUnchanged ==
  ASSUME NodeInv, UNCHANGED queue, \A n \in Range(queue) : message'[n] = message[n]
  PROVE  UNCHANGED <<UrgentMessages, NormalMessages>>
<1>1. \A i \in 1 .. Len(queue) : queue[i] \in Range(queue)
  BY DEF Range, NodeInv, TypeOK
<1>2. Contents' = Contents
  BY <1>1 DEF Contents
<1>3. UrgentLength' = UrgentLength
  <2>1. {i \in 1 .. Len(queue) : message'[queue[i]].urgent}
          = {i \in 1 .. Len(queue) : message[queue[i]].urgent}
    BY <1>1
  <2> QED BY <2>1 DEF UrgentLength
<1> QED BY <1>2, <1>3 DEF UrgentMessages, NormalMessages

\* The message a poster evicted another one for is one of Messages.
PostingKnown ==
  \A p \in Posters : pc[p] = "displacing" => posting[p] \in Messages

LEMMA NextPosting == NodeInv /\ PostingKnown /\ [Next]_vars => PostingKnown'
<1> SUFFICES ASSUME NodeInv, PostingKnown, [Next]_vars PROVE PostingKnown'
  OBVIOUS
<1>0. /\ pc \in [Threads -> PcState]
      /\ posting \in [Posters -> AnyMessage \cup {NoMessage}]
      /\ Posters \subseteq Threads /\ Consumers \subseteq Threads
      /\ Posters \cap Consumers = {} /\ Owner \in Consumers
  BY ThreadsAssumption DEF NodeInv, TypeOK, Threads
<1>1. ASSUME NEW t \in Threads, NEW from, NEW to, Goto(t, from, to),
             to # "displacing", posting' = posting
      PROVE  PostingKnown'
  BY <1>0, <1>1 DEF PostingKnown, Goto
<1>2. CASE UNCHANGED <<pc, posting>>
  BY <1>2 DEF PostingKnown
<1>3. ASSUME NEW p \in Posters, NEW m \in Messages,
             PostMessage(p, m) \/ RejectMessage(p, m) \/ Displace(p, m)
      PROVE  PostingKnown'
  <2>1. CASE PostMessage(p, m)
    BY <1>0, <1>1, <2>1 DEF PostMessage, posterVars
  <2>2. CASE RejectMessage(p, m)
    BY <1>2, <2>2 DEF RejectMessage, vars
  <2>3. CASE Displace(p, m)
    BY <1>0, <2>3 DEF Displace, Goto, PostingKnown
  <2> QED BY <1>3, <2>1, <2>2, <2>3
<1>4. ASSUME NEW p \in Posters, PosterStep(p) PROVE PostingKnown'
  <2>1. CASE DisplacedInsert(p) \/ DisplacedNoMemory(p)
    <3>1. \A q \in Posters : pc'[q] = "displacing" => q # p /\ pc[q] = "displacing"
      BY <1>0, <2>1 DEF DisplacedInsert, DisplacedNoMemory, Goto
    <3>2. posting' = [posting EXCEPT ![p] = NoMessage]
      BY <2>1 DEF DisplacedInsert, DisplacedNoMemory, EndDisplacement
    <3> QED BY <1>0, <3>1, <3>2 DEF PostingKnown
  <2>2. CASE Signal(p)
    BY <1>0, <1>1, <2>2 DEF Signal, posterVars
  <2> QED BY <1>4, <2>1, <2>2 DEF PosterStep
<1>5. ASSUME NEW c \in Consumers, NEW k \in Calls, Receive(c, k)
      PROVE  PostingKnown'
  BY <1>0, <1>1, <1>5 DEF Receive, posterVars
<1>6. ASSUME NEW c \in Consumers, PendStep(c) PROVE PostingKnown'
  BY <1>0, <1>1, <1>6
  DEF PendStep, TakeToken, TakeFirst, FindEmpty, NoTokenInTime, posterVars
<1>7. ASSUME NEW c \in Consumers, SelectiveStep(c) PROVE PostingKnown'
  <2>1. /\ posting' = posting
        /\ \E from : \E to \in PcState \ {"displacing"} : Goto(c, from, to)
    BY <1>7
    DEF SelectiveStep, SearchHit, PayToken, PayTimeout, SearchMiss, Wake, GiveUp,
        RescanHit, RescanMiss, Expire, TakeMatching, posterVars, PcState
  <2> QED BY <1>0, <1>1, <2>1
<1>8. ASSUME NEW events, Select(events) \/ PurgeBegin(events) PROVE PostingKnown'
  BY <1>0, <1>1, <1>2, <1>8 DEF Select, PurgeBegin, posterVars
<1>9. CASE PurgeStep
  BY <1>0, <1>1, <1>2, <1>9 DEF PurgeStep, PurgeNext, PurgeEnd, posterVars
<1>10. CASE UNCHANGED vars
  BY <1>2, <1>10 DEF vars
<1>11. CASE TakeDisplacedNode
  <2>1. \A q \in Posters : pc'[q] = "displacing" => q # Router /\ pc[q] = "displacing"
    BY <1>0, <1>11, ThreadsAssumption DEF TakeDisplacedNode, Goto
  <2>2. posting' = [posting EXCEPT ![Router] = NoMessage]
    BY <1>11 DEF TakeDisplacedNode, EndDisplacement
  <2> QED BY <1>0, <2>1, <2>2 DEF PostingKnown
<1>12. CASE PostMessageNode \/ ReadFails \/ \E m \in Messages : TakeFreeNode(m)
  BY <1>0, <1>1, <1>12, ThreadsAssumption
  DEF PostMessageNode, ReadFails, EndReading, TakeFreeNode
<1> QED BY <1>3, <1>4, <1>5, <1>6, <1>7, <1>8, <1>9, <1>10, <1>11, <1>12
        DEF Next, RouterStep

\* And so is the one the router reads.
ReadingKnown == filling # NoNode => message[filling] \in Messages

LEMMA NextReading ==
  NodeInv /\ PostingKnown /\ ReadingKnown /\ [Next]_vars => ReadingKnown'
<1> SUFFICES ASSUME NodeInv, PostingKnown, ReadingKnown, [Next]_vars
             PROVE  ReadingKnown'
  OBVIOUS
<1>1. ASSUME filling = NoNode, UNCHANGED filling PROVE ReadingKnown'
  BY <1>1 DEF ReadingKnown
<1>2. ASSUME UNCHANGED <<filling, message>> PROVE ReadingKnown'
  BY <1>2 DEF ReadingKnown
<1>3. lock = NoThread => filling = NoNode
  BY FreeLock
<1>4. ASSUME NEW p \in Posters, NEW m \in Messages,
             PostMessage(p, m) \/ RejectMessage(p, m) \/ Displace(p, m)
      PROVE  ReadingKnown'
  BY <1>1, <1>2, <1>3, <1>4
  DEF PostMessage, RejectMessage, Displace, posterVars, vars
<1>5. ASSUME NEW p \in Posters, PosterStep(p) PROVE ReadingKnown'
  <2>1. CASE DisplacedInsert(p)
    BY <1>1, <2>1, DisplacerFacts DEF DisplacedInsert
  <2>2. CASE DisplacedNoMemory(p) \/ Signal(p)
    BY <1>2, <2>2 DEF DisplacedNoMemory, Signal, nodeVars, posterVars
  <2> QED BY <1>5, <2>1, <2>2 DEF PosterStep
<1>6. ASSUME NEW c \in Consumers, NEW k \in Calls, Receive(c, k) PROVE ReadingKnown'
  BY <1>1, <1>2, <1>3, <1>6 DEF Receive, posterVars
<1>7. ASSUME NEW c \in Consumers, PendStep(c) \/ SelectiveStep(c) PROVE ReadingKnown'
  BY <1>2, <1>7
  DEF PendStep, SelectiveStep, TakeToken, TakeFirst, FindEmpty, NoTokenInTime,
      SearchHit, PayToken, PayTimeout, SearchMiss, Wake, GiveUp, RescanHit,
      RescanMiss, Expire, TakeMatching, nodeVars, posterVars
<1>8. ASSUME NEW events, Select(events) \/ PurgeBegin(events) \/ PurgeEnd
      PROVE  ReadingKnown'
  BY <1>2, <1>8 DEF Select, PurgeBegin, PurgeEnd, nodeVars, posterVars
<1>9. CASE PurgeNext
  <2>1. Owner # Router /\ Owner \in Threads /\ Router \in Threads
    BY ThreadsAssumption DEF Threads
  <2>2. lock = Owner
    BY <1>9, <2>1 DEF PurgeNext, NodeInv, LockDiscipline
  <2>3. filling = NoNode
    BY <2>1, <2>2 DEF NodeInv, LockDiscipline
  <2> QED BY <1>1, <1>9, <2>3 DEF PurgeNext, posterVars
<1>10. CASE TakeDisplacedNode
  <2>1. Router \in Posters /\ pc[Router] = "displacing"
    BY <1>10, ThreadsAssumption DEF TakeDisplacedNode, Goto
  <2>2. displaced \in Nodes /\ posting[Router] \in Messages
    BY <2>1, DisplacerFacts DEF PostingKnown
  <2>3. filling' = displaced /\ message' = [message EXCEPT ![displaced] = posting[Router]]
    BY <1>10 DEF TakeDisplacedNode, FillNode
  <2> QED BY <2>2, <2>3 DEF ReadingKnown, NodeInv, TypeOK
<1>11. CASE PostMessageNode \/ ReadFails
  BY <1>11 DEF PostMessageNode, ReadFails, EndReading, ReadingKnown
<1>12. ASSUME NEW m \in Messages, TakeFreeNode(m) PROVE ReadingKnown'
  <2>1. PICK n \in free : filling' = n /\ message' = [message EXCEPT ![n] = m]
    BY <1>12 DEF TakeFreeNode, FillNode
  <2> QED BY <2>1 DEF ReadingKnown, NodeInv, TypeOK
<1>13. CASE UNCHANGED vars
  BY <1>2, <1>13 DEF vars
<1> QED BY <1>4, <1>5, <1>6, <1>7, <1>8, <1>9, <1>10, <1>11, <1>12, <1>13
        DEF Next, PurgeStep, RouterStep

\* Each step is a step of the store, or none.
StoreStep == Store!Next \/ UNCHANGED Store!vars

\* What the steps with a free lock do to the nodes that are not in the list.
LEMMA HeldSame == ASSUME UNCHANGED held PROVE HeldNodes' = HeldNodes /\ Taken' = Taken
BY DEF HeldNodes, Taken

LEMMA QuietStore ==
  ASSUME NodeInv, UNCHANGED <<queue, message, free, displaced, filling, held>>
  PROVE  UNCHANGED Store!vars
<1>1. UNCHANGED <<UrgentMessages, NormalMessages>>
  BY ListUnchanged
<1> QED BY <1>1, HeldSame DEF Store!vars, Room, Evicting

LEMMA PostIsPost ==
  ASSUME NodeInv, NodeInv', OrderInv, NEW p \in Posters, NEW m \in Messages,
         PostMessage(p, m)
  PROVE  Store!Post(m)
<1>1. PICK k \in Nat : UrgentPrefix(k)
  BY DEF OrderInv
<1>2. PICK n \in free : InsertNode(n, m) /\ free' = free \ {n}
  BY DEF PostMessage
<1>3. lock = NoThread /\ UNCHANGED <<displaced, filling, held>>
  BY DEF PostMessage, posterVars, consumerVars
<1>4. n \in Nodes /\ n \notin Range(queue) /\ m \in AnyMessage
  BY MessagesAssumption DEF NodeInv, NodeConservation, TypeOK
<1>5. Store!Enqueue(m)
  BY <1>1, <1>2, <1>4, InsertEnqueues
<1>6. Room > 0 /\ Room' = Room - 1
  BY <1>2, <1>3, RoomShrinks
<1>7. ~Evicting /\ UNCHANGED <<Evicting, Taken>>
  BY <1>3, FreeLock, HeldSame DEF Evicting
<1> QED BY <1>5, <1>6, <1>7 DEF Store!Post

LEMMA DisplaceEvicts ==
  ASSUME NodeInv, NodeInv', OrderInv, NEW p \in Posters, NEW m \in Messages,
         Displace(p, m)
  PROVE  Store!Evict
<1>1. PICK k \in Nat : UrgentPrefix(k)
  BY DEF OrderInv
<1>2. /\ UrgentPrefix(k)' /\ k < Len(queue)
      /\ Len(queue') = Len(queue) - 1
      /\ \A j \in 1 .. Len(queue) - 1 : message'[queue'[j]] = message[queue[j]]
  BY <1>1, DisplaceKeepsOrder
<1>3. PartsAt(k) /\ PartsAt(k)'
  BY <1>1, <1>2, PartsNow, PartsNext DEF PartsFit
<1> PICK C, D : C = Contents /\ D = Contents'
  OBVIOUS
<1>4. /\ C \in Seq(AnyMessage) /\ D \in Seq(AnyMessage) /\ k \in 0 .. Len(C)
      /\ k < Len(C) /\ Len(D) = Len(C) - 1 /\ Len(C) = Len(queue)
      /\ \A j \in 1 .. Len(C) : C[j] = message[queue[j]]
      /\ \A j \in 1 .. Len(C) - 1 : D[j] = message'[queue'[j]]
  BY <1>2, <1>3 DEF PartsAt
<1>5. \A j \in 1 .. Len(C) - 1 : D[j] = C[j]
  BY <1>2, <1>4
<1>6. /\ Urgents(D, k) = Urgents(C, k)
      /\ Normals(C, k) # << >> /\ Normals(D, k) = Front(Normals(C, k))
  BY <1>4, <1>5, PartsOfFront
<1>7. /\ UNCHANGED UrgentMessages
      /\ NormalMessages # << >> /\ NormalMessages' = Front(NormalMessages)
  BY <1>3, <1>6 DEF PartsAt
<1>8. ~Evicting /\ Evicting' = TRUE
  <2>1. lock = NoThread /\ displaced' = Last(queue) /\ Last(queue) \in Nodes
    BY FrontFacts DEF Displace, NodeInv, NodeConservation
  <2>2. displaced' # NoNode
    BY <2>1, NodesAssumption
  <2> QED BY <2>1, <2>2, FreeLock DEF Evicting
<1>9. Room = 0 /\ UNCHANGED <<Room, Taken>>
  <2>1. free = {} /\ filling = NoNode /\ UNCHANGED <<free, filling, held>>
    BY FreeLock DEF Displace, consumerVars
  <2> QED BY <2>1, HeldSame, FS_EmptySet DEF Room
<1> QED BY <1>7, <1>8, <1>9 DEF Store!Evict, Store!Front, Front

LEMMA DisplacedInsertReplaces ==
  ASSUME NodeInv, NodeInv', OrderInv, NEW p \in Posters, DisplacedInsert(p)
  PROVE  Store!Replace(posting[p])
<1>1. PICK k \in Nat : UrgentPrefix(k)
  BY DEF OrderInv
<1>2. /\ pc[p] = "displacing" /\ InsertNode(displaced, posting[p])
      /\ displaced' = NoNode /\ UNCHANGED <<free, filling, held>>
  BY DEF DisplacedInsert, EndDisplacement, consumerVars
<1>3. /\ displaced \in Nodes /\ displaced \notin Range(queue)
      /\ posting[p] \in AnyMessage /\ posting[p].urgent
  BY <1>2, DisplacerFacts DEF NodeInv, LockDiscipline
<1>4. Store!Enqueue(posting[p])
  BY <1>1, <1>2, <1>3, InsertEnqueues
<1>5. Evicting /\ Evicting' = FALSE
  BY <1>2, <1>3, NodesAssumption DEF Evicting
<1>6. UNCHANGED <<Room, Taken>>
  BY <1>2, HeldSame DEF Room
<1> QED BY <1>3, <1>4, <1>5, <1>6 DEF Store!Replace

LEMMA DisplacedNoMemoryAbandons ==
  ASSUME NodeInv, NEW p \in Posters, DisplacedNoMemory(p)
  PROVE  Store!Abandon
<1>1. /\ pc[p] = "displacing" /\ free' = free \cup {displaced}
      /\ displaced' = NoNode /\ UNCHANGED <<filling, held, queue, message>>
  BY DEF DisplacedNoMemory, EndDisplacement, consumerVars
<1>2. displaced \in Nodes /\ displaced \notin free
  BY <1>1, DisplacerFacts
<1>3. UNCHANGED <<UrgentMessages, NormalMessages>>
  BY <1>1, ListUnchanged
<1>4. Evicting /\ Evicting' = FALSE
  BY <1>1, <1>2, NodesAssumption DEF Evicting
<1>5. Room' = Room + 1
  BY <1>1, <1>2, RoomGrows
<1> QED BY <1>1, <1>3, <1>4, <1>5, HeldSame DEF Store!Abandon

LEMMA ReceiveReleases ==
  ASSUME NodeInv, NEW c \in Consumers, NEW l \in Calls, Receive(c, l)
  PROVE  Store!Release \/ UNCHANGED Store!vars
<1> DEFINE h == <<c, l.slot>>
<1>1. h \in Consumers \X Slots /\ UNCHANGED <<queue, displaced, filling>>
  BY CallsAssumption DEF AnyCall, Receive, posterVars
<1>2. CASE held[h] = NoNode
  BY <1>1, <1>2, QuietStore DEF Receive
<1>3. CASE held[h] # NoNode
  <2>1. /\ lock = NoThread /\ held' = [held EXCEPT ![h] = NoNode]
        /\ free' = free \cup {held[h]}
        /\ message' = [message EXCEPT ![held[h]] = NoMessage]
    BY <1>3 DEF Receive, FreeNode
  <2>2. held[h] \in HeldNodes /\ HeldNodes' = HeldNodes \ {held[h]}
    BY <1>1, <1>3, <2>1, EmptySlot DEF NodeInv
  <2>3. held[h] \notin free /\ held[h] \notin Range(queue) /\ Range(queue) \subseteq Nodes
    BY <2>2 DEF NodeInv, NodeConservation
  <2>4. \A n \in Range(queue) : message'[n] = message[n]
    BY <2>1, <2>3 DEF NodeInv, TypeOK
  <2>5. UNCHANGED <<UrgentMessages, NormalMessages>>
    BY <1>1, <2>4, ListUnchanged
  <2>6. ~Evicting /\ UNCHANGED Evicting
    BY <1>1, <2>1, FreeLock DEF Evicting
  <2>7. Room' = Room + 1
    BY <1>1, <2>1, <2>3, RoomGrows
  <2>8. Taken > 0 /\ Taken' = Taken - 1
    BY <2>2, TakenShrinks
  <2> QED BY <2>5, <2>6, <2>7, <2>8 DEF Store!Release
<1> QED BY <1>2, <1>3

\* A receiver takes the first message of its list of events.
LEMMA TakeIsTake ==
  ASSUME NodeInv, NodeInv', OrderInv, NEW c \in Consumers, lock = NoThread,
         NEW events, NEW i \in 1 .. Len(queue), IsFirst(i, Matching(events)),
         RemoveNodeFromQueue(i),
         held[<<c, call[c].slot>>] = NoNode,
         held' = [held EXCEPT ![<<c, call[c].slot>>] = queue[i]],
         UNCHANGED <<free, message, displaced, filling>>
  PROVE  Store!Take(events)
<1>1. PICK k \in Nat : UrgentPrefix(k)
  BY DEF OrderInv
<1>2. Store!RemoveFirstOf(events)
  BY <1>1, RemovalIsFirst
<1> DEFINE n == queue[i]
<1>3. n \in Nodes /\ n \in Range(queue) /\ n \notin HeldNodes
  BY RemoveNodeFacts DEF NodeInv, NodeConservation
<1>4. held' = [held EXCEPT ![<<c, call[c].slot>>] = n]
  OBVIOUS
<1> HIDE DEF n
<1>5. <<c, call[c].slot>> \in Consumers \X Slots
  BY DEF NodeInv, TypeOK, AnyCall
<1>6. HeldNodes' = HeldNodes \cup {n}
  BY <1>3, <1>4, <1>5, FillSlot DEF NodeInv
<1>7. Taken' = Taken + 1
  BY <1>3, <1>6, TakenGrows
<1>8. ~Evicting /\ UNCHANGED <<Room, Evicting>>
  BY FreeLock DEF Room, Evicting
<1> QED BY <1>2, <1>7, <1>8 DEF Store!Take

LEMMA PurgeIsPurge ==
  ASSUME NodeInv, NodeInv', OrderInv, PurgeNext
  PROVE  Store!Purge(call[Owner].events)
<1>1. PICK k \in Nat : UrgentPrefix(k)
  BY DEF OrderInv
<1>2. PICK i \in 1 .. Len(queue) :
        /\ IsFirst(i, Matching(call[Owner].events))
        /\ RemoveNodeFromQueue(i) /\ FreeNode(queue[i])
  BY DEF PurgeNext
<1>3. /\ pc[Owner] = "purging" /\ UNCHANGED <<displaced, filling, held>>
      /\ message' = [message EXCEPT ![queue[i]] = NoMessage]
      /\ free' = free \cup {queue[i]}
  BY <1>2 DEF PurgeNext, FreeNode, posterVars, consumerVars
<1>4. \A n \in Nodes : n # queue[i] => message'[n] = message[n]
  BY <1>3 DEF NodeInv, TypeOK
<1>5. Store!RemoveFirstOf(call[Owner].events)
  BY <1>1, <1>2, <1>4, RemovalIsFirst
<1>6. queue[i] \notin free
  BY <1>2, RemoveNodeFacts DEF NodeInv, NodeConservation
<1>7. Room' = Room + 1
  BY <1>3, <1>6, RoomGrows
<1>8. ~Evicting /\ UNCHANGED Evicting
  <2>1. \A p \in Posters : p \in Threads /\ p # Owner
    BY ThreadsAssumption DEF Threads
  <2>2. Owner \in Threads
    BY ThreadsAssumption DEF Threads
  <2>3. lock = Owner
    BY <1>3, <2>2 DEF NodeInv, LockDiscipline
  <2>4. \A p \in Posters : pc[p] # "displacing"
    BY <2>1, <2>3 DEF NodeInv, LockDiscipline
  <2>5. displaced = NoNode
    BY <2>4 DEF NodeInv, LockDiscipline
  <2> QED BY <1>3, <2>5 DEF Evicting
<1> QED BY <1>3, <1>5, <1>7, <1>8, HeldSame DEF Store!Purge

LEMMA ReceiverTakes ==
  ASSUME NodeInv, NodeInv', OrderInv, NEW c \in Consumers, TakeFirst(c) \/ TakeMatching(c),
         lock = NoThread, pc[c] \in InCall
  PROVE  \E events \in SUBSET Events : Store!Take(events)
<1>1. held[<<c, call[c].slot>>] = NoNode
  BY DEF NodeInv, SlotEmptyInCall, InCall
<1>2. CASE TakeFirst(c)
  <2>1. queue \in Seq(Nodes) /\ 1 \in 1 .. Len(queue) /\ Head(queue) = queue[1]
    BY <1>2 DEF TakeFirst, NodeInv, TypeOK
  <2>2. /\ RemoveNodeFromQueue(1)
        /\ held' = [held EXCEPT ![<<c, call[c].slot>>] = queue[1]]
        /\ UNCHANGED <<free, message, displaced, filling>>
    BY <1>2, <2>1 DEF TakeFirst, posterVars
  <2>3. message[queue[1]].event \in Events
    <3>1. queue[1] \in Range(queue)
      BY <2>1 DEF Range
    <3> QED BY <3>1 DEF NodeInv, NodesCarryMessages, Carriers, AnyMessage
  <2>4. IsFirst(1, Matching(Events))
    BY <2>1, <2>3 DEF IsFirst, Matching
  <2> QED BY <1>1, <2>1, <2>2, <2>4, TakeIsTake
<1>3. CASE TakeMatching(c)
  <2>1. PICK i \in 1 .. Len(queue) :
          /\ IsFirst(i, Matching(Filter(c)))
          /\ RemoveNodeFromQueue(i)
          /\ held' = [held EXCEPT ![<<c, call[c].slot>>] = queue[i]]
          /\ UNCHANGED <<free, message, displaced, filling>>
    BY <1>3 DEF TakeMatching, posterVars
  <2>2. Filter(c) \in SUBSET Events
    BY DEF Filter, NodeInv, TypeOK, AnyCall
  <2> QED BY <1>1, <2>1, <2>2, TakeIsTake
<1> QED BY <1>2, <1>3

\* The router's node stays room of the store until its message is posted.
LEMMA RouterIsStoreStep ==
  ASSUME NodeInv, NodeInv', OrderInv, ReadingKnown,
         RouterStep \/ \E m \in Messages : TakeFreeNode(m)
  PROVE  StoreStep
<1>1. UNCHANGED Taken
  BY RouterMoves, HeldSame DEF consumerVars
<1>2. ASSUME NEW m \in Messages, TakeFreeNode(m)
      PROVE  UNCHANGED Store!vars
  <2>1. PICK n \in free : FillNode(n, m) /\ free' = free \ {n}
    BY <1>2 DEF TakeFreeNode
  <2>2. /\ n \in Nodes /\ n \notin Range(queue) /\ n # NoNode
        /\ Range(queue) \subseteq Nodes
    BY NodesAssumption DEF NodeInv, NodeConservation, TypeOK
  <2>3. \A l \in Range(queue) : message'[l] = message[l]
    BY <2>1, <2>2 DEF FillNode, NodeInv, TypeOK
  <2>4. filling = NoNode /\ filling' = n /\ UNCHANGED <<queue, displaced>>
    BY <1>2, <2>1, FreeLock DEF TakeFreeNode, FillNode
  <2>5. UNCHANGED <<UrgentMessages, NormalMessages>>
    BY <2>3, <2>4, ListUnchanged
  <2>6. UNCHANGED Room
    BY <2>1, <2>2, <2>4, RemoveFree, CountsKnown DEF Room
  <2> QED BY <1>1, <2>4, <2>5, <2>6 DEF Store!vars, Evicting
<1>3. CASE TakeDisplacedNode
  <2>1. Router \in Posters /\ pc[Router] = "displacing"
    BY <1>3, ThreadsAssumption DEF TakeDisplacedNode, Goto
  <2>2. /\ displaced \in Nodes /\ displaced # NoNode /\ filling = NoNode
        /\ displaced \notin Range(queue) /\ Range(queue) \subseteq Nodes
    BY <2>1, DisplacerFacts, NodesAssumption DEF NodeInv, NodeConservation
  <2>3. /\ message' = [message EXCEPT ![displaced] = posting[Router]]
        /\ filling' = displaced /\ displaced' = NoNode /\ UNCHANGED <<queue, free>>
    BY <1>3 DEF TakeDisplacedNode, FillNode, EndDisplacement
  <2>4. \A l \in Range(queue) : message'[l] = message[l]
    BY <2>2, <2>3 DEF NodeInv, TypeOK
  <2>5. UNCHANGED <<UrgentMessages, NormalMessages>>
    BY <2>3, <2>4, ListUnchanged
  <2>6. Room' = Room + 1 /\ Evicting /\ Evicting' = FALSE
    BY <2>2, <2>3, CountsKnown DEF Room, Evicting
  <2>7. Store!Abandon
    BY <1>1, <2>5, <2>6 DEF Store!Abandon
  <2> QED BY <2>7 DEF StoreStep, Store!Next
<1>4. CASE PostMessageNode \/ ReadFails
  <2>1. pc[Router] = "reading" /\ filling' = NoNode /\ displaced' = displaced
    BY <1>4 DEF PostMessageNode, ReadFails, EndReading, Goto
  <2>2. /\ filling \in Nodes /\ filling # NoNode /\ displaced = NoNode
        /\ filling \notin free /\ filling \notin Range(queue)
        /\ message[filling] \in AnyMessage /\ message[filling] \in Messages
    BY <2>1, ReaderFacts DEF ReadingKnown
  <2>3. ~Evicting /\ UNCHANGED Evicting
    BY <2>1, <2>2 DEF Evicting
  <2>4. CASE PostMessageNode
    <3>1. PICK k \in Nat : UrgentPrefix(k)
      BY DEF OrderInv
    <3>2. InsertNode(filling, message[filling]) /\ free' = free
      BY <2>4 DEF PostMessageNode
    <3>3. Store!Enqueue(message[filling])
      BY <2>2, <3>1, <3>2, InsertEnqueues
    <3>4. Room > 0 /\ Room' = Room - 1
      BY <2>1, <2>2, <3>2, CountsKnown DEF Room
    <3>5. Store!Post(message[filling])
      BY <1>1, <2>3, <3>3, <3>4 DEF Store!Post
    <3> QED BY <2>2, <3>5 DEF StoreStep, Store!Next
  <2>5. CASE ReadFails
    <3>1. /\ message' = [message EXCEPT ![filling] = NoMessage]
          /\ free' = free \cup {filling} /\ UNCHANGED queue
      BY <2>5 DEF ReadFails, FreeNode
    <3>2. Range(queue) \subseteq Nodes
      BY DEF NodeInv, NodeConservation
    <3>3. \A l \in Range(queue) : message'[l] = message[l]
      BY <2>2, <3>1, <3>2 DEF NodeInv, TypeOK
    <3>4. UNCHANGED <<UrgentMessages, NormalMessages>>
      BY <3>1, <3>3, ListUnchanged
    <3>5. UNCHANGED Room
      BY <2>1, <2>2, <3>1, AddFree DEF Room
    <3> QED BY <1>1, <2>3, <3>4, <3>5 DEF StoreStep, Store!vars
  <2> QED BY <1>4, <2>4, <2>5
<1> QED BY <1>2, <1>3, <1>4 DEF RouterStep, StoreStep

LEMMA NextIsStoreStep ==
  ASSUME NodeInv, NodeInv', OrderInv, PostingKnown, ReadingKnown, [Next]_vars
  PROVE  StoreStep
<1>1. CASE UNCHANGED vars
  BY <1>1, QuietStore DEF StoreStep, vars
<1>2. ASSUME NEW p \in Posters, NEW m \in Messages,
             PostMessage(p, m) \/ RejectMessage(p, m) \/ Displace(p, m)
      PROVE  StoreStep
  <2>1. CASE PostMessage(p, m)
    BY <2>1, PostIsPost DEF StoreStep, Store!Next
  <2>2. CASE RejectMessage(p, m)
    BY <1>1, <2>2 DEF RejectMessage
  <2>3. CASE Displace(p, m)
    BY <2>3, DisplaceEvicts DEF StoreStep, Store!Next
  <2> QED BY <1>2, <2>1, <2>2, <2>3
<1>3. ASSUME NEW p \in Posters, PosterStep(p) PROVE StoreStep
  <2>1. CASE DisplacedInsert(p)
    <3>1. posting[p] \in Messages
      BY <2>1 DEF DisplacedInsert, PostingKnown
    <3> QED BY <2>1, <3>1, DisplacedInsertReplaces DEF StoreStep, Store!Next
  <2>2. CASE DisplacedNoMemory(p)
    BY <2>2, DisplacedNoMemoryAbandons DEF StoreStep, Store!Next
  <2>3. CASE Signal(p)
    BY <2>3, QuietStore DEF Signal, StoreStep, nodeVars, posterVars, consumerVars
  <2> QED BY <1>3, <2>1, <2>2, <2>3 DEF PosterStep
<1>4. ASSUME NEW c \in Consumers, NEW l \in Calls, Receive(c, l) PROVE StoreStep
  BY <1>4, ReceiveReleases DEF StoreStep, Store!Next
<1>5. ASSUME NEW c \in Consumers, PendStep(c) \/ SelectiveStep(c) PROVE StoreStep
  <2>1. CASE TakeFirst(c) \/ SearchHit(c) \/ RescanHit(c)
    <3>1. /\ TakeFirst(c) \/ TakeMatching(c)
          /\ lock = NoThread /\ pc[c] \in InCall
      BY <2>1 DEF TakeFirst, SearchHit, RescanHit, Goto, InCall, PcState
    <3> QED BY <3>1, ReceiverTakes DEF StoreStep, Store!Next
  <2>2. CASE UNCHANGED <<nodeVars, displaced, filling, held>>
    BY <2>2, QuietStore DEF StoreStep, nodeVars
  <2> QED
    BY <1>5, <2>1, <2>2
    DEF PendStep, SelectiveStep, TakeToken, FindEmpty, NoTokenInTime,
        PayToken, PayTimeout, SearchMiss, Wake, GiveUp, RescanMiss, Expire,
        posterVars, consumerVars
<1>6. CASE PurgeNext
  <2>1. call[Owner].events \in SUBSET Events
    BY ThreadsAssumption DEF NodeInv, TypeOK, AnyCall
  <2> QED BY <1>6, <2>1, PurgeIsPurge DEF StoreStep, Store!Next
<1>7. ASSUME NEW events, Select(events) \/ PurgeBegin(events) PROVE StoreStep
  BY <1>7, QuietStore DEF Select, PurgeBegin, StoreStep, nodeVars, posterVars
<1>8. CASE PurgeEnd
  BY <1>8, QuietStore DEF PurgeEnd, StoreStep, nodeVars, posterVars, consumerVars
<1> QED BY <1>1, <1>2, <1>3, <1>4, <1>5, <1>6, <1>7, <1>8, RouterIsStoreStep
        DEF Next, PurgeStep

\* The circular list with its urgent_tail, its free list and the nodes in the
\* hands of receivers is a bounded priority queue of queue_size + 1 places:
\* two FIFO lists, urgent before normal; a receive, selective or not, and a
\* purge take the first message they want; a full queue gives the place of its
\* newest normal message to an urgent one, and nothing else in it is lost or
\* duplicated, whatever the semaphore does and whatever the router reads.
THEOREM QueueImplementsStore == Spec => ImplementsPriorityQueue
<1>1. Init => Store!Init
  <2> SUFFICES ASSUME Init PROVE Store!Init
    OBVIOUS
  <2>1. Contents = << >> /\ UrgentLength = 0 /\ Len(queue) = 0
    <3>1. {i \in 1 .. Len(queue) : message[queue[i]].urgent} = {}
      BY DEF Init
    <3> QED BY <3>1, FS_EmptySet DEF Init, Contents, UrgentLength
  <2>2. UrgentMessages = << >> /\ NormalMessages = << >>
    BY <2>1 DEF UrgentMessages, NormalMessages
  <2>3. HeldNodes = {}
    BY DEF Init, HeldNodes
  <2>4. Room = Cardinality(Nodes) /\ Taken = 0 /\ Evicting = FALSE
    <3>1. Cardinality(Nodes) \in Nat
      BY NodesAssumption, FS_CardinalityType
    <3>2. free = Nodes /\ filling = NoNode /\ displaced = NoNode
      BY DEF Init
    <3> QED BY <2>3, <3>1, <3>2, FS_EmptySet DEF Room, Taken, Evicting
  <2> QED BY <2>2, <2>4 DEF Store!Init
<1>2. Init => OrderInv /\ PostingKnown /\ ReadingKnown
  <2> SUFFICES ASSUME Init PROVE UrgentPrefix(0) /\ PostingKnown /\ ReadingKnown
    BY DEF OrderInv
  <2> QED BY DEF Init, UrgentPrefix, PostingKnown, ReadingKnown, Threads
<1>3. NodeInv /\ OrderInv /\ [Next]_vars => OrderInv'
  BY NextOrderInv
<1>4. NodeInv /\ PostingKnown /\ [Next]_vars => PostingKnown'
  BY NextPosting
<1>5. NodeInv /\ NodeInv' /\ OrderInv /\ PostingKnown /\ ReadingKnown
        /\ [Next]_vars => [Store!Next]_(Store!vars)
  BY NextIsStoreStep DEF StoreStep
<1>6. NodeInv /\ PostingKnown /\ ReadingKnown /\ [Next]_vars => ReadingKnown'
  BY NextReading
<1> QED
  BY <1>1, <1>2, <1>3, <1>4, <1>5, <1>6, NodeTableCorrect, PTL
  DEF Spec, ImplementsPriorityQueue, Store!Spec

-----------------------------------------------------------------------------
(* The queues of one entry of the thread table *)

CONSTANTS Size, Lives, MaxPosts, NULL
VARIABLE q

QL == INSTANCE QueueLife

TableNodes == Nat \X (1 .. Size + 1)
Displacements == [node : TableNodes, msg : QL!AnyMessage]

\* NULL is nothing else.
LivesAssumption ==
  /\ IsFiniteSet(Posters) /\ Size \in Nat
  /\ NULL \notin Nat /\ NULL \notin Posters /\ NULL \notin TableNodes
  /\ NULL \notin Displacements

QueueLives ==
  [life : Nat, owner : {"none", "idle", "waits", "took", "ends"}, tab : Nat \cup {NULL},
   list : Seq(TableNodes), urgents : Nat, free : SUBSET TableNodes,
   current : TableNodes \cup {NULL}, heap : SUBSET TableNodes, tokens : Nat,
   lock : Posters \cup {NULL}, displaced : Displacements \cup {NULL},
   signals : [Posters -> Nat \cup {NULL}],
   count : Nat, peak : Nat, total : Nat, posted : Nat, fault : BOOLEAN, leak : BOOLEAN]

InHands(r) == (IF r.current = NULL THEN {} ELSE {r.current})
              \cup (IF r.displaced = NULL THEN {} ELSE {r.displaced.node})

\* Each node is at one place, but those of out are at none.
NodesApart(r, out) ==
  /\ IsInjective(r.list) /\ r.urgents <= Len(r.list)
  /\ ToSet(r.list) \cap InHands(r) = {}
  /\ (ToSet(r.list) \cup InHands(r)) \cap r.free = {}
  /\ (ToSet(r.list) \cup InHands(r) \cup r.free) \cap out = {}
  /\ ToSet(r.list) \cup InHands(r) \cup r.free \cup out
       = IF r.tab = NULL THEN {} ELSE QL!NodesOf(r.tab)
  /\ r.heap \subseteq ToSet(r.list) \cup (InHands(r) \cap {r.current})
  /\ r.displaced # NULL => r.displaced.node # r.current

\* Who holds what.
HandsAgree(r) ==
  /\ r.tab # NULL => r.tab = r.life /\ r.owner # "none"
  /\ r.owner \in {"waits", "took"} => r.tab # NULL
  /\ r.current # NULL => r.owner = "idle"
  /\ (r.lock = NULL) <=> (r.displaced = NULL)
  /\ r.lock # NULL => r.tab # NULL /\ r.signals[r.lock] = NULL

CountsOf(r) ==
  r.tab # NULL => /\ r.count = Len(r.list) /\ r.peak \in r.count .. Size + 1
                  /\ r.total >= r.peak /\ r.total <= r.posted

StillToSignal(r) == {p \in Posters : r.signals[p] = r.tab}
Signallers(s, tab) == {p \in Posters : s[p] = tab}

Announced(r) ==
  r.tab # NULL =>
    Len(r.list) + (IF r.lock = NULL THEN 0 ELSE 1)
      <= r.tokens + Cardinality(StillToSignal(r)) + (IF r.owner = "took" THEN 1 ELSE 0)

\* A queue one node of which, if any, is in the hands of a step.
QueueKeeps(r, out) ==
  /\ r \in QueueLives
  /\ NodesApart(r, out) /\ HandsAgree(r) /\ CountsOf(r) /\ Announced(r)

QlInv == QueueKeeps(q, {})

LEMMA SameInQueueLife ==
  ASSUME NEW S, NEW s, NEW i, NEW e
  PROVE  /\ QL!Cardinality(S) = Cardinality(S) /\ QL!InsertAt(s, i, e) = InsertAt(s, i, e)
         /\ QL!Front(s) = Front(s) /\ QL!Last(s) = Last(s) /\ QL!ToSet(s) = ToSet(s)
BY DEF QL!Cardinality, Cardinality, QL!InsertAt, InsertAt, QL!Front, Front, QL!Last, Last,
       QL!ToSet, ToSet

LEMMA SignalsCount ==
  ASSUME LivesAssumption, NEW s \in [Posters -> Nat \cup {NULL}], NEW tab \in Nat, NEW p \in Posters
  PROVE  /\ Cardinality(Signallers(s, tab)) \in Nat
         /\ s[p] = NULL => Cardinality(Signallers([s EXCEPT ![p] = tab], tab))
                             = Cardinality(Signallers(s, tab)) + 1
         /\ Cardinality(Signallers(s, tab))
              <= Cardinality(Signallers([s EXCEPT ![p] = NULL], tab)) + 1
<1> DEFINE A == {x \in Posters : s[x] = tab}
<1>1. IsFiniteSet(A) /\ Cardinality(A) \in Nat /\ NULL # tab
  BY FS_Subset, FS_CardinalityType DEF LivesAssumption
<1>2. ASSUME s[p] = NULL
      PROVE  Cardinality({x \in Posters : [s EXCEPT ![p] = tab][x] = tab}) = Cardinality(A) + 1
  <2>1. {x \in Posters : [s EXCEPT ![p] = tab][x] = tab} = A \cup {p} /\ p \notin A
    BY <1>1, <1>2
  <2> QED BY <1>1, <2>1, FS_AddElement
<1>3. Cardinality(A) <= Cardinality({x \in Posters : [s EXCEPT ![p] = NULL][x] = tab}) + 1
  <2>1. {x \in Posters : [s EXCEPT ![p] = NULL][x] = tab} = A \ {p}
    BY <1>1
  <2>2. CASE p \in A
    BY <1>1, <2>1, <2>2, FS_RemoveElement
  <2>3. CASE p \notin A
    <3>1. A \ {p} = A
      BY <2>3
    <3> QED BY <1>1, <2>1, <3>1
  <2> QED BY <2>2, <2>3
<1> QED BY <1>1, <1>2, <1>3 DEF Signallers

\* The list is no longer than the table.
LEMMA ListFits ==
  ASSUME LivesAssumption, NEW r, r \in QueueLives, NEW out, NodesApart(r, out), r.tab # NULL
  PROVE  /\ ToSet(r.list) \subseteq QL!NodesOf(r.tab)
         /\ IsFiniteSet(QL!NodesOf(r.tab)) /\ Cardinality(QL!NodesOf(r.tab)) = Size + 1
         /\ IsFiniteSet(ToSet(r.list)) /\ Cardinality(ToSet(r.list)) = Len(r.list)
         /\ Len(r.list) <= Size + 1
<1>1. r.tab \in Nat /\ r.list \in Seq(TableNodes) /\ Size \in Nat
  BY DEF QueueLives, LivesAssumption
<1>2. ToSet(r.list) \subseteq QL!NodesOf(r.tab)
  BY DEF NodesApart
<1>3. IsFiniteSet(1 .. Size + 1) /\ Cardinality(1 .. Size + 1) = Size + 1
  <2>1. PICK n \in Nat : n = Size + 1
    BY <1>1
  <2>2. IsFiniteSet(1 .. n) /\ Cardinality(1 .. n) = n
    BY <2>1, FS_Interval
  <2> QED BY <2>1, <2>2
<1>4. IsFiniteSet({r.tab}) /\ Cardinality({r.tab}) = 1
  BY FS_Singleton
<1>5. IsFiniteSet(QL!NodesOf(r.tab)) /\ Cardinality(QL!NodesOf(r.tab)) = 1 * (Size + 1)
  <2> DEFINE one == {r.tab}
             some == 1 .. Size + 1
  <2>1. IsFiniteSet(one) /\ Cardinality(one) = 1 /\ IsFiniteSet(some) /\ Cardinality(some) = Size + 1
    BY <1>3, <1>4
  <2>2. QL!NodesOf(r.tab) = one \X some
    BY DEF QL!NodesOf
  <2> HIDE DEF one, some
  <2>3. IsFiniteSet(one \X some) /\ Cardinality(one \X some) = Cardinality(one) * Cardinality(some)
    BY <2>1, FS_Product
  <2> QED BY <2>1, <2>2, <2>3
<1>6. IsFiniteSet(ToSet(r.list)) /\ Cardinality(ToSet(r.list)) = Len(r.list)
  BY <1>1, InjectiveLength DEF NodesApart
<1>7. Cardinality(ToSet(r.list)) <= Cardinality(QL!NodesOf(r.tab))
  BY <1>2, <1>5, FS_Subset
<1> QED BY <1>1, <1>2, <1>5, <1>6, <1>7

LEMMA QlInit ==
  ASSUME LivesAssumption, QL!Init
  PROVE  QlInv
<1>1. q = [life |-> 0, owner |-> "none", tab |-> NULL, list |-> <<>>, urgents |-> 0,
           free |-> {}, current |-> NULL, heap |-> {}, tokens |-> 0,
           lock |-> NULL, displaced |-> NULL, signals |-> [p \in Posters |-> NULL],
           count |-> 0, peak |-> 0, total |-> 0, posted |-> 0, fault |-> FALSE,
           leak |-> FALSE]
  BY DEF QL!Init
<1>2. <<>> \in Seq(TableNodes) /\ IsInjective(<<>>) /\ ToSet(<<>>) = {} /\ Len(<<>>) = 0
  BY DEF IsInjective, ToSet
<1>3. q \in QueueLives
  BY <1>1, <1>2 DEF QueueLives
<1>4. NodesApart(q, {}) /\ HandsAgree(q) /\ CountsOf(q) /\ Announced(q)
  BY <1>1, <1>2 DEF NodesApart, HandsAgree, CountsOf, Announced, InHands
<1> QED BY <1>3, <1>4 DEF QlInv, QueueKeeps

\* What is known of a queue.
LEMMA QueueIs ==
  ASSUME LivesAssumption, NEW r, NEW out, QueueKeeps(r, out)
  PROVE  /\ r \in QueueLives /\ r.life \in Nat /\ r.tab \in Nat \cup {NULL}
         /\ r.list \in Seq(TableNodes) /\ IsInjective(r.list) /\ Len(r.list) \in Nat
         /\ ToSet(r.list) \subseteq TableNodes /\ r.urgents \in Nat /\ r.urgents <= Len(r.list)
         /\ r.tokens \in Nat /\ r.count \in Nat /\ r.peak \in Nat /\ r.total \in Nat
         /\ r.posted \in Nat /\ r.signals \in [Posters -> Nat \cup {NULL}]
         /\ r.current \in TableNodes \cup {NULL} /\ r.displaced \in Displacements \cup {NULL}
         /\ r.free \in SUBSET TableNodes /\ r.heap \in SUBSET TableNodes
         /\ r.lock \in Posters \cup {NULL}
         /\ r.tab # NULL => Cardinality(StillToSignal(r)) \in Nat
<1>1. /\ r \in QueueLives /\ NodesApart(r, out)
  BY DEF QueueKeeps
<1>2. /\ r.life \in Nat /\ r.tab \in Nat \cup {NULL} /\ r.list \in Seq(TableNodes)
      /\ r.urgents \in Nat /\ r.tokens \in Nat /\ r.count \in Nat /\ r.peak \in Nat
      /\ r.total \in Nat /\ r.posted \in Nat /\ r.signals \in [Posters -> Nat \cup {NULL}]
      /\ r.current \in TableNodes \cup {NULL} /\ r.displaced \in Displacements \cup {NULL}
      /\ r.free \in SUBSET TableNodes /\ r.heap \in SUBSET TableNodes
      /\ r.lock \in Posters \cup {NULL}
  BY <1>1 DEF QueueLives
<1>3. IsInjective(r.list) /\ r.urgents <= Len(r.list)
  BY <1>1 DEF NodesApart
<1>4. Len(r.list) \in Nat /\ ToSet(r.list) \subseteq TableNodes
  BY <1>2 DEF ToSet
<1>5. StillToSignal(r) \subseteq Posters /\ IsFiniteSet(Posters)
  BY DEF StillToSignal, LivesAssumption
<1>6. Cardinality(StillToSignal(r)) \in Nat
  BY <1>5, FS_Subset, FS_CardinalityType
<1> QED BY <1>1, <1>2, <1>3, <1>4, <1>6

LEMMA QlStartThread ==
  ASSUME LivesAssumption, QlInv, QL!StartThread
  PROVE  QlInv'
<1>1. /\ q' = [q EXCEPT !.life = q.life + 1, !.owner = "idle"] /\ q.owner = "none"
      /\ q \in QueueLives /\ q.life + 1 \in Nat /\ QueueKeeps(q, {})
  BY QueueIs DEF QL!StartThread, QlInv
<1>2. /\ q' \in QueueLives /\ q'.life = q.life + 1 /\ q'.owner = "idle" /\ q'.tab = q.tab
      /\ q'.list = q.list /\ q'.urgents = q.urgents /\ q'.free = q.free
      /\ q'.current = q.current /\ q'.heap = q.heap /\ q'.tokens = q.tokens
      /\ q'.lock = q.lock /\ q'.displaced = q.displaced /\ q'.signals = q.signals
      /\ q'.count = q.count /\ q'.peak = q.peak /\ q'.total = q.total /\ q'.posted = q.posted
  BY ONLY <1>1 DEF QueueLives
<1>3. q.tab = NULL
  BY <1>1 DEF QueueKeeps, HandsAgree
<1> QED
  BY <1>1, <1>2, <1>3 DEF QlInv, QueueKeeps, NodesApart, HandsAgree, CountsOf, Announced,
                          InHands, StillToSignal

LEMMA QlCreate ==
  ASSUME LivesAssumption, QlInv, QL!SAL_I_Create_Message_Queue
  PROVE  QlInv'
<1>1. /\ q' = [q EXCEPT !.tab = q.life, !.list = <<>>, !.urgents = 0,
                        !.free = QL!NodesOf(q.life), !.tokens = 0, !.count = 0, !.peak = 0,
                        !.total = 0]
      /\ q.owner = "idle" /\ q.tab = NULL /\ q.lock = NULL
      /\ q \in QueueLives /\ q.life \in Nat /\ q.posted \in Nat /\ QueueKeeps(q, {})
  BY QueueIs DEF QL!SAL_I_Create_Message_Queue, QL!Unlocked, QlInv
<1>2. QL!NodesOf(q.life) \in SUBSET TableNodes
  BY <1>1 DEF QL!NodesOf, TableNodes
<1>3. <<>> \in Seq(TableNodes) /\ IsInjective(<<>>) /\ ToSet(<<>>) = {} /\ Len(<<>>) = 0
  BY DEF IsInjective, ToSet
<1>4. /\ q' \in QueueLives /\ q'.life = q.life /\ q'.owner = "idle" /\ q'.tab = q.life
      /\ q'.list = <<>> /\ q'.urgents = 0 /\ q'.free = QL!NodesOf(q.life)
      /\ q'.current = q.current /\ q'.heap = q.heap /\ q'.tokens = 0
      /\ q'.lock = q.lock /\ q'.displaced = q.displaced /\ q'.signals = q.signals
      /\ q'.count = 0 /\ q'.peak = 0 /\ q'.total = 0 /\ q'.posted = q.posted
  BY ONLY <1>1, <1>2, <1>3 DEF QueueLives
<1>5. q.life # NULL
  BY <1>1 DEF LivesAssumption
<1>6. /\ InHands(q) = {} /\ q.heap = {} /\ q.displaced = NULL /\ q.current = NULL
      /\ InHands(q') = {}
  <2>1. ToSet(q.list) \cup InHands(q) = {} /\ q.displaced = NULL
    BY <1>1 DEF QueueKeeps, NodesApart, HandsAgree
  <2> QED BY <1>1, <1>4, <2>1 DEF QueueKeeps, NodesApart, InHands
<1>7. NodesApart(q', {})
  BY <1>3, <1>4, <1>5, <1>6 DEF NodesApart
<1>8. HandsAgree(q')
  BY <1>1, <1>4, <1>6 DEF HandsAgree, QueueKeeps
<1>9. CountsOf(q') /\ Announced(q')
  <2>1. StillToSignal(q') \subseteq Posters /\ IsFiniteSet(Posters) /\ Size \in Nat
    BY DEF StillToSignal, LivesAssumption
  <2>2. Cardinality(StillToSignal(q')) \in Nat
    BY <2>1, FS_Subset, FS_CardinalityType
  <2> QED BY <1>1, <1>3, <1>4, <2>1, <2>2 DEF CountsOf, Announced
<1> QED BY <1>4, <1>7, <1>8, <1>9 DEF QlInv, QueueKeeps

\* The current message is released.
LEMMA QlReleased ==
  ASSUME LivesAssumption, QlInv, q.owner = "idle"
  PROVE  /\ QueueKeeps(QL!Released, {}) /\ QL!Released.current = NULL
         /\ QL!Released.tab = q.tab /\ QL!Released.owner = "idle" /\ QL!Released.life = q.life
<1> DEFINE r == QL!Released
<1>1. q \in QueueLives /\ QueueKeeps(q, {}) /\ q.current \in TableNodes \cup {NULL}
      /\ q.free \in SUBSET TableNodes /\ q.heap \in SUBSET TableNodes
  BY QueueIs DEF QlInv
<1>2. CASE q.current = NULL
  BY <1>1, <1>2 DEF QL!Released, QlInv
<1>3. CASE q.current # NULL
  <2> DEFINE n == q.current
             fewer == q.heap \ {n}
             more == q.free \cup {n}
  <2>1. /\ r = [q EXCEPT !.heap = fewer, !.free = more, !.current = NULL]
        /\ n \in TableNodes /\ fewer \in SUBSET TableNodes /\ more \in SUBSET TableNodes
    BY <1>1, <1>3 DEF QL!Released
  <2> HIDE DEF r, fewer, more, n
  <2>2. /\ r \in QueueLives /\ r.life = q.life /\ r.owner = q.owner /\ r.tab = q.tab
        /\ r.list = q.list /\ r.urgents = q.urgents /\ r.free = more
        /\ r.current = NULL /\ r.heap = fewer /\ r.tokens = q.tokens
        /\ r.lock = q.lock /\ r.displaced = q.displaced /\ r.signals = q.signals
        /\ r.count = q.count /\ r.peak = q.peak /\ r.total = q.total /\ r.posted = q.posted
    BY ONLY <1>1, <2>1 DEF QueueLives
  <2>3. NodesApart(q, {}) /\ HandsAgree(q) /\ CountsOf(q) /\ Announced(q)
    BY <1>1 DEF QueueKeeps
  <2>4. /\ InHands(q) = InHands(r) \cup {n} /\ n \notin InHands(r) /\ n \notin ToSet(q.list)
        /\ n = q.current
    BY <1>3, <2>1, <2>2, <2>3 DEF InHands, NodesApart, n
  <2>5. NodesApart(r, {})
    <3>1. more = q.free \cup {n} /\ fewer = q.heap \ {n}
      BY DEF more, fewer
    <3>2. /\ IsInjective(r.list) /\ r.urgents <= Len(r.list)
          /\ ToSet(r.list) \cap InHands(r) = {}
          /\ (ToSet(r.list) \cup InHands(r)) \cap r.free = {}
          /\ r.displaced # NULL => r.displaced.node # r.current
      <4>1. n \in TableNodes /\ NULL \notin TableNodes
        BY <2>1 DEF LivesAssumption
      <4>2. r.displaced # NULL => r.displaced.node # NULL
        BY <2>2, <1>1, <4>1 DEF QueueLives, Displacements
      <4> QED BY <2>2, <2>3, <2>4, <3>1, <4>2 DEF NodesApart
    <3>3. ToSet(r.list) \cup InHands(r) \cup r.free \cup {}
            = IF r.tab = NULL THEN {} ELSE QL!NodesOf(r.tab)
      BY <2>2, <2>3, <2>4, <3>1 DEF NodesApart
    <3>4. r.heap \subseteq ToSet(r.list) \cup (InHands(r) \cap {r.current})
      BY <2>2, <2>3, <2>4, <3>1 DEF NodesApart
    <3> QED BY <3>2, <3>3, <3>4 DEF NodesApart
  <2>6. HandsAgree(r) /\ CountsOf(r) /\ Announced(r)
    BY <2>2, <2>3 DEF HandsAgree, CountsOf, Announced, StillToSignal
  <2> QED BY <2>2, <2>5, <2>6 DEF QueueKeeps, r
<1> QED BY <1>2, <1>3

LEMMA QlReceiveFrom ==
  ASSUME LivesAssumption, QlInv, QL!SAL_I_Receive_From
  PROVE  QlInv'
<1> DEFINE r == QL!Released
<1>1. /\ q.owner = "idle" /\ q.tab # NULL /\ q' = [r EXCEPT !.owner = "waits"]
      /\ QueueKeeps(r, {}) /\ r.current = NULL /\ r.tab = q.tab /\ r.owner = "idle"
  BY QlReleased DEF QL!SAL_I_Receive_From
<1> HIDE DEF r
<1>2. r \in QueueLives
  BY <1>1 DEF QueueKeeps
<1>3. /\ q' \in QueueLives /\ q'.life = r.life /\ q'.owner = "waits" /\ q'.tab = r.tab
      /\ q'.list = r.list /\ q'.urgents = r.urgents /\ q'.free = r.free
      /\ q'.current = r.current /\ q'.heap = r.heap /\ q'.tokens = r.tokens
      /\ q'.lock = r.lock /\ q'.displaced = r.displaced /\ q'.signals = r.signals
      /\ q'.count = r.count /\ q'.peak = r.peak /\ q'.total = r.total /\ q'.posted = r.posted
  BY ONLY <1>1, <1>2 DEF QueueLives
<1>4. NodesApart(r, {}) /\ HandsAgree(r) /\ CountsOf(r) /\ Announced(r)
  BY <1>1 DEF QueueKeeps
<1>5. NodesApart(q', {})
  BY <1>3, <1>4 DEF NodesApart, InHands
<1>6. HandsAgree(q')
  BY <1>1, <1>3, <1>4 DEF HandsAgree
<1>7. CountsOf(q') /\ Announced(q')
  BY <1>1, <1>3, <1>4 DEF CountsOf, Announced, StillToSignal
<1> QED
  BY <1>3, <1>5, <1>6, <1>7 DEF QlInv, QueueKeeps

LEMMA QlEndThread ==
  ASSUME LivesAssumption, QlInv, QL!EndThread
  PROVE  QlInv'
<1> DEFINE r == QL!Released
<1>1. /\ q.owner = "idle" /\ q' = [r EXCEPT !.owner = "ends"]
      /\ QueueKeeps(r, {}) /\ r.current = NULL /\ r.tab = q.tab /\ r.owner = "idle"
  BY QlReleased DEF QL!EndThread
<1> HIDE DEF r
<1>2. r \in QueueLives
  BY <1>1 DEF QueueKeeps
<1>3. /\ q' \in QueueLives /\ q'.life = r.life /\ q'.owner = "ends" /\ q'.tab = r.tab
      /\ q'.list = r.list /\ q'.urgents = r.urgents /\ q'.free = r.free
      /\ q'.current = r.current /\ q'.heap = r.heap /\ q'.tokens = r.tokens
      /\ q'.lock = r.lock /\ q'.displaced = r.displaced /\ q'.signals = r.signals
      /\ q'.count = r.count /\ q'.peak = r.peak /\ q'.total = r.total /\ q'.posted = r.posted
  BY ONLY <1>1, <1>2 DEF QueueLives
<1>4. NodesApart(r, {}) /\ HandsAgree(r) /\ CountsOf(r) /\ Announced(r)
  BY <1>1 DEF QueueKeeps
<1>5. NodesApart(q', {})
  BY <1>3, <1>4 DEF NodesApart, InHands
<1>6. HandsAgree(q')
  BY <1>1, <1>3, <1>4 DEF HandsAgree
<1>7. CountsOf(q') /\ Announced(q')
  BY <1>1, <1>3, <1>4 DEF CountsOf, Announced, StillToSignal
<1> QED
  BY <1>3, <1>5, <1>6, <1>7 DEF QlInv, QueueKeeps

LEMMA QlWaitToken ==
  ASSUME LivesAssumption, QlInv, QL!WaitToken
  PROVE  QlInv'
<1>1. /\ q.owner = "waits" /\ q.tokens > 0 /\ q' = [q EXCEPT !.tokens = q.tokens - 1, !.owner = "took"]
      /\ q \in QueueLives /\ q.tokens \in Nat /\ QueueKeeps(q, {})
      /\ (q.tab # NULL => Cardinality(StillToSignal(q)) \in Nat) /\ Len(q.list) \in Nat
  BY QueueIs DEF QL!WaitToken, QlInv
<1>2. PICK left \in Nat : left = q.tokens - 1
  BY <1>1
<1>3. /\ q' \in QueueLives /\ q'.life = q.life /\ q'.owner = "took" /\ q'.tab = q.tab
      /\ q'.list = q.list /\ q'.urgents = q.urgents /\ q'.free = q.free
      /\ q'.current = q.current /\ q'.heap = q.heap /\ q'.tokens = left
      /\ q'.lock = q.lock /\ q'.displaced = q.displaced /\ q'.signals = q.signals
      /\ q'.count = q.count /\ q'.peak = q.peak /\ q'.total = q.total /\ q'.posted = q.posted
  BY ONLY <1>1, <1>2 DEF QueueLives
<1>4. NodesApart(q', {}) /\ HandsAgree(q') /\ CountsOf(q')
  BY <1>1, <1>3 DEF QueueKeeps, NodesApart, HandsAgree, CountsOf, InHands
<1>5. Announced(q')
  <2>1. StillToSignal(q') = StillToSignal(q) /\ Announced(q)
    BY <1>1, <1>3 DEF StillToSignal, QueueKeeps
  <2>2. q.tab # NULL => Len(q.list) + (IF q.lock = NULL THEN 0 ELSE 1)
                           <= q.tokens + Cardinality(StillToSignal(q)) + 0
    BY <1>1, <2>1 DEF Announced
  <2>3. q.tab # NULL => q.tokens + Cardinality(StillToSignal(q)) + 0
                           = left + Cardinality(StillToSignal(q)) + 1
    BY <1>1, <1>2
  <2> QED BY <1>3, <2>1, <2>2, <2>3 DEF Announced
<1> QED
  BY <1>3, <1>4, <1>5 DEF QlInv, QueueKeeps

LEMMA QlPend ==
  ASSUME LivesAssumption, QlInv, QL!SAL_I_Pend_Message
  PROVE  QlInv'
<1>1. /\ q.lock = NULL /\ q.owner = "took" /\ q \in QueueLives /\ QueueKeeps(q, {})
      /\ q.list \in Seq(TableNodes) /\ IsInjective(q.list) /\ q.count \in Nat
      /\ q.urgents \in Nat /\ q.urgents <= Len(q.list) /\ Len(q.list) \in Nat
      /\ q.tokens \in Nat /\ q.peak \in Nat
      /\ (q.tab # NULL => Cardinality(StillToSignal(q)) \in Nat)
  BY QueueIs DEF QL!SAL_I_Pend_Message, QL!Unlocked, QlInv
<1>2. /\ NodesApart(q, {}) /\ HandsAgree(q) /\ CountsOf(q) /\ Announced(q)
      /\ q.tab # NULL /\ q.current = NULL /\ q.displaced = NULL /\ InHands(q) = {}
  BY <1>1 DEF QueueKeeps, HandsAgree, InHands
<1>3. CASE q.list = <<>>
  <2>1. q' = [q EXCEPT !.owner = "waits"]
    BY <1>3 DEF QL!SAL_I_Pend_Message
  <2>2. /\ q' \in QueueLives /\ q'.life = q.life /\ q'.owner = "waits" /\ q'.tab = q.tab
        /\ q'.list = q.list /\ q'.urgents = q.urgents /\ q'.free = q.free
        /\ q'.current = q.current /\ q'.heap = q.heap /\ q'.tokens = q.tokens
        /\ q'.lock = q.lock /\ q'.displaced = q.displaced /\ q'.signals = q.signals
        /\ q'.count = q.count /\ q'.peak = q.peak /\ q'.total = q.total /\ q'.posted = q.posted
    BY ONLY <1>1, <2>1 DEF QueueLives
  <2>3. NodesApart(q', {}) /\ HandsAgree(q') /\ CountsOf(q')
    BY <1>2, <2>2 DEF NodesApart, HandsAgree, CountsOf, InHands
  <2>4. Announced(q')
    <3>1. StillToSignal(q') = StillToSignal(q) /\ Len(q.list) = 0
      BY <1>3, <2>2 DEF StillToSignal
    <3> QED BY <1>1, <1>2, <2>2, <3>1 DEF Announced
  <2> QED BY <2>2, <2>3, <2>4 DEF QlInv, QueueKeeps
<1>4. CASE q.list # <<>>
  <2> DEFINE n == Head(q.list)
             others == Tail(q.list)
  <2>1. /\ others \in Seq(TableNodes) /\ n \in TableNodes /\ n \in ToSet(q.list)
        /\ IsInjective(others) /\ ToSet(others) = ToSet(q.list) \ {n}
        /\ Len(others) = Len(q.list) - 1
    BY <1>1, <1>4, TailOf
  <2>2. q.count = Len(q.list) /\ Len(q.list) > 0 /\ n # NULL
    BY <1>1, <1>2, <1>4, <2>1 DEF CountsOf, LivesAssumption
  <2>3. PICK fewer \in Nat : fewer = q.count - 1
    BY <1>1, <2>2
  <2>4. PICK urgent \in Nat : urgent = (IF q.urgents > 0 THEN q.urgents - 1 ELSE 0)
    BY <1>1
  <2>5. q' = [q EXCEPT !.current = n, !.list = others, !.count = fewer,
                       !.urgents = urgent, !.owner = "idle"]
    BY <1>4, <2>3, <2>4 DEF QL!SAL_I_Pend_Message
  <2> HIDE DEF n, others
  <2>6. /\ q' \in QueueLives /\ q'.life = q.life /\ q'.owner = "idle" /\ q'.tab = q.tab
        /\ q'.list = others /\ q'.urgents = urgent /\ q'.free = q.free
        /\ q'.current = n /\ q'.heap = q.heap /\ q'.tokens = q.tokens
        /\ q'.lock = q.lock /\ q'.displaced = q.displaced /\ q'.signals = q.signals
        /\ q'.count = fewer /\ q'.peak = q.peak /\ q'.total = q.total /\ q'.posted = q.posted
    <3>1. /\ q \in QueueLives /\ n \in TableNodes /\ others \in Seq(TableNodes)
          /\ fewer \in Nat /\ urgent \in Nat
      BY <1>1, <2>1, <2>3, <2>4
    <3> QED BY ONLY <2>5, <3>1 DEF QueueLives
  <2>7. InHands(q') = {n}
    BY <1>2, <2>2, <2>6 DEF InHands
  <2>8. NodesApart(q', {})
    <3>1. urgent <= Len(others)
      BY <1>1, <2>1, <2>2, <2>4
    <3> QED BY <1>2, <2>1, <2>6, <2>7, <3>1 DEF NodesApart
  <2>9. HandsAgree(q')
    BY <1>2, <2>6 DEF HandsAgree
  <2>10. CountsOf(q')
    <3>1. q.peak \in q.count .. Size + 1 /\ q.total >= q.peak /\ q.total <= q.posted
      BY <1>2 DEF CountsOf
    <3>2. Size \in Nat
      BY DEF LivesAssumption
    <3> QED BY <1>1, <2>1, <2>2, <2>3, <2>6, <3>1, <3>2 DEF CountsOf
  <2>11. Announced(q')
    <3>1. StillToSignal(q') = StillToSignal(q)
      BY <2>6 DEF StillToSignal
    <3> QED BY <1>1, <1>2, <2>1, <2>6, <3>1 DEF Announced
  <2> QED BY <2>6, <2>8, <2>9, <2>10, <2>11 DEF QlInv, QueueKeeps
<1> QED BY <1>3, <1>4

LEMMA QlDestroy ==
  ASSUME LivesAssumption, QlInv, QL!SAL_I_Destroy_Message_Queue
  PROVE  QlInv'
<1>1. /\ q.lock = NULL /\ q.owner = "ends" /\ q \in QueueLives /\ QueueKeeps(q, {})
      /\ q.heap \in SUBSET TableNodes
  BY QueueIs DEF QL!SAL_I_Destroy_Message_Queue, QL!Unlocked, QlInv
<1>2. /\ NodesApart(q, {}) /\ HandsAgree(q) /\ CountsOf(q) /\ Announced(q)
      /\ q.current = NULL /\ q.displaced = NULL /\ InHands(q) = {}
      /\ q.heap \ ToSet(q.list) = {}
  BY <1>1 DEF QueueKeeps, HandsAgree, InHands, NodesApart
<1>3. CASE q.tab = NULL
  <2>1. q' = [q EXCEPT !.owner = "none"]
    BY <1>3 DEF QL!SAL_I_Destroy_Message_Queue
  <2>2. /\ q' \in QueueLives /\ q'.life = q.life /\ q'.owner = "none" /\ q'.tab = q.tab
        /\ q'.list = q.list /\ q'.urgents = q.urgents /\ q'.free = q.free
        /\ q'.current = q.current /\ q'.heap = q.heap /\ q'.tokens = q.tokens
        /\ q'.lock = q.lock /\ q'.displaced = q.displaced /\ q'.signals = q.signals
        /\ q'.count = q.count /\ q'.peak = q.peak /\ q'.total = q.total /\ q'.posted = q.posted
    BY ONLY <1>1, <2>1 DEF QueueLives
  <2> QED BY <1>2, <1>3, <2>2 DEF QlInv, QueueKeeps, NodesApart, HandsAgree, CountsOf,
                                  Announced, InHands
<1>4. CASE q.tab # NULL
  <2>1. <<>> \in Seq(TableNodes) /\ IsInjective(<<>>) /\ ToSet(<<>>) = {} /\ Len(<<>>) = 0
    BY DEF IsInjective, ToSet
  <2>2. q' = [q EXCEPT !.owner = "none", !.heap = {}, !.list = <<>>,
                       !.urgents = 0, !.tab = NULL, !.free = {}, !.tokens = 0]
    BY <1>2, <1>4, SameInQueueLife DEF QL!SAL_I_Destroy_Message_Queue
  <2>3. /\ q' \in QueueLives /\ q'.life = q.life /\ q'.owner = "none" /\ q'.tab = NULL
        /\ q'.list = <<>> /\ q'.urgents = 0 /\ q'.free = {}
        /\ q'.current = q.current /\ q'.heap = {}
        /\ q'.lock = q.lock /\ q'.displaced = q.displaced
    BY ONLY <1>1, <2>1, <2>2 DEF QueueLives
  <2>4. InHands(q') = {}
    BY <1>2, <2>3 DEF InHands
  <2> QED BY <1>1, <1>2, <2>1, <2>3, <2>4
             DEF QlInv, QueueKeeps, NodesApart, HandsAgree, CountsOf, Announced
<1> QED BY <1>3, <1>4

\* A node that is at no place is linked into the queue, and signalled.
LinkedAs(r, node, urgent, big, tokens, signals) ==
  [r EXCEPT !.list = InsertAt(@, IF urgent THEN r.urgents + 1 ELSE Len(@) + 1, node),
            !.urgents = IF urgent THEN @ + 1 ELSE @,
            !.heap = IF big THEN @ \cup {node} ELSE @,
            !.count = @ + 1, !.total = @ + 1, !.posted = @ + 1,
            !.peak = IF r.count + 1 > @ THEN r.count + 1 ELSE @,
            !.tokens = tokens, !.signals = signals]

LEMMA LinkKeeps ==
  ASSUME LivesAssumption, NEW r, NEW node \in TableNodes, QueueKeeps(r, {node}),
         r.tab # NULL, r.lock = NULL,
         NEW urgent \in BOOLEAN, NEW big \in BOOLEAN, NEW tokens \in Nat,
         NEW signals \in [Posters -> Nat \cup {NULL}],
         tokens + Cardinality({x \in Posters : signals[x] = r.tab})
           = r.tokens + Cardinality(StillToSignal(r)) + 1
  PROVE  QueueKeeps(LinkedAs(r, node, urgent, big, tokens, signals), {})
<1> DEFINE place == IF urgent THEN r.urgents + 1 ELSE Len(r.list) + 1
           list == InsertAt(r.list, place, node)
           n == LinkedAs(r, node, urgent, big, tokens, signals)
           heaped == IF big THEN r.heap \cup {node} ELSE r.heap
           first == IF urgent THEN r.urgents + 1 ELSE r.urgents
           peak == IF r.count + 1 > r.peak THEN r.count + 1 ELSE r.peak
<1>1. /\ r \in QueueLives /\ r.list \in Seq(TableNodes) /\ IsInjective(r.list)
      /\ Len(r.list) \in Nat /\ r.urgents \in Nat /\ r.urgents <= Len(r.list)
      /\ r.count \in Nat /\ r.peak \in Nat /\ r.total \in Nat /\ r.posted \in Nat
      /\ r.tokens \in Nat /\ r.heap \in SUBSET TableNodes
      /\ Cardinality(StillToSignal(r)) \in Nat
  BY QueueIs
<1>2. NodesApart(r, {node}) /\ HandsAgree(r) /\ CountsOf(r) /\ Announced(r)
  BY DEF QueueKeeps
<1>3. node \notin ToSet(r.list) \cup InHands(r) \cup r.free
  BY <1>2 DEF NodesApart
<1>4. /\ place \in Nat /\ 1 <= place /\ place <= Len(r.list) + 1
      /\ first \in Nat /\ first <= Len(r.list) + 1
  <2>1. CASE urgent
    <3>1. place = r.urgents + 1 /\ first = r.urgents + 1
      BY <2>1, Zenon
    <3> HIDE DEF place, first
    <3> QED BY <1>1, <3>1
  <2>2. CASE ~ urgent
    <3>1. place = Len(r.list) + 1 /\ first = r.urgents
      BY <2>2, Zenon
    <3> HIDE DEF place, first
    <3> QED BY <1>1, <3>1
  <2> QED BY <2>1, <2>2
<1>5. /\ list \in Seq(TableNodes) /\ Len(list) = Len(r.list) + 1 /\ IsInjective(list)
      /\ ToSet(list) = ToSet(r.list) \cup {node}
  <2>1. Range(r.list) = ToSet(r.list)
    BY DEF Range, ToSet
  <2>2. node \notin Range(r.list)
    BY <1>3, <2>1
  <2> HIDE DEF place
  <2>5. place \in 1 .. Len(r.list) + 1
    BY <1>1, <1>4
  <2>3. /\ InsertAt(r.list, place, node) \in Seq(TableNodes)
        /\ Len(InsertAt(r.list, place, node)) = Len(r.list) + 1
        /\ Range(InsertAt(r.list, place, node)) = Range(r.list) \cup {node}
        /\ IsInjective(InsertAt(r.list, place, node))
    BY <1>1, <2>5, <2>2, InsertAtProperties
  <2>4. Range(list) = ToSet(list)
    BY DEF Range, ToSet
  <2> QED BY <2>1, <2>3, <2>4
<1>6. /\ heaped \in SUBSET TableNodes /\ peak \in Nat
      /\ r.count + 1 \in Nat /\ r.total + 1 \in Nat /\ r.posted + 1 \in Nat
      /\ peak >= r.count + 1 /\ (peak = r.peak \/ peak = r.count + 1)
      /\ heaped \subseteq r.heap \cup {node}
  <2>1. heaped \in SUBSET TableNodes /\ heaped \subseteq r.heap \cup {node}
    <3>1. CASE big
      <4>1. heaped = r.heap \cup {node}
        BY <3>1, Zenon
      <4> QED BY <1>1, <4>1
    <3>2. CASE ~ big
      <4>1. heaped = r.heap
        BY <3>2, Zenon
      <4> QED BY <1>1, <4>1
    <3> QED BY <3>1, <3>2
  <2>2. peak \in Nat /\ peak >= r.count + 1 /\ (peak = r.peak \/ peak = r.count + 1)
    BY <1>1, SMTT(40)
  <2> HIDE DEF heaped, peak
  <2>3. r.count + 1 \in Nat /\ r.total + 1 \in Nat /\ r.posted + 1 \in Nat
    BY <1>1, SMTT(40)
  <2> QED BY ONLY <2>1, <2>2, <2>3
<1>7. n = [r EXCEPT !.list = list, !.urgents = first, !.heap = heaped,
                    !.count = r.count + 1, !.total = r.total + 1, !.posted = r.posted + 1,
                    !.peak = peak, !.tokens = tokens, !.signals = signals]
  BY DEF LinkedAs
<1>8. first <= Len(list)
  <2> HIDE DEF first, list
  <2> QED BY <1>4, <1>5
<1> HIDE DEF place, list, n, heaped, first, peak
<1>9. /\ n \in QueueLives /\ n.life = r.life /\ n.owner = r.owner /\ n.tab = r.tab
      /\ n.list = list /\ n.urgents = first /\ n.free = r.free
      /\ n.current = r.current /\ n.heap = heaped /\ n.tokens = tokens
      /\ n.lock = r.lock /\ n.displaced = r.displaced /\ n.signals = signals
      /\ n.count = r.count + 1 /\ n.peak = peak /\ n.total = r.total + 1
      /\ n.posted = r.posted + 1
  <2>1. /\ r \in QueueLives /\ list \in Seq(TableNodes) /\ tokens \in Nat
        /\ signals \in [Posters -> Nat \cup {NULL}]
    BY <1>1, <1>5
  <2>2. /\ heaped \in SUBSET TableNodes /\ first \in Nat /\ peak \in Nat
        /\ r.count + 1 \in Nat /\ r.total + 1 \in Nat /\ r.posted + 1 \in Nat
    BY <1>4, <1>6
  <2> QED BY ONLY <1>7, <2>1, <2>2 DEF QueueLives
<1>10. InHands(n) = InHands(r)
  BY <1>9 DEF InHands
<1>11. NodesApart(n, {})
  <2>1. /\ IsInjective(n.list) /\ n.urgents <= Len(n.list)
        /\ ToSet(n.list) \cap InHands(n) = {}
        /\ (ToSet(n.list) \cup InHands(n)) \cap n.free = {}
        /\ n.displaced # NULL => n.displaced.node # n.current
    BY <1>2, <1>3, <1>5, <1>8, <1>9, <1>10 DEF NodesApart
  <2>2. ToSet(n.list) \cup InHands(n) \cup n.free \cup {}
          = IF n.tab = NULL THEN {} ELSE QL!NodesOf(n.tab)
    BY <1>2, <1>5, <1>9, <1>10 DEF NodesApart
  <2>3. n.heap \subseteq ToSet(n.list) \cup (InHands(n) \cap {n.current})
    BY <1>2, <1>5, <1>6, <1>9, <1>10 DEF NodesApart
  <2> QED BY <2>1, <2>2, <2>3 DEF NodesApart
<1>12. HandsAgree(n)
  BY <1>2, <1>9 DEF HandsAgree
<1>13. CountsOf(n)
  <2>1. /\ r.count = Len(r.list) /\ r.peak \in r.count .. Size + 1
        /\ r.total >= r.peak /\ r.total <= r.posted
    BY <1>2 DEF CountsOf
  <2>2. Len(list) <= Size + 1 /\ Size \in Nat
    BY <1>9, <1>11, ListFits DEF LivesAssumption
  <2>3. /\ r.count + 1 = Len(list) /\ peak \in r.count + 1 .. Size + 1
        /\ r.total + 1 >= peak /\ r.total + 1 <= r.posted + 1
    <3>1. /\ r.count \in Nat /\ r.peak \in Nat /\ r.total \in Nat /\ r.posted \in Nat
          /\ Len(r.list) \in Nat /\ Len(list) = Len(r.list) + 1
      BY <1>1, <1>5
    <3>2. /\ peak \in Nat /\ peak >= r.count + 1 /\ (peak = r.peak \/ peak = r.count + 1)
      BY <1>6
    <3> QED BY ONLY <2>1, <2>2, <3>1, <3>2
  <2>4. /\ n.count = r.count + 1 /\ n.peak = peak /\ n.total = r.total + 1
        /\ n.posted = r.posted + 1 /\ n.list = list
    BY <1>9
  <2> QED BY ONLY <2>3, <2>4 DEF CountsOf
<1>14. Announced(n)
  <2>1. PICK c : c = Cardinality({x \in Posters : signals[x] = r.tab})
    OBVIOUS
  <2>2. PICK b : b = Cardinality(StillToSignal(r))
    OBVIOUS
  <2>3. PICK o \in Nat : o = (IF r.owner = "took" THEN 1 ELSE 0)
    OBVIOUS
  <2>4. c \in Nat /\ b \in Nat
    <3>1. {x \in Posters : signals[x] = r.tab} \subseteq Posters /\ IsFiniteSet(Posters)
      BY DEF LivesAssumption
    <3> QED BY <1>1, <2>1, <2>2, <3>1, FS_Subset, FS_CardinalityType
  <2>5. tokens + c = r.tokens + b + 1
    BY <2>1, <2>2
  <2>6. Len(r.list) + 0 <= r.tokens + b + o
    BY <1>2, <2>2, <2>3 DEF Announced
  <2>7. Len(list) + 0 <= tokens + c + o
    <3>1. Len(r.list) \in Nat /\ Len(list) = Len(r.list) + 1 /\ r.tokens \in Nat /\ tokens \in Nat
      BY <1>1, <1>5
    <3> QED BY ONLY <3>1, <2>3, <2>4, <2>5, <2>6
  <2>8. StillToSignal(n) = {x \in Posters : signals[x] = r.tab}
    BY <1>9 DEF StillToSignal
  <2>9. Len(n.list) + 0 <= n.tokens + Cardinality(StillToSignal(n)) + (IF n.owner = "took" THEN 1 ELSE 0)
    BY <1>9, <2>1, <2>3, <2>7, <2>8
  <2>10. n.lock = NULL
    BY <1>9
  <2> QED BY <2>9, <2>10 DEF Announced
<1> QED BY <1>9, <1>11, <1>12, <1>13, <1>14 DEF QueueKeeps, n

\* A node that is at no place becomes free, with or without its buffer.
LEMMA LostKeeps ==
  ASSUME LivesAssumption, NEW r, NEW node \in TableNodes, QueueKeeps(r, {node}), r.tab # NULL,
         NEW lost \in BOOLEAN
  PROVE  QueueKeeps([r EXCEPT !.free = @ \cup {node}, !.leak = lost], {})
<1> DEFINE more == r.free \cup {node}
           n == [r EXCEPT !.free = more, !.leak = lost]
<1>1. r \in QueueLives /\ more \in SUBSET TableNodes /\ lost \in BOOLEAN
  BY QueueIs
<1>2. NodesApart(r, {node}) /\ HandsAgree(r) /\ CountsOf(r) /\ Announced(r)
  BY DEF QueueKeeps
<1>3. node \notin ToSet(r.list) \cup InHands(r) /\ more = r.free \cup {node}
  BY <1>2 DEF NodesApart
<1> HIDE DEF more
<1>4. /\ n \in QueueLives /\ n.life = r.life /\ n.owner = r.owner /\ n.tab = r.tab
      /\ n.list = r.list /\ n.urgents = r.urgents /\ n.free = more
      /\ n.current = r.current /\ n.heap = r.heap /\ n.tokens = r.tokens
      /\ n.lock = r.lock /\ n.displaced = r.displaced /\ n.signals = r.signals
      /\ n.count = r.count /\ n.peak = r.peak /\ n.total = r.total /\ n.posted = r.posted
  BY ONLY <1>1 DEF QueueLives
<1> HIDE DEF n
<1>5. InHands(n) = InHands(r) /\ StillToSignal(n) = StillToSignal(r)
  BY <1>4 DEF InHands, StillToSignal
<1>6. NodesApart(n, {})
  BY <1>2, <1>3, <1>4, <1>5 DEF NodesApart
<1>7. HandsAgree(n) /\ CountsOf(n) /\ Announced(n)
  BY <1>2, <1>4, <1>5 DEF HandsAgree, CountsOf, Announced
<1> QED BY <1>4, <1>6, <1>7 DEF QueueKeeps, n, more

LEMMA FreeKeeps ==
  ASSUME LivesAssumption, NEW r, NEW node \in TableNodes, QueueKeeps(r, {node}), r.tab # NULL
  PROVE  QueueKeeps([r EXCEPT !.free = @ \cup {node}], {})
<1>1. r \in QueueLives /\ r.leak \in BOOLEAN
  BY DEF QueueKeeps, QueueLives
<1>2. [r EXCEPT !.free = @ \cup {node}, !.leak = r.leak] = [r EXCEPT !.free = @ \cup {node}]
  BY ONLY <1>1 DEF QueueLives
<1>3. QueueKeeps([r EXCEPT !.free = @ \cup {node}, !.leak = r.leak], {})
  BY <1>1, LostKeeps
<1> QED BY <1>2, <1>3

\* A free node is taken.
LEMMA TakeKeeps ==
  ASSUME LivesAssumption, QlInv, q.free # {}
  PROVE  /\ QL!AnyFree \in q.free /\ QL!AnyFree \in TableNodes /\ q.tab # NULL
         /\ QueueKeeps([q EXCEPT !.free = @ \ {QL!AnyFree}], {QL!AnyFree})
<1> DEFINE node == QL!AnyFree
           fewer == q.free \ {node}
           n == [q EXCEPT !.free = fewer]
<1>1. q \in QueueLives /\ q.free \in SUBSET TableNodes /\ QueueKeeps(q, {})
  BY QueueIs DEF QlInv
<1>2. NodesApart(q, {}) /\ HandsAgree(q) /\ CountsOf(q) /\ Announced(q)
  BY <1>1 DEF QueueKeeps
<1>3. node \in q.free /\ node \in TableNodes
  BY <1>1 DEF QL!AnyFree
<1>4. q.tab # NULL
  BY <1>2, <1>3 DEF NodesApart
<1>5. fewer \in SUBSET TableNodes /\ fewer = q.free \ {node}
  BY <1>1
<1> HIDE DEF fewer, node
<1>6. /\ n \in QueueLives /\ n.life = q.life /\ n.owner = q.owner /\ n.tab = q.tab
      /\ n.list = q.list /\ n.urgents = q.urgents /\ n.free = fewer
      /\ n.current = q.current /\ n.heap = q.heap /\ n.tokens = q.tokens
      /\ n.lock = q.lock /\ n.displaced = q.displaced /\ n.signals = q.signals
      /\ n.count = q.count /\ n.peak = q.peak /\ n.total = q.total /\ n.posted = q.posted
  BY ONLY <1>1, <1>5 DEF QueueLives
<1> HIDE DEF n
<1>7. InHands(n) = InHands(q) /\ StillToSignal(n) = StillToSignal(q)
  BY <1>6 DEF InHands, StillToSignal
<1>8. NodesApart(n, {node})
  BY <1>2, <1>3, <1>5, <1>6, <1>7 DEF NodesApart
<1>9. HandsAgree(n) /\ CountsOf(n) /\ Announced(n)
  BY <1>2, <1>6, <1>7 DEF HandsAgree, CountsOf, Announced
<1>10. QueueKeeps(n, {node})
  BY <1>6, <1>8, <1>9 DEF QueueKeeps
<1> QED BY <1>3, <1>4, <1>10 DEF n, fewer, node

LEMMA LinkedIs ==
  ASSUME NEW r \in QueueLives, NEW p, NEW node, NEW msg
  PROVE  QL!Linked(r, p, node, msg)
           = LinkedAs(r, node, msg.urgent, msg.big, r.tokens, [r.signals EXCEPT ![p] = r.tab])
<1> DEFINE place == IF msg.urgent THEN r.urgents + 1 ELSE Len(r.list) + 1
           list == InsertAt(r.list, place, node)
           first == IF msg.urgent THEN r.urgents + 1 ELSE r.urgents
           heaped == IF msg.big THEN r.heap \cup {node} ELSE r.heap
           count == r.count + 1
           total == r.total + 1
           posted == r.posted + 1
           peak == IF r.count + 1 > r.peak THEN r.count + 1 ELSE r.peak
           signals == [r.signals EXCEPT ![p] = r.tab]
           tokens == r.tokens
<1>1. QL!InsertAt(r.list, place, node) = list
  BY SameInQueueLife
<1>2. QL!Linked(r, p, node, msg)
        = [r EXCEPT !.list = list, !.urgents = first, !.heap = heaped, !.count = count,
                    !.total = total, !.posted = posted, !.peak = peak, !.signals = signals]
  BY <1>1 DEF QL!Linked
<1>3. LinkedAs(r, node, msg.urgent, msg.big, tokens, signals)
        = [r EXCEPT !.list = list, !.urgents = first, !.heap = heaped, !.count = count,
                    !.total = total, !.posted = posted, !.peak = peak, !.tokens = tokens,
                    !.signals = signals]
  BY DEF LinkedAs
<1>4. tokens = r.tokens
  OBVIOUS
<1> HIDE DEF place, list, first, heaped, count, total, posted, peak, signals, tokens
<1>5. [r EXCEPT !.list = list, !.urgents = first, !.heap = heaped, !.count = count,
                !.total = total, !.posted = posted, !.peak = peak, !.signals = signals]
      = [r EXCEPT !.list = list, !.urgents = first, !.heap = heaped, !.count = count,
                  !.total = total, !.posted = posted, !.peak = peak, !.tokens = tokens,
                  !.signals = signals]
  BY ONLY <1>4, r \in QueueLives DEF QueueLives
<1> QED BY <1>2, <1>3, <1>5 DEF tokens, signals

WithTokens(o, tokens, signals) == [o EXCEPT !.tokens = tokens, !.signals = signals]

LEMMA LinkedWith ==
  ASSUME NEW r \in QueueLives, NEW node, NEW urgent, NEW big, NEW before, NEW former,
         NEW tokens, NEW signals, NEW o, o = LinkedAs(r, node, urgent, big, before, former)
  PROVE  /\ o.tokens = before /\ o.posted = r.posted + 1
         /\ WithTokens(o, tokens, signals) = LinkedAs(r, node, urgent, big, tokens, signals)
<1> DEFINE list == InsertAt(r.list, IF urgent THEN r.urgents + 1 ELSE Len(r.list) + 1, node)
           first == IF urgent THEN r.urgents + 1 ELSE r.urgents
           heaped == IF big THEN r.heap \cup {node} ELSE r.heap
           count == r.count + 1
           total == r.total + 1
           posted == r.posted + 1
           peak == IF r.count + 1 > r.peak THEN r.count + 1 ELSE r.peak
<1>1. /\ LinkedAs(r, node, urgent, big, before, former)
           = [r EXCEPT !.list = list, !.urgents = first, !.heap = heaped, !.count = count,
                       !.total = total, !.posted = posted, !.peak = peak, !.tokens = before,
                       !.signals = former]
      /\ LinkedAs(r, node, urgent, big, tokens, signals)
           = [r EXCEPT !.list = list, !.urgents = first, !.heap = heaped, !.count = count,
                       !.total = total, !.posted = posted, !.peak = peak, !.tokens = tokens,
                       !.signals = signals]
  BY DEF LinkedAs
<1>2. posted = r.posted + 1
  OBVIOUS
<1> HIDE DEF list, first, heaped, count, total, posted, peak
<1>4. r \in QueueLives
  OBVIOUS
<1>5. o = [r EXCEPT !.list = list, !.urgents = first, !.heap = heaped, !.count = count,
                    !.total = total, !.posted = posted, !.peak = peak, !.tokens = before,
                    !.signals = former]
  BY <1>1
<1>6. /\ o.tokens = before /\ o.posted = posted
      /\ [o EXCEPT !.tokens = tokens, !.signals = signals]
           = [r EXCEPT !.list = list, !.urgents = first, !.heap = heaped, !.count = count,
                       !.total = total, !.posted = posted, !.peak = peak, !.tokens = tokens,
                       !.signals = signals]
  BY ONLY <1>4, <1>5 DEF QueueLives
<1>7. /\ o.tokens = before /\ o.posted = r.posted + 1
      /\ [o EXCEPT !.tokens = tokens, !.signals = signals]
           = LinkedAs(r, node, urgent, big, tokens, signals)
  BY <1>1, <1>2, <1>6
<1> QED BY <1>7 DEF WithTokens

\* What becomes of a node that is at no place, when one posts it who signals later.
LEMMA OutcomesKeep ==
  ASSUME LivesAssumption, NEW r, NEW node \in TableNodes, QueueKeeps(r, {node}),
         r.tab # NULL, r.lock = NULL, NEW p \in Posters, r.signals[p] = NULL,
         NEW msg \in QL!AnyMessage,
         NEW o \in {QL!Linked(r, p, node, msg)} \cup {[r EXCEPT !.free = @ \cup {node}]}
  PROVE  QueueKeeps(o, {})
<1>1. /\ r \in QueueLives /\ r.tab \in Nat /\ r.tokens \in Nat
      /\ r.signals \in [Posters -> Nat \cup {NULL}]
      /\ msg.urgent \in BOOLEAN /\ msg.big \in BOOLEAN
  BY QueueIs DEF QL!AnyMessage
<1>2. CASE o = QL!Linked(r, p, node, msg)
  <2> DEFINE signals == [r.signals EXCEPT ![p] = r.tab]
             urgent == msg.urgent
             big == msg.big
             tokens == r.tokens
  <2>1. o = LinkedAs(r, node, urgent, big, tokens, signals)
    BY <1>1, <1>2, LinkedIs
  <2>2. signals \in [Posters -> Nat \cup {NULL}] /\ urgent \in BOOLEAN /\ big \in BOOLEAN
        /\ tokens \in Nat
    BY <1>1
  <2>3. Cardinality({x \in Posters : signals[x] = r.tab}) = Cardinality(StillToSignal(r)) + 1
        /\ Cardinality(StillToSignal(r)) \in Nat
    <3>1. PICK t \in Nat, a \in [Posters -> Nat \cup {NULL}] : t = r.tab /\ a = r.signals
      BY <1>1
    <3>2. a[p] = NULL
      BY <3>1
    <3>3. /\ Cardinality(Signallers(a, t)) \in Nat
          /\ Cardinality(Signallers([a EXCEPT ![p] = t], t)) = Cardinality(Signallers(a, t)) + 1
      BY <3>2, SignalsCount
    <3>4. /\ StillToSignal(r) = Signallers(a, t) /\ signals = [a EXCEPT ![p] = t]
          /\ {x \in Posters : signals[x] = r.tab} = Signallers(signals, t)
      BY <3>1 DEF StillToSignal, Signallers
    <3> HIDE DEF signals
    <3> QED BY <3>1, <3>3, <3>4
  <2>4. tokens + Cardinality({x \in Posters : signals[x] = r.tab})
          = r.tokens + Cardinality(StillToSignal(r)) + 1
    BY <1>1, <2>3
  <2> HIDE DEF signals, urgent, big, tokens
  <2> QED BY <2>1, <2>2, <2>4, LinkKeeps
<1>3. CASE o = [r EXCEPT !.free = @ \cup {node}]
  BY <1>3, FreeKeeps
<1> QED BY <1>2, <1>3

LEMMA FrontOf ==
  ASSUME NEW S, NEW s \in Seq(S), IsInjective(s), s # <<>>
  PROVE  /\ Front(s) \in Seq(S) /\ IsInjective(Front(s)) /\ Len(Front(s)) = Len(s) - 1
         /\ Last(s) \in S /\ Last(s) \in ToSet(s) /\ ToSet(Front(s)) = ToSet(s) \ {Last(s)}
<1> DEFINE f == Front(s)
<1>0. PICK n : n = Len(s)
  OBVIOUS
<1>1. n \in Nat /\ n >= 1 /\ DOMAIN s = 1 .. n /\ \A i \in 1 .. n : s[i] \in S
  BY <1>0, EmptySeq, LenProperties, ElementOfSeq
<1>2. PICK m \in Nat : m = n - 1
  BY <1>1
<1>3. f = [i \in 1 .. m |-> s[i]]
  <2>1. f = SubSeq(s, 1, m)
    BY <1>0, <1>2 DEF Front
  <2>2. \A i \in 1 .. m : i \in 1 .. n
    BY <1>1, <1>2
  <2> HIDE DEF f
  <2>3. f \in Seq(S) /\ Len(f) = m /\ \A i \in 1 .. m : f[i] = s[i]
    BY <1>1, <1>2, <2>1, SubSeqProperties
  <2> QED BY <2>3, LenProperties
<1> HIDE DEF f
<1>4. /\ f \in Seq(S) /\ Len(f) = m /\ DOMAIN f = 1 .. m /\ \A i \in 1 .. m : f[i] = s[i]
  <2>1. \A i \in 1 .. m : i \in 1 .. n /\ s[i] \in S
    BY <1>1, <1>2
  <2> QED BY <1>2, <1>3, <2>1
<1>5. Last(s) = s[n] /\ n \in 1 .. n /\ ToSet(s) = {s[i] : i \in 1 .. n}
      /\ ToSet(f) = {f[i] : i \in 1 .. m}
  BY <1>0, <1>1, <1>4 DEF Last, ToSet
<1>6. \A i, j \in 1 .. n : s[i] = s[j] => i = j
  BY <1>1 DEF IsInjective
<1>7. IsInjective(f)
  <2>1. \A i, j \in 1 .. m : f[i] = f[j] => i = j
    BY <1>1, <1>2, <1>4, <1>6
  <2> QED BY <1>4, <2>1 DEF IsInjective
<1>8. ToSet(f) = ToSet(s) \ {Last(s)}
  <2>1. \A i \in 1 .. m : f[i] = s[i] /\ i \in 1 .. n /\ i # n
    BY <1>1, <1>2, <1>4
  <2>2. \A i \in 1 .. n : i # n => i \in 1 .. m
    BY <1>1, <1>2
  <2>3. \A i \in 1 .. m : f[i] \in ToSet(s) /\ f[i] # s[n]
    BY <1>5, <1>6, <2>1
  <2>4. \A i \in 1 .. n : s[i] # s[n] => s[i] \in ToSet(f)
    BY <1>5, <2>1, <2>2
  <2> QED BY <1>5, <2>3, <2>4
<1> QED BY <1>0, <1>1, <1>2, <1>4, <1>5, <1>7, <1>8 DEF f

LEMMA QlPost ==
  ASSUME LivesAssumption, QlInv, NEW p \in Posters, NEW msg \in QL!AnyMessage,
         QL!SAL_I_Post_Message(p, msg)
  PROVE  QlInv'
<1> DEFINE node == QL!AnyFree
           r == [q EXCEPT !.free = @ \ {node}]
<1>1. /\ q.lock = NULL /\ q.signals[p] = NULL /\ q.free # {} /\ q \in QueueLives
      /\ q' \in QL!Outcomes(q, p, node, msg)
  BY QueueIs DEF QL!SAL_I_Post_Message, QL!Unlocked, QL!AtRest, QlInv
<1>2. node \in q.free /\ node \in TableNodes /\ q.tab # NULL /\ QueueKeeps(r, {node})
  BY <1>1, TakeKeeps
<1>3. [q EXCEPT !.free = @ \cup {node}] = q
  <2>1. q.free \cup {node} = q.free
    BY <1>2
  <2> QED BY <1>1, <2>1 DEF QueueLives
<1>4. q' = QL!Linked(r, p, node, msg) \/ q' = q
  BY <1>1, <1>3 DEF QL!Outcomes
<1>5. CASE q' = q
  BY <1>5 DEF QlInv, QueueKeeps, NodesApart, HandsAgree, CountsOf, Announced, InHands, StillToSignal
<1>6. CASE q' = QL!Linked(r, p, node, msg)
  <2>1. r.tab = q.tab /\ r.lock = q.lock /\ r.signals = q.signals
    BY <1>1 DEF QueueLives
  <2> HIDE DEF r, node
  <2>2. r.tab # NULL /\ r.lock = NULL /\ r.signals[p] = NULL
    BY <1>1, <1>2, <2>1
  <2>3. PICK o : o = q'
    OBVIOUS
  <2>4. o \in {QL!Linked(r, p, node, msg)} \cup {[r EXCEPT !.free = @ \cup {node}]}
    BY <1>6, <2>3
  <2>5. QueueKeeps(o, {})
    BY <1>2, <2>2, <2>4, OutcomesKeep
  <2> QED BY <2>3, <2>5 DEF QlInv
<1> QED BY <1>4, <1>5, <1>6

\* The last message of the list goes into the hands of a poster.
LEMMA QlDisplace ==
  ASSUME LivesAssumption, QlInv, NEW p \in Posters, NEW msg \in QL!AnyMessage,
         QL!Displace(p, msg)
  PROVE  QlInv'
<1> DEFINE node == Last(q.list)
           others == Front(q.list)
           fewer == q.heap \ {node}
           hands == [node |-> node, msg |-> msg]
<1>1. /\ q.lock = NULL /\ q.signals[p] = NULL /\ q.tab # NULL /\ Len(q.list) > q.urgents
      /\ q' = [q EXCEPT !.list = others, !.heap = fewer, !.count = q.count - 1,
                        !.lock = p, !.displaced = hands]
      /\ QueueKeeps(q, {}) /\ q.posted \in Nat
  BY SameInQueueLife, QueueIs DEF QL!Displace, QL!Unlocked, QL!AtRest, QlInv
<1>2. /\ q \in QueueLives /\ q.list \in Seq(TableNodes) /\ IsInjective(q.list)
      /\ Len(q.list) \in Nat /\ q.urgents \in Nat /\ q.count \in Nat /\ q.tokens \in Nat
      /\ q.heap \in SUBSET TableNodes /\ Cardinality(StillToSignal(q)) \in Nat
      /\ q.peak \in Nat /\ q.total \in Nat
  BY <1>1, QueueIs
<1>3. NodesApart(q, {}) /\ HandsAgree(q) /\ CountsOf(q) /\ Announced(q)
  BY <1>1 DEF QueueKeeps
<1>4. q.count = Len(q.list) /\ Len(q.list) > 0 /\ q.displaced = NULL
  BY <1>1, <1>2, <1>3 DEF CountsOf, HandsAgree
<1>5. /\ others \in Seq(TableNodes) /\ IsInjective(others) /\ Len(others) = Len(q.list) - 1
      /\ node \in TableNodes /\ node \in ToSet(q.list) /\ ToSet(others) = ToSet(q.list) \ {node}
  <2>1. PICK s \in Seq(TableNodes) : s = q.list
    BY <1>2
  <2>2. IsInjective(s) /\ s # <<>>
    BY <1>2, <1>4, <2>1
  <2> HIDE DEF node, others
  <2>3. /\ Front(s) \in Seq(TableNodes) /\ IsInjective(Front(s)) /\ Len(Front(s)) = Len(s) - 1
        /\ Last(s) \in TableNodes /\ Last(s) \in ToSet(s) /\ ToSet(Front(s)) = ToSet(s) \ {Last(s)}
    BY <2>2, FrontOf
  <2> QED BY <2>1, <2>3 DEF node, others
<1>6. PICK count \in Nat : count = q.count - 1
  BY <1>2, <1>4
<1>7. fewer \in SUBSET TableNodes /\ fewer = q.heap \ {node}
  BY <1>2
<1>8. hands \in Displacements /\ hands.node = node /\ hands # NULL
  BY <1>5 DEF Displacements, LivesAssumption
<1>9. p # NULL
  BY DEF LivesAssumption
<1> HIDE DEF node, others, fewer, hands
<1>10. /\ q' \in QueueLives /\ q'.life = q.life /\ q'.owner = q.owner /\ q'.tab = q.tab
       /\ q'.list = others /\ q'.urgents = q.urgents /\ q'.free = q.free
       /\ q'.current = q.current /\ q'.heap = fewer /\ q'.tokens = q.tokens
       /\ q'.lock = p /\ q'.displaced = hands /\ q'.signals = q.signals
       /\ q'.count = count /\ q'.peak = q.peak /\ q'.total = q.total /\ q'.posted = q.posted
  <2>1. q' = [q EXCEPT !.list = others, !.heap = fewer, !.count = count,
                       !.lock = p, !.displaced = hands]
    BY <1>1, <1>6
  <2>2. /\ q \in QueueLives /\ others \in Seq(TableNodes) /\ fewer \in SUBSET TableNodes
        /\ count \in Nat /\ p \in Posters /\ hands \in Displacements
    BY <1>2, <1>5, <1>6, <1>7, <1>8
  <2> QED BY ONLY <2>1, <2>2 DEF QueueLives
<1>11. InHands(q') = InHands(q) \cup {node} /\ node \notin InHands(q)
       /\ (q.current # NULL => q.current \in InHands(q))
  BY <1>3, <1>4, <1>5, <1>8, <1>10 DEF InHands, NodesApart
<1>12. NodesApart(q', {})
  <2>1. q.urgents <= Len(others)
    BY <1>1, <1>2, <1>5
  <2>2. node # q.current
    <3>1. node # NULL
      BY <1>5 DEF LivesAssumption
    <3> QED BY <1>11, <3>1
  <2>3. /\ ToSet(q.list) \cap InHands(q) = {}
        /\ (ToSet(q.list) \cup InHands(q)) \cap q.free = {}
        /\ ToSet(q.list) \cup InHands(q) \cup q.free
             = IF q.tab = NULL THEN {} ELSE QL!NodesOf(q.tab)
        /\ q.heap \subseteq ToSet(q.list) \cup (InHands(q) \cap {q.current})
    BY <1>3 DEF NodesApart
  <2>4. /\ ToSet(q'.list) \cap InHands(q') = {}
        /\ (ToSet(q'.list) \cup InHands(q')) \cap q'.free = {}
        /\ ToSet(q'.list) \cup InHands(q') \cup q'.free \cup {}
             = IF q'.tab = NULL THEN {} ELSE QL!NodesOf(q'.tab)
        /\ q'.heap \subseteq ToSet(q'.list) \cup (InHands(q') \cap {q'.current})
    BY <1>5, <1>7, <1>10, <1>11, <2>3
  <2>5. /\ IsInjective(q'.list) /\ q'.urgents <= Len(q'.list)
        /\ (q'.displaced # NULL => q'.displaced.node # q'.current)
    BY <1>5, <1>8, <1>10, <2>1, <2>2
  <2> QED BY <2>4, <2>5 DEF NodesApart
<1>13. HandsAgree(q')
  BY <1>1, <1>3, <1>8, <1>9, <1>10 DEF HandsAgree
<1>14. CountsOf(q')
  <2>1. q.peak \in q.count .. Size + 1 /\ q.total >= q.peak /\ q.total <= q.posted
    BY <1>1, <1>3 DEF CountsOf
  <2>2. Size \in Nat
    BY DEF LivesAssumption
  <2>3. count = Len(others) /\ q.peak \in count .. Size + 1
    BY <1>2, <1>4, <1>5, <1>6, <2>1, <2>2
  <2> QED BY <1>10, <2>1, <2>3 DEF CountsOf
<1>15. Announced(q')
  <2>1. StillToSignal(q') = StillToSignal(q)
    BY <1>10 DEF StillToSignal
  <2>2. Len(q.list) + 0 <= q.tokens + Cardinality(StillToSignal(q)) + (IF q.owner = "took" THEN 1 ELSE 0)
    BY <1>1, <1>3 DEF Announced
  <2>3. Len(others) + 1 = Len(q.list) + 0
    BY <1>2, <1>5
  <2> QED BY <1>9, <1>10, <2>1, <2>2, <2>3 DEF Announced
<1> QED BY <1>10, <1>12, <1>13, <1>14, <1>15 DEF QlInv, QueueKeeps

\* It leaves them again.
WithoutDisplaced == [q EXCEPT !.tokens = @ - 1, !.lock = NULL, !.displaced = NULL]

\* The poster has the token of the message it displaced: node and message are
\* its own.
LEMMA DisplacedKeeps ==
  ASSUME LivesAssumption, QlInv, NEW p \in Posters, q.lock = p, q.tokens > 0
  PROVE  /\ q.displaced.node \in TableNodes /\ q.displaced.msg \in QL!AnyMessage
         /\ QueueKeeps(WithoutDisplaced, {q.displaced.node})
         /\ WithoutDisplaced.tab # NULL /\ WithoutDisplaced.lock = NULL
         /\ WithoutDisplaced.signals[p] = NULL
<1> DEFINE node == q.displaced.node
           msg == q.displaced.msg
           r == WithoutDisplaced
<1>1. /\ q.lock = p /\ q.tokens > 0 /\ QueueKeeps(q, {}) /\ q \in QueueLives /\ q.tokens \in Nat
      /\ q.displaced \in Displacements \cup {NULL} /\ Len(q.list) \in Nat
  BY QueueIs DEF QlInv
<1>2. NodesApart(q, {}) /\ HandsAgree(q) /\ CountsOf(q) /\ Announced(q)
  BY <1>1 DEF QueueKeeps
<1>3. /\ p # NULL /\ q.displaced # NULL /\ q.tab # NULL /\ q.signals[p] = NULL
      /\ Cardinality(StillToSignal(q)) \in Nat
  BY <1>1, <1>2, QueueIs DEF HandsAgree, LivesAssumption
<1>4. node \in TableNodes /\ msg \in QL!AnyMessage
  BY <1>1, <1>3 DEF Displacements
<1>5. PICK left \in Nat : left = q.tokens - 1
  BY <1>1
<1>6. r = [q EXCEPT !.tokens = left, !.lock = NULL, !.displaced = NULL]
  BY <1>5 DEF WithoutDisplaced
<1> HIDE DEF r, node, msg
<1>7. /\ r \in QueueLives /\ r.life = q.life /\ r.owner = q.owner /\ r.tab = q.tab
      /\ r.list = q.list /\ r.urgents = q.urgents /\ r.free = q.free
      /\ r.current = q.current /\ r.heap = q.heap /\ r.tokens = left
      /\ r.lock = NULL /\ r.displaced = NULL /\ r.signals = q.signals
      /\ r.count = q.count /\ r.peak = q.peak /\ r.total = q.total /\ r.posted = q.posted
  BY ONLY <1>1, <1>5, <1>6 DEF QueueLives
<1>8. InHands(q) = InHands(r) \cup {node} /\ node \notin InHands(r)
  BY <1>2, <1>3, <1>7 DEF InHands, NodesApart, node
<1>9. NodesApart(r, {node})
  <2>1. /\ ToSet(q.list) \cap InHands(q) = {}
        /\ (ToSet(q.list) \cup InHands(q)) \cap q.free = {}
        /\ ToSet(q.list) \cup InHands(q) \cup q.free
             = IF q.tab = NULL THEN {} ELSE QL!NodesOf(q.tab)
        /\ q.heap \subseteq ToSet(q.list) \cup (InHands(q) \cap {q.current})
        /\ node # q.current
    BY <1>2, <1>3 DEF NodesApart, node
  <2>2. /\ ToSet(r.list) \cap InHands(r) = {}
        /\ (ToSet(r.list) \cup InHands(r)) \cap r.free = {}
        /\ (ToSet(r.list) \cup InHands(r) \cup r.free) \cap {node} = {}
        /\ ToSet(r.list) \cup InHands(r) \cup r.free \cup {node}
             = IF r.tab = NULL THEN {} ELSE QL!NodesOf(r.tab)
        /\ r.heap \subseteq ToSet(r.list) \cup (InHands(r) \cap {r.current})
    BY <1>7, <1>8, <2>1
  <2>3. /\ IsInjective(r.list) /\ r.urgents <= Len(r.list)
        /\ (r.displaced # NULL => r.displaced.node # r.current)
    BY <1>2, <1>7 DEF NodesApart
  <2> QED BY <2>2, <2>3 DEF NodesApart
<1>10. HandsAgree(r)
  BY <1>2, <1>7 DEF HandsAgree
<1>11. CountsOf(r)
  BY <1>2, <1>7 DEF CountsOf
<1>12. Announced(r)
  <2>1. StillToSignal(r) = StillToSignal(q)
    BY <1>7 DEF StillToSignal
  <2>2. PICK o \in Nat : o = (IF q.owner = "took" THEN 1 ELSE 0)
    OBVIOUS
  <2>3. Len(q.list) + 1 <= q.tokens + Cardinality(StillToSignal(q)) + o
    BY <1>1, <1>2, <1>3, <2>2 DEF Announced
  <2>4. Len(q.list) + 0 <= left + Cardinality(StillToSignal(q)) + o
    BY <1>1, <1>3, <1>5, <2>2, <2>3
  <2> QED BY <1>7, <2>1, <2>2, <2>4 DEF Announced
<1>13. QueueKeeps(r, {node})
  BY <1>7, <1>9, <1>10, <1>11, <1>12 DEF QueueKeeps
<1>14. r.tab # NULL /\ r.lock = NULL /\ r.signals[p] = NULL
  BY <1>3, <1>7
<1> QED BY <1>4, <1>13, <1>14 DEF r, node, msg

LEMMA QlPostDisplaced ==
  ASSUME LivesAssumption, QlInv, NEW p \in Posters, QL!PostDisplaced(p)
  PROVE  QlInv'
<1> DEFINE node == q.displaced.node
           msg == q.displaced.msg
           r == WithoutDisplaced
<1>1. q.lock = p /\ q.tokens > 0 /\ q' \in QL!Outcomes(r, p, node, msg)
  BY DEF QL!PostDisplaced, WithoutDisplaced
<1>2. /\ node \in TableNodes /\ msg \in QL!AnyMessage /\ QueueKeeps(r, {node})
      /\ r.tab # NULL /\ r.lock = NULL /\ r.signals[p] = NULL
  BY <1>1, DisplacedKeeps
<1> HIDE DEF r, node, msg
<1>3. PICK o : o = q'
  OBVIOUS
<1>4. QL!Linked([r EXCEPT !.free = @ \ {node}], p, node, msg) = QL!Linked(r, p, node, msg)
  <2>1. r \in QueueLives /\ node \notin r.free
    BY <1>2 DEF QueueKeeps, NodesApart
  <2>2. r.free \ {node} = r.free
    BY <2>1
  <2>3. [r EXCEPT !.free = @ \ {node}] = r
    BY <2>1, <2>2 DEF QueueLives
  <2> QED BY <2>3
<1>5. o \in {QL!Linked(r, p, node, msg)} \cup {[r EXCEPT !.free = @ \cup {node}]}
  BY <1>1, <1>3, <1>4 DEF QL!Outcomes
<1>6. QueueKeeps(o, {})
  BY <1>2, <1>5, OutcomesKeep
<1> QED BY <1>3, <1>6 DEF QlInv

LEMMA QlSignal ==
  ASSUME LivesAssumption, QlInv, NEW p \in Posters, QL!SAL_Signal_Semaphore(p)
  PROVE  QlInv'
<1> DEFINE signals == [q.signals EXCEPT ![p] = NULL]
           tokens == IF q.tab # NULL THEN q.tokens + 1 ELSE q.tokens
<1>1. /\ q' = [q EXCEPT !.signals = signals, !.tokens = tokens] /\ q.signals[p] # NULL
      /\ QueueKeeps(q, {}) /\ q \in QueueLives /\ q.tokens \in Nat /\ Len(q.list) \in Nat
      /\ q.signals \in [Posters -> Nat \cup {NULL}] /\ q.tab \in Nat \cup {NULL}
  BY QueueIs DEF QL!SAL_Signal_Semaphore, QlInv
<1>2. NodesApart(q, {}) /\ HandsAgree(q) /\ CountsOf(q) /\ Announced(q)
  BY <1>1 DEF QueueKeeps
<1>3. /\ signals \in [Posters -> Nat \cup {NULL}] /\ tokens \in Nat
      /\ \A x \in Posters : q.signals[x] = NULL => signals[x] = NULL
  BY <1>1
<1>4. q.tab # NULL => tokens = q.tokens + 1
  OBVIOUS
<1> HIDE DEF tokens
<1>5. /\ q' \in QueueLives /\ q'.life = q.life /\ q'.owner = q.owner /\ q'.tab = q.tab
      /\ q'.list = q.list /\ q'.urgents = q.urgents /\ q'.free = q.free
      /\ q'.current = q.current /\ q'.heap = q.heap /\ q'.tokens = tokens
      /\ q'.lock = q.lock /\ q'.displaced = q.displaced /\ q'.signals = signals
      /\ q'.count = q.count /\ q'.peak = q.peak /\ q'.total = q.total /\ q'.posted = q.posted
  <2> HIDE DEF signals
  <2> QED BY ONLY <1>1, <1>3 DEF QueueLives
<1>6. NodesApart(q', {}) /\ CountsOf(q')
  <2> HIDE DEF signals
  <2> QED BY <1>2, <1>5 DEF NodesApart, InHands, CountsOf
<1>7. HandsAgree(q')
  <2>1. q.lock \in Posters \cup {NULL}
    BY <1>1 DEF QueueLives
  <2> HIDE DEF signals
  <2> QED BY <1>2, <1>3, <1>5, <2>1 DEF HandsAgree
<1>8. Announced(q')
  <2>1. CASE q.tab = NULL
    BY <1>5, <2>1 DEF Announced
  <2>2. CASE q.tab # NULL
    <3>1. PICK t \in Nat, a \in [Posters -> Nat \cup {NULL}] : t = q.tab /\ a = q.signals
      BY <1>1, <2>2
    <3>2. PICK b : b = Cardinality(Signallers(a, t))
      OBVIOUS
    <3>3. b \in Nat /\ b <= Cardinality(Signallers([a EXCEPT ![p] = NULL], t)) + 1
      BY <3>2, SignalsCount
    <3>4. StillToSignal(q) = Signallers(a, t) /\ StillToSignal(q') = Signallers([a EXCEPT ![p] = NULL], t)
      BY <1>5, <3>1 DEF StillToSignal, Signallers
    <3> HIDE DEF signals
    <3>5. PICK c : c = Cardinality(StillToSignal(q'))
      OBVIOUS
    <3>6. c \in Nat /\ b <= c + 1
      <4>2. StillToSignal(q') \subseteq Posters /\ IsFiniteSet(Posters)
        BY DEF StillToSignal, LivesAssumption
      <4>3. c \in Nat
        BY <3>5, <4>2, FS_Subset, FS_CardinalityType
      <4> QED BY <3>3, <3>4, <3>5, <4>3
    <3>7. PICK l \in Nat, o \in Nat : l = (IF q.lock = NULL THEN 0 ELSE 1)
                                      /\ o = (IF q.owner = "took" THEN 1 ELSE 0)
      OBVIOUS
    <3>8. Len(q.list) + l <= q.tokens + b + o
      BY <1>2, <2>2, <3>2, <3>4, <3>7 DEF Announced
    <3>9. Len(q.list) + l <= tokens + c + o
      <4>1. /\ q.tokens \in Nat /\ Len(q.list) \in Nat /\ tokens = q.tokens + 1 /\ b \in Nat
            /\ l \in Nat /\ o \in Nat
        BY <1>1, <1>4, <2>2, <3>3, <3>7
      <4>2. PICK k \in Nat, n \in Nat : k = q.tokens /\ n = Len(q.list)
        BY <4>1
      <4>3. n + l <= k + b + o /\ tokens = k + 1 /\ n \in Nat /\ k \in Nat
        BY <3>8, <4>1, <4>2
      <4>4. \A w, x \in Nat : w <= k + b + o /\ b <= c + 1 /\ x = k + 1 => w <= x + c + o
        BY ONLY <3>6, <4>1, <4>3
      <4>5. n + l \in Nat /\ k + 1 \in Nat
        BY ONLY <4>1, <4>3
      <4>6. n + l <= (k + 1) + c + o
        BY ONLY <3>6, <4>3, <4>4, <4>5
      <4> QED BY <4>2, <4>3, <4>6
    <3> QED BY <1>5, <3>5, <3>7, <3>9 DEF Announced
  <2> QED BY <2>1, <2>2
<1> QED BY <1>5, <1>6, <1>7, <1>8 DEF QlInv, QueueKeeps

LEMMA QlWithoutQueue ==
  ASSUME LivesAssumption, QlInv, NEW msg, QL!UrgentWithoutQueue(msg)
  PROVE  QlInv'
<1>1. q' = [q EXCEPT !.fault = TRUE] /\ q \in QueueLives /\ QueueKeeps(q, {})
  BY QueueIs DEF QL!UrgentWithoutQueue, QlInv
<1>2. /\ q' \in QueueLives /\ q'.life = q.life /\ q'.owner = q.owner /\ q'.tab = q.tab
      /\ q'.list = q.list /\ q'.urgents = q.urgents /\ q'.free = q.free
      /\ q'.current = q.current /\ q'.heap = q.heap /\ q'.tokens = q.tokens
      /\ q'.lock = q.lock /\ q'.displaced = q.displaced /\ q'.signals = q.signals
      /\ q'.count = q.count /\ q'.peak = q.peak /\ q'.total = q.total /\ q'.posted = q.posted
  BY ONLY <1>1 DEF QueueLives
<1>3. NodesApart(q, {}) /\ HandsAgree(q) /\ CountsOf(q) /\ Announced(q)
  BY <1>1 DEF QueueKeeps
<1>4. InHands(q') = InHands(q) /\ StillToSignal(q') = StillToSignal(q)
  BY <1>2 DEF InHands, StillToSignal
<1>5. NodesApart(q', {})
  BY <1>2, <1>3, <1>4 DEF NodesApart
<1>6. HandsAgree(q') /\ CountsOf(q') /\ Announced(q')
  BY <1>2, <1>3, <1>4 DEF HandsAgree, CountsOf, Announced
<1> QED BY <1>2, <1>5, <1>6 DEF QlInv, QueueKeeps

\* The router signals before it unlocks.
LEMMA ReadKeeps ==
  ASSUME LivesAssumption, NEW r, NEW node \in TableNodes, QueueKeeps(r, {node}),
         r.tab # NULL, r.lock = NULL, NEW msg \in QL!AnyMessage,
         NEW o \in QL!ReadOutcomes(r, node, msg)
  PROVE  QueueKeeps(o, {})
<1>1. /\ r \in QueueLives /\ r.tokens \in Nat /\ r.leak \in BOOLEAN
      /\ r.signals \in [Posters -> Nat \cup {NULL}]
      /\ Cardinality(StillToSignal(r)) \in Nat
  BY QueueIs DEF QueueLives
<1>2. CASE o = [QL!Linked(r, Router, node, msg) EXCEPT !.tokens = r.tokens + 1,
                                                       !.signals = r.signals]
  <2> DEFINE urgent == msg.urgent
             big == msg.big
             former == [r.signals EXCEPT ![Router] = r.tab]
             signals == r.signals
             linked == QL!Linked(r, Router, node, msg)
  <2>1. urgent \in BOOLEAN /\ big \in BOOLEAN
    BY DEF QL!AnyMessage
  <2>2. linked = LinkedAs(r, node, urgent, big, r.tokens, former)
    BY <1>1, LinkedIs
  <2>3. PICK tokens \in Nat : tokens = r.tokens + 1
    BY <1>1
  <2>4. o = WithTokens(linked, tokens, signals)
    BY <1>2, <2>3 DEF WithTokens
  <2> HIDE DEF urgent, big, former, linked
  <2>5. o = LinkedAs(r, node, urgent, big, tokens, signals)
    <3> HIDE DEF signals
    <3>1. WithTokens(linked, tokens, signals) = LinkedAs(r, node, urgent, big, tokens, signals)
      BY ONLY <1>1, <2>2, LinkedWith
    <3> QED BY <2>4, <3>1
  <2>6. tokens + Cardinality({x \in Posters : signals[x] = r.tab})
          = r.tokens + Cardinality(StillToSignal(r)) + 1
    <3>1. StillToSignal(r) = {x \in Posters : signals[x] = r.tab}
      BY DEF StillToSignal
    <3>2. PICK c \in Nat : c = Cardinality(StillToSignal(r))
      BY <1>1
    <3>3. tokens + c = r.tokens + c + 1
      BY <1>1, <2>3
    <3> QED BY <3>1, <3>2, <3>3
  <2>7. signals \in [Posters -> Nat \cup {NULL}]
    BY <1>1
  <2> HIDE DEF signals
  <2>8. QueueKeeps(LinkedAs(r, node, urgent, big, tokens, signals), {})
    BY <2>1, <2>6, <2>7, LinkKeeps
  <2> QED BY <2>5, <2>8
<1>3. ASSUME NEW lost \in {r.leak, TRUE}, o = [r EXCEPT !.free = @ \cup {node}, !.leak = lost]
      PROVE  QueueKeeps(o, {})
  BY <1>1, <1>3, LostKeeps
<1> QED BY <1>2, <1>3 DEF QL!ReadOutcomes

LEMMA QlRouterReads ==
  ASSUME LivesAssumption, QlInv, NEW msg \in QL!AnyMessage, QL!RouterReads(msg)
  PROVE  QlInv'
<1> DEFINE node == QL!AnyFree
           r == [q EXCEPT !.free = @ \ {node}]
<1>1. /\ q.lock = NULL /\ q.free # {} /\ q \in QueueLives
      /\ q' \in QL!ReadOutcomes(r, node, msg)
  BY QueueIs DEF QL!RouterReads, QL!Unlocked, QlInv
<1>2. node \in TableNodes /\ q.tab # NULL /\ QueueKeeps(r, {node})
  BY <1>1, TakeKeeps
<1>3. r.tab = q.tab /\ r.lock = q.lock
  BY <1>1 DEF QueueLives
<1>4. PICK o : o = q'
  OBVIOUS
<1> HIDE DEF node, r
<1>5. QueueKeeps(o, {})
  BY <1>1, <1>2, <1>3, <1>4, ReadKeeps
<1> QED BY <1>4, <1>5 DEF QlInv

LEMMA QlRouterReadsDisplaced ==
  ASSUME LivesAssumption, QlInv, QL!RouterReadsDisplaced
  PROVE  QlInv'
<1> DEFINE node == q.displaced.node
           msg == q.displaced.msg
           r == WithoutDisplaced
<1>1. /\ Router \in Posters /\ q.lock = Router /\ q.tokens > 0
      /\ q' \in QL!ReadOutcomes(r, node, msg)
  BY ThreadsAssumption DEF QL!RouterReadsDisplaced, WithoutDisplaced
<1>2. /\ node \in TableNodes /\ msg \in QL!AnyMessage /\ QueueKeeps(r, {node})
      /\ r.tab # NULL /\ r.lock = NULL
  BY <1>1, DisplacedKeeps
<1>3. PICK o : o = q'
  OBVIOUS
<1> HIDE DEF node, msg, r
<1>4. QueueKeeps(o, {})
  BY <1>1, <1>2, <1>3, ReadKeeps
<1> QED BY <1>3, <1>4 DEF QlInv

LEMMA QlNext ==
  ASSUME LivesAssumption, QlInv, QL!Next
  PROVE  QlInv'
<1>1. CASE \/ QL!StartThread \/ QL!SAL_I_Create_Message_Queue \/ QL!EndThread
           \/ QL!SAL_I_Destroy_Message_Queue \/ QL!SAL_I_Receive_From \/ QL!WaitToken
           \/ QL!SAL_I_Pend_Message
  BY <1>1, QlStartThread, QlCreate, QlEndThread, QlDestroy, QlReceiveFrom, QlWaitToken, QlPend
<1>2. CASE \E p \in Posters : QL!PostDisplaced(p) \/ QL!SAL_Signal_Semaphore(p)
  BY <1>2, QlPostDisplaced, QlSignal
<1>3. CASE \E p \in Posters, msg \in QL!AnyMessage :
             QL!SAL_I_Post_Message(p, msg) \/ QL!Displace(p, msg)
  BY <1>3, QlPost, QlDisplace
<1>4. CASE \E msg \in QL!AnyMessage : QL!UrgentWithoutQueue(msg) \/ QL!RouterReads(msg)
  BY <1>4, QlWithoutQueue, QlRouterReads
<1> QED BY <1>1, <1>2, <1>3, <1>4, QlRouterReadsDisplaced DEF QL!Next

LEMMA QlShown ==
  ASSUME LivesAssumption, QlInv
  PROVE  QL!EachLifeItsNodes /\ QL!RoomForSize /\ QL!NoneUnannounced /\ QL!StatsAreTrue
<1>1. /\ q \in QueueLives /\ NodesApart(q, {}) /\ HandsAgree(q) /\ CountsOf(q) /\ Announced(q)
      /\ q.list \in Seq(TableNodes) /\ IsInjective(q.list) /\ Len(q.list) \in Nat
      /\ q.count \in Nat /\ q.peak \in Nat /\ q.total \in Nat /\ q.posted \in Nat
  BY QueueIs DEF QlInv, QueueKeeps
<1>2. QL!ToSet(q.list) = ToSet(q.list)
      /\ QL!Cardinality(ToSet(q.list)) = Cardinality(ToSet(q.list))
      /\ QL!Cardinality(StillToSignal(q)) = Cardinality(StillToSignal(q))
  BY SameInQueueLife
<1>3. QL!InUse = ToSet(q.list) \cup InHands(q)
  BY <1>2 DEF QL!InUse, InHands
<1>4. QL!EachLifeItsNodes
  <2>1. Cardinality(ToSet(q.list)) = Len(q.list)
    BY <1>1, InjectiveLength
  <2>2. /\ QL!InUse \cap q.free = {} /\ q.heap \subseteq QL!InUse
        /\ QL!InUse \cup q.free = (IF q.tab = NULL THEN {} ELSE QL!NodesOf(q.tab))
        /\ q.urgents <= Len(q.list)
    BY <1>1, <1>3 DEF NodesApart
  <2>3. q.tab # NULL => q.tab = q.life /\ q.owner # "none"
    BY <1>1 DEF HandsAgree
  <2> QED BY <1>2, <2>1, <2>2, <2>3 DEF QL!EachLifeItsNodes
<1>5. QL!RoomForSize
  <2> SUFFICES ASSUME q.tab # NULL, q.free = {}, q.lock = NULL
               PROVE  Len(q.list) >= Size
    BY DEF QL!RoomForSize
  <2>1. q.displaced = NULL /\ InHands(q) \subseteq {q.current}
    BY <1>1 DEF HandsAgree, InHands
  <2>2. QL!NodesOf(q.tab) \subseteq ToSet(q.list) \cup {q.current}
    BY <1>1, <2>1 DEF NodesApart
  <2>3. /\ Cardinality(QL!NodesOf(q.tab)) = Size + 1 /\ IsFiniteSet(ToSet(q.list))
        /\ Cardinality(ToSet(q.list)) = Len(q.list)
    BY <1>1, ListFits
  <2>4. /\ IsFiniteSet(ToSet(q.list) \cup {q.current})
        /\ Cardinality(ToSet(q.list) \cup {q.current}) <= Len(q.list) + 1
        /\ Cardinality(ToSet(q.list) \cup {q.current}) \in Nat
    <3>1. PICK T, c : T = ToSet(q.list) /\ c = q.current
      OBVIOUS
    <3>2. IsFiniteSet(T) /\ Cardinality(T) = Len(q.list) /\ Len(q.list) \in Nat
      BY <1>1, <2>3, <3>1
    <3>3. IsFiniteSet(T \cup {c})
      BY <3>2, FS_AddElement
    <3>4. CASE c \in T
      <4>1. T \cup {c} = T
        BY <3>4
      <4>2. Cardinality(T \cup {c}) = Len(q.list)
        BY <3>2, <4>1
      <4> QED BY <3>1, <3>2, <3>3, <4>2
    <3>5. CASE c \notin T
      <4>1. Cardinality(T \cup {c}) = Cardinality(T) + 1
        BY <3>2, <3>5, FS_AddElement
      <4> QED BY <3>1, <3>2, <3>3, <4>1
    <3> QED BY <3>4, <3>5
  <2>5. Cardinality(QL!NodesOf(q.tab)) <= Cardinality(ToSet(q.list) \cup {q.current})
    BY <2>2, <2>4, FS_Subset
  <2>6. Size \in Nat
    BY DEF LivesAssumption
  <2> QED BY <1>1, <2>3, <2>4, <2>5, <2>6
<1>6. QL!NoneUnannounced
  <2>1. QL!Cardinality({p \in Posters : q.signals[p] = q.tab}) = Cardinality(StillToSignal(q))
    BY <1>2 DEF StillToSignal
  <2> QED BY <1>1, <2>1 DEF QL!NoneUnannounced, Announced
<1>7. QL!StatsAreTrue
  <2>1. CASE q.tab = NULL
    BY <2>1 DEF QL!StatsAreTrue, QL!SAL_Stat_Queue
  <2>2. CASE q.tab # NULL
    <3>1. /\ q.count = Len(q.list) /\ q.peak \in q.count .. Size + 1
          /\ q.total >= q.peak /\ q.total <= q.posted
      BY <1>1, <2>2 DEF CountsOf
    <3> QED BY <2>2, <3>1 DEF QL!StatsAreTrue, QL!SAL_Stat_Queue
  <2> QED BY <2>1, <2>2
<1> QED BY <1>4, <1>5, <1>6, <1>7

(* The queues of an entry of the thread table, one after the other: every   *)
(* node of a life is at one place and none outlives it, only Size messages  *)
(* fill a queue, a message that waits has a token or a signal on its way,   *)
(* and the statistics are about the queue that exists, for any number of    *)
(* threads that post, lives and messages.                                   *)
THEOREM EachQueueItsLife ==
  ASSUME LivesAssumption
  PROVE  QL!Spec => [](QL!EachLifeItsNodes /\ QL!RoomForSize /\ QL!NoneUnannounced
                       /\ QL!StatsAreTrue)
<1>1. QL!Init => QlInv
  BY QlInit
<1>2. QlInv /\ [QL!Next]_q => QlInv'
  <2>1. ASSUME QlInv, UNCHANGED q
        PROVE  QlInv'
    BY <2>1 DEF QlInv, QueueKeeps, NodesApart, HandsAgree, CountsOf, Announced, InHands, StillToSignal
  <2> QED BY <2>1, QlNext
<1>3. QlInv => QL!EachLifeItsNodes /\ QL!RoomForSize /\ QL!NoneUnannounced /\ QL!StatsAreTrue
  BY QlShown
<1> QED BY <1>1, <1>2, <1>3, PTL DEF QL!Spec, QL!vars
=============================================================================
