---------------------------- MODULE MessageQueue ----------------------------
(***************************************************************************)
(* The message queue of one XSAL thread, shared by the threads that post   *)
(* to it (SAL_Send, SAL_Publish, timers, the router) and the threads that  *)
(* receive from it (its owner and, through SAL_Receive_From, a pool).      *)
(*                                                                         *)
(* The queue is a circular list of nodes taken from a fixed table, guarded *)
(* by queue_lock, and a semaphore message_available that is signalled once *)
(* per message AFTER the lock was released.  The list and the semaphore    *)
(* are therefore never updated in one step, and every receiver removes a   *)
(* message and takes a token separately, in an order that depends on the   *)
(* call: SAL_Receive takes the token first, a selective receive removes    *)
(* the message first and pays for it later, or collects every token while  *)
(* it waits and returns them when it is done.                              *)
(*                                                                         *)
(* The router fills a node itself: it reads the data of the message from   *)
(* the connection of its sender into the node, and keeps the lock meanwhile.*)
(*                                                                         *)
(* A critical section that does not block is one action, enabled when the  *)
(* lock is free; one that blocks, on the semaphore or on a connection,     *)
(* keeps the lock in the variable lock.  Time is abstract: a timed wait    *)
(* may expire at any moment.                                               *)
(***************************************************************************)
EXTENDS Integers, FiniteSets, SequencesExt

CONSTANTS
  Posters,      \* threads that post messages to the queue
  Router,       \* the poster that reads messages of other applications
  Consumers,    \* threads that receive from the queue
  Owner,        \* the consumer whose queue it is
  Nodes,        \* the node table: queue_size + 1 nodes, without the end marker
  Events,       \* event identifiers
  Messages,     \* the messages that may be posted
  Calls,        \* the receive calls the consumers make
  Selections,   \* the event lists passed to SAL_Select
  PurgeLists,   \* the event lists passed to SAL_Purge_Only
  MaxTokens,    \* bound: calls that can leave a surplus token stop above it
  MaxLeaks,     \* bound: the buffers that failed reads of a publish leave
  EndMarker,    \* the end marker of the circular list
  NoNode,       \* NULL
  NoMessage,    \* the content of a node that carries no message
  NoThread      \* owner of a free mutex

Threads == Posters \cup Consumers
Slots == {"current", "rx_only"}
WaitKinds == {"forever", "timeout", "try"}

\* A receive call: the field of the thread it fills, the list it is given
\* (SAL_Receive_Only and its variants), and how long it waits.
AnyCall == [slot : Slots, events : SUBSET Events, wait : WaitKinds]

\* urgent is SAL_I_Is_Urgent at the time of the call, big tells that the
\* data does not fit into the preallocated buffer of a node.
AnyMessage == [event : Events, urgent : BOOLEAN, big : BOOLEAN]

ASSUME ThreadsAssumption ==
  /\ Posters \cap Consumers = {}
  /\ Router \in Posters
  /\ Owner \in Consumers
  /\ NoThread \notin Threads
  /\ IsFiniteSet(Threads)

ASSUME NodesAssumption ==
  /\ IsFiniteSet(Nodes)
  /\ EndMarker \notin Nodes
  /\ NoNode \notin Nodes \cup {EndMarker}

ASSUME MessagesAssumption ==
  /\ Messages \subseteq AnyMessage
  /\ NoMessage \notin AnyMessage

ASSUME CallsAssumption ==
  /\ Calls \subseteq AnyCall
  /\ Selections \subseteq SUBSET Events
  /\ PurgeLists \subseteq SUBSET Events

ASSUME BoundsAssumption == MaxTokens \in Nat /\ MaxLeaks \in Nat

VARIABLES
  queue,        \* the nodes linked between the end marker and itself, in order
  urgentTail,   \* urgent_tail: the last urgent node, the end marker if none
  free,         \* the nodes on the free list
  message,      \* the message header of each node
  heap,         \* the nodes whose message.data came from alloc_buf
  messageCount, \* stats.message_count
  lock,         \* queue_lock: its holder, when a holder blocks inside
  sem,          \* the count of message_available
  displaced,    \* the node a poster took from the tail of a full queue
  posting,      \* the message each poster that displaces one is posting
  filling,      \* the node the router took to read a message into it
  leaked,       \* the buffers from alloc_buf that no node points to any more
  held,         \* current_message and current_rx_only_message of each consumer
  call,         \* the receive call each consumer is in
  msgCnt,       \* msg_cnt: tokens collected by a selective receive
  selected,     \* events with SAL_I_Select_Bit_Mask; {} iff selected_count = 0
  pc

vars == <<queue, urgentTail, free, message, heap, messageCount, lock, sem,
          displaced, posting, filling, leaked, held, call, msgCnt, selected, pc>>

nodeVars == <<queue, urgentTail, free, message, heap, messageCount>>
posterVars == <<displaced, posting, filling, leaked>>
consumerVars == <<held, call, msgCnt, selected>>

NoCall == [slot |-> "current", events |-> {}, wait |-> "forever"]

Init ==
  /\ queue = <<>> /\ urgentTail = EndMarker
  /\ free = Nodes
  /\ message = [n \in Nodes |-> NoMessage]
  /\ heap = {}
  /\ messageCount = 0
  /\ lock = NoThread /\ sem = 0
  /\ displaced = NoNode
  /\ posting = [p \in Posters |-> NoMessage]
  /\ filling = NoNode /\ leaked = 0
  /\ held = [h \in Consumers \X Slots |-> NoNode]
  /\ call = [c \in Consumers |-> NoCall]
  /\ msgCnt = [c \in Consumers |-> 0]
  /\ selected = {}
  /\ pc = [t \in Threads |-> "idle"]

Goto(t, from, to) == pc[t] = from /\ pc' = [pc EXCEPT ![t] = to]

-----------------------------------------------------------------------------
(* The list operations, each run under queue_lock.                         *)

\* Mutant: urgent_tail is not moved.
RemoveNodeKeepTail(i) ==
  /\ queue' = RemoveAt(queue, i)
  /\ UNCHANGED urgentTail
  /\ messageCount' = messageCount - 1

\* SAL_I_Remove_Node_From_Queue
RemoveNodeFromQueue(i) ==
  /\ queue' = RemoveAt(queue, i)
  /\ urgentTail' = CASE queue[i] # urgentTail -> urgentTail
                     [] queue[i] = urgentTail /\ i > 1 -> queue[i - 1]
                     [] OTHER -> EndMarker
  /\ messageCount' = messageCount - 1

\* Mutant: the node is cleared but not linked to the free list.
FreeNodeLost(n) ==
  /\ UNCHANGED free
  /\ heap' = IF message[n].big THEN heap \ {n} ELSE heap
  /\ message' = [message EXCEPT ![n] = NoMessage]

\* Mutant: the buffer is not given back.
FreeNodeLeak(n) ==
  /\ free' = free \cup {n}
  /\ UNCHANGED heap
  /\ message' = [message EXCEPT ![n] = NoMessage]

\* SAL_I_Free_Message_Data_Buffer and SAL_I_Add_Node_To_Free_List.  The
\* buffer is given back according to the size in the header.
FreeNode(n) ==
  /\ free' = free \cup {n}
  /\ heap' = IF message[n].big THEN heap \ {n} ELSE heap
  /\ message' = [message EXCEPT ![n] = NoMessage]

\* Mutant: urgent messages overtake each other.
InsertPositionsHead(m) == IF m.urgent THEN {1} ELSE {Len(queue) + 1}

\* The positions a new node can take: behind urgent_tail, or at the end.
InsertPositions(m) ==
  IF m.urgent
  THEN {i \in 1 .. Len(queue) + 1 :
          IF i = 1 THEN urgentTail = EndMarker ELSE queue[i - 1] = urgentTail}
  ELSE {Len(queue) + 1}

\* Second half of SAL_I_Post_Message: fill node n with m and link it.
InsertNode(n, m) ==
  /\ \E i \in InsertPositions(m) : queue' = InsertAt(queue, i, n)
  /\ urgentTail' = IF m.urgent THEN n ELSE urgentTail
  /\ message' = [message EXCEPT ![n] = m]
  /\ heap' = IF m.big THEN heap \cup {n} ELSE heap
  /\ messageCount' = messageCount + 1

-----------------------------------------------------------------------------
(* Posting *)

\* Mutant: only a message that enters an empty list is signalled.
PostMessageSignalFirst(p, m) ==
  /\ lock = NoThread
  /\ \E n \in free : InsertNode(n, m) /\ free' = free \ {n}
  /\ Goto(p, "idle", IF queue = <<>> THEN "signal" ELSE "idle")
  /\ UNCHANGED <<lock, sem, posterVars, consumerVars>>

PostMessage(p, m) ==
  /\ lock = NoThread
  /\ \E n \in free : InsertNode(n, m) /\ free' = free \ {n}
  /\ Goto(p, "idle", "signal")
  /\ UNCHANGED <<lock, sem, posterVars, consumerVars>>

\* A post that finds no node, or no memory for a big message, reports the
\* reason to its caller and leaves everything as it was.
RejectMessage(p, m) ==
  /\ lock = NoThread
  /\ pc[p] = "idle"
  /\ \/ free = {} /\ (m.urgent => queue = <<>> \/ Last(queue) = urgentTail)
     \/ free # {} /\ m.big
  /\ UNCHANGED vars

\* Mutant: message_count forgets the displaced message.
DisplaceUncounted(p, m) ==
  /\ lock = NoThread
  /\ m.urgent /\ free = {}
  /\ queue # <<>> /\ Last(queue) # urgentTail
  /\ LET n == Last(queue) IN
       /\ queue' = Front(queue)
       /\ heap' = IF message[n].big THEN heap \ {n} ELSE heap
       /\ message' = [message EXCEPT ![n] = NoMessage]
       /\ displaced' = n
  /\ lock' = p
  /\ posting' = [posting EXCEPT ![p] = m]
  /\ Goto(p, "idle", "displacing")
  /\ UNCHANGED <<urgentTail, free, sem, messageCount, filling, leaked,
                 consumerVars>>

\* Get_Free_Node on a full queue: an urgent message takes the node of the
\* last normal one; the lock is kept while the poster waits for its token.
Displace(p, m) ==
  /\ lock = NoThread
  /\ m.urgent /\ free = {}
  /\ queue # <<>> /\ Last(queue) # urgentTail
  /\ LET n == Last(queue) IN
       /\ queue' = Front(queue)
       /\ heap' = IF message[n].big THEN heap \ {n} ELSE heap
       /\ message' = [message EXCEPT ![n] = NoMessage]
       /\ displaced' = n
  /\ messageCount' = messageCount - 1
  /\ lock' = p
  /\ posting' = [posting EXCEPT ![p] = m]
  /\ Goto(p, "idle", "displacing")
  /\ UNCHANGED <<urgentTail, free, sem, filling, leaked, consumerVars>>

\* The displaced message's token is taken.
EndDisplacement(p) ==
  /\ sem > 0 /\ sem' = sem - 1
  /\ displaced' = NoNode
  /\ posting' = [posting EXCEPT ![p] = NoMessage]
  /\ UNCHANGED <<leaked, consumerVars>>

\* Mutant: the urgent message is not signalled although its predecessor's
\* token was taken.
DisplacedInsertUnsignalled(p) ==
  /\ pc[p] = "displacing"
  /\ InsertNode(displaced, posting[p])
  /\ EndDisplacement(p)
  /\ lock' = NoThread
  /\ Goto(p, "displacing", "idle")
  /\ UNCHANGED <<free, filling>>

DisplacedInsert(p) ==
  /\ pc[p] = "displacing"
  /\ InsertNode(displaced, posting[p])
  /\ EndDisplacement(p)
  /\ lock' = NoThread
  /\ Goto(p, "displacing", "signal")
  /\ UNCHANGED <<free, filling>>

\* alloc_buf failed: the displaced message and the urgent one are both lost.
DisplacedNoMemory(p) ==
  /\ pc[p] = "displacing" /\ posting[p].big
  /\ free' = free \cup {displaced}
  /\ EndDisplacement(p)
  /\ lock' = NoThread
  /\ Goto(p, "displacing", "idle")
  /\ UNCHANGED <<queue, urgentTail, message, heap, messageCount, filling>>

-----------------------------------------------------------------------------
(* The router takes a node, copies the header of a message into it and     *)
(* reads the data from the connection, all under queue_lock.               *)

FillNode(n, m) ==
  /\ filling' = n
  /\ message' = [message EXCEPT ![n] = m]
  /\ heap' = IF m.big THEN heap \cup {n} ELSE heap

TakeFreeNode(m) ==
  /\ lock = NoThread /\ lock' = Router
  /\ \E n \in free : FillNode(n, m) /\ free' = free \ {n}
  /\ Goto(Router, "idle", "reading")
  /\ UNCHANGED <<queue, urgentTail, messageCount, sem, displaced, posting,
                 leaked, consumerVars>>

TakeDisplacedNode ==
  /\ Goto(Router, "displacing", "reading")
  /\ FillNode(displaced, posting[Router])
  /\ EndDisplacement(Router)
  /\ UNCHANGED <<queue, urgentTail, free, messageCount, lock>>

EndReading ==
  /\ Goto(Router, "reading", "idle")
  /\ lock' = NoThread
  /\ filling' = NoNode
  /\ UNCHANGED <<displaced, posting, consumerVars>>

\* SAL_I_Post_Message_Node: the signal comes before the unlock.
PostMessageNode ==
  /\ EndReading
  /\ InsertNode(filling, message[filling])
  /\ sem' = sem + 1
  /\ UNCHANGED <<free, leaked>>

\* The read failed or was short: Process_Send frees the node with its buffer;
\* Process_Publish sets message.data to NULL first, and the buffer stays.
ReadFails ==
  /\ EndReading
  /\ FreeNode(filling)
  /\ \/ UNCHANGED leaked
     \/ message[filling].big /\ leaked < MaxLeaks /\ leaked' = leaked + 1
  /\ UNCHANGED <<queue, urgentTail, messageCount, sem>>

Signal(p) ==
  /\ sem' = sem + 1
  /\ Goto(p, "signal", "idle")
  /\ UNCHANGED <<nodeVars, lock, posterVars, consumerVars>>

-----------------------------------------------------------------------------
(* A receive call starts by giving back the message of the previous one.   *)

\* Calls that may leave a token more than there are messages.
MayLeaveSurplus(k) == k.slot = "current" /\ k.wait = "try" /\ selected # {}

Receive(c, k) ==
  /\ MayLeaveSurplus(k) => sem < MaxTokens
  /\ k.slot = "rx_only" => c = Owner
  /\ IF held[<<c, k.slot>>] = NoNode
     THEN UNCHANGED <<free, heap, message, held>>
     ELSE /\ lock = NoThread
          /\ FreeNode(held[<<c, k.slot>>])
          /\ held' = [held EXCEPT ![<<c, k.slot>>] = NoNode]
  /\ call' = [call EXCEPT ![c] = k]
  /\ Goto(c, "idle",
          IF k.slot = "rx_only" \/ selected # {} THEN "search"
          ELSE IF k.wait = "try" THEN "poll" ELSE "wait")
  /\ UNCHANGED <<queue, urgentTail, messageCount, lock, sem, posterVars,
                 msgCnt, selected>>

(* SAL_I_Pend_Message and its timed and polling variants: token, then list *)

TakeToken(c) ==
  /\ sem > 0 /\ sem' = sem - 1
  /\ \/ Goto(c, "wait", "woken")
     \/ Goto(c, "poll", "woken")
  /\ UNCHANGED <<nodeVars, lock, posterVars, consumerVars>>

NoTokenInTime(c) ==
  /\ sem = 0
  /\ \/ call[c].wait = "timeout" /\ Goto(c, "wait", "idle")
     \/ Goto(c, "poll", "idle")
  /\ UNCHANGED <<nodeVars, lock, sem, posterVars, consumerVars>>

\* Mutant: the node is freed when its message is received.
TakeFirstFreed(c) ==
  /\ lock = NoThread
  /\ queue # <<>>
  /\ RemoveNodeFromQueue(1)
  /\ FreeNode(Head(queue))
  /\ held' = [held EXCEPT ![<<c, call[c].slot>>] = Head(queue)]
  /\ Goto(c, "woken", "idle")
  /\ UNCHANGED <<lock, sem, posterVars, call, msgCnt, selected>>

TakeFirst(c) ==
  /\ lock = NoThread
  /\ queue # <<>>
  /\ RemoveNodeFromQueue(1)
  /\ held' = [held EXCEPT ![<<c, call[c].slot>>] = Head(queue)]
  /\ Goto(c, "woken", "idle")
  /\ UNCHANGED <<free, message, heap, lock, sem, posterVars, call, msgCnt,
                 selected>>

\* The token is spent although the list is empty.
FindEmpty(c) ==
  /\ lock = NoThread
  /\ queue = <<>>
  /\ \/ call[c].wait # "try" /\ Goto(c, "woken", "wait")
     \/ call[c].wait # "forever" /\ Goto(c, "woken", "idle")
  /\ UNCHANGED <<nodeVars, lock, sem, posterVars, consumerVars>>

-----------------------------------------------------------------------------
(* Selective receive: SAL_Receive_Only takes its list from the call, the   *)
(* other receives use the selection of the queue's owner.                  *)

Filter(c) == IF call[c].slot = "rx_only" THEN call[c].events ELSE selected

Matching(events) == {i \in 1 .. Len(queue) : message[queue[i]].event \in events}

IsFirst(i, S) == i \in S /\ \A j \in S : i <= j

\* SAL_I_Search_Message_Queue / SAL_I_Search_Selected_Message found a message
TakeMatching(c) ==
  \E i \in 1 .. Len(queue) :
    /\ IsFirst(i, Matching(Filter(c)))
    /\ RemoveNodeFromQueue(i)
    /\ held' = [held EXCEPT ![<<c, call[c].slot>>] = queue[i]]
    /\ UNCHANGED <<free, message, heap, lock, posterVars, call, selected>>

SearchHit(c) ==
  /\ lock = NoThread
  /\ TakeMatching(c)
  /\ Goto(c, "search", "owing")
  /\ UNCHANGED <<sem, msgCnt>>

\* SAL_Wait_Semaphore for a message that was removed before
PayToken(c) ==
  /\ sem > 0 /\ sem' = sem - 1
  /\ Goto(c, "owing", "idle")
  /\ UNCHANGED <<nodeVars, lock, posterVars, consumerVars>>

\* SAL_I_Try_Receive_Selected_From waits for its token for one second only.
PayTimeout(c) ==
  /\ sem = 0
  /\ call[c].slot = "current" /\ call[c].wait = "try"
  /\ Goto(c, "owing", "idle")
  /\ UNCHANGED <<nodeVars, lock, sem, posterVars, consumerVars>>

\* Mutant: the tokens are collected without a look at the list.
SearchMissBlind(c) ==
  /\ lock = NoThread
  /\ IF call[c].wait = "try"
     THEN /\ Goto(c, "search", "idle")
          /\ UNCHANGED <<sem, msgCnt>>
     ELSE /\ Goto(c, "search", "drained")
          /\ msgCnt' = [msgCnt EXCEPT ![c] = sem]
          /\ sem' = 0
  /\ UNCHANGED <<nodeVars, lock, posterVars, held, call, selected>>

SearchMiss(c) ==
  /\ lock = NoThread
  /\ Matching(Filter(c)) = {}
  /\ IF call[c].wait = "try"
     THEN /\ Goto(c, "search", "idle")
          /\ UNCHANGED <<sem, msgCnt>>
     ELSE /\ Goto(c, "search", "drained")
          /\ msgCnt' = [msgCnt EXCEPT ![c] = sem]
          /\ sem' = 0
  /\ UNCHANGED <<nodeVars, lock, posterVars, held, call, selected>>

Wake(c) ==
  /\ sem > 0 /\ sem' = sem - 1
  /\ Goto(c, "drained", "rescan")
  /\ UNCHANGED <<nodeVars, lock, posterVars, consumerVars>>

GiveUp(c) ==
  /\ sem = 0
  /\ call[c].wait = "timeout"
  /\ Goto(c, "drained", "expired")
  /\ UNCHANGED <<nodeVars, lock, sem, posterVars, consumerVars>>

\* Mutant: the collected tokens are not returned with the message.
RescanHitKeep(c) ==
  /\ lock = NoThread
  /\ TakeMatching(c)
  /\ msgCnt' = [msgCnt EXCEPT ![c] = 0]
  /\ Goto(c, "rescan", "idle")
  /\ UNCHANGED sem

\* The token that woke the receiver pays for the message.
RescanHit(c) ==
  /\ lock = NoThread
  /\ TakeMatching(c)
  /\ sem' = sem + msgCnt[c]
  /\ msgCnt' = [msgCnt EXCEPT ![c] = 0]
  /\ Goto(c, "rescan", "idle")

RescanMiss(c) ==
  /\ lock = NoThread
  /\ Matching(Filter(c)) = {}
  /\ \/ /\ msgCnt' = [msgCnt EXCEPT ![c] = @ + 1 + sem]
        /\ sem' = 0
        /\ Goto(c, "rescan", "drained")
     \/ /\ call[c].wait = "timeout"
        /\ msgCnt' = [msgCnt EXCEPT ![c] = 0]
        /\ sem' = sem + msgCnt[c] + 1
        /\ Goto(c, "rescan", "idle")
  /\ UNCHANGED <<nodeVars, lock, posterVars, held, call, selected>>

\* Mutant: a receive that timed out keeps the collected tokens.
ExpireKeep(c) ==
  /\ lock = NoThread
  /\ msgCnt' = [msgCnt EXCEPT ![c] = 0]
  /\ Goto(c, "expired", "idle")
  /\ UNCHANGED <<nodeVars, lock, sem, posterVars, held, call, selected>>

Expire(c) ==
  /\ lock = NoThread
  /\ sem' = sem + msgCnt[c]
  /\ msgCnt' = [msgCnt EXCEPT ![c] = 0]
  /\ Goto(c, "expired", "idle")
  /\ UNCHANGED <<nodeVars, lock, posterVars, held, call, selected>>

-----------------------------------------------------------------------------
(* Operations of the owner between its receive calls.                      *)

\* SAL_Select, and SAL_Unselect for the empty set
Select(events) ==
  /\ pc[Owner] = "idle"
  /\ selected' = events
  /\ UNCHANGED <<nodeVars, lock, sem, posterVars, held, call, msgCnt, pc>>

\* SAL_Purge (events = Events) and SAL_Purge_Only keep the lock for the
\* whole loop; only signals and token takers run beside it.
PurgeBegin(events) ==
  /\ lock = NoThread /\ lock' = Owner
  /\ sem < MaxTokens
  /\ call' = [call EXCEPT ![Owner].events = events]
  /\ Goto(Owner, "idle", "purging")
  /\ UNCHANGED <<nodeVars, sem, posterVars, held, msgCnt, selected>>

PurgeNext ==
  /\ pc[Owner] = "purging"
  /\ \E i \in 1 .. Len(queue) :
       /\ IsFirst(i, Matching(call[Owner].events))
       /\ RemoveNodeFromQueue(i)
       /\ FreeNode(queue[i])
  /\ sem' = IF sem > 0 THEN sem - 1 ELSE sem
  /\ UNCHANGED <<lock, posterVars, consumerVars, pc>>

PurgeEnd ==
  /\ Matching(call[Owner].events) = {}
  /\ Goto(Owner, "purging", "idle")
  /\ lock' = NoThread
  /\ UNCHANGED <<nodeVars, sem, posterVars, consumerVars>>

-----------------------------------------------------------------------------

\* What a poster that is inside SAL_I_Post_Message does next.
PosterStep(p) == DisplacedInsert(p) \/ DisplacedNoMemory(p) \/ Signal(p)

\* What the router that took a node does next.
RouterStep == TakeDisplacedNode \/ PostMessageNode \/ ReadFails

\* What a consumer that is inside a receive call does next.
PendStep(c) == TakeToken(c) \/ TakeFirst(c) \/ FindEmpty(c) \/ NoTokenInTime(c)
SelectiveStep(c) == \/ SearchHit(c) \/ PayToken(c) \/ PayTimeout(c)
                    \/ SearchMiss(c) \/ Wake(c) \/ GiveUp(c)
                    \/ RescanHit(c) \/ RescanMiss(c) \/ Expire(c)
PurgeStep == PurgeNext \/ PurgeEnd

\* The steps of a consumer inside a receive call that need queue_lock.
LockStep(c) == \/ TakeFirst(c) \/ FindEmpty(c) \/ SearchHit(c) \/ SearchMiss(c)
               \/ RescanHit(c) \/ RescanMiss(c) \/ Expire(c)

Next ==
  \/ \E p \in Posters, m \in Messages :
       \/ PostMessage(p, m) \/ RejectMessage(p, m) \/ Displace(p, m)
  \/ \E m \in Messages : TakeFreeNode(m)
  \/ (\E p \in Posters : PosterStep(p)) \/ RouterStep
  \/ \E c \in Consumers, k \in Calls : Receive(c, k)
  \/ \E c \in Consumers : PendStep(c) \/ SelectiveStep(c)
  \/ \E events \in Selections : Select(events)
  \/ \E events \in PurgeLists : PurgeBegin(events)
  \/ PurgeStep

Spec == Init /\ [][Next]_vars

(***************************************************************************)
(* Fairness: a thread that can run inside a call eventually runs (the      *)
(* scheduler of the operating system); nobody is obliged to start a call.  *)
(* A read of the router ends, with the data or when the connection does,   *)
(* and a receiver that waits for queue_lock gets it although the router    *)
(* takes it again and again: in between the router waits for a message.    *)
(***************************************************************************)
Fairness ==
  /\ \A p \in Posters \ {Router} : WF_vars(PosterStep(p))
  /\ WF_vars(PosterStep(Router) \/ RouterStep)
  /\ \A c \in Consumers :
       WF_vars(PendStep(c)) /\ WF_vars(SelectiveStep(c)) /\ SF_vars(LockStep(c))
  /\ WF_vars(PurgeStep)

FairSpec == Spec /\ Fairness

-----------------------------------------------------------------------------
(* Properties *)

PcState == {"idle", "signal", "displacing", "reading", "wait", "poll", "woken", "search",
            "owing", "drained", "rescan", "expired", "purging"}

TypeOK ==
  /\ queue \in Seq(Nodes)
  /\ urgentTail \in Nodes \cup {EndMarker}
  /\ free \subseteq Nodes /\ heap \subseteq Nodes
  /\ message \in [Nodes -> AnyMessage \cup {NoMessage}]
  /\ messageCount \in Int
  /\ lock \in Threads \cup {NoThread}
  /\ sem \in Nat
  /\ displaced \in Nodes \cup {NoNode}
  /\ posting \in [Posters -> AnyMessage \cup {NoMessage}]
  /\ filling \in Nodes \cup {NoNode} /\ leaked \in Nat
  /\ held \in [Consumers \X Slots -> Nodes \cup {NoNode}]
  /\ call \in [Consumers -> AnyCall]
  /\ msgCnt \in [Consumers -> Nat]
  /\ selected \subseteq Events
  /\ pc \in [Threads -> PcState]

HeldNodes == {held[h] : h \in Consumers \X Slots} \ {NoNode}

\* Who is where: a poster inside Displace, the router that reads and the owner
\* inside SAL_Purge are the holders of the lock, and only they keep it between
\* steps; the node in the hands of a poster and the urgent message it is for,
\* or the node in the hands of the router, exist exactly then.
LockDiscipline ==
  /\ \A p \in Posters : pc[p] \in {"idle", "signal", "displacing", "reading"}
  /\ \A c \in Consumers :
       /\ pc[c] \notin {"signal", "displacing", "reading"}
       /\ pc[c] = "purging" => c = Owner
  /\ \A t \in Threads : lock = t <=> pc[t] \in {"displacing", "reading", "purging"}
  /\ displaced # NoNode <=> \E p \in Posters : pc[p] = "displacing"
  /\ filling # NoNode <=> pc[Router] = "reading"
  /\ \A p \in Posters :
       /\ pc[p] = "reading" => p = Router
       /\ pc[p] = "displacing" => posting[p] \in AnyMessage /\ posting[p].urgent

\* A receive call that still looks for a message has given back the one
\* before: the slot it will fill is empty.
SlotEmptyInCall ==
  \A c \in Consumers :
    pc[c] \notin {"idle", "purging", "owing"} => held[<<c, call[c].slot>>] = NoNode

\* The nodes in the hands of a poster.
InHand == {displaced, filling} \ {NoNode}

\* Every node of the table is in exactly one place: on the free list, linked
\* once in the queue, held by one consumer, or in the hands of the poster
\* that displaced its message or of the router that reads into it.  A node in
\* two places would be overwritten while it is read; a node in none would
\* shrink the queue for good.
NodeConservation ==
  /\ IsInjective(queue)
  /\ \A g, h \in Consumers \X Slots : held[g] = held[h] /\ held[g] # NoNode => g = h
  /\ free \cap Range(queue) = {}
  /\ HeldNodes \cap (free \cup Range(queue)) = {}
  /\ InHand \cap (free \cup Range(queue) \cup HeldNodes) = {}
  /\ displaced = NoNode \/ filling = NoNode
  /\ Nodes = free \cup Range(queue) \cup HeldNodes \cup InHand

\* The urgent messages form a prefix of the queue and urgent_tail is its
\* last node, however receives from the middle, purges and displacements
\* were mixed: the next urgent message overtakes every normal one and no
\* urgent one.
UrgentTailMarksPrefix ==
  /\ \A i, j \in 1 .. Len(queue) :
       i < j /\ message[queue[j]].urgent => message[queue[i]].urgent
  /\ \A i \in 1 .. Len(queue) :
       queue[i] = urgentTail <=>
         /\ message[queue[i]].urgent
         /\ i < Len(queue) => ~message[queue[i + 1]].urgent
  /\ urgentTail = EndMarker \/ urgentTail \in Range(queue)

\* The nodes that carry a message: queued, held, or being read.
Carriers == Range(queue) \cup HeldNodes \cup ({filling} \ {NoNode})

NodesCarryMessages == \A n \in Carriers : message[n] \in AnyMessage

\* A node has a buffer from alloc_buf exactly while it carries a big message:
\* none is freed twice or before its message is gone, whether it was received,
\* purged, displaced or not read to its end, and each is freed then, but for
\* the ones that failed reads of a publish leave (leaked, NoBufferLeaked).
BuffersMatchMessages == heap = {n \in Carriers : message[n].big}

\* "If the buffer was allocated by alloc_buf callback, it is dealocated by
\* free_buf callback" (SAL_I_Free_Message_Data_Buffer); not checked: the
\* buffer of a publish whose read fails is not.
NoBufferLeaked == leaked = 0

\* The statistics tell the truth about the list whenever the lock is free.
CountIsLength == messageCount = Len(queue)

InState(threads, states) == {t \in threads : pc[t] \in states}
Collected == UNION {{c} \X (1 .. msgCnt[c]) : c \in Consumers}

\* Tokens on their way: signals that will be sent, tokens taken by a
\* consumer that has not looked at the list yet, tokens collected by a
\* selective receive.
TokensInFlight ==
  Cardinality(InState(Posters, {"signal"}))
    + Cardinality(InState(Consumers, {"woken", "rescan"}))
    + Cardinality(Collected)

\* Messages that left the list before their token was taken.
TokensOwed ==
  Cardinality(InState(Consumers, {"owing"}))
    + (IF displaced = NoNode THEN 0 ELSE 1)

\* No wakeup is lost: for every message in the list, and every removal
\* still to be paid, there is a token in the semaphore or on its way to it.
\* With fewer, a receiver would sleep beside a queued message.
NoLostWakeup == sem + TokensInFlight >= Len(queue) + TokensOwed

\* The inductive invariant of the node table: with it each step keeps the
\* safety invariants above, for any number of threads and nodes.
NodeInv ==
  /\ TypeOK /\ LockDiscipline /\ SlotEmptyInCall /\ NodeConservation
  /\ NodesCarryMessages /\ BuffersMatchMessages /\ CountIsLength

\* SAL_Receive: "the pointer is only valid until the next invocation", and
\* until then it is: nothing another thread does reuses the node.
HeldMessageStable ==
  [][\A h \in Consumers \X Slots :
       held[h] # NoNode /\ held'[h] = held[h]
         => message'[held[h]] = message[held[h]] /\ message[held[h]] # NoMessage]_vars

\* The list with its urgent_tail, its free list and its nodes implements the
\* bounded priority queue: order, eviction and capacity are what
\* PriorityQueue promises, whatever the semaphore does meanwhile.  A node that
\* the router reads into counts as room until its message is posted.
UrgentLength == Cardinality({i \in 1 .. Len(queue) : message[queue[i]].urgent})
Contents == [i \in 1 .. Len(queue) |-> message[queue[i]]]
UrgentMessages == SubSeq(Contents, 1, UrgentLength)
NormalMessages == SubSeq(Contents, UrgentLength + 1, Len(queue))
Room == Cardinality(free) + (IF filling = NoNode THEN 0 ELSE 1)
Evicting == displaced # NoNode
Taken == Cardinality(HeldNodes)

Store == INSTANCE PriorityQueue WITH
  Message <- Messages, Event <- Events, Capacity <- Cardinality(Nodes),
  urgent <- UrgentMessages, normal <- NormalMessages,
  room <- Room, evicting <- Evicting, taken <- Taken

ImplementsPriorityQueue == Store!Spec

\* A plain receiver does not sleep forever beside a message.
WaitingReceiverServed ==
  \A c \in Consumers :
    pc[c] \in {"wait", "woken"} /\ queue # <<>> ~> pc[c] = "idle"

\* When every thread of a pool waits, one of them gets the queued message
\* (which one is up to the semaphore).
PoolServed ==
  (queue # <<>> /\ \A c \in Consumers : pc[c] \in {"wait", "woken"})
    ~> \E c \in Consumers : pc[c] = "idle"

\* A selective receiver does not sleep forever beside a message it wants.
SelectiveReceiverServed ==
  \A c \in Consumers :
    pc[c] \in {"drained", "rescan"} /\ Matching(Filter(c)) # {} ~> pc[c] = "idle"

\* A consumer that removed its message gets the token for it.
OwedTokenArrives == \A c \in Consumers : pc[c] = "owing" ~> pc[c] = "idle"

\* The tokens are all with receivers: nobody signals one any more, and those
\* who took one wait for the lock or for more.
ReceiversHaveTokens ==
  /\ sem = 0 /\ InState(Posters, {"signal"}) = {}
  /\ \/ InState(Consumers, {"woken", "rescan"}) # {}
     \/ Collected # {}

\* An urgent post that displaced a message finishes, unless receivers have
\* every token for good: no other loss of a token, by a purge, a timeout, a
\* displacement or a rescan, leaves it waiting under queue_lock.
DisplacementEndsOrReceiversHaveTokens ==
  \A p \in Posters :
    pc[p] = "displacing" ~> pc[p] # "displacing" \/ []ReceiversHaveTokens

\* "the last normal message is removed from the queue and the urgent message
\* is put into the queue instead": an urgent post that displaced a message
\* finishes (_inc/xsal_i_message_queue.h, SAL_I_Post_Message); not checked:
\* a receiver can have the token and wait for the lock, or for a message.
DisplacementCompletes == \A p \in Posters : pc[p] = "displacing" ~> pc[p] = "idle"

\* "Queue should be able to store queue_size new messages when thread is
\* processing a current message": with queue_size + 1 nodes, no post finds
\* the table empty before queue_size messages are queued.
RoomForQueueSize ==
  free = {} /\ InHand = {} => Len(queue) >= Cardinality(Nodes) - 1
=============================================================================
