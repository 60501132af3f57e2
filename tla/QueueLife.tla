------------------------------ MODULE QueueLife ------------------------------
(***************************************************************************)
(* The message queues of the threads that use one entry of the thread      *)
(* table, one after the other (common/xsal_i_message_queue.c).  A thread   *)
(* creates its queue when it likes, and it goes with the thread, while     *)
(* others post to the entry all the time: before there is a queue, after   *)
(* it went, and with a post begun in the life of one thread and finished   *)
(* in that of the next.  The structure in the entry is the same for all;   *)
(* nodes belong to the life that allocated them.  POSIX: a token given to  *)
(* a semaphore that was destroyed is lost.  Selective receiving, and who   *)
(* waits while the router reads under the lock, are the subjects of        *)
(* MessageQueue, the entry itself that of ThreadTable.                     *)
(***************************************************************************)
EXTENDS Integers, FiniteSets, SequencesExt

CONSTANTS
  Posters,   \* other threads, and the timers
  Router,    \* the poster that reads messages of other applications
  Size,      \* queue_size of SAL_Create_Queue
  Lives,     \* bound: threads that use the entry
  MaxPosts,  \* bound: messages accepted
  NULL       \* no node, no thread, no life

VARIABLE q

vars == q

(* tab: the life whose node_tab is allocated.  urgents: urgent_tail as the  *)
(* number of nodes up to it.  heap: the nodes with data from alloc_buf.     *)
(* took: the owner has a token and waits for the lock.  lock: a poster that *)
(* waits for a token with queue_lock; displaced: its node and its message.  *)
(* signals: the life to which a poster that did not signal yet has posted.  *)
(* fault: end_marker was used where there is none; nothing is said of what  *)
(* follows.  leak: a buffer from alloc_buf is in the data of no node.       *)
Init ==
  q = [life |-> 0, owner |-> "none", tab |-> NULL, list |-> <<>>, urgents |-> 0,
       free |-> {}, current |-> NULL, heap |-> {}, tokens |-> 0,
       lock |-> NULL, displaced |-> NULL, signals |-> [p \in Posters |-> NULL],
       count |-> 0, peak |-> 0, total |-> 0, posted |-> 0, fault |-> FALSE, leak |-> FALSE]

Unlocked == q.lock = NULL /\ ~ q.fault

\* queue_size + 1 nodes beside the end marker.
NodesOf(life) == {life} \X (1 .. Size + 1)

-----------------------------------------------------------------------------
(* The thread of the entry.                                                *)

StartThread ==
  /\ q.owner = "none" /\ q.life < Lives /\ ~ q.fault
  /\ q' = [q EXCEPT !.life = @ + 1, !.owner = "idle"]

\* One whose calloc fails leaves all as it is. A second queue fails an assertion.
SAL_I_Create_Message_Queue ==
  /\ Unlocked /\ q.owner = "idle" /\ q.tab = NULL
  /\ q' = [q EXCEPT !.tab = q.life, !.list = <<>>, !.urgents = 0, !.free = NodesOf(q.life),
                    !.tokens = 0, !.count = 0, !.peak = 0, !.total = 0]

\* A queue after SAL_I_Release_Message of the current message.
Released ==
  IF q.current = NULL THEN q
  ELSE [q EXCEPT !.heap = @ \ {q.current}, !.free = @ \cup {q.current}, !.current = NULL]

SAL_I_Receive_From ==
  /\ q.owner = "idle" /\ q.tab # NULL
  /\ ~ q.fault /\ (q.current # NULL => Unlocked)
  /\ q' = [Released EXCEPT !.owner = "waits"]

WaitToken ==
  /\ q.owner = "waits" /\ q.tokens > 0 /\ ~ q.fault
  /\ q' = [q EXCEPT !.tokens = @ - 1, !.owner = "took"]

\* Waits again if the list is empty.
SAL_I_Pend_Message ==
  /\ Unlocked /\ q.owner = "took"
  /\ q' = IF q.list = <<>> THEN [q EXCEPT !.owner = "waits"]
          ELSE [q EXCEPT !.current = Head(q.list), !.list = Tail(@), !.count = @ - 1,
                         !.urgents = IF @ > 0 THEN @ - 1 ELSE 0, !.owner = "idle"]

\* SAL_I_Free_Thread_Resources up to the destruction of the queue.
EndThread ==
  /\ q.owner = "idle" /\ ~ q.fault /\ (q.current # NULL => Unlocked)
  /\ q' = [Released EXCEPT !.owner = "ends"]

\* The data of the list go; end_marker and the counts stay as they are.
SAL_I_Destroy_Message_Queue ==
  /\ Unlocked /\ q.owner = "ends"
  /\ q' = IF q.tab = NULL THEN [q EXCEPT !.owner = "none"]
          ELSE [q EXCEPT !.owner = "none", !.heap = @ \ ToSet(q.list), !.list = <<>>,
                         !.urgents = 0, !.tab = NULL, !.free = {}, !.tokens = 0]

-----------------------------------------------------------------------------
(* The threads that post.                                                  *)

AtRest(p) == q.signals[p] = NULL /\ q.posted < MaxPosts

\* queue with node linked in; signals of p follow after the unlock.
Linked(queue, p, node, msg) ==
  [queue EXCEPT !.list = InsertAt(@, IF msg.urgent THEN queue.urgents + 1 ELSE Len(@) + 1, node),
                !.urgents = IF msg.urgent THEN @ + 1 ELSE @,
                !.heap = IF msg.big THEN @ \cup {node} ELSE @,
                !.count = @ + 1, !.total = @ + 1, !.posted = @ + 1,
                !.peak = IF queue.count + 1 > @ THEN queue.count + 1 ELSE @,
                !.signals[p] = queue.tab]

\* What becomes of a node for a message: no memory for big data leaves it free.
Outcomes(queue, p, node, msg) ==
  {Linked([queue EXCEPT !.free = @ \ {node}], p, node, msg)}
    \cup (IF msg.big THEN {[queue EXCEPT !.free = @ \cup {node}]} ELSE {})

AnyFree == CHOOSE node \in q.free : TRUE

SAL_I_Post_Message(p, msg) ==
  /\ Unlocked /\ AtRest(p) /\ q.free # {}
  /\ q' \in Outcomes(q, p, AnyFree, msg)

\* Get_Free_Node of an urgent message: it waits for the token of the one displaced.
Displace(p, msg) ==
  /\ Unlocked /\ AtRest(p) /\ q.free = {} /\ msg.urgent
  /\ q.tab # NULL /\ Len(q.list) > q.urgents
  /\ q' = [q EXCEPT !.list = Front(@), !.heap = @ \ {Last(q.list)}, !.count = @ - 1,
                    !.lock = p, !.displaced = [node |-> Last(q.list), msg |-> msg]]

PostDisplaced(p) ==
  /\ q.lock = p /\ q.tokens > 0 /\ ~ q.fault
  /\ q' \in Outcomes([q EXCEPT !.tokens = @ - 1, !.lock = NULL, !.displaced = NULL],
                     p, q.displaced.node, q.displaced.msg)

\* Get_Free_Node looks for a message to displace where there is no list.
UrgentWithoutQueue(msg) ==
  /\ Unlocked /\ q.tab = NULL /\ msg.urgent
  /\ q' = [q EXCEPT !.fault = TRUE]

SAL_Signal_Semaphore(p) ==
  /\ q.signals[p] # NULL /\ ~ q.fault
  /\ q' = [q EXCEPT !.signals[p] = NULL, !.tokens = IF q.tab # NULL THEN @ + 1 ELSE @]

\* What becomes of a node the router reads a message into: it is posted, with
\* the signal before the unlock, or there is no memory or the read fails and
\* the node is free again; Process_Publish has set its data to NULL by then.
ReadOutcomes(queue, node, msg) ==
  {[Linked(queue, Router, node, msg) EXCEPT !.tokens = queue.tokens + 1,
                                            !.signals = queue.signals]}
    \cup {[queue EXCEPT !.free = @ \cup {node}, !.leak = lost] :
            lost \in {queue.leak} \cup (IF msg.big THEN {TRUE} ELSE {})}

RouterReads(msg) ==
  /\ Unlocked /\ AtRest(Router) /\ q.free # {}
  /\ q' \in ReadOutcomes([q EXCEPT !.free = @ \ {AnyFree}], AnyFree, msg)

\* After Displace of the router.
RouterReadsDisplaced ==
  /\ q.lock = Router /\ q.tokens > 0 /\ ~ q.fault
  /\ q' \in ReadOutcomes([q EXCEPT !.tokens = @ - 1, !.lock = NULL, !.displaced = NULL],
                         q.displaced.node, q.displaced.msg)

AnyMessage == [urgent : BOOLEAN, big : BOOLEAN]

Next ==
  \/ StartThread \/ SAL_I_Create_Message_Queue \/ EndThread \/ SAL_I_Destroy_Message_Queue
  \/ SAL_I_Receive_From \/ WaitToken \/ SAL_I_Pend_Message
  \/ \E p \in Posters : PostDisplaced(p) \/ SAL_Signal_Semaphore(p)
  \/ \E p \in Posters, msg \in AnyMessage : SAL_I_Post_Message(p, msg) \/ Displace(p, msg)
  \/ \E msg \in AnyMessage : UrgentWithoutQueue(msg) \/ RouterReads(msg)
  \/ RouterReadsDisplaced

Spec == Init /\ [][Next]_vars

\* SAL_Stat_Queue: no answer without a queue.
SAL_Stat_Queue ==
  IF q.tab = NULL THEN NULL
  ELSE [queue_size |-> Size, message_count |-> q.count, peak |-> q.peak, total |-> q.total]

-----------------------------------------------------------------------------
InUse == ToSet(q.list) \cup (IF q.current = NULL THEN {} ELSE {q.current})
                       \cup (IF q.displaced = NULL THEN {} ELSE {q.displaced.node})

(* EachLifeItsNodes: every node of the table is in one place, on the free   *)
(* list, in the queue or in the hands of its owner or of a poster that took *)
(* it from the queue; without a table nothing is left in any of them, and   *)
(* no node has data but one that carries a message, whoever posted while    *)
(* the thread ended and whether the router could read its message or not.   *)
EachLifeItsNodes ==
  /\ Len(q.list) = Cardinality(ToSet(q.list)) /\ q.urgents =< Len(q.list)
  /\ InUse \cap q.free = {} /\ q.heap \subseteq InUse
  /\ InUse \cup q.free = IF q.tab = NULL THEN {} ELSE NodesOf(q.tab)
  /\ q.tab # NULL => q.tab = q.life /\ q.owner # "none"

(* RoomForSize: a queue of Size messages refuses one only if Size wait in   *)
(* it already, however many posts failed or displaced another before.       *)
RoomForSize ==
  q.tab # NULL /\ q.free = {} /\ q.lock = NULL => Len(q.list) >= Size

(* NoneUnannounced: a message of a queue has a token, or its poster is      *)
(* still to signal it, or the owner comes for it; posts to a former life    *)
(* may add tokens to the queue of the next but never take one away.         *)
NoneUnannounced ==
  q.tab # NULL =>
    Len(q.list) + (IF q.lock = NULL THEN 0 ELSE 1) =<
      q.tokens + Cardinality({p \in Posters : q.signals[p] = q.tab})
               + (IF q.owner = "took" THEN 1 ELSE 0)

(* StatsAreTrue: the statistics of a queue are about the queue that exists. *)
StatsAreTrue ==
  LET stat == SAL_Stat_Queue
  IN  stat # NULL => /\ stat.message_count = Len(q.list)
                     /\ stat.peak \in stat.message_count .. stat.queue_size + 1
                     /\ stat.total >= stat.peak /\ stat.total =< q.posted

(* NoQueueIsReported: a thread without a queue drops every message with     *)
(* SAL_No_Queue, as _inc/xsal_i_message_queue.h says of err. An urgent one  *)
(* makes Get_Free_Node use end_marker, which is not there; not checked.     *)
NoQueueIsReported == ~ q.fault

(* NoBufferLeaks: "If the buffer was allocated by alloc_buf callback, it is *)
(* dealocated by free_buf callback" (xsal_i_message_queue.c).  The one of a *)
(* publish whose read failed is not; not checked.                           *)
NoBufferLeaks == ~ q.leak
=============================================================================
