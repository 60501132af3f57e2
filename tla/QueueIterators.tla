--------------------------- MODULE QueueIterators ----------------------------
(***************************************************************************)
(* The iterators over the message queue of a thread (full/xsal_*message.c, *)
(* full/xsal_*queue_*.c).  An iterator is the address of a node; the owner *)
(* of the queue moves it, and removes messages with it, one call at a time,*)
(* while other threads post, and may receive from the same queue           *)
(* (SAL_Receive_From).  Here the list is the linked one of the code        *)
(* (common/xsal_i_message_queue.c), because an iterator sees its links:    *)
(* a node that an urgent message took over, or that went back to the free  *)
(* list, may still be pointed to.  What other calls make of the queue is   *)
(* the subject of MessageQueue.                                            *)
(***************************************************************************)
EXTENDS Integers, FiniteSets

CONSTANTS
  Nodes,       \* the node table without the end marker: 1 .. queue_size + 1
  Posters,     \* threads that post to the queue
  Owner,       \* the thread that walks it
  Pool,        \* the other threads that receive from it
  Serials,     \* bound: the number of messages posted
  End,         \* the end marker
  NULL         \* no node, no thread

VARIABLE queue   \* the list, the semaphore, the posters and the walk

vars == queue

Receivers == Pool \cup {Owner}

(* iterator: the iterator of the owner; start: the messages in the list     *)
(* when it was set; seen: those it has passed since; disturbed: since then  *)
(* an urgent message displaced another one and then found no memory, or     *)
(* another thread received; lock: who waits for a token under queue_lock;   *)
(* waits, took: who waits for a token in a receive call, and who took one   *)
(* and waits for the lock; current: the message each receiver has.          *)
Init ==
  queue = [next |-> [n \in Nodes \cup {End} |->
                       IF n = End THEN End ELSE IF n + 1 \in Nodes THEN n + 1 ELSE NULL],
           prev |-> [n \in Nodes \cup {End} |-> IF n = End THEN End ELSE NULL],
           free_head |-> CHOOSE n \in Nodes : n - 1 \notin Nodes,
           urgent_tail |-> End,
           message |-> [n \in Nodes |-> 0],
           posted |-> 0, tokens |-> 0, lock |-> NULL,
           displaced |-> NULL, signals |-> {},
           waits |-> {}, took |-> {}, current |-> [r \in Receivers |-> NULL],
           iterator |-> NULL, start |-> {}, seen |-> {}, disturbed |-> FALSE]

Unlocked == queue.lock = NULL

\* The nodes that the links lead through, from the end marker on.
Reached(link) ==
  LET nth[k \in 0 .. Cardinality(Nodes) + 1] ==
        IF k = 0 THEN {End} ELSE nth[k - 1] \cup {link[n] : n \in nth[k - 1] \ {NULL}}
  IN  nth[Cardinality(Nodes) + 1]

InList == Reached(queue.next) \ {End}

FreeNodes ==
  LET nth[k \in 0 .. Cardinality(Nodes)] ==
        IF k = 0 THEN {queue.free_head}
        ELSE nth[k - 1] \cup {queue.next[n] : n \in nth[k - 1] \ {NULL}}
  IN  nth[Cardinality(Nodes)] \ {NULL}

-----------------------------------------------------------------------------
(* The operations of the list.                                             *)

\* Insert_Node_To_List: in front of pos.
Inserted(q, pos, n) ==
  [q EXCEPT !.next[n] = pos, !.prev[n] = q.prev[pos],
            !.next[q.prev[pos]] = n, !.prev[pos] = n]

\* SAL_I_Remove_Node_From_List: the links of the node itself stay.
Unlinked(q, n) ==
  [q EXCEPT !.next[q.prev[n]] = q.next[n], !.prev[q.next[n]] = q.prev[n]]

\* SAL_I_Remove_Node_From_Queue
Removed(q, n) ==
  [Unlinked(q, n) EXCEPT !.urgent_tail = IF @ = n THEN q.prev[n] ELSE @]

\* SAL_I_Add_Node_To_Free_List
Freed(q, n) == [q EXCEPT !.next[n] = q.free_head, !.free_head = n]

\* SAL_I_Post_Message: node n gets the next message and its place.
Posted(q, n, urgent) ==
  LET r == [q EXCEPT !.message[n] = q.posted + 1, !.posted = @ + 1] IN
  IF urgent THEN [Inserted(r, r.next[r.urgent_tail], n) EXCEPT !.urgent_tail = n]
  ELSE Inserted(r, End, n)

-----------------------------------------------------------------------------
(* Posting.                                                                *)

Idle(p) == p \notin queue.signals /\ queue.lock # p

Post(p, urgent) ==
  /\ Unlocked /\ Idle(p) /\ queue.posted < Serials
  /\ queue.free_head # NULL
  /\ LET n == queue.free_head IN
     queue' = [Posted([queue EXCEPT !.free_head = queue.next[n]], n, urgent)
                 EXCEPT !.signals = @ \cup {p}]

\* Get_Free_Node on a full queue, up to the wait for the token of the message.
Displace(p) ==
  /\ Unlocked /\ Idle(p) /\ queue.posted < Serials
  /\ queue.free_head = NULL /\ queue.prev[End] # queue.urgent_tail
  /\ LET n == queue.prev[End] IN
     queue' = [Unlinked(queue, n) EXCEPT !.displaced = n, !.lock = p]

PostDisplaced(p) ==
  /\ queue.lock = p /\ queue.tokens > 0
  /\ queue' = [Posted(queue, queue.displaced, TRUE) EXCEPT
                 !.tokens = @ - 1, !.displaced = NULL, !.lock = NULL,
                 !.signals = @ \cup {p}]

\* alloc_buf fails: the node of the displaced message is free.
DisplacedNoMemory(p) ==
  /\ queue.lock = p /\ queue.tokens > 0
  /\ queue' = [Freed(queue, queue.displaced) EXCEPT
                 !.tokens = @ - 1, !.displaced = NULL, !.lock = NULL, !.disturbed = TRUE]

Signal(p) ==
  /\ p \in queue.signals
  /\ queue' = [queue EXCEPT !.tokens = @ + 1, !.signals = @ \ {p}]

-----------------------------------------------------------------------------
(* The owner.                                                              *)

\* The owner is in no receive call.
AtWork == Owner \notin queue.waits \cup queue.took

(* The walk goes on only while the iterator is in the list: what the calls  *)
(* make of a node that is not, IteratorIsLinked is there to exclude.        *)
AtMessage == queue.iterator \in InList

Messages(nodes) == {queue.message[n] : n \in nodes}

\* SAL_First_Message: a walk over what is in the list begins.
First ==
  /\ Unlocked /\ AtWork
  /\ queue' = [queue EXCEPT !.iterator = queue.next[End], !.start = Messages(InList),
                            !.seen = {}, !.disturbed = FALSE]

\* SAL_Last_Message, SAL_Queue_End: no walk forward.
Last ==
  /\ Unlocked /\ AtWork
  /\ \E n \in {queue.prev[End], End} :
       queue' = [queue EXCEPT !.iterator = n, !.start = {}, !.seen = {},
                              !.disturbed = FALSE]

\* SAL_Next_Message, after SAL_Is_Queue_End.
Next_Message ==
  /\ Unlocked /\ AtMessage
  /\ queue' = [queue EXCEPT !.iterator = queue.next[@],
                            !.seen = @ \cup {queue.message[queue.iterator]}]

\* SAL_Prev_Message, after SAL_Is_Queue_Begin.
Prev_Message ==
  /\ Unlocked
  /\ AtMessage \/ queue.iterator = End
  /\ queue.iterator # queue.next[End]
  /\ queue' = [queue EXCEPT !.iterator = queue.prev[@], !.start = {}, !.seen = {}]

(* SAL_Remove_Message: the message is gone and the iterator has moved when  *)
(* the owner waits for the token of the message, under queue_lock.          *)
Remove ==
  /\ Unlocked /\ AtMessage
  /\ LET n == queue.iterator IN
     queue' = [Freed(Removed(queue, n), n) EXCEPT !.iterator = queue.next[n],
                                                  !.lock = Owner]

RemoveEnd ==
  /\ queue.lock = Owner /\ queue.tokens > 0
  /\ queue' = [queue EXCEPT !.tokens = @ - 1, !.lock = NULL]

-----------------------------------------------------------------------------
(* Receiving, by the owner and the other threads of a pool.                *)

(* A receive call gives back the message of the one before; one of the      *)
(* owner ends its walk.                                                     *)
Receive(r) ==
  /\ r \notin queue.waits \cup queue.took /\ queue.lock # r
  /\ LET n == queue.current[r]
         q == [queue EXCEPT !.waits = @ \cup {r},
                            !.iterator = IF r = Owner THEN NULL ELSE @] IN
     IF n = NULL THEN queue' = q
     ELSE Unlocked /\ queue' = [Freed(q, n) EXCEPT !.current[r] = NULL]

TakeToken(r) ==
  /\ r \in queue.waits /\ queue.tokens > 0
  /\ queue' = [queue EXCEPT !.tokens = @ - 1, !.waits = @ \ {r}, !.took = @ \cup {r}]

\* The timed and the polling calls.
NoTokenInTime(r) ==
  /\ r \in queue.waits /\ queue.tokens = 0
  /\ queue' = [queue EXCEPT !.waits = @ \ {r}]

\* SAL_I_Pend_Message waits again if the list is empty.
TakeMessage(r) ==
  /\ r \in queue.took /\ Unlocked
  /\ LET n == queue.next[End] IN
     queue' = IF n = End THEN [queue EXCEPT !.took = @ \ {r}, !.waits = @ \cup {r}]
              ELSE [Removed(queue, n) EXCEPT
                      !.took = @ \ {r}, !.current[r] = n,
                      !.disturbed = @ \/ r # Owner]

Next ==
  \/ \E p \in Posters :
       \/ \E urgent \in BOOLEAN : Post(p, urgent)
       \/ Displace(p) \/ PostDisplaced(p) \/ DisplacedNoMemory(p) \/ Signal(p)
  \/ First \/ Last \/ Next_Message \/ Prev_Message \/ Remove \/ RemoveEnd
  \/ \E r \in Receivers : Receive(r) \/ TakeToken(r) \/ NoTokenInTime(r) \/ TakeMessage(r)

Spec == Init /\ [][Next]_vars

-----------------------------------------------------------------------------
(* ListIsWellLinked: both chains of links lead through the same nodes and   *)
(* back to the end marker, urgent_tail is among them, and every other node  *)
(* is free, in the hands of a receiver, or about to carry the message that  *)
(* displaced another one (xsal_i_message_queue.c:65).                       *)
ListIsWellLinked ==
  /\ \A n \in InList \cup {End} : queue.prev[queue.next[n]] = n
  /\ queue.urgent_tail \in InList \cup {End}
  /\ InList \cap FreeNodes = {}
  /\ LET out == {queue.displaced} \cup {queue.current[r] : r \in Receivers}
     IN  /\ (InList \cup FreeNodes) \cap out \subseteq {NULL}
         /\ InList \cup FreeNodes \cup out = Nodes \cup ({NULL} \cap out)

(* WaiterIsServed: whoever waits for a token under queue_lock, in           *)
(* SAL_Remove_Message or to displace a message, has one, or a poster that   *)
(* needs no lock is about to signal it, or a receiver took it: no removal,  *)
(* displacement or receive loses the token of another message.  The owner   *)
(* of a queue without a pool therefore always removes its message           *)
(* (xsal_remove_message.c:64).                                              *)
WaiterIsServed ==
  queue.lock # NULL =>
    queue.tokens > 0 \/ queue.signals # {} \/ queue.took \ {queue.lock} # {}

(* RemoveCompletes: "Decrement message counter in the semaphore"            *)
(* (xsal_remove_message.c:62) comes to an end.  Another thread of a pool    *)
(* can have the token and wait for the lock; not checked.                   *)
RemoveCompletes ==
  queue.lock = Owner => queue.tokens > 0 \/ queue.signals # {}

(* IteratorIsLinked: between the calls the iterator is in the list or at    *)
(* its end, although posters displace messages, until one of them finds no  *)
(* memory for its urgent message (xsal_i_message_queue.c:121) or another    *)
(* thread receives.                                                         *)
IteratorIsLinked ==
  queue.iterator # NULL /\ Unlocked /\ ~ queue.disturbed
    => queue.iterator \in InList \cup {End}

(* WalkSeesAll: a walk from the first message to the end passes every       *)
(* message that was there at its beginning and still is                     *)
(* (xsal.h:2176, "moves it to the next message in the queue").              *)
WalkSeesAll ==
  queue.iterator = End /\ Unlocked /\ ~ queue.disturbed
    => queue.start \cap Messages(InList) \subseteq queue.seen
=============================================================================
