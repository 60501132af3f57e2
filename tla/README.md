# A verification development for XSAL

XSAL (directory `src/bb_xsal`) is an operating-system abstraction layer:
threads with message queues, synchronous and published messages between
applications, timers, locks, buffer pools, under Linux, QNX and Windows.  This
directory holds TLA+ modules translated from its C code, TLC configurations
that check them on small instances, and proofs, checked by TLAPS, that hold for
any number of threads, nodes and messages.

Paths below are relative to `src/bb_xsal/bb_xsal_src` unless they begin with
`src/`.  The flavour modelled is the full one (`XSAL`), on POSIX, except where
it says otherwise.

## 1. Inventory

| Part | State it keeps | Operations | Hard behaviour | What makes it correct |
|---|---|---|---|---|
| Message queue of a thread (`common/xsal_i_message_queue.c`, receive calls in `common/` and `full/`) | circular list of nodes, `urgent_tail`, free list, `queue_lock`, semaphore `message_available` | create, post (normal, urgent, with displacement), receive in twelve variants, select, purge, statistics, end | list and semaphore never change in one step; some calls take the token first, others the message | no wakeup lost, no node lost or shared, urgent first, buffers balanced |
| Queue iterators (`full/xsal_first_message.c`, ...) | the iterator, a bare node pointer | first, last, next, previous, get, remove | posters displace messages between two calls | the iterator stays on a message; a walk sees all |
| Threads (`common/xsal_create_thread.c`, `common/xsal_i_thread.c`) | table of entries, two semaphores per entry, counter of running threads | create, signal ready, wait ready / destroyed, exit | entries are reused; a thread waits for a token with the table's mutex held; gates opened after the mutex is gone | one token per gate, waiters see exactly the ends that happened, the end completes |
| Router thread (`full/xsal_i_run.c`) | channel, the message in work | receive from other applications, post into local queues, reply, exit | clients that die in the middle; full queues | every subscriber gets the event, the answer is true, no connection stays open |
| Name server (`full/xsal_ns_thread.c`, `full/xsal_ns_proxy.c`) | bound channels, global routing table | bind, resolve, unbind, subscribe, unsubscribe, queries | clients die while their requests wait | a directory: one channel for each port, none of a dead application |
| Publish / subscribe (`common/xsal_publish.c`, `common/xsal_subscribe.c`, ...) | property bits per thread and event, shared connections | subscribe, unsubscribe, publish, send | two tables in two processes, retry over a new connection | bits agree, no event lost to a subscriber that stays, duplicates only after a lost reply |
| Channels (`linux/xsal_rpc_linux.c`, `win32/xsal_rpc_win32.c`, `qnx/xsal_rpc_qnx.c`) | sockets, or the message passing of QNX | send, receive, read, reply, pulse | file descriptors used again, partial requests, clients that die at each point | nothing leaks, replies are true |
| Timers (`linux/xsal_timer_linux.c`; `qnx/`, `win32/`, `common/xsal_i_timer.c`) | Linux: three lists, one timer of the system; else a table, a free list and one timer of the system each | create, start, stop, destroy, expire | the handler works outside the lock; pulses and messages on their way | the system's timer is armed for the first of the list; each timer in one list; a free timer is silent |
| Read-write lock (`full/xsal_*rwlock*.c`) | Windows: two semaphores, a count, a flag | lock for read / write, with timeout, try, unlock | flag read without lock, cleared after the signal | exclusion, the lock is left open, nobody waits in a circle |
| Mutexes, semaphores, conditions (`linux/xsal_mutex_linux.c`, ...) | nesting count beside the system's lock | lock, wait, signal, with timeouts | count beside the system's one; two clocks | count and lock agree, timed calls end in time |
| Buffer pools (`common/xsal_i_buffer_pools.c`) | pools, free list through the buffers | create, allocate, free, destroy | user data over the list's links | a buffer has one owner |
| Shared memory (`full/xsal_*shared_memory.c`) | a name, objects, handles | create, open, close | the name is there before the size; crashes | the owner is found, mappings are backed |
| Debug levels (`full/xsal_i_dt.c`, `src/support/bbc_trace/bb_dbg_trace`, `src/tools/bb_dbg_ctrl`) | levels in force, a file | set, save, load; a tool that reads, changes, writes | crash while saving, tool and application at one file | a file is loaded whole or not at all |
| Process manager (`src/support/multi_process/bb_procman`) | processes and their states, start queue, inbox | start, observe, restart, change of configuration, shut down | processes end at any time, spawn threads report late | nobody is forgotten; a configuration is reached, a shutdown ends |
| Utilities (`src/support/bbc_util`) | ring buffer, block list, linked list, byte buffer, bit array, checksum, filter, conversions, strings and encodings | sequential data structures and functions | boundaries, overflow, caches, full destinations | implement their abstract types |
| Drivers (`src/support/bbc_base_drv_all`) | IIC slave: two buffers, two threads; IIC master: a lock, an open device, the segments of a transfer; UART: receive buffer | open, lock, transmit, reset, read | threads outlive the channel; buffers switched without the lock | messages and transfers whole and in order |
| Trace back ends, SPI, DIO, `src/bb_basa_make`, `src/cfg` | - | output, devices, build | - | not modelled |

How they interact: a thread calls `SAL_Send` or `SAL_Publish`.  For a thread of
its own application that is a call of `SAL_I_Post_Message` on the queue of the
receiver; for another one the message goes through a channel resolved by the
name server to the router thread there, which posts it.  The timer handler
posts too.  Threads receive from their own queue, and a pool of threads may
share one queue through `SAL_Receive_From`.  `SAL_Exit` sends a pulse to the
router, which ends the main loop.  The process manager spawns the
applications, hosts the name server and removes what a dead one left there.
The hazards met in the code are listed in `PROJECT.json`.

## 2. Plan

Done, in this order: `MessageQueue` with the abstract `PriorityQueue`, the core
of the system, with its proofs; `RWLock` and `ThreadTable` with their proofs; the
name server and what it stands for, with its refinement proof; subscriptions and
delivery, each with its proof; channels; timers, with their proof;
the process manager; synchronisation objects, pools, utilities; the iterators,
debug levels, shared memory and the drivers with state; strings, encodings and
the channels of the other systems; the queues of an entry one after the other;
the proofs of the process manager and of the two refinements.

What would come next: urgent events and `SAL_Local_Publish` in `Delivery`; the
proof that a thread table gives each life of `QueueLife` its queue; the parser of
the process manager.

## 3. The modules

### MessageQueue

Translates the queue of one thread, the posts and every receive call.

* `queue` is the list between the end marker and itself, `urgentTail` is
  `urgent_tail`, `free` the free list, `message[n]` the header of a node, `heap`
  the nodes whose data buffer came from `alloc_buf`, `messageCount` the
  statistics' counter, `sem` the count of `message_available`, `held` the
  two fields `current_message` and `current_rx_only_message`, `msgCnt` the
  local `msg_cnt` of the selective calls, `selected` the bits of `SAL_Select`.
* `lock` is `queue_lock`, but only while its holder blocks inside: a critical
  section that does not block is one action.  Those that block are the
  displacement (`Displace` to `DisplacedInsert`), the read of the router and the
  purge of the owner.
* Posting: `PostMessage` (list) and `Signal` (semaphore) are two steps, as in
  `SAL_I_Post_Message`; `RejectMessage` is a full queue or a failed allocation.
* The router (`Router`, one of the posters) also posts messages of other
  applications: it takes a free node or displaces a message (`TakeFreeNode`,
  `TakeDisplacedNode`), keeps the lock while it reads the data into the node
  (`filling`), and then posts it with the signal before the unlock
  (`PostMessageNode`) or frees it after a failed or short read (`ReadFails`).
  `Process_Publish` has set `message.data` to NULL by then, and `Process_Send` has
  not; `leaked` counts the buffers that are lost so, which `MaxLeaks` bounds.
* Receiving: a call is a record with the slot it fills, its list and how long
  it waits; `TakeToken`, `TakeFirst`, `FindEmpty` belong to `SAL_Receive` and
  `SAL_Receive_From`, `SearchHit`, `PayToken`, `SearchMiss`, `Wake`, `RescanHit`,
  `RescanMiss`, `Expire` to `SAL_Receive_Only` and, when events are selected,
  to `SAL_Receive`.
* Simplifications: the loop that drains the semaphore under the lock is one
  step; a selective receive that timed out locks the queue again but does not
  search again, as in the code; the ten-second limit of a lock and the branches
  after `PBC_Failed` are left out; of the statistics only `message_count` is kept.

`PriorityQueue` is the abstract store: two FIFO lists, the eviction of the
newest normal message for an urgent one, a count of free and held places.
`Store` in `MessageQueue` is the refinement mapping.

### RWLock

The Windows branch of `full/xsal_*rwlock*.c`; on POSIX these functions call
pthread.  Every access to a semaphore or to `write` is a step of its own,
`number_of_readers` changes with the step that has `read_sem`.  `wait` tells
which variant a thread called, `holds` what it holds between calls.
`overtaken` is a history variable: it becomes true when a thread uses `write`
while another one is between its signal of `write_sem` and `write = 0`.  This
is the only hole in the lock: while it stays false, exclusion and accounting
hold and are proved; with it they are lost (section 8).

### ThreadTable

The entries of `SAL_I_Thread_Table` (`live`, `is_ready`, the two semaphores),
`SAL_I_Number_Of_Running_User_Threads` (`running`), the mutex while its holder
blocks inside `SAL_I_Free_Thread_Resources`, the exit pulse and what `SAL_Run`
returns.  `leaving` counts threads between the unlock and the signal of
`thread_destroyed_sem`.  `SAL_Wait_Ready` and `SAL_Wait_Destroyed` are two steps,
`Take` and `Give`.  The search for a free entry may choose any (the code takes
the first, or the id of the attributes).  `gone` and `passed` are history
variables of the properties.  Left out: priorities, names, thread-local
storage; the timers, subscriptions and queue that a thread releases when it
ends (they are in the modules of those parts); a second `SAL_Run`; the waits
over lists, which are waits in a row.

### NameServer, NameService, ChannelDirectory, Subscriptions, Delivery

`ChannelDirectory` is the promise: a map from the ports of the applications to
channels, with room for `Capacity` of them, and a server that does with each
request what it asks.  The port and the channel of a step are those of the
request that was served, and the reply tells what came of it (`served`).
`NameServer` has the array with its holes and one operator for each handler
(`Bind_Channel`, `Unbind_App`, ...); `Handle` is one turn of the server's loop,
`Answer` the data of its reply.  `NameService` is the server on its own, with any
commands in any order; `Directory` there is the refinement mapping.

`Subscriptions` composes the server with the applications.  Requests on their way
are in `backlog`: each is a connection of its own, served in the order of the
connects, also when its client is dead (`Ask`, `Serve`, `Hang_Up`).  The subscription
bits are under `property_mutex`, which is held until the reply.  There are the
phases of an application from `Start` to `Leave`, `Crash` or `Kill`, and the clean-up
of the process manager.  `granted` and `residue` are history variables.

`Delivery` takes the directory instead of the server.  Senders share one table
of connections (`Connected`, `SAL_Connect`, `Send`, `Replied`, `Invalidate` are the
steps of `SAL_I_Publish` and `SAL_Send` between which others run); a router takes
a message (`Process_Send`, `Process_Publish`), posts a copy to each subscriber
and replies; it may leave, crash, be cleaned up after and come back.  Queues are
reduced to their room; `MessageQueue` has the rest.

### QueueLife

The structure of a queue is part of an entry of the thread table and outlives
the threads that use it: `life` counts them, and a node belongs to the life that
allocated it.  A thread may have no queue (yet), `SAL_I_Create_Message_Queue`
allocates the nodes and the semaphore, `SAL_I_Destroy_Message_Queue` takes them
away when the thread ends; all the while others post, and `signals` remembers to
which life a poster that still has to signal has posted.  The router posts with
its signal before the unlock, or its read fails (`RouterReads`,
`RouterReadsDisplaced`); `leak` remembers that a buffer was lost so.  Statistics are
those of `SAL_Stat_Queue`.  `fault` marks the use of an end marker that is not there, after
which the model says nothing (section 8).  `MessageQueue` is one life in detail.

### Rpc

The channels of Linux, Windows and QNX as the router uses them (`platform` says
which): requests, published messages, pulses and the pulse that ends the router;
what a client had written when it stopped, whether it still waits for the
answer, the descriptor that names its connection, and other threads of the
process that get the same numbers.  `told` is the status a client got and
`decided` the one the router had for its request.  SIGPIPE ends a router on
Linux that is not the process manager's (`Crash`).

### Timers, NativeTimers

`Timers` is Linux: what runs under `Timer_Mutex` is one step, the unlocked checks
before it are another, and the timer thread moves through `Sigwait`, `ReadClock`,
`Expired`, `SendEvent`, `Rearm`.  A clock with seconds and milliseconds makes the
carry visible.  `NativeTimers` has QNX and Windows: the common table and lists,
creation in two critical sections and destruction in three, pulses and
messages on their way that hold the address of a timer; time is left out, an
armed timer may expire at any moment.

### ProcessManager

One message of the main thread is one action; what its handler does to the
records is a function of the record `G`, in the code's order
(`Process_Event`, `Start_Next_Process`, ...).  Spawn threads fork and report in
steps of their own, processes initialise, exit and are reaped at any time.
What they report goes through `SAL_Local_Publish` (`Post`), which returns nothing:
the message is dropped when the queue of `PM_QUEUE_SIZE` messages is full or there
is no memory for it.  The ticks and requests, which share that queue, are not in
`inbox`, so it may be full at any time.  `unreported` has the processes that are
Spawning and whose report was dropped.

### Sync, BufferPool, QueueIterators, SharedMemory, DebugLevels, IicSlave, IicMaster, Uart

`Sync`: a mutex with the library's count, a condition variable, a semaphore, two
clocks; each call begins and ends in steps of its own.  `BufferPool`: the free
list that runs through the first word of the buffers.  `QueueIterators`: the
linked list of the queue with both chains of links, while posters displace and,
when the queue is shared (`Pool`), other threads receive from it; a receiver
takes its token first (`TakeToken`) and the message under the lock later
(`TakeMessage`).  `SharedMemory`: one name, the objects behind it, each call of the system a step.
`DebugLevels`: an application, its file and several runs of `dbg_ctrl`; every
write to the file a step, so that a crash or a reader meets the file half
written.  `IicSlave`: the buffers and flags of a channel, its send and receive
threads, callers under the lock and the switch that is not.  `IicMaster`: the lock
with its timeout, the device opened on demand, the segments collected between
start and stop, and a device that may lack functions.  `Uart`: device
buffer, channel buffer and caller's buffer; the bytes are numbered.

### The utilities

`RingBuffer` (two threads without a lock), `BlockList` and `DoubleLinkedList` (the
code's links and cache against plain sequences), `ByteDataBuffer`, `BitArray`,
`Checksum`, `LowPassFilter`, and the functions `Arithmetic` (limit checks,
interpolation, points in time), `Conversions` (codes, scaling, byte orders and strings of digits) and `Strings`
(bounded copies, words of a display, UTF-8 and wide characters).  `CInt` is the arithmetic of C: wrapping
to a width, division towards zero.  The widths and radixes are constants, so
that all inputs of an instance are few: a byte of three bits has the same
boundaries as one of eight.

## 4. What the runs check

| Run | Instance | Shows |
|---|---|---|
| `safety` | a poster and the router, 1 consumer with every call, 3 nodes, 2 events, 3 messages, a read that leaks; 435,496 states up to symmetry | the inductive `NodeInv`, conservation of nodes, urgent prefix, buffers, no lost wakeup, held messages stable, the refinement of `PriorityQueue` |
| `pool` | a poster and the router, 2 consumers, plain calls, urgent and normal messages; 50,850 states | a waiting pool is served |
| `displacement` | a poster and the router, 1 consumer, plain and selective calls, purges, urgent and normal messages; 209,679 states | an urgent post that displaced a message completes, unless receivers keep every token for good |
| `selective_live` | 1 consumer, every call, normal messages; 104,658 states | no receiver sleeps beside a message it wants |
| `rwlock` | 3 threads, every variant; 178,632 states | accounting, exclusion and the open lock while nobody overtakes; the threads do not wait in a circle |
| `threads` | 2 entries, 3 creations, waits on each; 85,532 states | entries, gates and counter agree, an end cannot be missed; a thread that ends leaves, `SAL_Run` returns, waiters wake |
| `subscriptions` | 2 threads of an application that leaves, crashes, is killed and starts again, 2 events, a lost request; 115,749 states | what was granted is routed, nothing needless is, the dead leave nothing, nobody waits for ever |
| `delivery` | 2 senders, a receiver with 2 threads and 2 lives, one fault, 2 trials; 300,807 states | callers are told the truth, a receiver that stays gets everything, order per sender, calls return |
| `timers` | 2 threads, one-shot and periodic timers, a second of 2 ms, one block after another; 900,466 states | each timer in the list of its state, the system's timer armed in time, no early expiry, no drift, due timers handled |
| `procman` | 2 processes, 2 configurations, 2 requests, a spawn that fails, a queue of 3 messages that may drop one; 880,347 states | no process is forgotten by the queue or a timer, nor by a spawn thread unless its report was dropped; no loop stops at a process that nothing will be heard of; a shutdown ends and a configuration is reached unless they wait for a dropped report |
| `units` | every part below on an instance of its own; 1,892,752 states in all | `StructuresHold`, `CallsAreSettled`, `FunctionsHold`, and `NameService` implements `ChannelDirectory` |
| `wait_timeout` | 2 threads, a clock of 2 units | violated: a timed wait for a condition ends late |

`MCUnits` puts the small parts side by side: `unit` says which one a behaviour is
about and `s` is its state (or the arguments of one call, for the functions).
`StructuresHold` asks of each container what it promises (`RingBuffer`,
`BufferPool`, `DoubleLinkedList`, `BlockList`, `ByteDataBuffer`, `BitArray`,
`Checksum`, `QueueIterators`, `QueueLife`, `DebugLevels`, `SharedMemory`, `NativeTimers`);
`CallsAreSettled` of what is handed over that it arrives or fails visibly (`Rpc`,
`Sync`, `QueueIterators`, `QueueLife`, `IicSlave`, `IicMaster`, `Uart`); `FunctionsHold` compares each
function with its definition on all inputs of the instance.

The instances are the smallest in which the cases meet.  Two posters race to
displace and to signal; three nodes make a queue whose tail, middle and head
differ while one message is held; a third thread is needed to overtake an
unlocking writer with a reader beside it; a third creation uses an entry a
second time; a second life of an application meets the channels, bits and
connections of its first one; two requests are needed for the process manager
to defer one while it serves the other, and a restarted process without a load
time keeps `ConfigIsReached` from being excused by one that never initializes
(the theorem has any times); two descriptors and a thread that opens
files make the kernel hand a number out again; three IIC messages fill both
buffers and one more; two blocks of three items make a block list whose cache
can point into the wrong one; an instance of arithmetic holds the least and the
greatest number of its width.  The bounds are named in the modules: `MaxTokens`
stops the two calls that may leave a token too many (a polling
`SAL_Try_Receive` with selected events and the purge), `MaxSignals` new calls of
a lock that went wrong, `MaxCreates` the creations, `MaxStarts`, `MaxLives`,
`MaxCalls`, `MaxRequests`, `MaxPids`, `MaxMessages` and `Serials` what their names
say, `MaxFailures`, `MaxFaults` and `MaxLeaks` what goes wrong.

Deadlock is not checked in most runs (`CHECK_DEADLOCK FALSE`): nobody is obliged
to call, all threads may have ended or may wait for messages that never come,
and the bounds end the calls.  That nobody waits for something due is said by
the liveness properties instead.

## 5. Fairness

A thread inside a call eventually makes its next step when that stays possible
(weak fairness of the scheduler).  No thread is obliged to start a call, to
unlock, to send or to end.  In `ThreadTable`, taking a semaphore or the table's
mutex has strong fairness: POSIX wakes the longest waiting thread of a priority,
so that a gate that opens again and again does not pass over one waiter for
ever; the main thread calls `SAL_Run`.  In `MessageQueue` a read of the router
ends, with the data or when the connection does, and a receiver that waits for
`queue_lock` has strong fairness, since the router takes the lock again and again
but waits for a message of another application in between; the rest is weak, and
for the pool only "some member is served" is claimed.

In `Subscriptions` the name server serves, threads read their replies and the
process manager cleans up; its main thread shares its proxy with other exits,
hence the strong fairness of `CleanUp`.  In `Delivery` the senders have strong
fairness, since the mutex of the connections comes free again and again; the
routers weak fairness; nothing makes a thread take its messages or a crashed
application restart.  In `Timers` the system delivers its signal and runs the
timer thread.  In `ProcessManager` its threads and its timer go on; no process
has to do anything, and a report that is sent may be dropped every time.

## 6. What is proved

TLAPS checks every theorem for all values of the constants: any number of
threads, applications, processes, events, messages and trials; the bounds of the
runs (`MaxTokens`, `MaxCalls`, `MaxPids`, ...) may have any value.  The assumptions
are the named ones of the modules: the sets of threads are finite and disjoint,
the special values differ from the others.  Where a theorem needs more, its
statement says so, and it is named below.  In each case the property is not
inductive; what has to be added is what the paragraph is about.

`MessageQueueProofs`.  `NodeInv`, the conjunction of types, lock discipline, empty
slots, conservation, headers, buffers and the counter, is inductive; the
conservation alone is not, because a poster that displaced a node and the router
that reads into one rely on being the only holder of the lock, and a receiver
relies on its slot being empty.  From it: `TypeCorrect`, `NodesConserved`,
`BuffersMatched`, and the action property `HeldMessagesStable`.  `BuffersMatched` says
which nodes have a buffer; that each buffer is freed in the end is not claimed,
for it is false (section 8).  `UrgentMessagesFirst` adds that while a poster
displaces, the urgent message it holds still fits behind `urgent_tail`.  No wakeup
is lost, by counting tokens against messages step by step, in two cases: one
receiver and every call (`NoWakeupLostForOwner`), or any number of receivers and
the plain calls (`NoWakeupLostInPool`).  The general case is false for progress
(section 8, the pool's token).  `QueueImplementsStore`: every step is one of
`PriorityQueue` or a stutter.  `OrderInv` says that the first messages of the list,
as many as the abstract urgent list has, are that list in its order and the
rest the normal one; `PostingKnown` ties what a poster holds to what it was asked
to post; room in the one and free nodes in the other are compared by
cardinalities, so the table of nodes has to be finite.  `EachQueueItsLife` is about
`QueueLife`, the queues that an entry of the thread table has one after another.
Its invariant `QueueKeeps` says that the list, the free list, the nodes in hands and
the node that a step moves are apart and together the nodes of the present life
(`NodesApart`), and counts as announcements the tokens and only those signals
under way that are for this life (`StillToSignal`).  The node that moves is a
parameter, so that a post is shown in two halves: the node leaves its place,
then it is linked or given back.

`RWLockProofs`.  `Accounted` says which threads the two semaphores and the count
stand for; it is inductive until somebody overtakes.  From it exclusion and the
open lock.  `MutexCountsUsers` (`Sync`): with the types, the property is inductive
once it is known that a mutex without holder has depth 0; the proof is about the
cardinality of the users.  `RingHandsOver` (`RingBuffer`): what lies between the two
indices are the next values in order; the invariant speaks
of the distance of two serials that wrap around, which has to be less than
their number.

`ThreadTableProofs`.  Types, `EntriesAgree`, `ReadyGateAgrees` and `GoneIsVisible`.
`EntriesAgree` is inductive with `Places`, which keeps the labels of the main
thread and of the others apart and knows that the router is not ready before
`SAL_Run`.  The gates are counted step by step like the tokens of the queue; that
a thread which is created or leaves keeps no token of a gate follows from
`EntriesAgree`.  `SharedMemoryIsOwned` (`SharedMemory`): what a handle holds in each
state (`HandleOK`), that there is one owner as long as nobody created a second area
under the name (`OneOwner`), and that the size a process has seen is still there
unless an owner shrank it (`Backed`).  `SlaveMessagesInOrder` (`IicSlave`):
`SlaveKeeps` relates the numbers of the messages in the two buffers, what was
written and the place of the send thread.  Without a reset the buffer that is not
in use is newer than all that was written, and a switch without the lock is safe
because a caller that copies has the other buffer; with a reset it is so for
another reason, which needs its own conjunct: a caller that copies to the buffer
in use excludes a switch.  `BytesInOrder` (`Uart`): the buffer begins with the byte
that is due and the device goes on where the buffer ends (`StillDue`); a block read
past an empty buffer is the case in which both begin at the same byte.

`SubscriptionsProofs`.  `SubscriptionsInv`, for any number of failed calls, crashes,
kills and restarts.  The invariant has to speak of the backlog of the name
server, since a request may outlive its thread.  `RouteInv`: a thread has one
request or one reply, a grant is routed and no request behind it takes it away;
it rests on the order of the backlog and on `Unneeded`, which looks at the bits of
all threads of the application.  `NeedInv`: a request about an application belongs
to a thread with the mutex, to the main thread that leaves or to the process
manager that removes it; what a dead process left stands before the
`BIND_CHANNEL` of the next instance, so that it is served before that one runs;
and a bit that nobody wants has a request behind it that clears it.
`RemovedIsGone` follows the removal of a dead application: at first every bind
and subscription that it left stands before the `UNSUBSCRIBE_APP` of the process
manager; then none is left, nothing is routed, and `UNBIND_APP` waits unless no
channel is left; at the end there is nothing.  `NameServerIsDirectory` (`NameService`): a port is
in the array once, so that the number of its entries is that of the bound ports
and the capacities agree (by cardinalities), and each command is the step that
`ChannelDirectory` allows for that very command, its data and its status; for the loop of `Unbind_App`, which moves the last channel into the hole and looks
at the same place again, by induction over its turns.

`DeliveryProofs`.  `DeliveryCorrect` adds `CallInv` (calls and their answers agree),
`OpenInv` (a message whose client still waits belongs to the present trial of its
sender), `ToldInv` (what the router answers is what the queues took), and
`CopyInv`: the copies that arrived, that the router is about to post and that wait
in a channel are together no more than the trials and than one plus the faults.
`InOrder`: one sender's messages stand in the queue, in the hands of the router
and in the channel in the order in which they were sent (`OrderInv`).  `SteadyServed`: with at least two trials a receiver
that stays gets each event, because the second trial finds no connection or one
of the receiver's present life; it needs `MaxLives >= 1` and ids that are
positive.  `RequestsAreSettled` (`Rpc`): a client that waits and is not in the
listen queue is the one of the request in work, and the id leads to it
(`WaitsServed`); a descriptor is a connection only while its request is in work
(`IsConnected`), so that the number that a close gives back can be handed to any
thread that opens a file; and what a client was told was decided for it
(`ToldTruly`).

`TimersProofs`.  `TimersCorrect`: the three lists share the timers by their states
and the running one is sorted (`SplitInv`), and what a call found before it had the
lock is still true under it, because only the thread itself destroys its timers
(`CallInv`); so the system's timer is armed in time and a thread that ended has no
timer.  `TimersOnTime` adds the clock: the timer thread does not look ahead of it
(`ClockInv`), and a periodic timer expires on the beat of its interval, a one-shot
timer once (`TimeInv`).  A block has at least one timer (20 in the code) and a
second a positive length.  `EachTimerAtOnePlace` (`NativeTimers`): the free list, the
lists of the threads and the timers in the hands of calls are disjoint, and each
record agrees with the place it is at.  `LevelsAreWhole` (`DebugLevels`): what was
read or written so far is the beginning of the file or of the levels (`HalfWay`,
`ToolHalfWay`), so a file that ended early is too short to be accepted.  The two
ways in which another writer is noticed, `torn` and `stale`, exclude different
writers (`OneWriter`, `NobodyElse`), and either is enough for `HalfWay`.

`ProcessManagerProofs`.  `ManagerCorrect`: what a message changes is a function of
the record `G`, composed of loops over smaller ones, so the invariant `RoundInv` is
one of the record, with the set of the processes whose report is on its way or was dropped as
a parameter.  Every event keeps the timers, the deferred events and the reports
(`EventKeeps`), and from this the loops over deferred events, processes and the
queue; for each a sequence of turns exists that stays in the invariant
(`TurnsExist`, `StaysIn`).  A process that is wanted is in the queue, the queue has
no hole, and the end of the queue is its first free place, hence nothing is
wanted when the manager calls a configuration reached.  Between two messages the
manager waits for a process that is spawned, loading or terminating
(`WaitsForProcess`): the loops that start and stop processes end nowhere else.
Two measures show it: each turn of `Start_Next_Process` makes the queue shorter
(`Beginning`), and no process takes more than two turns to stop (`Halting`), so
the number of turns the model allows them cuts no loop short.  The theorem has the
hypothesis `Room`, that there are fewer processes than `SAL_MAX_APPS`: it is needed
(section 8).

`SequenceLemmas` has the facts about sequences, least elements and removals that
these proofs share.  `LeastExists` takes the place of the library's induction
theorems, whose parameter is an operator: an induction is led to the least
counterexample.

Only model-checked: the liveness properties (the prover has no means for
fairness and ENABLED); `FunctionsHold`, and of `StructuresHold` and `CallsAreSettled`
the parts about the buffer pool, the containers with recursive definitions or
folds (lists, blocks, bits, byte buffers, checksums), the iterators and the master
of an IIC bus, each on one instance.  The other parts of the two (`Rpc`, `Sync`,
`RingBuffer`, `SharedMemory`, `NativeTimers`, `QueueLife`, `IicSlave`, `Uart`,
`DebugLevels`) are the conclusions of the theorems named above; of the name server,
`PortsBoundOnce` is one of `NameServerIsDirectory`, and its types are a conjunct of the
invariant `ServerInv` in `SubscriptionsProofs`.

## 7. Not modelled

* The parts of `PROJECT.json` marked `not_modelled` or `partly`, each with its
  reason there.
* Creating, connecting and binding channels, the Windows branch of the shared
  memory, XSAL Light, priorities, names and thread-local storage of threads.
* Urgent events in `Delivery`, `SAL_Local_Publish` but for the process manager's
  use of it, callbacks of messages; a command with a number the name server does
  not know.
* The trace back ends, the parser of the process manager, SPI, DIO:
  formatting, parsing and calls of a device, with no state of their own.
* On Windows, a client whose router ends between the header and the data of a
  reply: its loop reads nothing for ever.

## 8. Disagreements between code and documents

Each of the following is a definition in its module that states the document, or
what the code relies on; TLC refutes it when it is made a property of the run
named, or, for the small parts, an invariant of their unit in `MCUnits`.  Only
`TimedWaitEnds` has a run of its own in `PROJECT.json`.

| Definition | Instance | Disagreement |
|---|---|---|
| `Sync.TimedWaitEnds` | `wait_timeout` | the deadline of a condition is taken from the wall clock and compared with the monotonic one |
| `MessageQueue.DisplacementCompletes` | `displacement` | an urgent post waits for a token under the lock its holder needs, instead of putting its message in place of the last normal one (`_inc/xsal_i_message_queue.h:236`) |
| `MessageQueue.NoBufferLeaked` | `safety` | `Process_Publish` sets `message.data` to NULL before it frees the node whose read failed or was short, so the buffer from `alloc_buf` is lost (`xsal_i_run.c:219`, `:231`), although such a buffer "is dealocated by free_buf callback" (`xsal_i_message_queue.c:86`) |
| `QueueLife.NoBufferLeaks` | `units`, `qlife` | the same, over the queues of an entry |
| `QueueIterators.RemoveCompletes` | `units`, `shared` | `SAL_Remove_Message` waits under `queue_lock` for a token that another thread of the pool took and brings to the lock (`xsal_remove_message.c:62`) |
| `MessageQueue.OwedTokenArrives` | `pool` with `Calls <- ReceiveAndTryOnly` | `SAL_Try_Receive_Only` blocks for a token that a pool thread dropped |
| `MessageQueue.RoomForQueueSize` | `safety` with `Calls <- ReceiveAndReceiveOnly` | a thread that holds two messages leaves less room than `queue_size` |
| `QueueLife.NoQueueIsReported` | `units`, `qlife` | an urgent message to a thread without a queue uses `end_marker`, which is NULL or freed, instead of being dropped with `SAL_No_Queue` (`xsal_i_message_queue.c:125`, `_inc/xsal_i_message_queue.h:115`); urgent declarations outlive their thread |
| `RWLock.Exclusion` | `rwlock` | `write` is cleared after the signal |
| `ThreadTable.DestroyedMeansGone` | `threads` | the creator's try does not close the gate |
| `ThreadTable.StatusIsPassed` | `threads`; also with `Statuses <- Negative` | the status of the last thread, and of a negative exit, is lost |
| `Subscriptions.KilledLeavesNothing` | `subscriptions` | a kill cleans the tables before the signal and not after it (`pm_process.c:332`) |
| `Timers.SentToCreator` | `timers` | the event of an expired timer is read after the unlock (`xsal_timer_linux.c:323`) |
| `Timers.StateIsLegal` | `timers` with `Stops = TRUE` | a thread goes on with a timer of a stopped module (`xsal_timer_linux.c:707`) |
| `ProcessManager.EverySpawnIsReported` | `procman` | the report of a spawn thread, which the state Spawning waits for without a timeout, is dropped when the queue of the main thread is full (`xsal_local_publish.c:31`, `pm_process.c:74`); a start or a shutdown that comes to the process then waits for ever |
| `ProcessManager.KillsOneProcess` | `procman` | a process without a pid is killed with pid -1 (`pm_process.c:339`) |
| `ProcessManager.QueueIsDense` | `procman` with `SAL_MAX_APPS = 2` | the configuration may have `SAL_MAX_APPS` processes, as many as `pm_queue` has places; then `PM_Queue_Pop` leaves the last element of a full queue where it was (`pm_queue.c:35`), so that it is there twice (`pm_queue.h:48`) and `Start_Next_Process` pops it for ever |
| `Rpc.ReplyGoesToClient` | `units`, `rpc` | the router replies to an id whose descriptor is closed and may name a file (`xsal_i_run.c:541`, `xsal.h:848`) |
| `NativeTimers.ReusedIsInvalid` | `units`, `ntimer` | the timers of a thread that ended become free with their events, and the next `SAL_Create_Timer` fails its assertion "invalid timer" (`xsal_i_timer.c:104`, `xsal_create_timer.c:51`) |
| `NativeTimers.ExpiredIsSent` | `units`, `ntimer`, with two events | a pulse or WM_TIMER on its way reads the timer that was created anew (`xsal.h:2273`) |
| `DebugLevels.ShortReadIsFailure` | `units`, `debug` | a short file is a success and leaves levels unset (`dbg_ctrl.c:2208`, `:2260`) |
| `IicSlave.DoneMeansRead`, `IicSlave.FreedIsUnused` | `units`, `iic` | a failed write is reported as a transmit; a thread still in the device, or a caller, uses the freed channel |
| `Uart.JoinedInOrder` | `units`, `uart` | on Linux `us_Read_Buf` advances its own pointer, so that `UA_Gets` overwrites buffered bytes and still counts them (`uart_linux.c:433`, `uart.h:217`); the QNX driver does not |

Observed while modelling, without a definition: a post signals after the unlock,
so that a token for a thread that ended may reach the queue of the next thread of
the entry (`xsal_i_message_queue.c:447`; receivers tolerate it); a creation whose
semaphore fails leaves `node_tab` set to freed memory (`:284`); the router's
`thread_destroyed_sem` starts at 1 and nobody closes it, so that
`SAL_Wait_Destroyed` on the router returns while it runs; `SAL_Create_Thread`
returns the id although `pthread_create` failed; `SAL_Try_RLock_RWLock` on Windows
waits for `read_sem` without limit; `SAL_Try_Lock_Mutex` and `SAL_Wait_Cond` do not
set the owner.  An iterator dangles when an urgent post displaces its message
and then finds no memory (`xsal_i_message_queue.c:121`).  A reply to a client
that died raises SIGPIPE in every router but the process manager's, and a
message shorter than its header is served.  The creation of a shared memory for
reading only can never succeed, since `ftruncate` needs the right to write
(`xsal.h:1145`), and its failure removes the area of another owner; a later owner
with a smaller size takes memory from under existing mappings; on Windows a failed
`MapViewOfFile` closes the wrong handle.  On QNX `SAL_I_Start_Timer_Module`
writes through NULL when there are no timers.  `DT_SET_DBG_LEVELS` with another
number of levels changes nothing but sets the level of the ISA log
(`xsal_i_dt.c:168`).  `Bit_Find_Next_Bit` never returns the current bit;
`Util_Wrap_Check_With_Offset(11, 1, 10)` is 2, the example says 1; a hexadecimal
string with a negative size of exactly its bytes is refused; interpolation tables
with more than 128 points or products beyond an int give wrong values; the
overflow conditions of `limit_check.c` are named in `Arithmetic`; a block list
that held null pointers may hand out a freed item.  The UART sets even parity for
odd and odd for even, and what its comment calls blocking mode is the
non-blocking one.  `Str_Get_Sub_String` leaves an empty string when it may not
break words, reads the byte before its buffer when it copied nothing, and needs
a callback that calls the final NUL a blank; the header says the callback is
true for visible characters, the opposite of its name.  The segments of an IIC
master that unlocks before its stop go out with the transfer of the next owner;
a device that failed the query of its functions stays open, so that the next
`IIC_Lock` succeeds without asking; `IIC_Shutdown` passes over a channel that is
locked longer than the timeout.  `Process_Publish` answers TRUE whatever became
of the event; a failed `SAL_Sync_Read` on Windows closes the socket while its id
stays in use; on QNX a pulse leaves the receive id as it was.
