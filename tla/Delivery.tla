------------------------------- MODULE Delivery -------------------------------
(***************************************************************************)
(* Messages between applications.  The threads of one application publish  *)
(* and send; they share its table of connections.  Each other application  *)
(* has a router that takes one message after the other from its channel    *)
(* and puts it into the queues of the threads, and that may leave, crash   *)
(* and come back with a new channel.  Here the name server is the          *)
(* directory that NameServer implements, the queues are as far as their    *)
(* room (MessageQueue has the rest), and subscriptions do not change while *)
(* a router runs (Subscriptions has that).                                 *)
(***************************************************************************)
EXTENDS Integers, FiniteSets, Sequences, SequencesExt, FiniteSetsExt

CONSTANTS
  Senders,         \* threads of the sending application, SAL_I_App_Id
  Receivers,       \* the other applications, in the order of their ids
  Mortal,          \* those of them whose process ends
  MaxThreads,      \* SAL_I_Max_Number_Of_Threads of each of them
  Subscribed,      \* [Receivers -> SUBSET 1..MaxThreads]: the subscribed threads
  QueueSize,       \* nodes of a queue
  max_number_of_trials,
  Publishers,      \* the senders that call SAL_Publish
  SendTids,        \* [Senders -> SUBSET Nat]: the threads each calls SAL_Send for
  MaxCalls,        \* bound: [Senders -> Nat], the calls of each sender
  MaxLives,        \* bound: how often a router starts
  MaxFaults        \* bound: replies lost and reads failed

ASSUME DeliveryAssumption ==
  /\ Receivers \subseteq Nat \ {0} /\ Mortal \subseteq Receivers /\ 0 \notin Senders
  /\ Subscribed \in [Receivers -> SUBSET (1..MaxThreads)]
  /\ SendTids \in [Senders -> SUBSET (1..MaxThreads)] /\ MaxCalls \in [Senders -> Nat]
  /\ {MaxThreads, QueueSize, max_number_of_trials, MaxLives, MaxFaults} \subseteq Nat
  /\ max_number_of_trials >= 2 /\ MaxLives >= 1

Tids == 1..MaxThreads
Inboxes == Receivers \X Tids     \* the queue of a thread

VARIABLES
  bound,       \* the directory: the channel of each application's router
  routing,     \* the applications with a bit in the routing table
  alive,       \* how far the process of each receiver is
  life,        \* its incarnation, which names the channel of its router
  backlog,     \* messages that wait at the channel
  router,      \* what the router is at
  queued,      \* taken nodes of each queue
  connection,  \* SAL_I_Connection_Id: the shared connections of the senders
  mutex,       \* holder of SAL_I_Connection_Id_Mutex
  pc, call,    \* where each sender is, and in which call
  calls,       \* how many calls it made
  answer,      \* what came back for its message
  faults,
  got,         \* history: the last message of a sender that came into a queue,
               \* and how often it did
  steady       \* history: receivers that are up since the call began, with
               \* nothing lost on the way to them

directory == <<bound, routing>>
receiver == <<alive, life, backlog, router, queued>>
sender == <<connection, mutex, pc, call, calls>>
vars == <<directory, receiver, sender, answer, faults, got, steady>>

None == 0                        \* no channel; not connected; no application
Directory == INSTANCE ChannelDirectory WITH
  Apps <- Receivers, Ports <- {0}, RouterPort <- 0, Unbound <- None,
  Reserved <- <<None, 0>>, Capacity <- Cardinality(Receivers), Requests <- {}, served <- None

Idle == [at |-> "receive"]
NoCall == [to |-> None, tid |-> 0, trial |-> 0, over |-> None, status |-> FALSE]

Messages == [from : Senders, n : Nat, tid : 0..MaxThreads, open : BOOLEAN]
Routers ==
  {Idle} \cup [at : {"post"}, msg : Messages, last : Tids, next : Nat]
         \cup [at : {"reply"}, msg : Messages, status : BOOLEAN]
Calls == [to : Receivers \cup {None}, tid : 0..MaxThreads, trial : Nat,
          over : 0..MaxLives, status : BOOLEAN]

\* The type of the state.
TypeOK ==
  /\ bound \in [Directory!Keys -> 0..MaxLives] /\ routing \subseteq Receivers
  /\ alive \in [Receivers -> {"up", "starting", "leaving", "closing", "dead",
                              "cleaned"}]
  /\ life \in [Receivers -> 1..MaxLives]
  /\ backlog \in [Receivers -> Seq(Messages)]
  /\ router \in [Receivers -> Routers]
  /\ queued \in [Inboxes -> 0..QueueSize]
  /\ connection \in [Receivers -> 0..MaxLives]
  /\ mutex \in Senders \cup {None}
  /\ pc \in [Senders -> {"idle", "trial", "resolve", "send", "wait", "fail"}]
  /\ call \in [Senders -> Calls] /\ calls \in [Senders -> Nat]
  /\ answer \in [Senders -> {"none", "true", "false", "closed"}]
  /\ faults \in 0..MaxFaults
  /\ got \in [Inboxes -> [Senders -> Nat \X Nat]]
  /\ steady \in [Senders -> SUBSET Receivers]

\* The receivers are bound and subscribed; their queues are empty.
Init ==
  /\ bound = [k \in Directory!Keys |-> 1]
  /\ routing = {a \in Receivers : Subscribed[a] # {}}
  /\ alive = [a \in Receivers |-> "up"] /\ life = [a \in Receivers |-> 1]
  /\ backlog = [a \in Receivers |-> << >>]
  /\ router = [a \in Receivers |-> Idle]
  /\ queued = [i \in Inboxes |-> 0]
  /\ connection = [a \in Receivers |-> None]
  /\ mutex = None
  /\ pc = [s \in Senders |-> "idle"] /\ call = [s \in Senders |-> NoCall]
  /\ calls = [s \in Senders |-> 0]
  /\ answer = [s \in Senders |-> "none"]
  /\ faults = 0
  /\ got = [i \in Inboxes |-> [s \in Senders |-> <<0, 0>>]]
  /\ steady = [s \in Senders |-> {}]

Goto(s, from, to) == pc[s] = from /\ pc' = [pc EXCEPT ![s] = to]

\* The next application after a that the routing table names; None at the end.
NextApp(a) ==
  LET rest == {b \in routing : b > a} IN IF rest = {} THEN None ELSE Min(rest)

-----------------------------------------------------------------------------
(* SAL_Publish and SAL_Send in the thread s.  A publication goes to one     *)
(* application after the other; a call that is sent has one application and *)
(* one thread.                                                              *)

Up == {a \in Receivers : alive[a] = "up"}

Begin(s, c) ==
  /\ calls[s] < MaxCalls[s]
  /\ calls' = [calls EXCEPT ![s] = @ + 1]
  /\ call' = [call EXCEPT ![s] = c]
  /\ Goto(s, "idle", IF c.to = None THEN "idle" ELSE "trial")
  /\ steady' = [steady EXCEPT ![s] = Up]
  /\ UNCHANGED <<directory, receiver, connection, mutex, answer, faults, got>>

\* The routing table is read with no lock.
SAL_Publish(s) == Begin(s, [NoCall EXCEPT !.to = NextApp(None)])

SAL_Send(s, a, tid) == Begin(s, [NoCall EXCEPT !.to = a, !.tid = tid])

\* Connected already: the connection is copied under the mutex.
Connected(s) ==
  /\ Goto(s, "trial", "send")
  /\ mutex = None /\ connection[call[s].to] # None
  /\ call' = [call EXCEPT ![s].over = connection[call[s].to]]
  /\ UNCHANGED <<directory, receiver, connection, mutex, calls, answer, faults,
                 got, steady>>

\* Not connected: the name server is asked under the mutex.
Connect(s) ==
  /\ Goto(s, "trial", "resolve")
  /\ mutex = None /\ connection[call[s].to] = None
  /\ mutex' = s
  /\ UNCHANGED <<directory, receiver, connection, call, calls, answer, faults,
                 got, steady>>

\* Mutant: the mutex stays locked when the application is not bound.
ConnectLeaks(s) ==
  /\ pc[s] = "resolve"
  /\ mutex' = IF bound[<<call[s].to, 0>>] = None THEN s ELSE None
  /\ connection' = [connection EXCEPT ![call[s].to] = bound[<<call[s].to, 0>>]]
  /\ call' = [call EXCEPT ![s].over = bound[<<call[s].to, 0>>]]
  /\ Goto(s, "resolve", IF bound[<<call[s].to, 0>>] = None THEN "fail" ELSE "send")
  /\ UNCHANGED <<directory, receiver, calls, answer, faults, got, steady>>

SAL_Connect(s) ==
  /\ pc[s] = "resolve" /\ mutex' = None
  /\ connection' = [connection EXCEPT ![call[s].to] = bound[<<call[s].to, 0>>]]
  /\ call' = [call EXCEPT ![s].over = bound[<<call[s].to, 0>>]]
  /\ Goto(s, "resolve", IF bound[<<call[s].to, 0>>] = None THEN "fail" ELSE "send")
  /\ UNCHANGED <<directory, receiver, calls, answer, faults, got, steady>>

\* Whether the channel the sender copied still has a router.
Reachable(s) ==
  /\ call[s].over = life[call[s].to]
  /\ alive[call[s].to] \in {"up", "starting", "leaving", "closing"}

\* SAL_Sync_Send_VS: the message waits at the channel of the router.
Message(s) == [from |-> s, n |-> calls[s], tid |-> call[s].tid, open |-> TRUE]

Send(s) ==
  /\ Goto(s, "send", "wait") /\ Reachable(s)
  /\ backlog' = [backlog EXCEPT ![call[s].to] = Append(@, Message(s))]
  /\ UNCHANGED <<directory, alive, life, router, queued, connection, mutex,
                 call, calls, answer, faults, got, steady>>

SendFails(s) ==
  /\ Goto(s, "send", "fail") /\ ~Reachable(s)
  /\ UNCHANGED <<directory, receiver, connection, mutex, call, calls, answer,
                 faults, got, steady>>

\* The rest of a call after an application is done with.
Done(s, status) ==
  LET next == IF call[s].tid = 0 THEN NextApp(call[s].to) ELSE None
  IN  /\ call' = [call EXCEPT ![s] =
           IF next = None THEN [@ EXCEPT !.status = status, !.over = None]
           ELSE [NoCall EXCEPT !.to = next]]
      /\ pc' = [pc EXCEPT ![s] = IF next = None THEN "idle" ELSE "trial"]

\* Mutant: a reply does not end the trials.
RepliedGoesOn(s) ==
  /\ pc[s] = "wait" /\ answer[s] \in {"true", "false"}
  /\ IF call[s].trial + 1 < max_number_of_trials
     THEN Goto(s, "wait", "trial") /\ call' = [call EXCEPT ![s].trial = @ + 1]
     ELSE Done(s, answer[s] = "true")
  /\ answer' = [answer EXCEPT ![s] = "none"]
  /\ UNCHANGED <<directory, receiver, connection, mutex, calls, faults, got,
                 steady>>

\* A reply of any status ends the trials.
Replied(s) ==
  /\ pc[s] = "wait" /\ answer[s] \in {"true", "false"}
  /\ Done(s, answer[s] = "true")
  /\ answer' = [answer EXCEPT ![s] = "none"]
  /\ UNCHANGED <<directory, receiver, connection, mutex, calls, faults, got,
                 steady>>

\* The socket was closed: its router is gone.
WaitFails(s) ==
  /\ answer[s] = "closed" /\ Goto(s, "wait", "fail")
  /\ answer' = [answer EXCEPT ![s] = "none"]
  /\ UNCHANGED <<directory, receiver, connection, mutex, call, calls, faults,
                 got, steady>>

\* The wait is interrupted; the message is at the router or was there.
ReplyLost(s) ==
  /\ faults < MaxFaults /\ faults' = faults + 1
  /\ Goto(s, "wait", "fail")
  /\ answer' = [answer EXCEPT ![s] = "none"]
  /\ backlog' = [a \in Receivers |-> [i \in DOMAIN backlog[a] |->
       [backlog[a][i] EXCEPT !.open = @ /\ backlog[a][i].from # s]]]
  /\ router' = [a \in Receivers |->
       IF router[a] = Idle THEN Idle
       ELSE [router[a] EXCEPT !.msg.open = @ /\ router[a].msg.from # s]]
  /\ steady' = [steady EXCEPT ![s] = {}]
  /\ UNCHANGED <<directory, alive, life, queued, connection, mutex, call, calls,
                 got>>

\* Mutant: the connection that failed stays.
Keep(s) ==
  /\ mutex = None /\ pc[s] = "fail"
  /\ IF call[s].trial + 1 < max_number_of_trials
     THEN /\ Goto(s, "fail", "trial")
          /\ call' = [call EXCEPT ![s].trial = @ + 1]
     ELSE Done(s, FALSE)
  /\ UNCHANGED <<directory, receiver, connection, mutex, calls, answer, faults,
                 got, steady>>

\* The shared connection is invalidated, whoever made it, and the next trial
\* connects anew.
Invalidate(s) ==
  /\ mutex = None /\ pc[s] = "fail"
  /\ connection' = [connection EXCEPT ![call[s].to] = None]
  /\ IF call[s].trial + 1 < max_number_of_trials
     THEN /\ Goto(s, "fail", "trial")
          /\ call' = [call EXCEPT ![s].trial = @ + 1]
     ELSE Done(s, FALSE)
  /\ UNCHANGED <<directory, receiver, mutex, calls, answer, faults, got, steady>>

-----------------------------------------------------------------------------
(* The router of the application a: SAL_I_Run *)

Received == UNCHANGED <<directory, alive, life, sender, answer>>

\* A message of the sender s comes into the queue of a thread.
Arrives(i, msg) ==
  got' = [got EXCEPT ![i][msg.from] =
    IF @[1] = msg.n THEN <<msg.n, @[2] + 1>> ELSE <<msg.n, 1>>]

\* A free node.
Room(i) == queued[i] < QueueSize
Dropped(msg, a) == steady' = [steady EXCEPT ![msg.from] = @ \ {a}]

\* Mutant: whichever message is at hand.
AnyOf(a, i) == i \in DOMAIN backlog[a]

\* Messages are taken in the order in which their senders connected.
Taken(a, i) == i = 1 /\ backlog[a] # << >>

Take(a, i) ==
  /\ router[a] = Idle /\ alive[a] \in {"up", "starting"}
  /\ Taken(a, i)
  /\ backlog' = [backlog EXCEPT ![a] = RemoveAt(@, i)]

\* Process_Send: the data is read into a node of the queue while it is locked.
Process_Send(a, i) ==
  /\ Take(a, i) /\ backlog[a][i].tid # 0
  /\ LET msg == backlog[a][i]  inbox == <<a, msg.tid>>
     IN  \/ /\ Room(inbox)
            /\ queued' = [queued EXCEPT ![inbox] = @ + 1]
            /\ Arrives(inbox, msg)
            /\ router' = [router EXCEPT ![a] =
                 [at |-> "reply", msg |-> msg, status |-> TRUE]]
            /\ UNCHANGED <<faults, steady>>
         \/ /\ ~Room(inbox)
            /\ router' = [router EXCEPT ![a] =
                 [at |-> "reply", msg |-> msg, status |-> FALSE]]
            /\ Dropped(msg, a) /\ UNCHANGED <<queued, faults, got>>
         \/ /\ Room(inbox) /\ faults < MaxFaults /\ faults' = faults + 1
            /\ router' = [router EXCEPT ![a] =
                 [at |-> "reply", msg |-> msg, status |-> FALSE]]
            /\ Dropped(msg, a) /\ UNCHANGED <<queued, got>>
  /\ Received

\* The subscribed thread with the highest id that has a free node gets the data
\* first, and its queue stays locked; 0 when there is none.
LastTid(a) ==
  LET free == {t \in Subscribed[a] : Room(<<a, t>>)}
  IN  IF free = {} THEN 0 ELSE Max(free)

\* Process_Publish up to the data: a node is taken and the data read.  The reply
\* is positive whatever happens.
Process_Publish(a, i) ==
  /\ Take(a, i) /\ backlog[a][i].tid = 0
  /\ LET msg == backlog[a][i]  last == LastTid(a)
     IN  \/ /\ last # 0
            /\ queued' = [queued EXCEPT ![<<a, last>>] = @ + 1]
            /\ router' = [router EXCEPT ![a] =
                 [at |-> "post", msg |-> msg, last |-> last, next |-> 1]]
            /\ IF \E t \in Subscribed[a] : t > last THEN Dropped(msg, a)
                                                  ELSE UNCHANGED steady
            /\ UNCHANGED faults
         \/ /\ last = 0 \/ faults < MaxFaults
            /\ faults' = IF last = 0 THEN faults ELSE faults + 1
            /\ router' = [router EXCEPT ![a] =
                 [at |-> "reply", msg |-> msg, status |-> TRUE]]
            /\ Dropped(msg, a) /\ UNCHANGED queued
  /\ UNCHANGED got /\ Received

\* The threads with lower ids get copies, in the order of their ids, ...
PostCopy(a) ==
  /\ router[a].at = "post" /\ router[a].next < router[a].last
  /\ router' = [router EXCEPT ![a].next = @ + 1]
  /\ LET inbox == <<a, router[a].next>>  msg == router[a].msg
     IN  IF router[a].next \notin Subscribed[a]
         THEN UNCHANGED <<queued, got, steady>>
         ELSE IF Room(inbox)
         THEN /\ queued' = [queued EXCEPT ![inbox] = @ + 1]
              /\ Arrives(inbox, msg) /\ UNCHANGED steady
         ELSE Dropped(msg, a) /\ UNCHANGED <<queued, got>>
  /\ UNCHANGED <<backlog, faults>> /\ Received

\* ... and then the node itself is posted and its queue unlocked.
PostLast(a) ==
  /\ router[a].at = "post" /\ router[a].next >= router[a].last
  /\ Arrives(<<a, router[a].last>>, router[a].msg)
  /\ router' = [router EXCEPT ![a] =
       [at |-> "reply", msg |-> router[a].msg, status |-> TRUE]]
  /\ UNCHANGED <<backlog, queued, faults, steady>> /\ Received

\* SAL_Sync_Reply; nobody reads it when the sender has left.
Reply(a) ==
  /\ router[a].at = "reply"
  /\ router' = [router EXCEPT ![a] = Idle]
  /\ LET msg == router[a].msg
     IN  answer' = IF ~msg.open THEN answer ELSE [answer EXCEPT ![msg.from] =
                     IF router[a].status THEN "true" ELSE "false"]
  /\ UNCHANGED <<directory, alive, life, backlog, queued, sender, faults, got,
                 steady>>

\* A thread takes a message and releases its node; its queue is locked while
\* the router fills the other queues.
Receive(i) ==
  /\ queued[i] > 0 /\ alive[i[1]] \in {"up", "leaving", "closing"}
  /\ ~(router[i[1]].at = "post" /\ router[i[1]].last = i[2])
  /\ queued' = [queued EXCEPT ![i] = @ - 1]
  /\ UNCHANGED <<directory, alive, life, backlog, router, sender, answer, faults,
                 got, steady>>

-----------------------------------------------------------------------------
(* The life of a receiver *)

Unsteady(a) == steady' = [s \in Senders |-> steady[s] \ {a}]
Outside == UNCHANGED <<sender, faults>>

\* The channel is closed: who waits there finds its socket closed.
Close(a) ==
  /\ answer' = [s \in Senders |->
       IF \/ \E i \in DOMAIN backlog[a] : backlog[a][i].from = s /\ backlog[a][i].open
          \/ router[a] # Idle /\ router[a].msg.from = s /\ router[a].msg.open
       THEN "closed" ELSE answer[s]]
  /\ backlog' = [backlog EXCEPT ![a] = << >>]
  /\ router' = [router EXCEPT ![a] = Idle]

\* The queues go with the process.
EndQueues(a) ==
  /\ queued' = [i \in Inboxes |-> IF i[1] = a THEN 0 ELSE queued[i]]
  /\ got' = [i \in Inboxes |-> [s \in Senders |->
       IF i[1] = a THEN <<got[i][s][1], 0>> ELSE got[i][s]]]

\* SAL_I_After_Run: the exit pulse came; the application is unsubscribed, ...
Leave(a) ==
  /\ a \in Mortal /\ alive[a] = "up" /\ router[a] = Idle
  /\ alive' = [alive EXCEPT ![a] = "leaving"]
  /\ routing' = routing \ {a}
  /\ Unsteady(a)
  /\ UNCHANGED <<bound, life, backlog, router, queued, got, answer>> /\ Outside

\* ... its router unbound, ...
LeaveUnbind(a) ==
  /\ alive[a] = "leaving" /\ alive' = [alive EXCEPT ![a] = "closing"]
  /\ Directory!UnbindApp(a)
  /\ UNCHANGED <<routing, life, backlog, router, queued, got, answer, steady>>
  /\ Outside

\* ... and its channel destroyed; the process ends.
LeaveClose(a) ==
  /\ alive[a] = "closing" /\ alive' = [alive EXCEPT ![a] = "cleaned"]
  /\ Close(a)
  /\ EndQueues(a)
  /\ UNCHANGED <<directory, life, steady>> /\ Outside

Crash(a) ==
  /\ a \in Mortal /\ alive[a] \in {"up", "starting", "leaving", "closing"}
  /\ alive' = [alive EXCEPT ![a] = "dead"]
  /\ Close(a)
  /\ EndQueues(a)
  /\ Unsteady(a)
  /\ UNCHANGED <<directory, life>> /\ Outside

\* Process_App_Exit of the process manager.
CleanUp(a) ==
  /\ alive[a] = "dead" /\ alive' = [alive EXCEPT ![a] = "cleaned"]
  /\ routing' = routing \ {a} /\ Directory!UnbindApp(a)
  /\ UNCHANGED <<life, backlog, router, queued, got, answer, steady>> /\ Outside

\* SAL_I_Before_Run: a new channel is bound.
Restart(a) ==
  /\ alive[a] = "cleaned" /\ life[a] < MaxLives
  /\ life' = [life EXCEPT ![a] = @ + 1]
  /\ alive' = [alive EXCEPT ![a] = "starting"]
  /\ Directory!Bind(<<a, 0>>, life[a] + 1)
  /\ UNCHANGED <<routing, backlog, router, queued, got, answer, steady>> /\ Outside

\* Its threads have subscribed.
Subscribe(a) ==
  /\ alive[a] = "starting" /\ alive' = [alive EXCEPT ![a] = "up"]
  /\ routing' = IF Subscribed[a] = {} THEN routing ELSE routing \cup {a}
  /\ UNCHANGED <<bound, life, backlog, router, queued, got, answer, steady>> /\ Outside

-----------------------------------------------------------------------------

SenderStep(s) ==
  \/ Connected(s) \/ Connect(s) \/ SAL_Connect(s) \/ Send(s) \/ SendFails(s)
  \/ Replied(s) \/ WaitFails(s) \/ Invalidate(s)

RouterStep(a) ==
  \/ \E i \in DOMAIN backlog[a] : Process_Send(a, i) \/ Process_Publish(a, i)
  \/ PostCopy(a) \/ PostLast(a) \/ Reply(a)

Next ==
  \/ \E s \in Senders :
       \/ s \in Publishers /\ SAL_Publish(s)
       \/ SenderStep(s) \/ ReplyLost(s)
       \/ \E a \in Receivers, tid \in SendTids[s] : SAL_Send(s, a, tid)
  \/ \E a \in Receivers :
       \/ RouterStep(a) \/ Leave(a) \/ LeaveUnbind(a) \/ LeaveClose(a)
       \/ Crash(a) \/ CleanUp(a) \/ Restart(a) \/ Subscribe(a)
  \/ \E i \in Inboxes : Receive(i)

Spec == Init /\ [][Next]_vars

\* Threads run, the routers too, and an unlocked mutex comes to each who waits.
\* Nothing makes the threads take their messages, or a crashed receiver restart.
FairSpec ==
  /\ Spec
  /\ \A s \in Senders : SF_vars(SenderStep(s))
  /\ \A a \in Receivers : WF_vars(RouterStep(a)) /\ WF_vars(LeaveUnbind(a))
                          /\ WF_vars(LeaveClose(a))

-----------------------------------------------------------------------------
(* Properties *)

\* The promise of the comment in SAL_Publish (xsal_publish.c:90): whatever stale
\* connection the table holds, and whichever other thread connects and
\* invalidates it meanwhile, a publication that begins while a receiver is up
\* reaches all its subscribed threads, if the receiver stays up, the queues have
\* room, and no reply or read fails.
SteadyReceiverServed ==
  \A s \in Senders, a \in Receivers :
    /\ pc[s] = "idle" /\ calls[s] > 0 /\ a \in steady[s]
    => IF call[s].tid = 0
       THEN a \in routing => \A t \in Subscribed[a] : got[<<a, t>>][s][1] = calls[s]
       ELSE a = call[s].to => call[s].status

\* A message comes twice only when a reply was lost in between, and never more
\* often than there were trials (xsal_publish.c:134).
NoNeedlessDuplicate ==
  \A i \in Inboxes, s \in Senders :
    /\ got[i][s][2] <= 1 + faults
    /\ got[i][s][2] <= max_number_of_trials

\* SAL_Send returns true only when the message came into the queue.
SentIsQueued ==
  \A s \in Senders : pc[s] = "idle" /\ call[s].status /\ call[s].tid # 0 =>
    got[<<call[s].to, call[s].tid>>][s][1] = calls[s]

\* DeliveryInv: what the callers are told agrees with what is in the queues.
DeliveryInv == TypeOK /\ NoNeedlessDuplicate /\ SentIsQueued

\* The messages of one thread come into each queue in the order they were sent,
\* also when the router still holds some whose sender gave up waiting.
SenderOrder ==
  [][\A i \in Inboxes, s \in Senders : got'[i][s][1] >= got[i][s][1]]_vars

\* A call returns, whatever happens to the receivers.
CallReturns == \A s \in Senders : pc[s] # "idle" ~> pc[s] = "idle"
================================================================================
