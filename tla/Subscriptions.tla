----------------------------- MODULE Subscriptions -----------------------------
(***************************************************************************)
(* Who is subscribed to what: the subscription bits of the threads, kept   *)
(* by each application under its event property mutex, and the routing     *)
(* table of the name server that sums them up.  The mutex is held from the *)
(* change of the bits to the reply of the name server.                     *)
(*                                                                         *)
(* Applications start, run, leave SAL_Run, crash and are killed; the       *)
(* process manager removes what a crashed application left.                *)
(***************************************************************************)
EXTENDS NameServer

CONSTANTS
  Clients,     \* who calls: threads of the applications
  Nobody,      \* the client of a request whose socket is closed
  Pending,     \* no reply yet
  Threads,     \* entries of the thread tables
  AppOf,       \* the application of each of them
  EventLists,  \* the lists each thread subscribes to and unsubscribes from
  ChannelOf,   \* the channel the router of each application creates
  Mortal,      \* the applications that leave, crash or are killed
  MaxFailures, \* bound: requests of threads that fail
  MaxStarts    \* bound: how often an application starts; the last start is not
               \* killed, nor is one after a failure

ASSUME SubscriptionsAssumption ==
  /\ AppOf \in [Threads -> Apps \ {ProcMan}]
  /\ ChannelOf \in [Apps -> Channels]
  /\ MaxFailures \in Nat
  /\ Clients = Threads \cup Apps /\ Threads \cap Apps = {}
  /\ Nobody \notin Clients
  /\ \A t \in Threads : EventLists[t] \subseteq (SUBSET (Events \cup OtherIds)) \ {{}}

VARIABLES
  backlog,        \* requests that wait to be served
  reply,          \* what the server answered, until the client reads it
  phase,          \* the life of each application
  starts,         \* how often it started
  kill,           \* how far PM_Kill_Process is with each application
  property_mutex, \* holder of SAL_I_Event_Property_Mutex in each application
  subscribed,     \* the subscribe bits of each thread
  call,           \* the request a thread waits for while it holds the mutex
  failures,       \* requests that failed
  granted,        \* history: what SAL_Subscribe granted and nobody took back
  residue         \* history: bits that were set before the application began

transport == <<backlog, reply>>
lives == <<phase, starts, kill>>
history == <<granted, residue>>
vars == <<tables, transport, lives, property_mutex, subscribed, call, failures,
          history>>

NoCall == [name |-> "none", ids |-> {}]

\* An application with a process.
Alive == {"binding", "running", "unsubscribing", "unbinding"}
Working == Alive \ {"binding"}

ThreadsOf(a) == {t \in Threads : AppOf[t] = a}

\* The type of the state.
TypeOK ==
  /\ ServerTypeOK
  /\ backlog \in Seq([client : Clients \cup {Nobody}, cmd : Commands])
  /\ DOMAIN reply = Clients
  /\ phase \in [Apps -> Alive \cup {"down", "exited", "crashed", "removing",
                  "closing", "removed", "killed"}]
  /\ kill \in [Apps -> {"no", "unsubscribing", "unbinding"}]
  /\ property_mutex \in [Apps -> Threads \cup {Nobody}]
  /\ subscribed \in [Threads -> SUBSET Events]
  /\ granted \in [Threads -> SUBSET Events]
  /\ residue \in [Apps -> SUBSET Events]
  /\ failures \in 0..MaxFailures

Init ==
  /\ ServerInit
  /\ backlog = << >> /\ reply = [c \in Clients |-> Pending]
  /\ phase = [a \in Apps |-> "down"] /\ starts = [a \in Apps |-> 0]
  /\ kill = [a \in Apps |-> "no"]
  /\ property_mutex = [a \in Apps |-> Nobody]
  /\ subscribed = [t \in Threads |-> {}]
  /\ call = [t \in Threads |-> NoCall]
  /\ failures = 0
  /\ granted = [t \in Threads |-> {}]
  /\ residue = [a \in Apps |-> {}]

-----------------------------------------------------------------------------
(* The proxy of the name server in every application, and the synchronous    *)
(* messages that carry its requests.  Each request is a connection of its    *)
(* own: it waits in the backlog of the server's socket, in the order in      *)
(* which the clients connected, also when its client is dead by the time     *)
(* it is served.                                                             *)

\* The client's message is in the backlog; the client waits for the reply.
Ask(c, cmd) == backlog' = Append(backlog, [client |-> c, cmd |-> cmd])

Asking(c) ==
  reply[c] # Pending \/ \E i \in DOMAIN backlog : backlog[i].client = c

\* Mutant: the server waits for the client to read its reply.
ServeWaits ==
  /\ backlog # << >> /\ Head(backlog).client # Nobody
  /\ Handle(Head(backlog).cmd)
  /\ reply' = [reply EXCEPT ![Head(backlog).client] =
       [status |-> ~Fails(Head(backlog).cmd), data |-> Answer(Head(backlog).cmd)]]
  /\ backlog' = Tail(backlog)

\* The server takes the next request and replies to it; nobody may be there to
\* read the reply.
Serve ==
  /\ backlog # << >>
  /\ LET request == Head(backlog)
     IN  /\ Handle(request.cmd)
         /\ reply' = IF request.client = Nobody THEN reply
                     ELSE [reply EXCEPT ![request.client] =
                       [status |-> ~Fails(request.cmd),
                        data |-> Answer(request.cmd)]]
  /\ backlog' = Tail(backlog)

\* Clients that are gone, or stopped to wait: their requests stay.
Hang_Up(gone) ==
  /\ backlog' = [i \in DOMAIN backlog |->
       IF backlog[i].client \in gone THEN [backlog[i] EXCEPT !.client = Nobody]
                                     ELSE backlog[i]]
  /\ reply' = [c \in Clients |-> IF c \in gone THEN Pending ELSE reply[c]]

\* The client reads its reply.
Answered(c) ==
  reply[c] # Pending /\ reply' = [reply EXCEPT ![c] = Pending]

-----------------------------------------------------------------------------
(* The calls of a thread *)

Callable(t) ==
  /\ phase[AppOf[t]] \in Working
  /\ call[t] = NoCall
  /\ property_mutex[AppOf[t]] = Nobody

\* The request of a call: the mutex stays locked until it returns.
Request(t, name, ids, cmd) ==
  /\ property_mutex' = [property_mutex EXCEPT ![AppOf[t]] = t]
  /\ call' = [call EXCEPT ![t] = [name |-> name, ids |-> ids]]
  /\ Ask(t, cmd)
  /\ UNCHANGED <<tables, reply, lives, failures, residue>>

\* The request cannot be sent, or nothing is left to be requested.
NoRequest == UNCHANGED <<tables, transport, lives, property_mutex, call, residue>>

\* Ids that are not published events have no bit.
Subscribe_Bits(t, ids) ==
  subscribed' = [subscribed EXCEPT ![t] = @ \cup (ids \cap Events)]

\* The whole list goes to the name server, which skips what it does not know.
SAL_Subscribe(t, ids) ==
  /\ Callable(t) /\ Subscribe_Bits(t, ids)
  /\ Request(t, "subscribe", ids, SAL_NS_Subscribe(AppOf[t], ids))
  /\ UNCHANGED granted

\* The bits stay when the request cannot be sent.
SubscribeFails(t, ids) ==
  /\ Callable(t) /\ failures < MaxFailures
  /\ Subscribe_Bits(t, ids)
  /\ failures' = failures + 1
  /\ NoRequest /\ UNCHANGED granted

\* Mutant: only the caller's own bits are looked at.
Unneeded_Own(t, ids) == ids \cap Events

\* The events of a list that no other thread of the application wants.
Unneeded(t, ids) ==
  {e \in ids \cap Events :
     \A s \in ThreadsOf(AppOf[t]) \ {t} : e \notin subscribed[s]}

\* SAL_Unsubscribe, and what is done for the events of a thread that ends: one
\* request takes all those away that nobody wants any more.
Withdraw(t, name, ids) ==
  /\ Callable(t)
  /\ subscribed' = [subscribed EXCEPT ![t] = @ \ ids]
  /\ granted' = [granted EXCEPT ![t] = @ \ ids]
  /\ LET unneeded == Unneeded(t, ids)
     IN  \/ /\ unneeded # {}
            /\ Request(t, name, unneeded, SAL_NS_Unsubscribe(AppOf[t], unneeded))
         \/ unneeded = {} /\ NoRequest /\ UNCHANGED failures
         \/ /\ unneeded # {} /\ failures < MaxFailures
            /\ failures' = failures + 1 /\ NoRequest

SAL_Unsubscribe(t, ids) == Withdraw(t, "unsubscribe", ids)

\* The next thread that gets the entry starts with no subscriptions.
SAL_I_Unsubscribe_Thread_Events(t) ==
  subscribed[t] # {} /\ Withdraw(t, "end", subscribed[t])

\* The call returns and the mutex is unlocked.
Returned(t) ==
  /\ property_mutex' = [property_mutex EXCEPT ![AppOf[t]] = Nobody]
  /\ call' = [call EXCEPT ![t] = NoCall]
  /\ UNCHANGED <<tables, lives, subscribed, residue>>

Return(t) ==
  /\ call[t] # NoCall /\ Answered(t) /\ UNCHANGED backlog
  /\ granted' = IF call[t].name = "subscribe" /\ reply[t].status
                THEN [granted EXCEPT ![t] = @ \cup (call[t].ids \cap Events)]
                ELSE granted
  /\ Returned(t) /\ UNCHANGED failures

\* The connection breaks while the thread waits: the request may have been
\* served already or may be served later, and the call returns false.
ReplyLost(t) ==
  /\ call[t] # NoCall /\ failures < MaxFailures
  /\ failures' = failures + 1
  /\ Hang_Up({t})
  /\ Returned(t) /\ UNCHANGED granted

-----------------------------------------------------------------------------
(* The life of an application *)

Advance(a, from, to) == phase[a] = from /\ phase' = [phase EXCEPT ![a] = to]

\* The main thread of an application, or the process manager for it.
MainAsks(c, cmd) == ~Asking(c) /\ Ask(c, cmd) /\ UNCHANGED reply

Still == UNCHANGED <<tables, starts, property_mutex, subscribed, call,
                     failures, history>>
Quiet == Still /\ UNCHANGED kill

\* SAL_I_Before_Run.
Start(a) ==
  /\ phase[a] \in {"down", "exited", "removed", "killed"}
  /\ starts[a] < MaxStarts
  /\ phase' = [phase EXCEPT ![a] = "binding"]
  /\ starts' = [starts EXCEPT ![a] = @ + 1]
  /\ MainAsks(a, SAL_NS_Bind_Channel(a, RouterPort, ChannelOf[a]))
  /\ UNCHANGED <<tables, kill, property_mutex, subscribed, call, failures,
                 history>>

\* The threads wait until the router is ready; without a channel there is none.
Started(a) ==
  /\ Answered(a) /\ UNCHANGED backlog
  /\ Advance(a, "binding", IF reply[a].status THEN "running" ELSE "exited")
  /\ residue' = [residue EXCEPT ![a] = {e \in Events : a \in routing_table[e]}]
  /\ UNCHANGED <<tables, starts, kill, property_mutex, subscribed, call,
                 failures, granted>>

\* SAL_I_After_Run, while the other threads still run.
Leave(a) ==
  /\ a \in Mortal
  /\ Advance(a, "running", "unsubscribing")
  /\ MainAsks(a, SAL_NS_Unsubscribe_App(a))
  /\ granted' = [t \in Threads |-> IF AppOf[t] = a THEN {} ELSE granted[t]]
  /\ UNCHANGED <<tables, starts, kill, property_mutex, subscribed, call,
                 failures, residue>>

LeaveUnbind(a) ==
  /\ Advance(a, "unsubscribing", "unbinding")
  /\ Answered(a) /\ Ask(a, SAL_NS_Unbind_App(a))
  /\ Quiet

\* The process is gone, with all its threads.
Vanish(a, to, callers) ==
  /\ phase' = [phase EXCEPT ![a] = to]
  /\ kill' = [kill EXCEPT ![a] = "no"]
  /\ Hang_Up(ThreadsOf(a) \cup callers)
  /\ property_mutex' = [property_mutex EXCEPT ![a] = Nobody]
  /\ subscribed' = [t \in Threads |-> IF AppOf[t] = a THEN {} ELSE subscribed[t]]
  /\ granted' = [t \in Threads |-> IF AppOf[t] = a THEN {} ELSE granted[t]]
  /\ call' = [t \in Threads |-> IF AppOf[t] = a THEN NoCall ELSE call[t]]
  /\ UNCHANGED <<tables, starts, failures, residue>>

Exit(a) ==
  /\ phase[a] = "unbinding" /\ reply[a] # Pending /\ kill[a] = "no"
  /\ Vanish(a, "exited", {a})

Crash(a) ==
  /\ a \in Mortal /\ phase[a] \in Alive /\ kill[a] = "no"
  /\ Vanish(a, "crashed", {a})

-----------------------------------------------------------------------------
(* The process manager *)

\* Process_App_Exit for an application that ended with an error.
CleanUp(a) ==
  /\ Advance(a, "crashed", "removing")
  /\ MainAsks(ProcMan, SAL_NS_Unsubscribe_App(a)) /\ Quiet

\* Mutant: the channels are left to the next instance.
CleanUpBitsOnly(a) ==
  /\ Advance(a, "removing", "removed")
  /\ Answered(ProcMan) /\ UNCHANGED backlog /\ Quiet

CleanUpUnbind(a) ==
  /\ Advance(a, "removing", "closing")
  /\ Answered(ProcMan) /\ Ask(ProcMan, SAL_NS_Unbind_App(a)) /\ Quiet

CleanedUp(a) ==
  /\ Advance(a, "closing", "removed")
  /\ Answered(ProcMan) /\ UNCHANGED backlog /\ Quiet

\* PM_Kill_Process: the tables first, then the signal.  The application works
\* on until the signal arrives, and is not cleaned up after once more.
Kill(a) ==
  /\ a \in Mortal /\ phase[a] = "running" /\ kill[a] = "no"
  /\ starts[a] < MaxStarts /\ failures = 0
  /\ MainAsks(ProcMan, SAL_NS_Unsubscribe_App(a))
  /\ kill' = [kill EXCEPT ![a] = "unsubscribing"]
  /\ Still /\ UNCHANGED phase

KillUnbind(a) ==
  /\ kill[a] = "unsubscribing"
  /\ Answered(ProcMan) /\ Ask(ProcMan, SAL_NS_Unbind_App(a))
  /\ kill' = [kill EXCEPT ![a] = "unbinding"]
  /\ Still /\ UNCHANGED phase

KillSignal(a) ==
  /\ kill[a] = "unbinding" /\ reply[ProcMan] # Pending
  /\ Vanish(a, "killed", {a, ProcMan})

-----------------------------------------------------------------------------

ServeNext == Serve /\ UNCHANGED <<lives, property_mutex, subscribed, call,
                                failures, history>>

Next ==
  \/ \E t \in Threads : \E ids \in EventLists[t] :
       SAL_Subscribe(t, ids) \/ SubscribeFails(t, ids) \/ SAL_Unsubscribe(t, ids)
  \/ \E t \in Threads :
       SAL_I_Unsubscribe_Thread_Events(t) \/ Return(t) \/ ReplyLost(t)
  \/ \E a \in Apps \ {ProcMan} :
       \/ Start(a) \/ Started(a) \/ Leave(a) \/ LeaveUnbind(a) \/ Exit(a)
       \/ Crash(a) \/ CleanUp(a) \/ CleanUpUnbind(a) \/ CleanedUp(a)
       \/ Kill(a) \/ KillUnbind(a) \/ KillSignal(a)
  \/ ServeNext

\* The name server serves what waits, the threads read their replies, and the
\* process manager is told of every exit (SIGCHLD) and handles it.
Fairness ==
  /\ WF_vars(ServeNext)
  /\ \A t \in Threads : WF_vars(Return(t))
  /\ \A a \in Apps : SF_vars(CleanUp(a)) /\ WF_vars(CleanUpUnbind(a))
                      /\ WF_vars(CleanedUp(a))

Spec == Init /\ [][Next]_vars
FairSpec == Spec /\ Fairness

-----------------------------------------------------------------------------
(* Properties *)

\* What SAL_Subscribe granted stays in the routing table until the same thread
\* takes it back or ends: whatever the other threads of the application
\* subscribe and unsubscribe, fail to, or die of (xsal_unsubscribe.c:83, 112).
GrantedIsRouted ==
  \A t \in Threads : phase[AppOf[t]] = "running" /\ kill[AppOf[t]] = "no" =>
    \A e \in granted[t] : AppOf[t] \in routing_table[e]

\* Nobody gets publications for nothing: while no request has failed and no
\* call is on its way, every bit of a running application has a thread behind
\* it (xsal_i_publish.c:137, xsal_unsubscribe.c:83).
NoNeedlessBit ==
  \A a \in Apps, e \in Events :
    /\ failures = 0 /\ property_mutex[a] = Nobody
    /\ phase[a] = "running" /\ kill[a] = "no"
    /\ a \in routing_table[e] \ (IF e \in residue[a] THEN {a} ELSE {})
    => \E t \in ThreadsOf(a) : e \in subscribed[t]

\* What a process left in the tables.
LeftBehind(a) ==
  \/ \E e \in Events : a \in routing_table[e]
  \/ \E i \in DOMAIN channels : channels[i].app_id = a

\* A crashed application is out of both tables once the process manager has
\* handled its exit, and stays so until it starts again: also when requests of
\* its dead threads were still waiting (pm_main_thread.c:229).
RemovedLeavesNothing == \A a \in Apps : phase[a] = "removed" => ~LeftBehind(a)

\* SubscriptionsInv: the local tables, the routing table and the calls on their
\* way agree: nothing granted is missing, nothing needless is routed.
SubscriptionsInv == TypeOK /\ GrantedIsRouted /\ NoNeedlessBit

\* The same of an application that the process manager killed, as the comment
\* in PM_Kill_Process says (pm_process.c:329).
KilledLeavesNothing == \A a \in Apps : phase[a] = "killed" => ~LeftBehind(a)

\* Every crash is cleaned up after.
CrashIsRemoved ==
  \A a \in Apps : phase[a] = "crashed" ~> phase[a] = "removed"

\* Every call that holds the property mutex returns, or its application dies:
\* the name server never waits for a client, dead or alive.
MutexIsFreed ==
  \A a \in Apps, t \in Threads : property_mutex[a] = t ~> property_mutex[a] # t

\* NobodyWaitsForever: neither for the clean-up of a crash nor for the server.
NobodyWaitsForever == CrashIsRemoved /\ MutexIsFreed
================================================================================
