---------------------------- MODULE ProcessManager ----------------------------
(***************************************************************************)
(* The process manager: its main thread keeps a state machine for every    *)
(* process of its configuration file, starts the processes of a            *)
(* configuration one after the other, stops those of others, times them    *)
(* out, restarts them, and stops all at a shutdown.  Processes are spawned *)
(* by threads of their own, and an exit monitor thread reports the ones    *)
(* that ended.  A message of the main thread is handled in one step; what  *)
(* the handler does to its records is a function of the record G below.    *)
(***************************************************************************)
EXTENDS Integers, Sequences, SequencesExt, FiniteSets

CONSTANTS
  Apps,               \* indices of proc_registry
  Configs,            \* configurations
  config,             \* [Apps -> SUBSET Configs]
  load_timeout,       \* [Apps -> Nat]
  terminate_timeout,  \* [Apps -> Nat]
  auto_restart,       \* [Apps -> BOOLEAN]
  SAL_MAX_APPS,       \* size of pm_queue
  PM_DEFERRED_QUEUE_SIZE,
  PM_QUEUE_SIZE,      \* size of the message queue of the main thread
  MaxPids,            \* bound: processes that are spawned
  MaxRequests,        \* bound: messages of other applications, and signals
  MaxFailures,        \* bound: processes that cannot be spawned, but for MaxPids
  MaxInbox            \* bound: messages in the queue when the timer ticks

ASSUME ProcessManagerAssumption ==
  /\ {SAL_MAX_APPS, PM_DEFERRED_QUEUE_SIZE, PM_QUEUE_SIZE, MaxPids, MaxRequests,
      MaxFailures, MaxInbox} \subseteq Nat
  /\ IsFiniteSet(Apps) /\ Cardinality(Apps) <= SAL_MAX_APPS
  /\ Apps = 0..(Cardinality(Apps) - 1)
  /\ config \in [Apps -> SUBSET Configs] /\ 0 \in Configs
  /\ {load_timeout, terminate_timeout} \subseteq [Apps -> Nat]
  /\ auto_restart \in [Apps -> BOOLEAN]

VARIABLES
  proc,           \* proc_registry: state, timer, pid, ret_code, deferred_events
  pm_queue,       \* the processes to be started
  current_idx,    \* where startup or termination is; -1
  current_config,
  running_state,  \* Startup, Terminating, Idle
  state,          \* Running, Shutdown; Ended when the loop was left
  pm_kill,        \* the signal SIGINT came
  inbox,          \* messages in the queue of the main thread
  starting,       \* [Apps -> Nat]: spawn threads that have not forked
  spawned,        \* pids of spawn threads that have
  os,             \* [1..MaxPids -> the process with that pid]
  unreported,     \* history: processes that are Spawning, a report of which was lost
  requests, failures,
  wanted,         \* history: processes of the configurations asked for that
                  \* were not started since
  killed          \* history: what the last step called kill for

pm == <<proc, pm_queue, current_idx, current_config, running_state, state>>
world == <<inbox, starting, spawned, os, unreported>>
vars == <<pm, pm_kill, world, requests, failures, wanted, killed>>

Pids == 1..MaxPids
EMPTY == -1          \* PM_QUEUE_EMPTY_ELEMENT; also no process, no pid
Unused == [app |-> EMPTY, status |-> "unused", code |-> 0, ready |-> FALSE]

-----------------------------------------------------------------------------
(* The state machine of a process: PM_Process_Event.  G holds the variables  *)
(* of the main thread, and what the step adds to the spawn threads, the      *)
(* killed pids and the started processes.                                    *)

G0 == [proc |-> proc, queue |-> pm_queue, idx |-> current_idx,
       conf |-> current_config, run |-> running_state, state |-> state,
       spawn |-> starting, kills |-> {}, wanted |-> wanted]

In(G, a) == G.proc[a].state

\* Op(G), and Op n times from G on; every record is evaluated once.
Then(G, Op(_)) == CHOOSE r \in {Op(H) : H \in {G}} : TRUE
Times(n, G, Op(_, _)) ==
  LET f[i \in 0..n] == IF i = 0 THEN G ELSE Then(f[i - 1], LAMBDA H : Op(H, i))
  IN  f[n]
\* Op for each process, in the order of the registry.
ForEach(G, Op(_, _)) ==
  Times(Cardinality(Apps), G, LAMBDA H, i : Op(H, i - 1))

\* A process in a new state, with a new timer.
Become(G, a, s, timer) == [G EXCEPT !.proc[a].state = s, !.proc[a].timer = timer]

startProcess(G, a) == [G EXCEPT !.spawn[a] = @ + 1]

PM_Kill_Process(G, a) == [G EXCEPT !.kills = @ \cup {G.proc[a].pid}]

\* Of an event that comes when the array is full nothing is left.
defer_event(G, a, event) ==
  IF Len(G.proc[a].deferred) < PM_DEFERRED_QUEUE_SIZE
  THEN [G EXCEPT !.proc[a].deferred = Append(@, event)] ELSE G

\* EV_START_APP.
Start(G, a) ==
  LET S == startProcess([G EXCEPT !.proc[a].ret_code = 0,
                                  !.wanted = @ \ {a}], a)
  IN  Become(S, a, IF load_timeout[a] > 0 THEN "Spawning" ELSE "Running",
             load_timeout[a])

Spawning(G, a, event) ==
  CASE event = "EV_APP_SPAWN_SUCCESS" ->
         Become(G, a, IF load_timeout[a] > 0 THEN "Loading" ELSE "Running",
                load_timeout[a])
    [] event = "EV_APP_SPAWN_FAIL" ->
         [G EXCEPT !.proc[a].state = "Uninitialized", !.proc[a].deferred = << >>]
    [] event \in {"EV_APP_INITIALIZED", "EV_APP_EXIT", "EV_SHUTDOWN_APP"} ->
         defer_event(G, a, event)
    [] OTHER -> G

\* The process took too long to load.
LoadTimeout(G, a) ==
  LET K == PM_Kill_Process(G, a)
  IN  IF auto_restart[a]
      THEN Become(startProcess(K, a), a, "Loading", load_timeout[a])
      ELSE [K EXCEPT !.proc[a].state = "Uninitialized"]

Loading(G, a, event) ==
  CASE event = "EV_APP_INITIALIZED" -> Become(G, a, "Running", 0)
    [] event = "EV_APP_TIMEOUT" -> LoadTimeout(G, a)
    [] event = "EV_SHUTDOWN_APP" ->
         Become(PM_Kill_Process(G, a), a, "Uninitialized", 0)
    [] event = "EV_APP_EXIT" -> Become(G, a, "Uninitialized", 0)
    [] OTHER -> G

\* A process that failed is restarted, unless the system shuts down.
Restart(G, a) ==
  IF load_timeout[a] > 0
  THEN Become(startProcess(G, a), a, "Loading", load_timeout[a])
  ELSE startProcess(G, a)

Running(G, a, event) ==
  CASE event = "EV_SHUTDOWN_APP" ->
         IF terminate_timeout[a] > 0
         THEN Become(G, a, "Terminating", terminate_timeout[a])
         ELSE [PM_Kill_Process(G, a) EXCEPT !.proc[a].state = "Uninitialized"]
    [] event = "EV_APP_EXIT" ->
         IF auto_restart[a] /\ G.proc[a].ret_code # 0 /\ G.state = "Running"
         THEN Restart(G, a)
         ELSE [G EXCEPT !.proc[a].state = "Uninitialized"]
    [] OTHER -> G

\* Mutant: a process that does not end is waited for.
NeverKilled(G, a, event) ==
  CASE event = "EV_APP_EXIT" -> [G EXCEPT !.proc[a].state = "Uninitialized"]
    [] OTHER -> G

Terminating(G, a, event) ==
  CASE event = "EV_APP_EXIT" -> [G EXCEPT !.proc[a].state = "Uninitialized"]
    [] event = "EV_APP_TIMEOUT" ->
         [PM_Kill_Process(G, a) EXCEPT !.proc[a].state = "Uninitialized"]
    [] OTHER -> G

PM_Process_Event(G, a, event) ==
  CASE In(G, a) = "Uninitialized" -> IF event = "EV_START_APP" THEN Start(G, a) ELSE G
    [] In(G, a) = "Spawning" -> Spawning(G, a, event)
    [] In(G, a) = "Loading" -> Loading(G, a, event)
    [] In(G, a) = "Running" -> Running(G, a, event)
    [] In(G, a) = "Terminating" -> Terminating(G, a, event)

PM_Recall_Deferred_Events(G, a) ==
  LET events == G.proc[a].deferred
  IN  [Times(Len(events), G, LAMBDA H, i : PM_Process_Event(H, a, events[i]))
         EXCEPT !.proc[a].deferred = << >>]

\* The counter goes on below 0, where it has no meaning: 0 stands for all of that.
PM_Timer_Tick(G, a) ==
  LET T == [G EXCEPT !.proc[a].timer = IF @ > 0 THEN @ - 1 ELSE 0]
  IN  IF G.proc[a].timer = 1
      THEN Then(T, LAMBDA H : PM_Process_Event(H, a, "EV_APP_TIMEOUT")) ELSE T

-----------------------------------------------------------------------------
(* The queue of processes: an array, filled from its begin *)

Slots == 1..SAL_MAX_APPS

PM_Queue_Push(q, a) ==
  LET free == {i \in Slots : q[i] = EMPTY}
      first == CHOOSE i \in free : \A j \in free : i <= j
  IN  IF a \in ToSet(q) \/ free = {} THEN q ELSE [q EXCEPT ![first] = a]

\* The elements move up to the first empty one; the last of a full queue stays.
PM_Queue_Pop(q) ==
  LET ends == {i \in Slots : i < SAL_MAX_APPS /\ q[i + 1] = EMPTY}
      end == IF ends = {} THEN SAL_MAX_APPS
             ELSE CHOOSE i \in ends : \A j \in ends : i <= j
  IN  [i \in Slots |-> IF i < end THEN q[i + 1]
                       ELSE IF i = end /\ ends # {} THEN EMPTY ELSE q[i]]

PM_Queue_Clear == [i \in Slots |-> EMPTY]

\* The processes of a configuration that are not up, one that is just being
\* terminated among them.
Add_Processes_To_Queue(G, c) ==
  LET add(H, a) ==
        IF c \in config[a] /\ In(H, a) \notin {"Running", "Loading", "Spawning"}
        THEN [H EXCEPT !.queue = PM_Queue_Push(@, a),
                       !.wanted = IF In(H, a) = "Terminating" THEN @ ELSE @ \cup {a}]
        ELSE H
  IN  ForEach(G, add)

\* The next one of the queue is started.
StartFromQueue(G) ==
  Then([G EXCEPT !.idx = G.queue[1], !.queue = PM_Queue_Pop(@)],
       LAMBDA P : IF P.idx = EMPTY THEN P
                  ELSE PM_Process_Event(P, P.idx, "EV_START_APP"))

\* Mutant: a process that could not be started holds up the others.
StartNextOnlyRunning(G) ==
  LET next(H, i) ==
        IF H.idx # EMPTY /\ In(H, H.idx) = "Running" THEN StartFromQueue(H) ELSE H
  IN  Times(SAL_MAX_APPS + 1, G, next)

\* Processes are started until one has to be waited for.
Start_Next_Process(G) ==
  LET next(H, i) ==
        IF H.idx # EMPTY /\ In(H, H.idx) \in {"Running", "Uninitialized"}
        THEN StartFromQueue(H) ELSE H
  IN  Times(SAL_MAX_APPS + 1, G, next)

-----------------------------------------------------------------------------
(* The end of each round of Message_Loop *)

\* The processes from current_idx down that are not spared are stopped, until one
\* has to be waited for.
StopFrom(G, spared) ==
  LET next(H, i) ==
        IF H.idx = EMPTY THEN H
        ELSE IF In(H, H.idx) = "Uninitialized" \/ H.idx \in spared
        THEN [H EXCEPT !.idx = @ - 1]
        ELSE IF In(H, H.idx) \in {"Terminating", "Spawning"} THEN H
        ELSE PM_Process_Event(H, H.idx, "EV_SHUTDOWN_APP")
  IN  Times(2 * Cardinality(Apps) + 1, G, next)

\* The configuration is reached when no process is left to be started.
Reached(G) ==
  Then(G, LAMBDA H : IF H.idx = EMPTY THEN [H EXCEPT !.run = "Idle"] ELSE H)

Round(G) ==
  IF G.state = "Shutdown"
  THEN Then(StopFrom(G, {}),
            LAMBDA S : IF S.idx = EMPTY THEN [S EXCEPT !.state = "Ended"] ELSE S)
  ELSE CASE G.run = "Startup" -> Reached(Start_Next_Process(G))
         [] G.run = "Terminating" ->
              Then(StopFrom(G, {a \in Apps : G.conf \in config[a]}),
                   LAMBDA T : IF T.idx # EMPTY THEN T
                              ELSE Reached(Start_Next_Process(
                                     StartFromQueue([T EXCEPT !.run = "Startup"]))))
         [] G.run = "Idle" -> G

\* A process that is killed ends; pid -1 stands for all that can be signalled.
Signalled(kills) ==
  os' = [p \in Pids |->
    IF os[p].status = "alive" /\ (p \in kills \/ EMPTY \in kills)
    THEN [os[p] EXCEPT !.status = "zombie", !.code = 1, !.ready = FALSE] ELSE os[p]]

Store(G) ==
  /\ proc' = G.proc /\ pm_queue' = G.queue /\ current_idx' = G.idx
  /\ current_config' = G.conf /\ running_state' = G.run /\ state' = G.state
  /\ starting' = G.spawn
  /\ wanted' = G.wanted /\ killed' = G.kills
  /\ unreported' = {a \in unreported : In(G, a) = "Spawning"}
  /\ Signalled(G.kills)
  /\ UNCHANGED <<pm_kill, spawned, failures>>

Active == state # "Ended"
Finish(G) == Active /\ ~pm_kill /\ \E H \in {G} : \E R \in {Round(H)} : Store(R)

-----------------------------------------------------------------------------
(* Messages of the main thread *)

NewProcess == [state |-> "Uninitialized", timer |-> 0, pid |-> EMPTY,
               ret_code |-> 0, deferred |-> << >>]

\* PM_Main_Thread: the first configuration is being started.
Init ==
  LET G == [proc |-> [a \in Apps |-> NewProcess], queue |-> PM_Queue_Clear,
            idx |-> EMPTY, conf |-> 0, run |-> "Startup", state |-> "Running",
            spawn |-> [a \in Apps |-> 0], kills |-> {}, wanted |-> {}]
  IN \E H \in {Reached(Start_Next_Process(StartFromQueue(Add_Processes_To_Queue(G, 0))))} :
      /\ proc = H.proc /\ pm_queue = H.queue /\ current_idx = H.idx
      /\ current_config = 0 /\ running_state = H.run /\ state = "Running"
      /\ starting = H.spawn /\ wanted = H.wanted /\ killed = {}
      /\ pm_kill = FALSE /\ inbox = << >> /\ spawned = {} /\ unreported = {}
      /\ os = [p \in Pids |-> Unused]
      /\ requests = 0 /\ failures = 0

\* A process of the registry, by its app id.
Process_App_Exit(G, a, code) ==
  PM_Process_Event([G EXCEPT !.proc[a].ret_code = code], a, "EV_APP_EXIT")

\* The first process with that pid.
Find_Process_By_Pid(pid) ==
  LET with == {a \in Apps : proc[a].pid = pid}
  IN  IF with = {} THEN EMPTY ELSE CHOOSE a \in with : \A b \in with : a <= b

\* The message at the head of the queue, handled.
After(msg) ==
  CASE msg.event = "EV_PROCESS_EXIT" ->
         LET a == Find_Process_By_Pid(msg.pid)
         IN  IF a = EMPTY THEN G0 ELSE Process_App_Exit(G0, a, msg.code)
    [] msg.event = "EV_APP_SPAWN_SUCCESS" ->
         Then(PM_Process_Event(G0, msg.app, msg.event),
              LAMBDA H : PM_Recall_Deferred_Events(H, msg.app))
    [] OTHER -> PM_Process_Event(G0, msg.app, msg.event)

Receive ==
  /\ inbox # << >> /\ inbox' = Tail(inbox)
  /\ Finish(After(Head(inbox)))
  /\ UNCHANGED requests

\* EV_TIMER_1.  Bounds: one tick does not start a third process beside two that
\* have not forked, nor outrun the queue.
Timer ==
  /\ Len(inbox) < MaxInbox /\ \A a \in Apps : starting[a] <= 1
  /\ Finish(ForEach(G0, PM_Timer_Tick))
  /\ UNCHANGED <<inbox, requests>>

Request(G) ==
  /\ requests < MaxRequests /\ requests' = requests + 1
  /\ Finish(G)
  /\ UNCHANGED inbox

Start_App(a) == Request(PM_Process_Event(G0, a, "EV_START_APP"))

System_Shutdown ==
  Request(IF state = "Shutdown" THEN G0
          ELSE [G0 EXCEPT !.state = "Shutdown", !.idx = Cardinality(Apps) - 1])

\* What is not part of the configuration is stopped before the rest is started.
Set_System_Config(c) ==
  Request(IF state = "Shutdown" THEN G0
          ELSE [Add_Processes_To_Queue([G0 EXCEPT !.conf = c, !.queue = PM_Queue_Clear,
                                                  !.wanted = {}], c)
                  EXCEPT !.run = "Terminating", !.idx = Cardinality(Apps) - 1])

\* A start that goes on is not waited for any more.
Add_System_Config(c) ==
  LET A == Add_Processes_To_Queue(G0, c)
  IN  Request(IF state = "Shutdown" THEN G0
              ELSE IF A.run # "Terminating"
              THEN [A EXCEPT !.run = "Terminating", !.idx = EMPTY] ELSE A)

\* SIGINT, by PM_Stop_Main_Thread; the next message, whichever, ends the loop.
Int_Signal ==
  /\ requests < MaxRequests /\ requests' = requests + 1
  /\ Active /\ ~pm_kill /\ pm_kill' = TRUE
  /\ UNCHANGED <<pm, world, failures, wanted, killed>>

KillAll ==
  /\ Active /\ pm_kill
  /\ LET pids == {proc[a].pid : a \in Apps}
     IN  Signalled(pids) /\ killed' = pids
  /\ proc' = [a \in Apps |-> [proc[a] EXCEPT !.state = "Uninitialized"]]
  /\ state' = "Ended"
  /\ UNCHANGED <<pm_queue, current_idx, current_config, running_state, pm_kill,
                 inbox, starting, spawned, unreported, requests, failures, wanted>>

-----------------------------------------------------------------------------
(* Spawn threads, the processes and the exit monitor *)

\* Until the manager ends.
Others == UNCHANGED <<pm_queue, current_idx, current_config, running_state, state,
                      pm_kill, requests, wanted>> /\ killed' = {} /\ Active

(* SAL_Local_Publish, which returns nothing: the message is dropped when    *)
(* the queue is full or there is no memory for it.  The queue also holds    *)
(* what the model does not keep in inbox, the ticks and the requests, so it *)
(* may be full at any time.                                                 *)
Lost(app) ==
  unreported' = unreported \cup {a \in {app} : proc[a].state = "Spawning"}

Post(msg) ==
  \/ /\ Len(inbox) < PM_QUEUE_SIZE /\ inbox' = Append(inbox, msg)
     /\ UNCHANGED unreported
  \/ /\ UNCHANGED inbox
     /\ IF msg.event \in {"EV_APP_SPAWN_SUCCESS", "EV_APP_SPAWN_FAIL"}
        THEN Lost(msg.app) ELSE UNCHANGED unreported

\* The thread forks; the process runs.
Fork(a) ==
  /\ starting[a] > 0 /\ starting' = [starting EXCEPT ![a] = @ - 1]
  /\ \E p \in Pids :
       /\ os[p] = Unused /\ \A q \in 1..(p - 1) : os[q] # Unused
       /\ os' = [os EXCEPT ![p] = [Unused EXCEPT !.app = a, !.status = "alive"]]
       /\ spawned' = spawned \cup {p}
  /\ UNCHANGED <<proc, inbox, failures, unreported>> /\ Others

\* It stores the pid and reports.
SpawnSuccess(p) ==
  /\ p \in spawned /\ spawned' = spawned \ {p}
  /\ proc' = [proc EXCEPT ![os[p].app].pid = p]
  /\ Post([event |-> "EV_APP_SPAWN_SUCCESS", app |-> os[p].app])
  /\ UNCHANGED <<starting, os, failures>> /\ Others

\* A bound of failures, unless there is no pid left.
NoProcess ==
  IF \A p \in Pids : os[p] # Unused THEN UNCHANGED failures
  ELSE failures < MaxFailures /\ failures' = failures + 1

\* Mutant: a thread that cannot be created is not reported.
Unreported(a) ==
  /\ starting[a] > 0 /\ starting' = [starting EXCEPT ![a] = @ - 1]
  /\ NoProcess
  /\ UNCHANGED <<proc, inbox, spawned, os, unreported>> /\ Others

\* The process cannot be spawned; or the thread was not created, and the pid stays.
SpawnFail(a) ==
  /\ starting[a] > 0 /\ starting' = [starting EXCEPT ![a] = @ - 1]
  /\ NoProcess
  /\ \/ proc' = [proc EXCEPT ![a].pid = EMPTY]
     \/ UNCHANGED proc
  /\ Post([event |-> "EV_APP_SPAWN_FAIL", app |-> a])
  /\ UNCHANGED <<spawned, os>> /\ Others

\* The application publishes EV_APP_INITIALIZED.
Initialized(p) ==
  /\ os[p].status = "alive" /\ ~os[p].ready
  /\ os' = [os EXCEPT ![p].ready = TRUE]
  /\ Post([event |-> "EV_APP_INITIALIZED", app |-> os[p].app])
  /\ UNCHANGED <<proc, starting, spawned, failures>> /\ Others

\* It ends, asked to or not.  The code is of no account if it is not restarted.
Exit(p, code) ==
  /\ os[p].status = "alive" /\ (code # 0 => auto_restart[os[p].app])
  /\ os' = [os EXCEPT ![p].status = "zombie", ![p].code = code,
                       ![p].ready = FALSE]
  /\ UNCHANGED <<proc, inbox, starting, spawned, failures, unreported>> /\ Others

PM_Exit_Monitor_Thread(p) ==
  /\ os[p].status = "zombie"
  /\ os' = [os EXCEPT ![p].status = "reaped", ![p].code = 0]
  /\ Post([event |-> "EV_PROCESS_EXIT", pid |-> p, code |-> os[p].code])
  /\ UNCHANGED <<proc, starting, spawned, failures>> /\ Others

-----------------------------------------------------------------------------

SpawnThreads ==
  \/ \E a \in Apps : Fork(a) \/ SpawnFail(a)
  \/ \E p \in Pids : SpawnSuccess(p)

Next ==
  \/ Receive \/ Timer \/ System_Shutdown \/ Int_Signal \/ KillAll
  \/ \E a \in Apps : Start_App(a)
  \/ \E c \in Configs : Set_System_Config(c) \/ Add_System_Config(c)
  \/ SpawnThreads
  \/ \E p \in Pids :
       \/ Initialized(p) \/ PM_Exit_Monitor_Thread(p)
       \/ \E code \in {0, 1} : Exit(p, code)

Spec == Init /\ [][Next]_vars

\* Every thread runs, and the timer goes on.  No process has to do anything.
FairSpec ==
  /\ Spec /\ WF_vars(Receive) /\ WF_vars(Timer) /\ WF_vars(KillAll)
  /\ \A a \in Apps : WF_vars(Fork(a) \/ SpawnFail(a))
  /\ \A p \in Pids : WF_vars(SpawnSuccess(p))

-----------------------------------------------------------------------------
(* Properties *)

\* The type of the state.
TypeOK ==
  /\ \A a \in Apps :
       /\ proc[a].state \in {"Uninitialized", "Spawning", "Loading", "Running",
                             "Terminating"}
       /\ proc[a].timer \in 0..(load_timeout[a] + terminate_timeout[a]) /\ proc[a].pid \in Pids \cup {EMPTY}
       /\ Len(proc[a].deferred) <= PM_DEFERRED_QUEUE_SIZE
  /\ pm_queue \in [Slots -> Apps \cup {EMPTY}] /\ current_idx \in Apps \cup {EMPTY}
  /\ current_config \in Configs
  /\ running_state \in {"Startup", "Terminating", "Idle"}
  /\ state \in {"Running", "Shutdown", "Ended"}
  /\ spawned \subseteq Pids /\ wanted \subseteq Apps /\ unreported \subseteq Apps

\* Start_Next_Process requires a valid index ("Invalid process index"), which the
\* round of a message calls whenever the manager is starting.
IndexIsValid ==
  running_state = "Startup" /\ state = "Running" => current_idx \in Apps

\* A process that loads or terminates has its timer running: it is the only thing
\* that gets the manager on when the process does nothing.
WaitingIsTimed ==
  \A a \in Apps : proc[a].state \in {"Loading", "Terminating"} /\ Active
                  => proc[a].timer > 0

\* A process whose spawn thread has not reported yet, or whose report is not read.
ReportComes(a) ==
  \/ starting[a] > 0
  \/ \E p \in spawned : os[p].app = a
  \/ \E i \in DOMAIN inbox :
       /\ inbox[i].event \in {"EV_APP_SPAWN_SUCCESS", "EV_APP_SPAWN_FAIL"}
       /\ inbox[i].app = a

\* While a process is Spawning, where timeouts are ignored, the report of a spawn
\* thread is on its way, unless the queue of the main thread had no room for it.
SpawningIsReported ==
  \A a \in Apps : proc[a].state = "Spawning" /\ Active => ReportComes(a) \/ a \in unreported

\* Without that exception: false of the code, and not checked (README, section 8).
EverySpawnIsReported ==
  \A a \in Apps : proc[a].state = "Spawning" /\ Active => ReportComes(a)

\* The manager waits for the report of a process, and it was lost.
WaitsForLostReport ==
  current_idx \in unreported /\ ~ReportComes(current_idx)

\* A process is in the queue at most once, and there is none behind a hole: it
\* would never be started.
QueueIsDense ==
  \A i \in Slots : pm_queue[i] # EMPTY =>
    /\ i > 1 => pm_queue[i - 1] # EMPTY
    /\ \A j \in Slots \ {i} : pm_queue[j] # pm_queue[i]

\* When a configuration is said to be reached, every process that it asked for was
\* started, but those that were just being terminated.
IdleMeansStarted == running_state = "Idle" => wanted = {}

\* Between two messages the manager waits for a process that is being spawned, that
\* loads or that terminates: no round stops at a process that is up or down.
WaitsForProcess ==
  LET waits(states) == current_idx \in Apps /\ In(G0, current_idx) \in states
  IN  /\ state = "Running" /\ running_state = "Startup" =>
           waits({"Spawning", "Loading", "Terminating"})
      /\ state = "Shutdown" \/ (state = "Running" /\ running_state = "Terminating") =>
           waits({"Spawning", "Terminating"})

\* ManagerInv: no process is forgotten by the queue or a timer, nor by a spawn thread
\* unless its report was lost.
ManagerInv ==
  /\ TypeOK /\ IndexIsValid /\ WaitingIsTimed /\ WaitsForProcess
  /\ SpawningIsReported /\ QueueIsDense /\ IdleMeansStarted

\* A shutdown ends, whatever the processes do, unless it comes to a process whose
\* spawn report was lost.
ShutdownEnds == state = "Shutdown" ~> state = "Ended" \/ WaitsForLostReport

\* A configuration is reached, unless the start comes to a process whose spawn report
\* was lost, or to one that is restarted again and again and never initialized.
ConfigIsReached ==
  running_state # "Idle" ~>
    \/ running_state = "Idle" \/ state # "Running" \/ pm_kill \/ WaitsForLostReport
    \/ \E a \in Apps : auto_restart[a] /\ proc[a].state = "Loading"

\* "Terminates a process", says the comment of PM_Kill_Process (pm_process.h:83):
\* it does not signal the processes of all others, which pid -1 does.
KillsOneProcess == EMPTY \notin killed
================================================================================
