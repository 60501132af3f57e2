------------------------------ MODULE ThreadTable ------------------------------
(***************************************************************************)
(* The life of XSAL threads (full XSAL on POSIX): creation, the start-up   *)
(* and shutdown notifications SAL_Signal_Ready / SAL_Wait_Ready /          *)
(* SAL_Wait_Destroyed, the end of a thread by return or SAL_Exit, and the  *)
(* main thread that becomes the router in SAL_Run and leaves it when the   *)
(* exit pulse arrives.                                                     *)
(*                                                                         *)
(* An entry of SAL_I_Thread_Table outlives its threads: its two semaphores *)
(* work as gates.  A waiter takes the one token of a gate and puts it back *)
(* in two steps; an exiting thread closes thread_ready_sem by taking the   *)
(* token for good, while it holds SAL_I_Thread_Table_Mutex; a creator      *)
(* closes thread_destroyed_sem with a try, and the exiting thread opens it *)
(* again after it gave its entry and the mutex away.                       *)
(***************************************************************************)
EXTENDS Integers, FiniteSets

CONSTANTS
  Tids,        \* thread ids: the entries of the table without the router's
  Main,        \* the main thread: the router's entry, id 0
  Nobody,      \* owner of a free mutex
  Statuses,    \* values passed to SAL_Exit
  WaitTargets, \* entries the threads may wait for
  MaxCreates,  \* bound: calls of SAL_Create_Thread
  NoPulse      \* no exit pulse sent; SAL_Run has not returned

ASSUME TidsAssumption ==
  IsFiniteSet(Tids) /\ Main \notin Tids /\ Nobody \notin Tids \cup {Main}
ASSUME StatusesAssumption == Statuses \subseteq Int /\ NoPulse \notin Int
ASSUME TargetsAssumption == WaitTargets \subseteq Tids \cup {Main}
ASSUME BoundsAssumption == MaxCreates \in Nat

Ids == Tids \cup {Main}

VARIABLES
  live,          \* thread_id # SAL_UNKNOWN_THREAD_ID
  is_ready,
  ready_sem,     \* thread_ready_sem
  destroyed_sem, \* thread_destroyed_sem
  leaving,       \* threads that left their entry and have yet to signal its
                 \* thread_destroyed_sem
  running,       \* SAL_I_Number_Of_Running_User_Threads
  table_mutex,   \* holder of SAL_I_Thread_Table_Mutex, when it blocks inside
  pc,
  waiting,       \* the entry a thread waits for, and whether with a timeout
  pulse,         \* the first exit pulse on its way to the router
  exit_status,   \* what SAL_Run returned
  created,       \* how often a thread was created, or failed to be
  passed,        \* history: the values passed to SAL_Exit
  gone           \* history: the entry a thread waits for in SAL_Wait_Destroyed
                 \* was free at some time since the call

table == <<live, is_ready, running, table_mutex>>
gates == <<ready_sem, destroyed_sem, leaving>>
router == <<pulse, exit_status>>
history == <<passed, gone>>
vars == <<table, gates, pc, waiting, router, created, history>>

Init ==
  /\ live = [s \in Tids |-> FALSE]
  /\ is_ready = [i \in Ids |-> FALSE]
  /\ ready_sem = [i \in Ids |-> 0]
  /\ destroyed_sem = [i \in Ids |-> 1]
  /\ leaving = [i \in Ids |-> 0]
  /\ running = 0
  /\ table_mutex = Nobody
  /\ pc = [i \in Ids |-> IF i = Main THEN "init" ELSE "none"]
  /\ waiting = [i \in Ids |-> [on |-> Main, timed |-> FALSE]]
  /\ pulse = NoPulse /\ exit_status = NoPulse
  /\ created = 0
  /\ passed = {} /\ gone = [i \in Ids |-> FALSE]

Goto(i, from, to) == pc[i] = from /\ pc' = [pc EXCEPT ![i] = to]

\* Who is out of SAL_Create_Thread and the waits, and may call them.
Calling(i) == pc[i] = "run" \/ pc[i] = "init"

-----------------------------------------------------------------------------
(* SAL_Create_Thread *)

\* SAL_Try_Wait_Semaphore on the gate, which a waiter may have closed for
\* the moment.
Closed(s) ==
  IF destroyed_sem[s] > 0 THEN destroyed_sem[s] - 1 ELSE destroyed_sem[s]

\* A free entry, the one of attr->id or the first that the search finds.
Create(i, s) ==
  /\ Calling(i) /\ table_mutex = Nobody
  /\ ~live[s] /\ created < MaxCreates
  /\ live' = [live EXCEPT ![s] = TRUE]
  /\ destroyed_sem' = [destroyed_sem EXCEPT ![s] = Closed(s)]
  /\ running' = running + 1
  /\ created' = created + 1
  /\ pc' = [pc EXCEPT ![s] = "start"]
  /\ UNCHANGED <<is_ready, table_mutex, ready_sem, leaving, waiting, router,
                 history>>

\* Mutant: the gate stays closed when pthread_create fails.
CreateFailsClosed(i, s) ==
  /\ Calling(i) /\ table_mutex = Nobody
  /\ ~live[s] /\ created < MaxCreates
  /\ destroyed_sem' = [destroyed_sem EXCEPT ![s] = Closed(s)]
  /\ created' = created + 1
  /\ UNCHANGED <<table, ready_sem, leaving, pc, waiting, router, history>>

\* pthread_create failed: the entry is given back and the gate opened.  The
\* id is returned all the same.
CreateFails(i, s) ==
  /\ Calling(i) /\ table_mutex = Nobody
  /\ ~live[s] /\ created < MaxCreates
  /\ destroyed_sem' = [destroyed_sem EXCEPT ![s] = Closed(s) + 1]
  /\ created' = created + 1
  /\ UNCHANGED <<table, ready_sem, leaving, pc, waiting, router, history>>

\* SAL_I_Start_User_Thread passes the mutex once and waits for the router.
Start(s) ==
  /\ table_mutex = Nobody
  /\ Goto(s, "start", "ready_wait")
  /\ waiting' = [waiting EXCEPT ![s] = [on |-> Main, timed |-> FALSE]]
  /\ UNCHANGED <<table, gates, router, created, history>>

-----------------------------------------------------------------------------
(* The gates *)

SignalReady(i) ==
  /\ pc[i] = "run" /\ ~is_ready[i]
  /\ ready_sem' = [ready_sem EXCEPT ![i] = @ + 1]
  /\ is_ready' = [is_ready EXCEPT ![i] = TRUE]
  /\ UNCHANGED <<live, running, table_mutex, destroyed_sem, leaving, pc,
                 waiting, router, created, history>>

Wait(i, s, timed, gate) ==
  /\ Goto(i, "run", gate)
  /\ waiting' = [waiting EXCEPT ![i] = [on |-> s, timed |-> timed]]
  /\ UNCHANGED <<table, gates, router, created, passed>>

WaitReady(i, s, timed) == Wait(i, s, timed, "ready_wait") /\ UNCHANGED gone

TakeReady(i) ==
  LET s == waiting[i].on IN
  /\ ready_sem[s] > 0
  /\ ready_sem' = [ready_sem EXCEPT ![s] = @ - 1]
  /\ Goto(i, "ready_wait", "ready_token")
  /\ UNCHANGED <<table, destroyed_sem, leaving, waiting, router, created, history>>

GiveReady(i) ==
  /\ ready_sem' = [ready_sem EXCEPT ![waiting[i].on] = @ + 1]
  /\ Goto(i, "ready_token", "run")
  /\ UNCHANGED <<table, destroyed_sem, leaving, waiting, router, created, history>>

Free(s) == IF s = Main THEN pc[Main] \in {"init", "done"} ELSE ~live[s]

WaitDestroyed(i, s, timed) ==
  /\ Wait(i, s, timed, "destroyed_wait")
  /\ gone' = [gone EXCEPT ![i] = Free(s)]

TakeDestroyed(i) ==
  LET s == waiting[i].on IN
  /\ destroyed_sem[s] > 0
  /\ destroyed_sem' = [destroyed_sem EXCEPT ![s] = @ - 1]
  /\ Goto(i, "destroyed_wait", "destroyed_token")
  /\ UNCHANGED <<table, ready_sem, leaving, waiting, router, created, history>>

\* Mutant: the token is not put back.
GiveDestroyedNot(i) ==
  /\ Goto(i, "destroyed_token", "run")
  /\ UNCHANGED <<table, gates, waiting, router, created, history>>

GiveDestroyed(i) ==
  /\ destroyed_sem' = [destroyed_sem EXCEPT ![waiting[i].on] = @ + 1]
  /\ Goto(i, "destroyed_token", "run")
  /\ UNCHANGED <<table, ready_sem, leaving, waiting, router, created, history>>

WaitExpires(i) ==
  LET s == waiting[i].on IN
  /\ waiting[i].timed
  /\ \/ ready_sem[s] = 0 /\ Goto(i, "ready_wait", "run")
     \/ destroyed_sem[s] = 0 /\ Goto(i, "destroyed_wait", "run")
  /\ UNCHANGED <<table, gates, waiting, router, created, history>>

-----------------------------------------------------------------------------
(* The end of a thread *)

\* The exit pulse to the router, SAL_PULSE_RT_EXIT | (status << 8); the
\* router leaves at the first one.
Pulse(status) == 256 * status + 1
StopRouter(status) == pulse' = IF pulse = NoPulse THEN Pulse(status) ELSE pulse

\* The division of C, which rounds towards zero.
Divided(v, n) == IF v >= 0 THEN v \div n ELSE -((-v) \div n)

Exit(i, status) ==
  /\ IF running # 1 THEN StopRouter(status) ELSE UNCHANGED pulse
  /\ passed' = passed \cup {status}
  /\ Goto(i, "run", "freeing")
  /\ UNCHANGED <<table, gates, waiting, exit_status, created, gone>>

\* The thread function returned.
Return(i) ==
  /\ Goto(i, "run", "freeing")
  /\ UNCHANGED <<table, gates, waiting, router, created, history>>

\* Mutant: the mutex is not unlocked.
LeaveEntryLocked(s) ==
  /\ live' = [live EXCEPT ![s] = FALSE]
  /\ leaving' = [leaving EXCEPT ![s] = @ + 1]
  /\ pc' = [pc EXCEPT ![s] = "none"]
  /\ gone' = [i \in Ids |-> gone[i] \/ waiting[i].on = s]
  /\ UNCHANGED table_mutex

\* What happens to the entry at the end of SAL_I_Free_Thread_Resources; the
\* mutex is free afterwards, the gate not yet open.
LeaveEntry(s) ==
  /\ live' = [live EXCEPT ![s] = FALSE]
  /\ leaving' = [leaving EXCEPT ![s] = @ + 1]
  /\ pc' = [pc EXCEPT ![s] = "none"]
  /\ gone' = [i \in Ids |-> gone[i] \/ waiting[i].on = s]
  /\ table_mutex' = Nobody

\* Mutant: the last thread does not stop the router.
UncountSilent(s) ==
  /\ running' = running - 1
  /\ UNCHANGED pulse

Uncount(s) ==
  /\ running' = running - 1
  /\ IF running = 1 THEN StopRouter(0) ELSE UNCHANGED pulse

\* A thread that was never ready leaves at once ...
LeaveUnready(s) ==
  /\ pc[s] = "freeing" /\ table_mutex = Nobody
  /\ ~is_ready[s]
  /\ Uncount(s)
  /\ LeaveEntry(s)
  /\ UNCHANGED <<is_ready, ready_sem, destroyed_sem, waiting, exit_status,
                 created, passed>>

\* ... the other ones wait, with the mutex, until no waiter has the token.
LeaveReady(s) ==
  /\ table_mutex = Nobody /\ table_mutex' = s
  /\ is_ready[s]
  /\ Goto(s, "freeing", "resetting")
  /\ Uncount(s)
  /\ UNCHANGED <<live, is_ready, gates, waiting, exit_status, created, history>>

\* Mutant: the gate is left open for the next thread of the entry.
ResetNot(s) ==
  /\ pc[s] = "resetting"
  /\ is_ready' = [is_ready EXCEPT ![s] = FALSE]
  /\ LeaveEntry(s)
  /\ UNCHANGED <<running, ready_sem, destroyed_sem, waiting, router, created,
                 passed>>

Reset(s) ==
  /\ pc[s] = "resetting"
  /\ ready_sem[s] > 0
  /\ ready_sem' = [ready_sem EXCEPT ![s] = @ - 1]
  /\ is_ready' = [is_ready EXCEPT ![s] = FALSE]
  /\ LeaveEntry(s)
  /\ UNCHANGED <<running, destroyed_sem, waiting, router, created, passed>>

SignalDestroyed(s) ==
  /\ leaving[s] > 0
  /\ leaving' = [leaving EXCEPT ![s] = @ - 1]
  /\ destroyed_sem' = [destroyed_sem EXCEPT ![s] = @ + 1]
  /\ UNCHANGED <<table, ready_sem, pc, waiting, router, created, history>>

-----------------------------------------------------------------------------
(* SAL_Run in the main thread *)

Run ==
  /\ running > 0
  /\ Goto(Main, "init", "rt")
  /\ ready_sem' = [ready_sem EXCEPT ![Main] = @ + 1]
  /\ is_ready' = [is_ready EXCEPT ![Main] = TRUE]
  /\ UNCHANGED <<live, running, table_mutex, destroyed_sem, leaving, waiting,
                 router, created, history>>

RouterStops ==
  /\ pulse # NoPulse
  /\ exit_status' = Divided(pulse, 256)
  /\ Goto(Main, "rt", "after_run")
  /\ UNCHANGED <<table, gates, waiting, pulse, created, history>>

\* SAL_I_After_Run
AfterRun ==
  /\ ready_sem[Main] > 0
  /\ ready_sem' = [ready_sem EXCEPT ![Main] = @ - 1]
  /\ is_ready' = [is_ready EXCEPT ![Main] = FALSE]
  /\ Goto(Main, "after_run", "done")
  /\ leaving' = [leaving EXCEPT ![Main] = @ + 1]
  /\ gone' = [i \in Ids |-> gone[i] \/ waiting[i].on = Main]
  /\ UNCHANGED <<live, running, table_mutex, destroyed_sem, waiting, router,
                 created, passed>>

-----------------------------------------------------------------------------

Call(i) ==
  \/ \E s \in Tids : Create(i, s) \/ CreateFails(i, s)
  \/ SignalReady(i)
  \/ \E s \in WaitTargets \ {i}, timed \in BOOLEAN :
       WaitReady(i, s, timed) \/ WaitDestroyed(i, s, timed)
  \/ \E status \in Statuses : Exit(i, status)
  \/ Return(i)

Take(i) == TakeReady(i) \/ TakeDestroyed(i)
Give(i) == GiveReady(i) \/ GiveDestroyed(i)
Leave(s) == LeaveUnready(s) \/ LeaveReady(s)

\* What a thread that is inside a call does next ...
ThreadStep(s) == Take(s) \/ Give(s) \/ Start(s) \/ Leave(s) \/ Reset(s)

\* ... and what the main thread does.
MainStep == Run \/ RouterStops \/ AfterRun

Next ==
  \/ \E i \in Ids : Call(i) \/ WaitExpires(i) \/ SignalDestroyed(i)
  \/ \E s \in Tids : ThreadStep(s)
  \/ MainStep

Spec == Init /\ [][Next]_vars

(***************************************************************************)
(* Fairness: a thread inside a call runs, and a semaphore or a mutex that  *)
(* opens again and again does not pass over one of its waiters forever     *)
(* (POSIX wakes the longest waiting of equal priority).  No thread has to  *)
(* call anything or to end, but the main thread calls SAL_Run.             *)
(***************************************************************************)
Fairness ==
  /\ \A s \in Tids : SF_vars(ThreadStep(s))
  /\ SF_vars(MainStep)
  /\ \A i \in Ids : WF_vars(SignalDestroyed(i))

FairSpec == Spec /\ Fairness

-----------------------------------------------------------------------------
(* Properties *)

PcState == {"none", "start", "run", "ready_wait", "ready_token",
            "destroyed_wait", "destroyed_token", "freeing", "resetting",
            "init", "rt", "after_run", "done"}

TypeOK ==
  /\ live \in [Tids -> BOOLEAN]
  /\ is_ready \in [Ids -> BOOLEAN]
  /\ ready_sem \in [Ids -> Nat] /\ destroyed_sem \in [Ids -> Nat]
  /\ leaving \in [Ids -> Nat]
  /\ running \in Int
  /\ table_mutex \in Tids \cup {Nobody}
  /\ pc \in [Ids -> PcState]
  /\ waiting \in [Ids -> [on : Ids, timed : BOOLEAN]]
  /\ pulse \in Int \cup {NoPulse} /\ exit_status \in Int \cup {NoPulse}
  /\ created \in Nat
  /\ passed \subseteq Statuses
  /\ gone \in [Ids -> BOOLEAN]

With(label, s) == {i \in Ids : pc[i] = label /\ waiting[i].on = s}

\* The entries, the code of their threads and the counter agree: a thread
\* runs exactly in a live entry, the mutex is kept exactly by a thread that
\* waits for the token of its own gate, and the counter holds the threads
\* that have not begun to leave.
EntriesAgree ==
  /\ \A s \in Tids : live[s] <=> pc[s] # "none"
  /\ \A s \in Tids : table_mutex = s <=> pc[s] = "resetting"
  /\ running = Cardinality({s \in Tids : pc[s] \notin {"none", "resetting"}})

\* The ready gate holds one token from SAL_Signal_Ready until its thread
\* took it back, in the semaphore or with one waiter, and none otherwise:
\* nobody passes the gate of a thread that is not ready, and a thread that
\* leaves with the mutex in its hands waits for a token that comes back.
ReadyGateAgrees ==
  \A i \in Ids :
    ready_sem[i] + Cardinality(With("ready_token", i)) =
      IF is_ready[i] THEN 1 ELSE 0

\* The end of a thread cannot be missed: while its entry is free, the
\* destroyed gate is open, or will be when a thread that left it or a waiter
\* that passes it has made its last step.
GoneIsVisible ==
  \A s \in Tids : ~live[s] =>
    destroyed_sem[s] + leaving[s] + Cardinality(With("destroyed_token", s)) > 0

\* "Suspends its caller until all threads in thread_id_list have been
\* terminated": nobody passes the destroyed gate of a thread that was alive
\* all the time.
DestroyedMeansGone ==
  \A i \in Ids : pc[i] = "destroyed_token" => gone[i]

\* "value passed to SAL_Exit() or 0 when all threads terminate": what
\* SAL_Run returns.
StatusIsPassed ==
  exit_status # NoPulse =>
    exit_status \in (IF passed = {} THEN {0} ELSE passed)

\* A thread that ends leaves its entry, although it waits for a token with
\* the mutex of the whole table in its hands.
EndCompletes ==
  \A s \in Tids : pc[s] \in {"freeing", "resetting"} ~> pc[s] = "none"

\* SAL_Run returns once a thread called SAL_Exit, and when the last thread
\* ended.
RunReturns ==
  pc[Main] = "rt" /\ (running = 0 \/ passed # {}) ~> pc[Main] = "done"

\* A thread that waits for the end of another one does not sleep on when
\* the entry stays free.
DestroyedWaiterReturns ==
  \A i \in Ids, s \in Tids :
    pc[i] = "destroyed_wait" /\ waiting[i].on = s /\ ~live[s]
      ~> pc[i] # "destroyed_wait" \/ live[s]
=============================================================================
