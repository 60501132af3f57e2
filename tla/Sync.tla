-------------------------------- MODULE Sync --------------------------------
(***************************************************************************)
(* The blocking primitives of XSAL on Linux: one mutex with its user       *)
(* counter (linux/xsal_mutex_linux.c), a condition variable that is used   *)
(* with it (full/xsal_create_cond.c, linux/xsal_wait_cond_linux.c) and a   *)
(* semaphore (common/xsal_*_semaphore*.c).  What the kernel object does is *)
(* external; what the library adds is the counter, the owner field and the *)
(* deadlines, which every timed call takes from SAL_I_Get_Time: the wall   *)
(* clock.  A thread that is inside a call is in state.call, and the counter*)
(* moves in a step of its own, as the atomic instructions of the code do.  *)
(***************************************************************************)
EXTENDS Integers, FiniteSets

CONSTANTS
  Threads,     \* threads that share the objects
  None,        \* no thread
  Never,       \* the deadline of a call without a timeout
  Boot,        \* the wall clock when the monotonic clock was 0
  MaxTime,     \* bound: time the clocks advance
  MaxDepth,    \* how often a recursive mutex may be locked (an OS limit)
  MaxTokens,   \* bound: value of the semaphore
  Timeouts     \* timeouts of the calls

VARIABLE state   \* the objects, the clocks and the calls in progress

vars == state

Calls == {"none", "lock", "lock_failed", "unlock", "cond", "signalled", "sem"}

Init == state = [count |-> 0, holder |-> None, depth |-> 0, owner |-> None,
                 tokens |-> 0, clock |-> Boot,
                 call |-> [t \in Threads |-> "none"],
                 deadline |-> [t \in Threads |-> Never]]

Idle(t) == state.call[t] = "none"

\* SAL_I_Get_Time: the deadline of a timed call on the wall clock.
Deadline(timeout) == state.clock + timeout

(* Which clock the kernel compares the deadline with: the condition         *)
(* variable was created for the monotonic one, the mutex and the semaphore  *)
(* use the wall clock.                                                      *)
ClockOf(call) == IF call = "cond" THEN state.clock - Boot ELSE state.clock

TimedOut(t) == /\ state.deadline[t] # Never
               /\ ClockOf(state.call[t]) >= state.deadline[t]

Begin(t, call, deadline) ==
  [state EXCEPT !.call[t] = call, !.deadline[t] = deadline]

Return(r, t) == [r EXCEPT !.call[t] = "none", !.deadline[t] = Never]

-----------------------------------------------------------------------------
\* The mutex.

\* SAL_Lock_Mutex, SAL_Lock_Mutex_Timeout: the user is counted first.
LockBegin(t, deadline) ==
  /\ Idle(t)
  /\ state' = [Begin(t, "lock", deadline) EXCEPT !.count = @ + 1]

Available(t) == \/ state.holder = None
                \/ state.holder = t /\ state.depth < MaxDepth

Acquired(r, t) == [r EXCEPT !.holder = t, !.depth = @ + 1]

LockEnd(t) ==
  /\ state.call[t] = "lock" /\ Available(t)
  /\ state' = [Return(Acquired(state, t), t) EXCEPT !.owner = t]

\* ETIMEDOUT, or an error such as the limit of a recursive mutex.
\* Mutant: a lock that failed keeps its count.
LockFailsLeak(t) ==
  /\ state.call[t] = "lock"
  /\ TimedOut(t) \/ (state.holder = t /\ state.depth = MaxDepth)
  /\ state' = Return(state, t)

LockFails(t) ==
  /\ state.call[t] = "lock"
  /\ TimedOut(t) \/ (state.holder = t /\ state.depth = MaxDepth)
  /\ state' = [Return(state, t) EXCEPT !.count = @ - 1]

(* SAL_Try_Lock_Mutex: counted before the attempt, and the owner field is   *)
(* left alone; a busy mutex is un-counted in a step of its own.             *)
TryLock(t) ==
  /\ Idle(t)
  /\ IF Available(t)
     THEN state' = [Acquired(state, t) EXCEPT !.count = @ + 1]
     ELSE state' = [Begin(t, "lock_failed", Never) EXCEPT !.count = @ + 1]

TryLockFails(t) ==
  /\ state.call[t] = "lock_failed"
  /\ state' = [Return(state, t) EXCEPT !.count = @ - 1]

\* SAL_Unlock_Mutex: the mutex is free before the user is un-counted.
UnlockBegin(t) ==
  /\ Idle(t) /\ state.holder = t
  /\ state' = [Begin(t, "unlock", Never) EXCEPT
                 !.depth = @ - 1,
                 !.holder = IF state.depth = 1 THEN None ELSE @]

UnlockEnd(t) ==
  /\ state.call[t] = "unlock"
  /\ state' = [Return(state, t) EXCEPT !.count = @ - 1]

-----------------------------------------------------------------------------
\* The condition variable.  A wait gives the mutex up but stays counted.

WaitCond(t, deadline) ==
  /\ Idle(t) /\ state.holder = t /\ state.depth = 1
  /\ state' = [Begin(t, "cond", deadline) EXCEPT !.holder = None, !.depth = 0]

\* Awake: signalled, spuriously, or because the kernel saw the deadline pass.
Wakes(t) == [state EXCEPT !.call[t] = "signalled", !.deadline[t] = Never]

SignalCond(t) ==
  /\ Idle(t)
  /\ \E w \in Threads : state.call[w] = "cond" /\ state' = Wakes(w)

WaitCondTimesOut(t) == state.call[t] = "cond" /\ TimedOut(t) /\ state' = Wakes(t)

\* The waiter takes the mutex again; SAL_Wait_Cond does not set the owner.
WaitCondEnd(t) ==
  /\ state.call[t] = "signalled" /\ state.holder = None
  /\ state' = Return(Acquired(state, t), t)

-----------------------------------------------------------------------------
\* The semaphore.

SignalSemaphore(t) ==
  /\ Idle(t) /\ state.tokens < MaxTokens
  /\ state' = [state EXCEPT !.tokens = @ + 1]

TryWaitSemaphore(t) ==
  /\ Idle(t) /\ state.tokens > 0
  /\ state' = [state EXCEPT !.tokens = @ - 1]

WaitSemaphore(t, deadline) == Idle(t) /\ state' = Begin(t, "sem", deadline)

WaitSemaphoreEnd(t) ==
  /\ state.call[t] = "sem" /\ state.tokens > 0
  /\ state' = [Return(state, t) EXCEPT !.tokens = @ - 1]

WaitSemaphoreTimesOut(t) ==
  state.call[t] = "sem" /\ TimedOut(t) /\ state' = Return(state, t)

\* Time passes; a call whose deadline the kernel has seen returns first.
Tick ==
  /\ state.clock < Boot + MaxTime
  /\ \A t \in Threads : ~ TimedOut(t)
  /\ state' = [state EXCEPT !.clock = @ + 1]

Deadlines == {Never} \cup {Deadline(d) : d \in Timeouts}

Next ==
  \/ \E t \in Threads :
       \/ \E d \in Deadlines :
            LockBegin(t, d) \/ WaitCond(t, d) \/ WaitSemaphore(t, d)
       \/ LockEnd(t) \/ LockFails(t) \/ TryLock(t) \/ TryLockFails(t)
       \/ UnlockBegin(t) \/ UnlockEnd(t)
       \/ SignalCond(t) \/ WaitCondTimesOut(t) \/ WaitCondEnd(t)
       \/ SignalSemaphore(t) \/ TryWaitSemaphore(t)
       \/ WaitSemaphoreEnd(t) \/ WaitSemaphoreTimesOut(t)
  \/ Tick

Spec == Init /\ [][Next]_vars

-----------------------------------------------------------------------------
(* CountsUsers: mutex->count is the number of users, so SAL_Destroy_Mutex   *)
(* warns exactly when there is one and SAL_Unlock_Mutex yields exactly when *)
(* somebody is waiting: a holder counts once per lock, a waiter on the      *)
(* condition variable keeps its count, a failed or timed out lock has none. *)
CountsUsers ==
  state.count = state.depth
                + Cardinality({t \in Threads : state.call[t] \notin {"none", "sem"}})

(* TimedWaitEnds: a timed wait of any kind is over when its timeout has     *)
(* passed (xsal.h:399: "wait for conditional variable until it will be      *)
(* signalized or the specified timeout expires").                           *)
TimedWaitEnds ==
  \A t \in Threads : state.deadline[t] # Never => state.clock <= state.deadline[t]

=============================================================================
