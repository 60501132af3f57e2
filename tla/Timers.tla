-------------------------------- MODULE Timers --------------------------------
(***************************************************************************)
(* The timers of an application on Linux.  Threads create, start, stop and *)
(* destroy timers, which are in one of three lists; a timer thread waits   *)
(* for the signal of the one OS timer, armed for the first of the running  *)
(* list, and sends the events.  What runs under Timer_Mutex is one step.   *)
(* The lists are those of DoubleLinkedList.                                *)
(***************************************************************************)
EXTENDS Integers, Sequences, SequencesExt, FiniteSets

CONSTANTS
  Threads,              \* threads of the application
  TIMER_NUM_ALLOCATED,  \* timers in a block
  Intervals,            \* interval_msec of the calls
  SecondLength,         \* milliseconds of a second
  MaxBlocks,            \* bound: blocks that are allocated
  MaxCalls,             \* bound: calls of the threads
  MaxTime,              \* bound: the clock, in milliseconds
  Stops                 \* whether the router ends and stops the module

ASSUME TimersAssumption ==
  /\ {TIMER_NUM_ALLOCATED, SecondLength, MaxBlocks, MaxCalls, MaxTime} \subseteq Nat
  /\ TIMER_NUM_ALLOCATED > 0 /\ SecondLength > 0
  /\ Intervals \subseteq Nat /\ Stops \in BOOLEAN

Ids == 1..(MaxBlocks * TIMER_NUM_ALLOCATED)     \* XSAL_Timer_T*

VARIABLES
  timers,              \* the timers: state, thread, expiration_time, period
  Unused_Timers, Stopped_Timers, Running_Timers,
  blocks,              \* blocks allocated
  module,              \* "on", or how far SAL_I_Stop_Timer_Module is
  now,                 \* the clock, in milliseconds
  armed,               \* what OS_Timer_Id is armed for; Never
  signal,              \* SAL_I_TIMER_SIGNAL_ID is pending
  handler,             \* where the timer thread is
  op,                  \* the call each thread is in, past its unlocked checks
  calls,
  fired,               \* history: expirations of each timer since its start ...
  since,               \* ... and the time of that start
  ended,               \* threads that ended
  used_freed           \* a thread went on with a timer of a stopped module

lists == <<timers, Unused_Timers, Stopped_Timers, Running_Timers, blocks>>
system == <<module, now, armed, signal, handler>>
history == <<fired, since>>
vars == <<lists, system, history, op, calls, ended, used_freed>>

Nobody == 0
Never == [sec |-> -1, msec |-> 0]
Idle == [name |-> "idle"]
NewTimer == [state |-> "TIMER_UNUSED", thread |-> Nobody, time |-> Never,
             period |-> 0]

-----------------------------------------------------------------------------
(* Time *)

Clock == [sec |-> now \div SecondLength, msec |-> now % SecondLength]
Value(t) == t.sec * SecondLength + t.msec

Update_Expiration_Time(t, m) ==
  LET msec == t.msec + (m % SecondLength)  sec == t.sec + (m \div SecondLength)
  IN  IF msec >= SecondLength THEN [sec |-> sec + 1, msec |-> msec - SecondLength]
      ELSE [sec |-> sec, msec |-> msec]

\* The next full millisecond.
RoundedUp(t) == Update_Expiration_Time(t, 1)

\* The order of Compare_Timeouts.
Earlier(t, u) == t.sec < u.sec \/ (t.sec = u.sec /\ t.msec < u.msec)
NotLater(t, u) == ~Earlier(u, t)

-----------------------------------------------------------------------------
(* The lists.  Each operator gives the lists and the timers after it.       *)

Lists == [t |-> timers, unused |-> Unused_Timers, stopped |-> Stopped_Timers,
          running |-> Running_Timers]
SetLists(L) ==
  /\ timers' = L.t /\ Unused_Timers' = L.unused /\ Stopped_Timers' = L.stopped
  /\ Running_Timers' = L.running

Timer_Add_Unused(L, i) ==
  [L EXCEPT !.t[i].state = "TIMER_UNUSED", !.unused = Append(@, i)]
Timer_Add_Stop(L, i) ==
  [L EXCEPT !.t[i].state = "TIMER_STOPPED", !.stopped = Append(@, i)]

\* Mutant: behind all others.
InsertedLast(t, s, i) == Append(s, i)

\* DBLL_Add_Entry: before the first entry that is not earlier.
Inserted(t, s, i) ==
  LET before == {k \in DOMAIN s : Earlier(t[s[k]].time, t[i].time)}
      n == IF \E k \in DOMAIN s : k \notin before
           THEN CHOOSE k \in DOMAIN s : k \notin before /\ \A j \in 1..(k-1) : j \in before
           ELSE Len(s) + 1
  IN  InsertAt(s, n, i)

Timer_Add_Running(L, i, delay) ==
  LET t == [L.t EXCEPT ![i].state = "TIMER_RUNNING",
                       ![i].time = Update_Expiration_Time(@, delay)]
  IN  [L EXCEPT !.t = t, !.running = Inserted(t, @, i)]

Timer_Remove(L, i) ==
  IF L.t[i].state = "TIMER_RUNNING" THEN [L EXCEPT !.running = RemoveFirst(@, i)]
                                    ELSE [L EXCEPT !.stopped = RemoveFirst(@, i)]

\* The state of a timer is right.
Valid(i) == timers[i].state \in {"TIMER_RUNNING", "TIMER_STOPPED"}

\* The timer is armed for the first of the running list; it stays as it was when
\* there is none.
Restarted(L) == IF L.running = << >> THEN armed ELSE L.t[L.running[1]].time

\* Mutant: the timer is not armed again.
NotRestarted(L) == armed' = armed

Restart_Timer(L) == armed' = Restarted(L)

Times == [sec : Nat, msec : 0..(SecondLength - 1)]
Entries ==
  [state : {"TIMER_UNUSED", "TIMER_STOPPED", "TIMER_RUNNING"}, period : Intervals \cup {0},
   thread : Threads \cup {Nobody}, time : Times \cup {Never}]
Calls ==
  [name : {"idle", "create", "allocate"}] \cup [name : {"stop", "destroy"}, timer : Ids]
    \cup [name : {"start"}, timer : Ids, interval : Intervals, periodic : BOOLEAN]
ListRecords ==
  [t : [Ids -> Entries], unused : Seq(Ids), stopped : Seq(Ids), running : Seq(Ids)]
Handlers ==
  [at : {"sigwait", "clock", "ending", "ended"}] \cup [at : {"expired"}, now : Times]
    \cup [at : {"send"}, timer : Ids, creator : Threads \cup {Nobody}]

\* The type of the state.
TypeOK ==
  /\ Lists \in ListRecords
  /\ blocks \in 0..MaxBlocks /\ calls \in 0..MaxCalls /\ now \in 0..MaxTime
  /\ module \in {"on", "stopping", "off"} /\ ended \subseteq Threads
  /\ armed \in Times \cup {Never} /\ handler \in Handlers
  /\ op \in [Threads -> Calls]
  /\ fired \in [Ids -> Nat] /\ since \in [Ids -> Nat]
  /\ signal \in BOOLEAN /\ used_freed \in BOOLEAN

\* SAL_I_Init_Timer_Module and SAL_I_Start_Timer_Module: no timers are
\* allocated in advance.
Init ==
  /\ timers = [i \in Ids |-> NewTimer]
  /\ Unused_Timers = << >> /\ Stopped_Timers = << >> /\ Running_Timers = << >>
  /\ blocks = 0 /\ module = "on" /\ now = 0 /\ armed = Never /\ signal = FALSE
  /\ handler = [at |-> "sigwait"]
  /\ op = [th \in Threads |-> Idle]
  /\ calls = 0 /\ ended = {} /\ used_freed = FALSE
  /\ fired = [i \in Ids |-> 0] /\ since = [i \in Ids |-> 0]

-----------------------------------------------------------------------------
(* The calls of a thread: OS_Timer_Id is looked at before the lock.         *)

Own(th) == {i \in Ids : timers[i].thread = th /\ Valid(i)}

\* A call gets past its checks.
Call(th, o) ==
  /\ th \notin ended /\ op[th] = Idle /\ module # "off"
  /\ op' = [op EXCEPT ![th] = o]
  /\ calls < MaxCalls /\ calls' = calls + 1
  /\ UNCHANGED <<lists, system, history, ended, used_freed>>

SAL_Create_Timer(th) == Call(th, [name |-> "create"])

SAL_Start_Timer(th, i, interval, periodic) ==
  /\ i \in Own(th) /\ (periodic => interval > 0)
  /\ Call(th, [name |-> "start", timer |-> i, interval |-> interval,
               periodic |-> periodic])

SAL_Stop_Timer(th, i) ==
  i \in Own(th) /\ Call(th, [name |-> "stop", timer |-> i])
SAL_Destroy_Timer(th, i) ==
  i \in Own(th) /\ Call(th, [name |-> "destroy", timer |-> i])

Return(th) == op' = [op EXCEPT ![th] = Idle]
On(th, name) == op[th].name = name /\ module # "off"

\* The first unused timer becomes the thread's.
Take(th, L) ==
  LET i == L.unused[1]
  IN  SetLists(Timer_Add_Stop([L EXCEPT !.t[i].thread = th, !.unused = Tail(@)], i))

Create(th) ==
  /\ On(th, "create") /\ Unused_Timers # << >>
  /\ Take(th, Lists) /\ Return(th)
  /\ UNCHANGED <<blocks, system, history, calls, ended, used_freed>>

\* There is none: the mutex is unlocked while memory is allocated.
Timers_Allocate_Block(th) ==
  /\ On(th, "create") /\ Unused_Timers = << >>
  /\ op' = [op EXCEPT ![th] = [name |-> "allocate"]]
  /\ UNCHANGED <<lists, system, history, calls, ended, used_freed>>

\* It is locked again: the block is added and its first timer taken, or one that
\* became unused meanwhile.
Allocated(th) ==
  /\ On(th, "allocate") /\ blocks < MaxBlocks /\ blocks' = blocks + 1
  /\ Take(th, [Lists EXCEPT !.unused =
       @ \o [k \in 1..TIMER_NUM_ALLOCATED |-> blocks * TIMER_NUM_ALLOCATED + k]])
  /\ Return(th)
  /\ UNCHANGED <<system, history, calls, ended, used_freed>>

Destroy(th) ==
  /\ On(th, "destroy")
  /\ SetLists(Timer_Add_Unused(Timer_Remove(Lists, op[th].timer), op[th].timer))
  /\ Return(th)
  /\ UNCHANGED <<blocks, system, history, calls, ended, used_freed>>

\* The time is taken, and the timer runs.
Start_Timer(th) ==
  LET o == op[th]
      prepared == [Timer_Remove(Lists, o.timer) EXCEPT
        !.t[o.timer].period = IF o.periodic THEN o.interval ELSE 0,
        !.t[o.timer].time = RoundedUp(Clock)]
      L == Timer_Add_Running(prepared, o.timer, o.interval)
  IN  /\ On(th, "start")
      /\ SetLists(L) /\ Restart_Timer(L)
      /\ fired' = [fired EXCEPT ![o.timer] = 0]
      /\ since' = [since EXCEPT ![o.timer] = now]
      /\ Return(th)
      /\ UNCHANGED <<blocks, module, now, signal, handler, calls, ended,
                     used_freed>>

\* A timer that does not run any more is left alone.
Stop(th) ==
  LET i == op[th].timer
      L == Timer_Add_Stop(Timer_Remove(Lists, i), i)
  IN  /\ On(th, "stop") /\ Return(th)
      /\ IF timers[i].state = "TIMER_RUNNING"
         THEN SetLists(L) /\ Restart_Timer(L) /\ UNCHANGED blocks
         ELSE UNCHANGED <<lists, armed>>
      /\ UNCHANGED <<module, now, signal, handler, history, calls, ended,
                     used_freed>>

\* The lists were destroyed and the blocks freed between the check and the lock.
AfterFree(th) ==
  /\ op[th] # Idle /\ module = "off"
  /\ used_freed' = TRUE
  /\ Return(th)
  /\ UNCHANGED <<lists, system, history, calls, ended>>

\* The entries of s that are in S, in their order.
Those(s, S) ==
  LET places == {k \in DOMAIN s : s[k] \in S}
      rank(k) == Cardinality({j \in places : j <= k})
  IN  [n \in 1..Cardinality(places) |-> s[CHOOSE k \in places : rank(k) = n]]

\* Destroy_Thread_Timer for each running and then for each stopped timer.
Destroyed(L, th) ==
  LET mine == {i \in Ids : L.t[i].thread = th}
      gone == Those(L.running, mine) \o Those(L.stopped, mine)
  IN  [t |-> [i \in Ids |-> IF i \in ToSet(gone)
                           THEN [L.t[i] EXCEPT !.state = "TIMER_UNUSED"] ELSE L.t[i]],
       unused |-> L.unused \o gone,
       stopped |-> Those(L.stopped, Ids \ mine), running |-> Those(L.running, Ids \ mine)]

\* The thread ends; here the check is made under the lock.
SAL_I_Destroy_And_Unbind_Timers_From_Thread(th) ==
  /\ th \notin ended /\ op[th] = Idle
  /\ ended' = ended \cup {th}
  /\ IF module = "off" THEN UNCHANGED <<timers, Unused_Timers, Stopped_Timers,
                                        Running_Timers, armed>>
     ELSE /\ SetLists(Destroyed(Lists, th))
          /\ Restart_Timer(Destroyed(Lists, th))
  /\ UNCHANGED <<blocks, module, now, signal, handler, history, op, calls,
                 used_freed>>

-----------------------------------------------------------------------------
(* The OS timer and the timer thread *)

\* The time of a stopped module does not matter.
Tick ==
  /\ now < MaxTime /\ now' = now + 1 /\ module # "off"
  /\ UNCHANGED <<lists, module, armed, signal, handler, history, op, calls, ended,
                 used_freed>>

\* The OS timer expires once.
Expire ==
  /\ armed # Never /\ NotLater(armed, Clock) /\ module # "off"
  /\ armed' = Never /\ signal' = TRUE
  /\ UNCHANGED <<lists, module, now, handler, history, op, calls, ended,
                 used_freed>>

Goto(h) == handler' = h
Handler == UNCHANGED <<module, now, op, calls, ended, used_freed>>

Sigwait ==
  /\ handler.at = "sigwait" /\ signal
  /\ signal' = FALSE /\ Goto([at |-> "clock"])
  /\ UNCHANGED <<lists, armed, history>> /\ Handler

\* The time is read before the lock.
ReadClock ==
  /\ handler.at = "clock" /\ Goto([at |-> "expired", now |-> Clock])
  /\ UNCHANGED <<lists, armed, signal, history>> /\ Handler

Due ==
  /\ Running_Timers # << >>
  /\ NotLater(timers[Running_Timers[1]].time, handler.now)

\* Mutant: the period counts from the time of the handler.
RunAgainLate(L, i) ==
  Timer_Add_Running([L EXCEPT !.t[i].time = handler.now], i, L.t[i].period)

\* The period counts from the expiration.
RunAgain(L, i) == Timer_Add_Running(L, i, L.t[i].period)

Expired ==
  /\ handler.at = "expired" /\ Due
  /\ LET i == Running_Timers[1]
         L == [Lists EXCEPT !.running = Tail(@)]
     IN  /\ SetLists(IF timers[i].period # 0 THEN RunAgain(L, i)
                                            ELSE Timer_Add_Stop(L, i))
         /\ fired' = [fired EXCEPT ![i] = @ + 1]
         /\ Goto([at |-> "send", timer |-> i, creator |-> timers[i].thread])
  /\ UNCHANGED <<blocks, armed, signal, since>> /\ Handler

\* SAL_Send, with the thread and the event the timer has now, into the queue that
\* MessageQueue models.
SendEvent ==
  /\ handler.at = "send" /\ Goto([at |-> "clock"])
  /\ UNCHANGED <<lists, armed, signal, history>> /\ Handler

\* Nothing has expired; the thread looks whether it should end.
Rearm ==
  /\ handler.at = "expired" /\ ~Due
  /\ Restart_Timer(Lists)
  /\ Goto([at |-> IF module = "on" THEN "sigwait" ELSE "ending"])
  /\ UNCHANGED <<lists, signal, history>> /\ Handler

\* SAL_I_Stop_Timer_Module: the thread is told and signalled, ...
SAL_I_Stop_Timer_Module ==
  /\ Stops /\ module = "on" /\ module' = "stopping"
  /\ signal' = TRUE
  /\ UNCHANGED <<lists, now, armed, handler, history, op, calls, ended,
                 used_freed>>

\* ... and destroys the OS timer and the lists.
DestroyLists ==
  /\ handler.at = "ending" /\ Goto([at |-> "ended"])
  /\ module' = "off" /\ armed' = Never /\ signal' = FALSE
  /\ Unused_Timers' = << >> /\ Stopped_Timers' = << >> /\ Running_Timers' = << >>
  /\ UNCHANGED <<timers, blocks, now, history, op, calls, ended, used_freed>>

-----------------------------------------------------------------------------

Finish(th) ==
  \/ Create(th) \/ Timers_Allocate_Block(th) \/ Allocated(th) \/ Destroy(th)
  \/ Start_Timer(th) \/ Stop(th) \/ AfterFree(th)

Timer_Thread ==
  Sigwait \/ ReadClock \/ Expired \/ SendEvent \/ Rearm \/ DestroyLists

Next ==
  \/ \E th \in Threads :
       \/ SAL_Create_Timer(th)
       \/ \E i \in Ids :
            \/ SAL_Stop_Timer(th, i) \/ SAL_Destroy_Timer(th, i)
            \/ \E interval \in Intervals, periodic \in BOOLEAN :
                 SAL_Start_Timer(th, i, interval, periodic)
       \/ Finish(th)
       \/ SAL_I_Destroy_And_Unbind_Timers_From_Thread(th)
  \/ Timer_Thread \/ Expire \/ Tick \/ SAL_I_Stop_Timer_Module

Spec == Init /\ [][Next]_vars

\* The OS delivers the signal and runs the timer thread, which has a high
\* priority.
FairSpec == Spec /\ WF_vars(Timer_Thread) /\ WF_vars(Expire)

-----------------------------------------------------------------------------
(* Properties *)

\* Each timer of a block is in exactly one list, once, and its state says which:
\* SAL_Stop_Timer and Timer_Remove trust the state.
ListsAgree ==
  module # "off" =>
    LET all == Unused_Timers \o Stopped_Timers \o Running_Timers
    IN  /\ Len(all) = blocks * TIMER_NUM_ALLOCATED
        /\ ToSet(all) = 1..(blocks * TIMER_NUM_ALLOCATED)
        /\ \A i \in ToSet(all) : timers[i].state =
             IF i \in ToSet(Unused_Timers) THEN "TIMER_UNUSED"
             ELSE IF i \in ToSet(Stopped_Timers) THEN "TIMER_STOPPED"
             ELSE "TIMER_RUNNING"

\* While the timer thread waits, no running timer can be overslept: the OS timer is
\* armed for the earliest of them, or for an earlier time, or has its signal out.
ArmedInTime ==
  handler.at = "sigwait" =>
    \/ signal
    \/ \A i \in ToSet(Running_Timers) :
         armed # Never /\ Value(armed) <= Value(timers[i].time)

\* A timer expires no earlier than its whole interval after the start, and a periodic
\* timer does not drift, however late the timer thread is.
OnTime ==
  \A i \in ToSet(Running_Timers) :
    /\ fired[i] > 0 => now > since[i] + fired[i] * timers[i].period
    /\ timers[i].period > 0 =>
         Value(timers[i].time) = since[i] + 1 + (fired[i] + 1) * timers[i].period

\* A thread that ended leaves no timer that could send to the next thread with its
\* id.
EndedHasNone ==
  \A i \in ToSet(Stopped_Timers \o Running_Timers) : timers[i].thread \notin ended

\* TimersInv: lists, timer states, the armed time and the threads agree.
TimersInv == TypeOK /\ ListsAgree /\ ArmedInTime /\ EndedHasNone

\* A timer that is due does not stay so: it is sent, stopped or started anew.
DueIsHandled ==
  \A i \in Ids :
    i \in ToSet(Running_Timers) /\ NotLater(timers[i].time, Clock)
      ~> ~(i \in ToSet(Running_Timers) /\ NotLater(timers[i].time, Clock))

\* What the comment of SAL_Create_Timer says (xsal.h:2273): "XSAL timer events are
\* sent only to the thread that has created the timer".
SentToCreator ==
  handler.at = "send" => timers[handler.timer].thread = handler.creator

\* The assertion in Timer_Remove (xsal_timer_linux.c:492) that the timer has a
\* state: here, that it is not freed memory.
StateIsLegal == ~used_freed
================================================================================
