---------------------------- MODULE NativeTimers -----------------------------
(***************************************************************************)
(* The timers of an application where each has a timer of the system: QNX  *)
(* sends a pulse to the router thread when one expires                     *)
(* (qnx/xsal_i_timer_qnx.c), Windows a message to the window of a timer    *)
(* thread (win32/xsal_i_timer_win32.c).  The table of timers, its free     *)
(* list and the list of each thread are common (common/xsal_i_timer.c).    *)
(* What a pulse or a message carries is the address of the timer: its      *)
(* event is looked up when it is handled.  Time is left out: a timer that  *)
(* is armed may expire at any moment.                                      *)
(***************************************************************************)
EXTENDS Integers, Sequences, SequencesExt

CONSTANTS
  Platforms,   \* "qnx", "win32"
  Threads,     \* threads of the application
  Timers,      \* the table, SAL_I_Timers
  Events,      \* event ids of the timers
  None         \* INVALID_TIMER_EVENT, no thread, no timer

VARIABLE nt

vars == nt

Idle == [pc |-> "idle", timer |-> None]
Free == [event |-> None, thread |-> None, periodic |-> FALSE, os |-> FALSE, armed |-> FALSE]

(* expired: pulses or messages on their way, with the thread and the event *)
(* of the timer when it expired; of several alike the last one.  handled:   *)
(* the one that the router thread or the timer thread has taken.  failed:   *)
(* an assertion did.                                                        *)
\* SAL_I_Start_Timer_Module
Init ==
  \E p \in Platforms :
    nt = [platform |-> p, free |-> SetToSeq(Timers), timer |-> [i \in Timers |-> Free],
          list |-> [t \in Threads |-> <<>>], call |-> [t \in Threads |-> Idle],
          expired |-> {}, handled |-> None, failed |-> FALSE]

\* The owner calls for one of its timers.
Calls(t, i) == nt.call[t].pc = "idle" /\ Contains(nt.list[t], i)

(* SendMessage to the timer thread returns when that one has handled it, so *)
(* not while it is about to handle an expired timer.                        *)
Reachable == nt.platform = "win32" => nt.handled = None

-----------------------------------------------------------------------------
(* The calls of a thread.  Locks succeed, and so does timer_create, which   *)
(* asserts that it does.                                                    *)

\* SAL_Create_Timer: the first free timer has no event ...
Create(t, e) ==
  /\ nt.call[t].pc = "idle" /\ nt.free # <<>>
  /\ LET i == Head(nt.free)
         taken == [nt EXCEPT !.free = Tail(@), !.call[t] = [pc |-> "bind", timer |-> i],
                             !.timer[i] = [Free EXCEPT !.event = e, !.thread = t, !.os = TRUE]]
     IN  nt' = IF nt.timer[i].event = None THEN taken ELSE [nt EXCEPT !.failed = TRUE]

\* ... and goes to the list of the thread.
Bind(t) ==
  /\ nt.call[t].pc = "bind"
  /\ nt' = [nt EXCEPT !.list[t] = <<nt.call[t].timer>> \o @, !.call[t] = Idle]

\* SAL_Start_Timer, SAL_Start_Timer_Ex with an interval.
Start(t, i, periodic) ==
  /\ Calls(t, i) /\ Reachable
  /\ nt' = [nt EXCEPT !.timer[i].armed = TRUE, !.timer[i].periodic = periodic]

\* The same without one: the timer is stopped and its event posted at once.
StartAtOnce(t, i) ==
  /\ Calls(t, i) /\ Reachable
  /\ nt' = [nt EXCEPT !.timer[i].armed = FALSE]

Stop(t, i) ==
  /\ Calls(t, i) /\ Reachable
  /\ nt' = [nt EXCEPT !.timer[i].armed = FALSE]

\* SAL_Destroy_Timer: out of the list, ...
Unbind(t, i) ==
  /\ Calls(t, i)
  /\ nt' = [nt EXCEPT !.list[t] = RemoveFirst(@, i), !.call[t] = [pc |-> "destroy", timer |-> i]]

\* ... the timer of the system is deleted, ...
Destroyed(r, i) == [r EXCEPT !.timer[i].os = FALSE, !.timer[i].armed = FALSE]

Destroy(t) ==
  /\ nt.call[t].pc = "destroy" /\ Reachable
  /\ nt' = [Destroyed(nt, nt.call[t].timer) EXCEPT !.call[t].pc = "return"]

\* ... and the timer is free.
Return(t) ==
  /\ nt.call[t].pc = "return"
  /\ LET i == nt.call[t].timer IN
     nt' = [nt EXCEPT !.timer[i].event = None, !.free = <<i>> \o @, !.call[t] = Idle]

(* The thread ends (SAL_I_Destroy_And_Unbind_Timers_From_Thread): its       *)
(* timers are deleted and become free one after the other, with the events  *)
(* they have.  A thread with the same id may start afterwards.              *)
ThreadEnds(t) ==
  /\ nt.call[t].pc = "idle" /\ nt.list[t] # <<>> /\ Reachable
  /\ LET mine == nt.list[t]
     IN  nt' = [nt EXCEPT
           !.timer = [i \in Timers |-> IF Contains(mine, i) THEN [@[i] EXCEPT !.os = FALSE, !.armed = FALSE]
                                       ELSE @[i]],
           !.free = Reverse(mine) \o @,
           !.list[t] = <<>>]

-----------------------------------------------------------------------------
(* The system, and the thread that handles what it sends.                   *)

(* A pulse has the thread in its code, since timer_create; on Windows only  *)
(* KillTimer ends a timer that is not periodic.                             *)
Expire(i) ==
  /\ nt.timer[i].armed
  /\ nt' = [nt EXCEPT
       !.expired = @ \cup {[timer |-> i, thread |-> nt.timer[i].thread, event |-> nt.timer[i].event]},
       !.timer[i].armed = nt.platform = "win32" \/ nt.timer[i].periodic]

\* SAL_Sync_Receive, GetMessage
Take(x) ==
  /\ nt.handled = None
  /\ nt' = [nt EXCEPT !.handled = x, !.expired = @ \ {x}]

\* The event goes to the queue of the thread (SAL_I_Post_Timer_Event).
Handle ==
  /\ nt.handled # None
  /\ LET i == nt.handled.timer IN
     nt' = [nt EXCEPT !.handled = None,
                      !.timer[i].armed = @ /\ (nt.platform = "qnx" \/ nt.timer[i].periodic)]

Next ==
  /\ ~ nt.failed
  /\ \/ \E t \in Threads :
          \/ \E e \in Events : Create(t, e)
          \/ Bind(t) \/ Destroy(t) \/ Return(t) \/ ThreadEnds(t)
          \/ \E i \in Timers :
               \/ StartAtOnce(t, i) \/ Stop(t, i) \/ Unbind(t, i)
               \/ \E periodic \in BOOLEAN : Start(t, i, periodic)
     \/ \E i \in Timers : Expire(i)
     \/ \E x \in nt.expired : Take(x)
     \/ Handle

Spec == Init /\ [][Next]_vars

-----------------------------------------------------------------------------
(* EachTimerOnce: whatever threads do at the same time, a timer is in the   *)
(* free list, in that of the thread it belongs to, or in the hands of one   *)
(* call, and nowhere else: the links of the two lists are the same field    *)
(* (xsal_i_timer.c:57, :104; xsal_create_timer.c:42).                       *)
Found(where, seq, i) == {<<where, k>> : k \in {n \in DOMAIN seq : seq[n] = i}}

Places(i) ==
  Found(None, nt.free, i)
  \cup (UNION {Found(<<t>>, nt.list[t], i) : t \in Threads})
  \cup {<<<<t>>, 0>> : t \in {u \in Threads : nt.call[u].timer = i}}

EachTimerOnce ==
  \A i \in Timers :
    /\ Cardinality(Places(i)) = 1
    /\ \A t \in Threads : Contains(nt.list[t], i) => nt.timer[i].thread = t

(* FreeIsQuiet: a timer that is free, after its destruction or the end of   *)
(* its thread, has no timer of the system that could still expire, not even *)
(* one that the thread that handles expired timers started again            *)
(* (xsal_i_timer_win32.c:180).                                              *)
FreeIsQuiet ==
  \A i \in Timers :
    /\ nt.timer[i].armed => nt.timer[i].os
    /\ Contains(nt.free, i) => ~ nt.timer[i].os

(* ReusedIsInvalid: the assertion of SAL_Create_Timer (create_timer.c:51),  *)
(* "invalid timer": a timer of the free list has no event.                  *)
ReusedIsInvalid == ~ nt.failed

(* ExpiredIsSent: the thread that created a timer gets its event (xsal.h:   *)
(* 2273), also if the timer has been destroyed, and created anew, since it  *)
(* expired.                                                                 *)
ExpiredIsSent ==
  nt.handled # None =>
    LET i == nt.handled.timer IN
    /\ nt.timer[i].event = nt.handled.event
    /\ nt.platform = "win32" => nt.timer[i].thread = nt.handled.thread
=============================================================================
