-------------------------------- MODULE RWLock --------------------------------
(***************************************************************************)
(* The read-write lock of XSAL on Windows: two semaphores, a count of the  *)
(* readers guarded by read_sem, and a flag write that tells SAL_Unlock     *)
(* which kind of lock it gives back.  (On POSIX the functions call         *)
(* pthread_rwlock_* and there is nothing of this program to model.)        *)
(*                                                                         *)
(* read_sem works as a mutex around number_of_readers, but the first       *)
(* reader keeps it while it waits for write_sem.  The flag write is read   *)
(* and written under no lock at all, and SAL_Unlock clears it AFTER it     *)
(* signalled write_sem.                                                    *)
(*                                                                         *)
(* Each access to a semaphore or to write is an action of its own;         *)
(* number_of_readers is only touched by the thread that has read_sem.      *)
(* Time is abstract: a timed wait on a closed semaphore may expire.        *)
(***************************************************************************)
EXTENDS Integers, FiniteSets

CONSTANTS
  Threads,   \* the threads that use the lock, each holding it at most once
  MaxSignals \* bound: no new call once write_sem counts more signals, or
             \* number_of_readers fell further below zero, than this

ASSUME ThreadsAssumption == IsFiniteSet(Threads)
ASSUME BoundsAssumption == MaxSignals \in Nat

Waits == {"forever", "timeout", "try"}

VARIABLES
  read_sem, write_sem,  \* the counts of the two semaphores
  number_of_readers,
  write,
  pc,
  wait,                 \* which variant of the lock call a thread is in
  holds,                \* what each thread holds between its calls
  overtaken             \* history: while a thread was between its signal of
                        \* write_sem and write = 0, another one set write or
                        \* decided by it which lock to give back

vars == <<read_sem, write_sem, number_of_readers, write, pc, wait, holds,
          overtaken>>
sems == <<read_sem, write_sem>>

Init ==
  /\ read_sem = 1 /\ write_sem = 1
  /\ number_of_readers = 0
  /\ write = FALSE
  /\ pc = [t \in Threads |-> "idle"]
  /\ wait = [t \in Threads |-> "forever"]
  /\ holds = [t \in Threads |-> "none"]
  /\ overtaken = FALSE

Goto(t, from, to) == pc[t] = from /\ pc' = [pc EXCEPT ![t] = to]
Clearing == {t \in Threads : pc[t] = "clear_write"}

StartLock(t, w, to) ==
  /\ holds[t] = "none"
  /\ write_sem <= MaxSignals /\ number_of_readers >= -MaxSignals
  /\ Goto(t, "idle", to)
  /\ wait' = [wait EXCEPT ![t] = w]
  /\ UNCHANGED <<sems, number_of_readers, write, holds, overtaken>>

-----------------------------------------------------------------------------
(* SAL_RLock_RWLock, SAL_RLock_RWLock_Timeout and SAL_Try_RLock_RWLock     *)

\* SAL_Try_RLock_RWLock looks at write before it waits for read_sem, and
\* fails at once when it is set.
RLock(t, w) == (w = "try" => ~write) /\ StartLock(t, w, "count_in")

\* Mutant: the second reader takes write_sem instead of the first.
CountInLate(t) ==
  /\ read_sem > 0 /\ read_sem' = read_sem - 1
  /\ number_of_readers' = number_of_readers + 1
  /\ Goto(t, "count_in", IF number_of_readers' = 2 THEN "first" ELSE "admit")
  /\ UNCHANGED <<write_sem, write, wait, holds, overtaken>>

CountIn(t) ==
  /\ read_sem > 0 /\ read_sem' = read_sem - 1
  /\ number_of_readers' = number_of_readers + 1
  /\ Goto(t, "count_in", IF number_of_readers' = 1 THEN "first" ELSE "admit")
  /\ UNCHANGED <<write_sem, write, wait, holds, overtaken>>

FirstReader(t) ==
  /\ write_sem > 0 /\ write_sem' = write_sem - 1
  /\ Goto(t, "first", "admit")
  /\ UNCHANGED <<read_sem, number_of_readers, write, wait, holds, overtaken>>

\* Mutant: a first reader that gives up stays counted.
FirstReaderFailsCounted(t) ==
  /\ write_sem = 0
  /\ wait[t] # "forever"
  /\ Goto(t, "first", "leave")
  /\ UNCHANGED <<sems, number_of_readers, write, wait, holds, overtaken>>

FirstReaderFails(t) ==
  /\ write_sem = 0
  /\ wait[t] # "forever"
  /\ number_of_readers' = number_of_readers - 1
  /\ Goto(t, "first", "leave")
  /\ UNCHANGED <<sems, write, wait, holds, overtaken>>

Admit(t) ==
  /\ read_sem' = read_sem + 1
  /\ Goto(t, "admit", "idle")
  /\ holds' = [holds EXCEPT ![t] = "read"]
  /\ UNCHANGED <<write_sem, number_of_readers, write, wait, overtaken>>

Leave(t) ==
  /\ read_sem' = read_sem + 1
  /\ Goto(t, "leave", "idle")
  /\ UNCHANGED <<write_sem, number_of_readers, write, wait, holds, overtaken>>

\* read_sem in time, or write_sem at once or in time, was not to be had.
GiveUp(t) ==
  /\ \/ read_sem = 0 /\ wait[t] = "timeout" /\ Goto(t, "count_in", "idle")
     \/ write_sem = 0 /\ wait[t] # "forever" /\ Goto(t, "enter", "idle")
  /\ UNCHANGED <<sems, number_of_readers, write, wait, holds, overtaken>>

-----------------------------------------------------------------------------
(* SAL_WLock_RWLock, SAL_WLock_RWLock_Timeout and SAL_Try_WLock_RWLock     *)

WLock(t, w) == StartLock(t, w, "enter")

Enter(t) ==
  /\ write_sem > 0 /\ write_sem' = write_sem - 1
  /\ Goto(t, "enter", "set_write")
  /\ UNCHANGED <<read_sem, number_of_readers, write, wait, holds, overtaken>>

SetWrite(t) ==
  /\ write' = TRUE
  /\ Goto(t, "set_write", "idle")
  /\ holds' = [holds EXCEPT ![t] = "write"]
  /\ overtaken' = (overtaken \/ Clearing # {})
  /\ UNCHANGED <<sems, number_of_readers, wait>>

-----------------------------------------------------------------------------
(* SAL_Unlock_RWLock *)

Unlock(t) ==
  /\ holds[t] # "none"
  /\ Goto(t, "idle", IF write THEN "signal_write" ELSE "count_out")
  /\ holds' = [holds EXCEPT ![t] = "none"]
  /\ overtaken' = (overtaken \/ Clearing # {})
  /\ UNCHANGED <<sems, number_of_readers, write, wait>>

SignalWrite(t) ==
  /\ write_sem' = write_sem + 1
  /\ Goto(t, "signal_write", "clear_write")
  /\ UNCHANGED <<read_sem, number_of_readers, write, wait, holds, overtaken>>

\* Mutant: write stays set.
ClearWriteNot(t) ==
  /\ Goto(t, "clear_write", "idle")
  /\ UNCHANGED <<sems, number_of_readers, write, wait, holds, overtaken>>

ClearWrite(t) ==
  /\ write' = FALSE
  /\ Goto(t, "clear_write", "idle")
  /\ UNCHANGED <<sems, number_of_readers, wait, holds, overtaken>>

CountOut(t) ==
  /\ read_sem > 0 /\ read_sem' = read_sem - 1
  /\ number_of_readers' = number_of_readers - 1
  /\ Goto(t, "count_out", IF number_of_readers' = 0 THEN "last" ELSE "leave")
  /\ UNCHANGED <<write_sem, write, wait, holds, overtaken>>

\* Mutant: the last reader keeps write_sem.
LastReaderSilent(t) ==
  /\ Goto(t, "last", "leave")
  /\ UNCHANGED <<sems, number_of_readers, write, wait, holds, overtaken>>

LastReader(t) ==
  /\ write_sem' = write_sem + 1
  /\ Goto(t, "last", "leave")
  /\ UNCHANGED <<read_sem, number_of_readers, write, wait, holds, overtaken>>

-----------------------------------------------------------------------------

\* What a thread that is inside a call does next.
Step(t) ==
  \/ CountIn(t) \/ FirstReader(t) \/ FirstReaderFails(t) \/ Admit(t)
  \/ Leave(t) \/ GiveUp(t) \/ Enter(t) \/ SetWrite(t) \/ SignalWrite(t)
  \/ ClearWrite(t) \/ CountOut(t) \/ LastReader(t)

Next == \E t \in Threads :
  \/ \E w \in Waits : RLock(t, w) \/ WLock(t, w)
  \/ Unlock(t)
  \/ Step(t)

Spec == Init /\ [][Next]_vars

(***************************************************************************)
(* Fairness: a thread that can run inside a call eventually runs (the      *)
(* scheduler); nobody is obliged to call anything, SAL_Unlock_RWLock       *)
(* included.                                                               *)
(***************************************************************************)
FairSpec == Spec /\ \A t \in Threads : WF_vars(Step(t))

-----------------------------------------------------------------------------
(* Properties *)

PcState == {"idle", "count_in", "first", "admit", "leave", "enter",
            "set_write", "signal_write", "clear_write", "count_out", "last"}

TypeOK ==
  /\ read_sem \in Nat /\ write_sem \in Nat
  /\ number_of_readers \in Int
  /\ write \in BOOLEAN /\ overtaken \in BOOLEAN
  /\ pc \in [Threads -> PcState]
  /\ wait \in [Threads -> Waits]
  /\ holds \in [Threads -> {"none", "read", "write"}]

At(label) == {t \in Threads : pc[t] = label}
Holding(what) == {t \in Threads : holds[t] = what}

\* Two threads hold the lock only when both read.
Exclusion ==
  \A s, t \in Threads : s # t /\ holds[s] = "write" => holds[t] = "none"

\* The count of readers, the two semaphores and the flag agree on who is in:
\* read_sem is a mutex, write_sem is held by one writer or by the readers
\* together, and write is set exactly while a writer is in or about to clear
\* it.  The part that makes SAL_Unlock recognise its caller.
ReadersIn == At("first") \cup At("admit") \cup At("count_out") \cup Holding("read")
InReadSem == At("first") \cup At("admit") \cup At("leave") \cup At("last")
WritersIn == At("set_write") \cup At("signal_write") \cup Holding("write")
WriteSemKeepers ==
  WritersIn \cup At("last") \cup (IF At("first") = {} THEN ReadersIn ELSE {})

Accounted ==
  /\ \A t \in Threads : holds[t] # "none" => pc[t] = "idle"
  /\ number_of_readers = Cardinality(ReadersIn)
  /\ \A t \in At("first") : ReadersIn = {t}
  /\ At("last") # {} => ReadersIn = {}
  /\ \A s, t \in InReadSem : s = t
  /\ read_sem = IF InReadSem = {} THEN 1 ELSE 0
  /\ \A s, t \in WritersIn : s = t
  /\ WritersIn # {} => At("last") = {} /\ ReadersIn \subseteq At("first")
  /\ write_sem = IF WriteSemKeepers = {} THEN 1 ELSE 0
  /\ write <=> Holding("write") \cup At("signal_write") \cup Clearing # {}
  /\ \A s, t \in Clearing : s = t
  /\ Clearing # {} => Holding("write") \cup At("signal_write") = {}

\* As long as no thread ran into the two lines of another one's unlock, the
\* lock accounts for everybody: the window is the only hole in it.
AccountedUntilOvertaken == ~overtaken => Accounted

\* ... and then readers and writers exclude each other.
ExclusionUntilOvertaken == ~overtaken => Exclusion

\* A lock nobody holds or is giving back is open, whatever calls timed out
\* before: both semaphores can be taken and no reader is left counted.
LeftOpen ==
  ~overtaken /\ (\A t \in Threads :
                   pc[t] \in {"idle", "count_in", "enter"} /\ holds[t] = "none")
    => read_sem = 1 /\ write_sem = 1 /\ number_of_readers = 0 /\ ~write

\* The threads never wait for each other in a circle: not all of them stay
\* inside calls forever.  (A thread that holds the lock is outside; so this
\* needs nobody to unlock.)
SomeoneReturns == []~overtaken => []<>(\E t \in Threads : pc[t] = "idle")
=============================================================================
