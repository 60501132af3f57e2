---------------------------- MODULE RWLockProofs ----------------------------
(* The read-write lock for any number of threads: it accounts for every     *)
(* thread, and so excludes, as long as no unlock is overtaken.  After it    *)
(* the mutex, condition and semaphore of Sync, and RingBuffer, which two    *)
(* threads use without a lock.                                              *)
EXTENDS RWLock, FiniteSetTheorems, TLAPS

LEMMA NextType == TypeOK /\ [Next]_vars => TypeOK'
<1> SUFFICES ASSUME TypeOK, [Next]_vars PROVE TypeOK'
  OBVIOUS
<1> USE DEF TypeOK, PcState, Waits
<1>1. CASE UNCHANGED vars
  BY <1>1 DEF vars, sems
<1>2. ASSUME NEW t \in Threads, NEW w \in Waits, RLock(t, w) \/ WLock(t, w)
      PROVE  TypeOK'
  BY <1>2 DEF RLock, WLock, StartLock, Goto, sems
<1>3. ASSUME NEW t \in Threads, Unlock(t) PROVE TypeOK'
  BY <1>3 DEF Unlock, Goto, sems
<1>4. ASSUME NEW t \in Threads, Step(t) PROVE TypeOK'
  <2>1. CASE CountIn(t)
    BY <2>1 DEF CountIn, Goto
  <2>2. CASE FirstReader(t)
    BY <2>2 DEF FirstReader, Goto
  <2>3. CASE FirstReaderFails(t)
    BY <2>3 DEF FirstReaderFails, Goto, sems
  <2>4. CASE Admit(t)
    BY <2>4 DEF Admit, Goto
  <2>5. CASE Leave(t)
    BY <2>5 DEF Leave, Goto
  <2>6. CASE GiveUp(t)
    BY <2>6 DEF GiveUp, Goto, sems
  <2>7. CASE Enter(t)
    BY <2>7 DEF Enter, Goto
  <2>8. CASE SetWrite(t)
    BY <2>8 DEF SetWrite, Goto, sems
  <2>9. CASE SignalWrite(t)
    BY <2>9 DEF SignalWrite, Goto
  <2>10. CASE ClearWrite(t)
    BY <2>10 DEF ClearWrite, Goto, sems
  <2>11. CASE CountOut(t)
    BY <2>11 DEF CountOut, Goto
  <2>12. CASE LastReader(t)
    BY <2>12 DEF LastReader, Goto
  <2> QED
    BY <1>4, <2>1, <2>2, <2>3, <2>4, <2>5, <2>6, <2>7, <2>8, <2>9, <2>10,
       <2>11, <2>12 DEF Step
<1> QED BY <1>1, <1>2, <1>3, <1>4 DEF Next

LEMMA InitType == Init => TypeOK
<1> SUFFICES ASSUME Init PROVE TypeOK
  OBVIOUS
<1>1. read_sem \in Nat /\ write_sem \in Nat /\ number_of_readers \in Int
  BY DEF Init
<1>2. write \in BOOLEAN /\ overtaken \in BOOLEAN
  BY DEF Init
<1>3. pc \in [Threads -> PcState]
  BY DEF Init, PcState
<1>4. /\ wait \in [Threads -> Waits]
      /\ holds \in [Threads -> {"none", "read", "write"}]
  BY DEF Init, Waits
<1> QED BY <1>1, <1>2, <1>3, <1>4 DEF TypeOK

\* The type invariant of the lock, whatever overtakes what.
THEOREM RWLockTypeCorrect == Spec => []TypeOK
BY InitType, NextType, PTL DEF Spec

-----------------------------------------------------------------------------

\* Accounted without the count, which the provers treat separately.
Agreed ==
  /\ \A t \in Threads : holds[t] # "none" => pc[t] = "idle"
  /\ \A t \in At("first") : ReadersIn = {t}
  /\ At("last") # {} => ReadersIn = {}
  /\ \A s, t \in InReadSem : s = t
  /\ read_sem = IF InReadSem = {} THEN 1 ELSE 0
  /\ \A s, t \in WritersIn : s = t
  /\ WritersIn # {} => At("last") = {} /\ ReadersIn \subseteq At("first")
  /\ write_sem = IF WriteSemKeepers = {} THEN 1 ELSE 0
  /\ write <=> Holding("write") \cup At("signal_write") \cup Clearing # {}
  /\ \A s, t \in Clearing : s = t
  /\ Clearing # {} => Holding("write") \cup At("signal_write") = {}

Counted == number_of_readers = Cardinality(ReadersIn)

LEMMA AccountedParts == Accounted <=> Agreed /\ Counted
BY DEF Accounted, Agreed, Counted

LEMMA Readers ==
  ASSUME TypeOK
  PROVE  /\ IsFiniteSet(ReadersIn) /\ Cardinality(ReadersIn) \in Nat
         /\ Cardinality(ReadersIn) = 0 <=> ReadersIn = {}
         /\ \A t \in ReadersIn :
              Cardinality(ReadersIn) = 1 <=> ReadersIn = {t}
<1>1. IsFiniteSet(ReadersIn)
  BY FS_Subset, ThreadsAssumption DEF ReadersIn, At, Holding
<1>2. Cardinality(ReadersIn) \in Nat /\ (Cardinality(ReadersIn) = 0 <=> ReadersIn = {})
  BY <1>1, FS_CardinalityType, FS_EmptySet
<1>3. ASSUME NEW t \in ReadersIn
      PROVE  Cardinality(ReadersIn) = 1 <=> ReadersIn = {t}
  <2>1. IsFiniteSet(ReadersIn \ {t})
        /\ Cardinality(ReadersIn \ {t}) = Cardinality(ReadersIn) - 1
    BY <1>1, <1>3, FS_RemoveElement
  <2>2. Cardinality(ReadersIn \ {t}) = 0 <=> ReadersIn \ {t} = {}
    BY <2>1, FS_EmptySet
  <2> QED BY <1>2, <1>3, <2>1, <2>2
<1> QED BY <1>1, <1>2, <1>3

\* Counting in or out.
LEMMA ReadersMoved ==
  ASSUME TypeOK, NEW t \in Threads
  PROVE  /\ t \notin ReadersIn /\ ReadersIn' = ReadersIn \cup {t}
              => Cardinality(ReadersIn)' = Cardinality(ReadersIn) + 1
         /\ t \in ReadersIn /\ ReadersIn' = ReadersIn \ {t}
              => Cardinality(ReadersIn)' = Cardinality(ReadersIn) - 1
BY Readers, FS_AddElement, FS_RemoveElement

-----------------------------------------------------------------------------

LEMMA StartAccounted ==
  ASSUME TypeOK, Accounted, NEW t \in Threads, NEW w \in Waits,
         RLock(t, w) \/ WLock(t, w)
  PROVE  Accounted'
<1>1. /\ At("first")' = At("first") /\ At("last")' = At("last")
      /\ At("admit")' = At("admit") /\ At("leave")' = At("leave")
      /\ At("count_out")' = At("count_out") /\ At("set_write")' = At("set_write")
      /\ At("signal_write")' = At("signal_write") /\ Clearing' = Clearing
      /\ Holding("read")' = Holding("read") /\ Holding("write")' = Holding("write")
  BY DEF RLock, WLock, StartLock, Goto, TypeOK, At, Clearing, Holding
<1>2. \A s \in Threads : holds'[s] # "none" => pc'[s] = "idle"
  BY DEF RLock, WLock, StartLock, Goto, TypeOK, Accounted
<1> QED
  BY <1>1, <1>2
  DEF RLock, WLock, StartLock, sems, Accounted, ReadersIn, InReadSem,
      WritersIn, WriteSemKeepers

LEMMA StepAgreed ==
  ASSUME TypeOK, Accounted, NEW t \in Threads, Step(t), ~overtaken'
  PROVE  Agreed'
<1> USE DEF TypeOK, Agreed, Goto, At, Clearing, Holding, ReadersIn, InReadSem, WritersIn, WriteSemKeepers, sems, PcState
<1>0. Agreed /\ Counted
  BY AccountedParts
<1>1. CASE CountIn(t)
  <2>1. /\ pc[t] = "count_in" /\ pc' = [pc EXCEPT ![t] = IF ReadersIn = {} THEN "first" ELSE "admit"]
        /\ read_sem > 0 /\ read_sem' = read_sem - 1
        /\ UNCHANGED <<write_sem, write, holds>>
    <3>1. number_of_readers' = 1 <=> ReadersIn = {}
      BY <1>0, <1>1, Readers DEF CountIn, Counted
    <3> QED BY <1>1, <3>1 DEF CountIn
  <2>2. At("first") = {} /\ InReadSem = {}
    BY <1>0, <2>1
  <2>3. CASE ReadersIn = {}
    BY <1>0, <2>1, <2>2, <2>3
  <2>4. CASE ReadersIn # {}
    BY <1>0, <2>1, <2>2, <2>4
  <2> QED BY <2>3, <2>4
<1>2. CASE FirstReader(t)
  BY <1>0, <1>2 DEF FirstReader
<1>3. CASE FirstReaderFails(t)
  BY <1>0, <1>3 DEF FirstReaderFails
<1>4. CASE Admit(t)
  BY <1>0, <1>4 DEF Admit
<1>5. CASE Leave(t)
  BY <1>0, <1>5 DEF Leave
<1>6. CASE GiveUp(t)
  BY <1>0, <1>6 DEF GiveUp
<1>7. CASE Enter(t)
  BY <1>0, <1>7 DEF Enter
<1>8. CASE SetWrite(t)
  BY <1>0, <1>8 DEF SetWrite
<1>9. CASE SignalWrite(t)
  BY <1>0, <1>9 DEF SignalWrite
<1>10. CASE ClearWrite(t)
  BY <1>0, <1>10 DEF ClearWrite
<1>11. CASE CountOut(t)
  BY <1>0, <1>11, Readers DEF CountOut, Counted
<1>12. CASE LastReader(t)
  BY <1>0, <1>12 DEF LastReader
<1> QED
  BY <1>1, <1>2, <1>3, <1>4, <1>5, <1>6, <1>7, <1>8, <1>9, <1>10,
     <1>11, <1>12 DEF Step

LEMMA StepCounted ==
  ASSUME TypeOK, Accounted, NEW t \in Threads, Step(t), ~overtaken'
  PROVE  Counted'
<1> USE DEF TypeOK, Goto, At, Holding, ReadersIn, sems, PcState
<1>0. Agreed /\ Counted
  BY AccountedParts
<1>1. CASE CountIn(t)
  <2>1. t \notin ReadersIn /\ ReadersIn' = ReadersIn \cup {t}
    BY <1>0, <1>1 DEF CountIn, Agreed
  <2> QED BY <1>0, <1>1, <2>1, ReadersMoved DEF CountIn, Counted
<1>2. CASE FirstReaderFails(t)
  <2>1. t \in ReadersIn /\ ReadersIn' = ReadersIn \ {t}
    BY <1>0, <1>2 DEF FirstReaderFails, Agreed
  <2> QED BY <1>0, <1>2, <2>1, ReadersMoved DEF FirstReaderFails, Counted
<1>3. CASE CountOut(t)
  <2>1. t \in ReadersIn /\ ReadersIn' = ReadersIn \ {t}
    BY <1>0, <1>3 DEF CountOut, Agreed
  <2> QED BY <1>0, <1>3, <2>1, ReadersMoved DEF CountOut, Counted
<1>4. ASSUME number_of_readers' = number_of_readers, ReadersIn' = ReadersIn
      PROVE  Counted'
  BY <1>0, <1>4 DEF Counted
<1>5. CASE FirstReader(t)
  BY <1>4, <1>5 DEF FirstReader
<1>6. CASE Admit(t)
  BY <1>0, <1>4, <1>6 DEF Admit, Agreed
<1>7. CASE Leave(t)
  BY <1>4, <1>7 DEF Leave
<1>8. CASE GiveUp(t)
  BY <1>4, <1>8 DEF GiveUp
<1>9. CASE Enter(t)
  BY <1>4, <1>9 DEF Enter
<1>10. CASE SetWrite(t)
  BY <1>0, <1>4, <1>10 DEF SetWrite, Agreed
<1>11. CASE SignalWrite(t)
  BY <1>4, <1>11 DEF SignalWrite
<1>12. CASE ClearWrite(t)
  BY <1>4, <1>12 DEF ClearWrite
<1>13. CASE LastReader(t)
  BY <1>4, <1>13 DEF LastReader
<1> QED
  BY <1>1, <1>2, <1>3, <1>5, <1>6, <1>7, <1>8, <1>9, <1>10, <1>11, <1>12,
     <1>13 DEF Step

\* SAL_Unlock tells its caller's kind of lock by write: nobody is between
\* the two lines of its own unlock, so the flag is the writer's.
LEMMA UnlockAccounted ==
  ASSUME TypeOK, Accounted, NEW t \in Threads, Unlock(t), ~overtaken'
  PROVE  Accounted'
<1>0. Agreed /\ Counted
  BY AccountedParts
<1>1. Clearing = {} /\ (write <=> holds[t] = "write")
  BY <1>0 DEF Unlock, Goto, TypeOK, Agreed, At, Clearing, Holding, ReadersIn,
              WritersIn
<1>2. ReadersIn' = ReadersIn
  BY <1>0, <1>1 DEF Unlock, Goto, TypeOK, At, Holding, ReadersIn
<1>3. Agreed'
  BY <1>0, <1>1
  DEF Unlock, Goto, TypeOK, Agreed, At, Clearing, Holding, ReadersIn,
      InReadSem, WritersIn, WriteSemKeepers, sems
<1>4. Counted'
  BY <1>0, <1>2 DEF Counted, Unlock
<1> QED BY <1>3, <1>4 DEF Accounted, Agreed, Counted

LEMMA NextAccounted ==
  TypeOK /\ AccountedUntilOvertaken /\ [Next]_vars => AccountedUntilOvertaken'
<1> SUFFICES ASSUME TypeOK, AccountedUntilOvertaken, [Next]_vars, ~overtaken'
             PROVE  Accounted'
  BY DEF AccountedUntilOvertaken
<1>1. CASE UNCHANGED vars
  BY <1>1
  DEF AccountedUntilOvertaken, vars, sems, Accounted, At, Clearing, Holding,
      ReadersIn, InReadSem, WritersIn, WriteSemKeepers
<1>2. ASSUME NEW t \in Threads, NEW w \in Waits, RLock(t, w) \/ WLock(t, w)
      PROVE  Accounted'
  <2>1. ~overtaken
    BY <1>2 DEF RLock, WLock, StartLock
  <2> QED BY <1>2, <2>1, StartAccounted DEF AccountedUntilOvertaken
<1>3. ASSUME NEW t \in Threads, Unlock(t) PROVE Accounted'
  <2>1. ~overtaken
    BY <1>3 DEF Unlock
  <2> QED BY <1>3, <2>1, UnlockAccounted DEF AccountedUntilOvertaken
<1>4. ASSUME NEW t \in Threads, Step(t) PROVE Accounted'
  <2>1. ~overtaken
    BY <1>4 DEF Step, CountIn, FirstReader, FirstReaderFails, Admit, Leave,
                GiveUp, Enter, SetWrite, SignalWrite, ClearWrite, CountOut,
                LastReader
  <2>2. Accounted
    BY <2>1 DEF AccountedUntilOvertaken
  <2>3. Agreed' /\ Counted'
    BY <1>4, <2>2, StepAgreed, StepCounted
  <2> QED BY <2>3 DEF Accounted, Agreed, Counted
<1> QED BY <1>1, <1>2, <1>3, <1>4 DEF Next

LEMMA InitAccounted == Init => AccountedUntilOvertaken
<1> SUFFICES ASSUME Init PROVE Accounted
  BY DEF AccountedUntilOvertaken
<1>1. ReadersIn = {} /\ At("first") = {} /\ At("last") = {} /\ InReadSem = {}
      /\ WritersIn = {} /\ WriteSemKeepers = {} /\ Clearing = {}
      /\ Holding("write") = {} /\ At("signal_write") = {}
  BY DEF Init, At, Clearing, Holding, ReadersIn, InReadSem, WritersIn,
         WriteSemKeepers
<1>2. Cardinality(ReadersIn) = 0
  BY <1>1, FS_EmptySet
<1>3. \A t \in Threads : holds[t] # "none" => pc[t] = "idle"
  BY DEF Init
<1>4. read_sem = 1 /\ write_sem = 1 /\ number_of_readers = 0 /\ ~write
  BY DEF Init
<1> QED BY <1>1, <1>2, <1>3, <1>4 DEF Accounted

\* As long as no unlock is overtaken, the semaphores, the count and the flag
\* agree with what the threads do (SAL_RLock, SAL_WLock, SAL_Unlock).
THEOREM RWLockAccounts == Spec => []AccountedUntilOvertaken
<1>1. Init => TypeOK /\ AccountedUntilOvertaken
  BY InitAccounted, InitType
<1>2. TypeOK /\ AccountedUntilOvertaken /\ [Next]_vars
        => (TypeOK /\ AccountedUntilOvertaken)'
  BY NextType, NextAccounted
<1> QED BY <1>1, <1>2, PTL DEF Spec

\* As long as no unlock is overtaken, a writer is alone.
THEOREM RWLockExcludes == Spec => []ExclusionUntilOvertaken
<1>1. TypeOK /\ AccountedUntilOvertaken => ExclusionUntilOvertaken
  <2> SUFFICES ASSUME TypeOK, Accounted, NEW s \in Threads, NEW t \in Threads, s # t,
                      holds[s] = "write", holds[t] # "none"
               PROVE  FALSE
    BY DEF AccountedUntilOvertaken, ExclusionUntilOvertaken, Exclusion
  <2>1. pc[t] = "idle" /\ s \in WritersIn /\ s \in Holding("write")
    BY DEF Accounted, WritersIn, Holding
  <2>2. t \notin Holding("write") /\ t \notin Holding("read")
    BY <2>1 DEF Accounted, WritersIn, ReadersIn, At, Holding
  <2> QED BY <2>2 DEF TypeOK, Holding
<1> QED BY <1>1, RWLockTypeCorrect, RWLockAccounts, PTL

\* Calls that time out leave nothing behind: a lock nobody uses is open.
THEOREM RWLockLeftOpen == Spec => []LeftOpen
<1>1. TypeOK /\ AccountedUntilOvertaken => LeftOpen
  <2> SUFFICES ASSUME TypeOK, Accounted,
                      \A t \in Threads : /\ pc[t] \in {"idle", "count_in", "enter"}
                                         /\ holds[t] = "none"
               PROVE  read_sem = 1 /\ write_sem = 1 /\ number_of_readers = 0 /\ ~write
    BY DEF AccountedUntilOvertaken, LeftOpen
  <2>1. ReadersIn = {} /\ At("first") = {} /\ At("last") = {} /\ InReadSem = {}
        /\ WritersIn = {} /\ WriteSemKeepers = {} /\ Clearing = {}
        /\ Holding("write") = {} /\ At("signal_write") = {}
    BY DEF At, Clearing, Holding, ReadersIn, InReadSem, WritersIn,
           WriteSemKeepers
  <2>2. Cardinality(ReadersIn) = 0
    BY <2>1, FS_EmptySet
  <2> QED BY <2>1, <2>2 DEF Accounted
<1> QED BY <1>1, RWLockTypeCorrect, RWLockAccounts, PTL

-----------------------------------------------------------------------------
(* Mutexes, condition variables and semaphores *)

CONSTANTS None, Never, Boot, MaxTime, MaxDepth, MaxTokens, Timeouts
VARIABLE state

SY == INSTANCE Sync

\* The clock counts, timeouts are not negative, and None and Never are neither.
SyncAssumption ==
  /\ IsFiniteSet(Threads) /\ None \notin Threads
  /\ Never \notin Int /\ Boot \in Int /\ Timeouts \subseteq Nat

SyncStates ==
  [count : Int, holder : Threads \cup {None}, depth : Nat, owner : Threads \cup {None},
   tokens : Int, clock : Int, call : [Threads -> SY!Calls],
   deadline : [Threads -> Int \cup {Never}]]

LEMMA SameCardinality == ASSUME NEW S PROVE SY!Cardinality(S) = Cardinality(S)
BY DEF SY!Cardinality, Cardinality

\* Inside a call that the count stands for.
SyncUsers(call) == {t \in Threads : call[t] \notin {"none", "sem"}}

SyncInv ==
  /\ state \in SyncStates
  /\ state.holder = None <=> state.depth = 0
  /\ SY!CountsUsers

\* A thread enters a call or leaves it.
LEMMA UsersChange ==
  ASSUME IsFiniteSet(Threads), NEW call \in [Threads -> SY!Calls], NEW t \in Threads,
         NEW to \in SY!Calls
  PROVE  /\ Cardinality(SyncUsers(call)) \in Nat
         /\ Cardinality(SyncUsers([call EXCEPT ![t] = to])) =
              Cardinality(SyncUsers(call))
              + (IF to \in {"none", "sem"} THEN 0 ELSE 1)
              - (IF call[t] \in {"none", "sem"} THEN 0 ELSE 1)
<1> DEFINE users == SyncUsers([call EXCEPT ![t] = to])
           before == SyncUsers(call)
<1>1. IsFiniteSet(before) /\ IsFiniteSet(users) /\ Cardinality(before) \in Nat
  BY FS_Subset, FS_CardinalityType DEF SyncUsers
<1>2. CASE (to \in {"none", "sem"}) <=> (call[t] \in {"none", "sem"})
  <2>1. users = before
    BY <1>2 DEF SyncUsers
  <2> HIDE DEF users, before
  <2>2. Cardinality(users) = Cardinality(before)
    BY <2>1
  <2> QED BY <1>1, <1>2, <2>2 DEF users, before
<1>3. CASE to \notin {"none", "sem"} /\ call[t] \in {"none", "sem"}
  <2>1. users = before \cup {t} /\ t \notin before
    BY <1>3 DEF SyncUsers
  <2> HIDE DEF users, before
  <2>2. Cardinality(users) = Cardinality(before) + 1
    BY <1>1, <2>1, FS_AddElement
  <2> QED BY <1>1, <1>3, <2>2 DEF users, before
<1>4. CASE to \in {"none", "sem"} /\ call[t] \notin {"none", "sem"}
  <2>1. users = before \ {t} /\ t \in before
    BY <1>4 DEF SyncUsers
  <2> HIDE DEF users, before
  <2>2. Cardinality(users) = Cardinality(before) - 1
    BY <1>1, <2>1, FS_RemoveElement
  <2> QED BY <1>1, <1>4, <2>2 DEF users, before
<1> QED
  BY <1>2, <1>3, <1>4

LEMMA SyncInit ==
  ASSUME SyncAssumption, SY!Init
  PROVE  SyncInv
<1>1. state = [count |-> 0, holder |-> None, depth |-> 0, owner |-> None,
               tokens |-> 0, clock |-> Boot, call |-> [t \in Threads |-> "none"],
               deadline |-> [t \in Threads |-> Never]]
  BY DEF SY!Init
<1>2. state \in SyncStates
  BY <1>1 DEF SyncStates, SyncAssumption, SY!Calls
<1>3. {t \in Threads : state.call[t] \notin {"none", "sem"}} = {}
  BY <1>1
<1>4. SY!CountsUsers
  BY <1>1, <1>3, FS_EmptySet, SameCardinality DEF SY!CountsUsers
<1> QED
  BY <1>1, <1>2, <1>4 DEF SyncInv

(* All that a step of thread t can do: its call becomes to, and the mutex   *)
(* moves with the count.                                                    *)
SyncStep(t, to, line, n, hold, deep) ==
  /\ state' \in SyncStates
  /\ state'.call = [state.call EXCEPT ![t] = to]
  /\ state'.deadline = [state.deadline EXCEPT ![t] = line]
  /\ state'.count = n /\ state'.holder = hold /\ state'.depth = deep
  /\ state'.clock = state.clock

LEMMA SyncStepKeeps ==
  ASSUME SyncAssumption, SyncInv, NEW t \in Threads, NEW to \in SY!Calls,
         NEW line \in Int \cup {Never}, NEW n \in Int, NEW hold, NEW deep \in Nat,
         SyncStep(t, to, line, n, hold, deep),
         hold = None <=> deep = 0,
         n - deep = state.count - state.depth
                    + (IF to \in {"none", "sem"} THEN 0 ELSE 1)
                    - (IF state.call[t] \in {"none", "sem"} THEN 0 ELSE 1)
  PROVE  SyncInv'
<1>1. /\ state \in SyncStates
      /\ state.count = state.depth + Cardinality(SyncUsers(state.call))
  BY SameCardinality DEF SyncInv, SY!CountsUsers, SyncUsers
<1>2. state.call \in [Threads -> SY!Calls] /\ IsFiniteSet(Threads)
      /\ state.count \in Int /\ state.depth \in Nat /\ state.clock \in Int
      /\ state.deadline \in [Threads -> Int \cup {Never}]
  BY <1>1 DEF SyncStates, SyncAssumption
<1>3. SY!CountsUsers'
  <2>1. Cardinality(SyncUsers(state'.call)) =
          Cardinality(SyncUsers(state.call))
          + (IF to \in {"none", "sem"} THEN 0 ELSE 1)
          - (IF state.call[t] \in {"none", "sem"} THEN 0 ELSE 1)
        /\ Cardinality(SyncUsers(state.call)) \in Nat
    <3>1. state'.call = [state.call EXCEPT ![t] = to]
      BY DEF SyncStep
    <3> QED BY <1>2, <3>1, UsersChange
  <2>2. n = deep + Cardinality(SyncUsers(state'.call))
    BY <1>1, <1>2, <2>1
  <2> QED
    BY <2>2, SameCardinality DEF SyncStep, SY!CountsUsers, SyncUsers
<1> QED
  BY <1>3 DEF SyncInv, SyncStep

\* Thread t begins a call, or returns from one.
SyncBegun(t, to, line, n, hold, deep) ==
  /\ SY!Idle(t)
  /\ state' = [SY!Begin(t, to, line) EXCEPT !.count = n, !.holder = hold, !.depth = deep]

SyncReturned(t, n, hold, deep, own, tokens) ==
  /\ state.call[t] # "none"
  /\ state' = [state EXCEPT !.call[t] = "none", !.deadline[t] = Never, !.count = n,
                            !.holder = hold, !.depth = deep, !.owner = own,
                            !.tokens = tokens]

LEMMA SyncBegin ==
  ASSUME SyncAssumption, SyncInv, NEW t \in Threads, NEW to \in SY!Calls \ {"none"},
         NEW line \in SY!Deadlines, NEW n \in Int, NEW hold \in Threads \cup {None},
         NEW deep \in Nat, SyncBegun(t, to, line, n, hold, deep),
         hold = None <=> deep = 0,
         n - deep = state.count - state.depth + (IF to = "sem" THEN 0 ELSE 1)
  PROVE  SyncInv'
<1>1. state \in SyncStates /\ state.call[t] = "none"
  BY DEF SyncInv, SyncBegun, SY!Idle
<1>2. line \in Int \cup {Never}
  <2>1. state.clock \in Int
    BY <1>1 DEF SyncStates
  <2>2. CASE line = Never
    BY <2>2
  <2>3. CASE line # Never
    <3>1. PICK d \in Timeouts : line = state.clock + d
      BY <2>3 DEF SY!Deadlines, SY!Deadline
    <3>2. d \in Int
      BY DEF SyncAssumption
    <3> QED BY <2>1, <3>1, <3>2
  <2> QED BY <2>2, <2>3
<1>3. state' = [state EXCEPT !.call[t] = to, !.deadline[t] = line, !.count = n,
                             !.holder = hold, !.depth = deep]
  BY <1>1 DEF SyncBegun, SY!Begin, SyncStates
<1>4. [state EXCEPT !.call[t] = to, !.deadline[t] = line, !.count = n,
                    !.holder = hold, !.depth = deep] \in SyncStates
  BY <1>1, <1>2 DEF SyncStates
<1>5. SyncStep(t, to, line, n, hold, deep)
  BY <1>1, <1>3, <1>4 DEF SyncStep, SyncStates
<1>6. n - deep = state.count - state.depth
                 + (IF to \in {"none", "sem"} THEN 0 ELSE 1)
                 - (IF state.call[t] \in {"none", "sem"} THEN 0 ELSE 1)
  <2>1. (to \in {"none", "sem"}) <=> to = "sem"
    OBVIOUS
  <2>2. n \in Int /\ deep \in Nat /\ state.count \in Int /\ state.depth \in Nat
    BY <1>1 DEF SyncStates
  <2> QED BY <1>1, <2>1, <2>2
<1> QED
  BY <1>2, <1>5, <1>6, SyncStepKeeps

LEMMA SyncReturn ==
  ASSUME SyncAssumption, SyncInv, NEW t \in Threads,
         NEW n \in Int, NEW hold \in Threads \cup {None},
         NEW own \in Threads \cup {None}, NEW deep \in Nat, NEW tokens \in Int,
         SyncReturned(t, n, hold, deep, own, tokens),
         hold = None <=> deep = 0,
         n - deep = state.count - state.depth - (IF state.call[t] = "sem" THEN 0 ELSE 1)
  PROVE  SyncInv'
<1>1. state \in SyncStates
  BY DEF SyncInv
<1>2. [state EXCEPT !.call[t] = "none", !.deadline[t] = Never, !.count = n,
                    !.holder = hold, !.depth = deep, !.owner = own, !.tokens = tokens]
        \in SyncStates
  BY <1>1 DEF SyncStates, SY!Calls
<1>3. SyncStep(t, "none", Never, n, hold, deep)
  BY <1>1, <1>2 DEF SyncReturned, SyncStep, SyncStates
<1>4. n - deep = state.count - state.depth
                 + (IF "none" \in {"none", "sem"} THEN 0 ELSE 1)
                 - (IF state.call[t] \in {"none", "sem"} THEN 0 ELSE 1)
  <2>1. (state.call[t] \in {"none", "sem"}) <=> state.call[t] = "sem"
    BY DEF SyncReturned
  <2>2. n \in Int /\ deep \in Nat /\ state.count \in Int /\ state.depth \in Nat
    BY <1>1 DEF SyncStates
  <2> QED BY <2>1, <2>2
<1>5. "none" \in SY!Calls /\ Never \in Int \cup {Never}
  BY DEF SY!Calls
<1> QED
  BY <1>3, <1>4, <1>5, SyncStepKeeps

\* What the invariant says of the mutex.
LEMMA SyncMutex ==
  ASSUME SyncAssumption, SyncInv
  PROVE  /\ state \in SyncStates /\ state.count \in Int /\ state.depth \in Nat
         /\ state.holder \in Threads \cup {None} /\ state.owner \in Threads \cup {None}
         /\ state.tokens \in Int /\ state.clock \in Int
         /\ state.holder = None <=> state.depth = 0
         /\ \A t \in Threads : t # None
BY DEF SyncInv, SyncStates, SyncAssumption

LEMMA SyncLock ==
  ASSUME SyncAssumption, SyncInv, NEW t \in Threads, NEW d \in SY!Deadlines,
         \/ SY!LockBegin(t, d) \/ SY!LockEnd(t) \/ SY!LockFails(t)
         \/ SY!TryLock(t) \/ SY!TryLockFails(t) \/ SY!UnlockBegin(t) \/ SY!UnlockEnd(t)
  PROVE  SyncInv'
<1>0. /\ state \in SyncStates /\ state.count \in Int /\ state.depth \in Nat
      /\ state.holder \in Threads \cup {None} /\ state.owner \in Threads \cup {None}
      /\ state.tokens \in Int /\ (state.holder = None <=> state.depth = 0) /\ t # None
      /\ Never \in SY!Deadlines
      /\ {"lock", "lock_failed", "unlock"} \subseteq SY!Calls \ {"none"}
  BY SyncMutex DEF SY!Deadlines, SY!Calls
<1>1. CASE SY!LockBegin(t, d)
  <2>1. SyncBegun(t, "lock", d, state.count + 1, state.holder, state.depth)
    BY <1>0, <1>1 DEF SyncBegun, SY!LockBegin, SY!Begin, SyncStates
  <2>2. /\ (state.count + 1) - state.depth
             = state.count - state.depth + (IF "lock" = "sem" THEN 0 ELSE 1)
        /\ state.count + 1 \in Int
    BY <1>0
  <2> QED BY <1>0, <2>1, <2>2, SyncBegin
<1>2. CASE SY!LockEnd(t)
  <2>1. state.call[t] = "lock" /\ state' = [[[state EXCEPT !.holder = t, !.depth = @ + 1]
                   EXCEPT !.call[t] = "none", !.deadline[t] = Never] EXCEPT !.owner = t]
    BY <1>2 DEF SY!LockEnd, SY!Return, SY!Acquired
  <2>2. PICK deep \in Nat : deep = state.depth + 1
    BY <1>0
  <2>3. SyncReturned(t, state.count, t, deep, t, state.tokens)
    BY <1>0, <2>1, <2>2 DEF SyncReturned, SyncStates
  <2>4. /\ state.count - deep
             = state.count - state.depth - (IF state.call[t] = "sem" THEN 0 ELSE 1)
        /\ (t = None) <=> (deep = 0)
    BY <1>0, <2>1, <2>2
  <2>5. /\ state.count \in Int /\ t \in Threads \cup {None} /\ state.tokens \in Int
        /\ state.owner \in Threads \cup {None}
    BY <1>0 DEF SyncInv, SyncStates
  <2> QED BY ONLY SyncAssumption, SyncInv, t \in Threads, deep \in Nat, <2>3, <2>4, <2>5,
                  SyncReturn
<1>3. CASE SY!LockFails(t) \/ SY!TryLockFails(t) \/ SY!UnlockEnd(t)
  <2>1. /\ state.call[t] \in {"lock", "lock_failed", "unlock"}
        /\ state' = [[state EXCEPT !.call[t] = "none", !.deadline[t] = Never]
                     EXCEPT !.count = @ - 1]
    BY <1>3 DEF SY!LockFails, SY!TryLockFails, SY!UnlockEnd, SY!Return
  <2>2. PICK n \in Int : n = state.count - 1
    BY <1>0
  <2>3. SyncReturned(t, n, state.holder, state.depth, state.owner, state.tokens)
    BY <1>0, <2>1, <2>2 DEF SyncReturned, SyncStates
  <2>4. n - state.depth
          = state.count - state.depth - (IF state.call[t] = "sem" THEN 0 ELSE 1)
    BY <1>0, <2>1, <2>2
  <2> QED BY <1>0, <2>3, <2>4, SyncReturn
<1>4. CASE SY!TryLock(t) /\ SY!Available(t)
  <2>1. state.call[t] = "none" /\ state' = [[state EXCEPT !.holder = t, !.depth = @ + 1]
                                            EXCEPT !.count = @ + 1]
    BY <1>4 DEF SY!TryLock, SY!Idle, SY!Acquired
  <2>2. PICK deep \in Nat, n \in Int : deep = state.depth + 1 /\ n = state.count + 1
    BY <1>0
  <2>3. state' = [state EXCEPT !.holder = t, !.depth = deep, !.count = n]
    BY <1>0, <2>1, <2>2 DEF SyncStates
  <2>4. state' \in SyncStates
    BY <1>0, <2>3 DEF SyncStates
  <2>5. PICK line \in Int \cup {Never} : line = state.deadline[t]
    BY <1>0 DEF SyncStates
  <2>6. /\ state'.call = state.call /\ state'.deadline = state.deadline
        /\ state'.count = n /\ state'.holder = t /\ state'.depth = deep
        /\ state'.clock = state.clock
    BY <1>0, <2>3 DEF SyncStates
  <2>7. /\ state.call = [state.call EXCEPT ![t] = "none"]
        /\ state.deadline = [state.deadline EXCEPT ![t] = line]
    BY <1>0, <2>1, <2>5 DEF SyncStates
  <2>8. SyncStep(t, "none", line, n, t, deep)
    BY <2>4, <2>6, <2>7 DEF SyncStep
  <2>9. n - deep = state.count - state.depth
                 + (IF "none" \in {"none", "sem"} THEN 0 ELSE 1)
                 - (IF state.call[t] \in {"none", "sem"} THEN 0 ELSE 1)
    BY <1>0, <2>1, <2>2
  <2>10. /\ t = None <=> deep = 0
         /\ "none" \in {"lock", "sem"} /\ line # Never => line >= state.clock
         /\ "none" \in SY!Calls
    BY <1>0, <2>2 DEF SY!Calls
  <2> QED BY ONLY SyncAssumption, SyncInv, t \in Threads, n \in Int, deep \in Nat,
             line \in Int \cup {Never}, <2>8, <2>9, <2>10, SyncStepKeeps
<1>5. CASE SY!TryLock(t) /\ ~ SY!Available(t)
  <2>1. SyncBegun(t, "lock_failed", Never, state.count + 1, state.holder, state.depth)
    BY <1>0, <1>5 DEF SyncBegun, SY!TryLock, SY!Begin, SyncStates
  <2>2. /\ (state.count + 1) - state.depth
             = state.count - state.depth + (IF "lock_failed" = "sem" THEN 0 ELSE 1)
        /\ state.count + 1 \in Int
    BY <1>0
  <2> QED BY <1>0, <2>1, <2>2, SyncBegin
<1>6. CASE SY!UnlockBegin(t)
  <2> DEFINE hold == IF state.depth = 1 THEN None ELSE state.holder
  <2>1. state.holder = t /\ SyncBegun(t, "unlock", Never, state.count, hold, state.depth - 1)
    BY <1>0, <1>6 DEF SyncBegun, SY!UnlockBegin, SY!Begin, SyncStates
  <2>2. PICK deep \in Nat : deep = state.depth - 1
    BY <1>0, <2>1
  <2>3. hold \in Threads \cup {None} /\ (hold = None <=> deep = 0)
    BY <1>0, <2>1, <2>2
  <2> HIDE DEF hold
  <2>4. state.count - deep
          = state.count - state.depth + (IF "unlock" = "sem" THEN 0 ELSE 1)
    BY <1>0, <2>2
  <2>5. SyncBegun(t, "unlock", Never, state.count, hold, deep)
    BY <2>1, <2>2
  <2> QED BY <1>0, <2>3, <2>4, <2>5, SyncBegin
<1> QED
  BY <1>1, <1>2, <1>3, <1>4, <1>5, <1>6

LEMMA SyncCondition ==
  ASSUME SyncAssumption, SyncInv, NEW t \in Threads, NEW d \in SY!Deadlines,
         SY!WaitCond(t, d) \/ SY!SignalCond(t) \/ SY!WaitCondTimesOut(t) \/ SY!WaitCondEnd(t)
  PROVE  SyncInv'
<1>0. /\ state \in SyncStates /\ state.count \in Int /\ state.depth \in Nat
      /\ state.holder \in Threads \cup {None} /\ state.owner \in Threads \cup {None}
      /\ state.tokens \in Int /\ (state.holder = None <=> state.depth = 0) /\ t # None
      /\ "cond" \in SY!Calls \ {"none"} /\ "signalled" \in SY!Calls
  BY SyncMutex DEF SY!Calls
<1>1. CASE SY!WaitCond(t, d)
  <2>1. state.depth = 1 /\ SyncBegun(t, "cond", d, state.count, None, 0)
    BY <1>0, <1>1 DEF SyncBegun, SY!WaitCond, SY!Begin, SyncStates
  <2>2. state.count - 0 = state.count - state.depth + (IF "cond" = "sem" THEN 0 ELSE 1)
    BY <1>0, <2>1
  <2> QED BY <1>0, <2>1, <2>2, SyncBegin
<1>2. CASE SY!SignalCond(t) \/ SY!WaitCondTimesOut(t)
  <2>1. PICK w \in Threads : state.call[w] = "cond" /\ state' = SY!Wakes(w)
    BY <1>2 DEF SY!SignalCond, SY!WaitCondTimesOut
  <2>2. SyncStep(w, "signalled", Never, state.count, state.holder, state.depth)
    BY <1>0, <2>1 DEF SY!Wakes, SyncStates, SyncStep
  <2>3. state.count - state.depth = state.count - state.depth
                 + (IF "signalled" \in {"none", "sem"} THEN 0 ELSE 1)
                 - (IF state.call[w] \in {"none", "sem"} THEN 0 ELSE 1)
    BY <1>0, <2>1
  <2> QED BY <1>0, <2>2, <2>3, SyncStepKeeps
<1>3. CASE SY!WaitCondEnd(t)
  <2>1. /\ state.call[t] = "signalled" /\ state.holder = None
        /\ state' = [[state EXCEPT !.holder = t, !.depth = @ + 1]
                     EXCEPT !.call[t] = "none", !.deadline[t] = Never]
    BY <1>3 DEF SY!WaitCondEnd, SY!Return, SY!Acquired
  <2>2. PICK deep \in Nat : deep = state.depth + 1
    BY <1>0
  <2>3. SyncReturned(t, state.count, t, deep, state.owner, state.tokens)
    BY <1>0, <2>1, <2>2 DEF SyncReturned, SyncStates
  <2>4. /\ state.count - deep
             = state.count - state.depth - (IF state.call[t] = "sem" THEN 0 ELSE 1)
        /\ (t = None) <=> (deep = 0)
    BY <1>0, <2>1, <2>2
  <2>5. /\ state.count \in Int /\ t \in Threads \cup {None} /\ state.tokens \in Int
        /\ state.owner \in Threads \cup {None}
    BY <1>0 DEF SyncInv, SyncStates
  <2> QED BY ONLY SyncAssumption, SyncInv, t \in Threads, deep \in Nat, <2>3, <2>4, <2>5,
                  SyncReturn
<1> QED
  BY <1>1, <1>2, <1>3

\* The tokens are not part of the invariant.
LEMMA SyncSemaphore ==
  ASSUME SyncAssumption, SyncInv, NEW t \in Threads, NEW d \in SY!Deadlines,
         \/ SY!SignalSemaphore(t) \/ SY!TryWaitSemaphore(t) \/ SY!WaitSemaphore(t, d)
         \/ SY!WaitSemaphoreEnd(t) \/ SY!WaitSemaphoreTimesOut(t)
  PROVE  SyncInv'
<1>0. /\ state \in SyncStates /\ state.count \in Int /\ state.depth \in Nat
      /\ state.holder \in Threads \cup {None} /\ state.owner \in Threads \cup {None}
      /\ state.tokens \in Int /\ (state.holder = None <=> state.depth = 0)
      /\ "sem" \in SY!Calls \ {"none"}
  BY SyncMutex DEF SY!Calls
<1>1. CASE SY!SignalSemaphore(t) \/ SY!TryWaitSemaphore(t)
  <2>1. PICK n \in Int : state' = [state EXCEPT !.tokens = n]
    BY <1>0, <1>1 DEF SY!SignalSemaphore, SY!TryWaitSemaphore
  <2>2. /\ state' \in SyncStates /\ state'.count = state.count /\ state'.holder = state.holder
        /\ state'.depth = state.depth /\ state'.call = state.call
        /\ state'.deadline = state.deadline /\ state'.clock = state.clock
    BY <1>0, <2>1 DEF SyncStates
  <2> QED BY <2>2 DEF SyncInv, SY!CountsUsers
<1>2. CASE SY!WaitSemaphore(t, d)
  <2>1. SyncBegun(t, "sem", d, state.count, state.holder, state.depth)
    BY <1>0, <1>2 DEF SyncBegun, SY!WaitSemaphore, SY!Begin, SyncStates
  <2>2. state.count - state.depth
          = state.count - state.depth + (IF "sem" = "sem" THEN 0 ELSE 1)
    BY <1>0
  <2> QED BY <1>0, <2>1, <2>2, SyncBegin
<1>3. CASE SY!WaitSemaphoreEnd(t) \/ SY!WaitSemaphoreTimesOut(t)
  <2>1. PICK n \in {state.tokens, state.tokens - 1} :
          /\ state.call[t] = "sem"
          /\ SyncReturned(t, state.count, state.holder, state.depth, state.owner, n)
    BY <1>0, <1>3, ZenonT(40) DEF SyncReturned, SY!WaitSemaphoreEnd, SY!WaitSemaphoreTimesOut, SY!Return,
       SyncStates
  <2>2. n \in Int /\ state.count - state.depth
          = state.count - state.depth - (IF state.call[t] = "sem" THEN 0 ELSE 1)
    BY <1>0, <2>1
  <2> QED BY <1>0, <2>1, <2>2, SyncReturn
<1> QED
  BY <1>1, <1>2, <1>3

LEMMA SyncTick ==
  ASSUME SyncAssumption, SyncInv, SY!Tick
  PROVE  SyncInv'
<1>1. /\ state \in SyncStates /\ state.clock \in Int
      /\ state' = [state EXCEPT !.clock = @ + 1]
      /\ \A t \in Threads : ~ SY!TimedOut(t)
  BY SyncMutex DEF SY!Tick
<1>2. /\ state' \in SyncStates /\ state'.count = state.count /\ state'.holder = state.holder
      /\ state'.depth = state.depth /\ state'.call = state.call
      /\ state'.deadline = state.deadline /\ state'.clock = state.clock + 1
  BY <1>1 DEF SyncStates
<1> QED
  BY <1>2 DEF SyncInv, SY!CountsUsers

(* For any finite set of threads, any depth of a recursive mutex and any    *)
(* timeouts: the count of a mutex is the number of its users, whichever     *)
(* locks fail and whichever waits are woken or time out                     *)
(* (xsal_mutex_linux.c, xsal_wait_cond_linux.c).                            *)
THEOREM MutexCountsUsers ==
  ASSUME SyncAssumption
  PROVE  SY!Spec => []SY!CountsUsers
<1>1. SY!Init => SyncInv
  BY SyncInit
<1>2. SyncInv /\ [SY!Next]_state => SyncInv'
  <2>1. CASE state' = state
    BY <2>1 DEF SyncInv, SY!CountsUsers
  <2>2. ASSUME SyncInv, SY!Next
        PROVE  SyncInv'
    BY <2>2, SyncLock, SyncCondition, SyncSemaphore, SyncTick DEF SY!Next, SY!Deadlines
  <2> QED BY <2>1, <2>2
<1>3. SyncInv => SY!CountsUsers
  BY DEF SyncInv
<1> QED
  BY <1>1, <1>2, <1>3, PTL DEF SY!Spec, SY!vars

-----------------------------------------------------------------------------
(* The ring buffer *)

CONSTANTS Size, Serials
VARIABLE ring

RB == INSTANCE RingBuffer

RingAssumption == Size \in Nat \ {0} /\ Serials \in Nat /\ Serials > Size

Cells == 0 .. Size - 1
Values == 0 .. Serials - 1

Rings ==
  [in : Cells, out : Cells, cell : [Cells -> Values],
   producer : {"ask", "write", "add"}, consumer : {"ask", "read", "remove"},
   produced : Values, expected : Values]

\* Numbers up to twice the modulus, wrapped.
Wrapped(x, m) == IF x >= m THEN x - m ELSE x
Before(v) == IF v = 0 THEN Serials - 1 ELSE v - 1

\* What is published, what is removed, and how many cells are between them.
Published == IF ring.producer = "add" THEN Before(ring.produced) ELSE ring.produced
Removed == IF ring.consumer = "remove" THEN Before(ring.expected) ELSE ring.expected
Between(i, o) == IF i >= o THEN i - o ELSE i - o + Size
Filled == Between(ring.in, ring.out)

RingInv ==
  /\ ring \in Rings
  /\ Published = Wrapped(Removed + Filled, Serials)
  /\ \A j \in 0 .. Filled - 1 :
       ring.cell[Wrapped(ring.out + j, Size)] = Wrapped(Removed + j, Serials)
  /\ ring.producer # "ask" => Filled < Size - 1
  /\ ring.producer = "add" => ring.cell[ring.in] = Published
  /\ ring.consumer # "ask" => Filled > 0

\* A remainder with any number of moduli.
LEMMA Remainder ==
  ASSUME NEW m \in Int, m > 0, NEW x \in Int, NEW k \in Int, NEW r \in Int,
         0 <= r, r < m, x = k * m + r
  PROVE  x % m = r
OBVIOUS

\* The cells between two indices, and what a step of either makes of them.
LEMMA Distance ==
  ASSUME RingAssumption, NEW i \in Cells, NEW o \in Cells
  PROVE  /\ Between(i, o) \in Cells
         /\ (i = o) <=> (Between(i, o) = 0)
         /\ (Wrapped(i + 1, Size) = o) <=> (Between(i, o) = Size - 1)
         /\ Between(i, o) < Size - 1 => Between(Wrapped(i + 1, Size), o) = Between(i, o) + 1
         /\ Between(i, o) > 0 => Between(i, Wrapped(o + 1, Size)) = Between(i, o) - 1
         /\ Wrapped(o + Between(i, o), Size) = i
         /\ \E k \in {0, 1} : (i + Size) - o = k * Size + Between(i, o)
         /\ \A j \in 0 .. Between(i, o) - 1 :
              Wrapped(o + j, Size) \in Cells /\ Wrapped(o + j, Size) # i
<1> DEFINE b == Between(i, o)
<1>1. /\ i \in Int /\ 0 <= i /\ i < Size /\ o \in Int /\ 0 <= o /\ o < Size
      /\ Size \in Int /\ Size > 0
  BY DEF Cells, RingAssumption
<1>2. CASE i >= o
  <2>1. b = i - o
    BY <1>2 DEF Between
  <2> HIDE DEF b
  <2> QED BY <1>1, <1>2, <2>1 DEF Wrapped, Cells, Between, b
<1>3. CASE i < o
  <2>1. b = i - o + Size
    BY <1>1, <1>3 DEF Between
  <2> QED BY <1>1, <1>3, <2>1 DEF Wrapped, Cells, Between
<1> QED BY <1>1, <1>2, <1>3

LEMMA StepOfIndex ==
  ASSUME RingAssumption, NEW i \in Cells, NEW o \in Cells
  PROVE  /\ (Wrapped(i + 1, Size) = o) <=> (Between(i, o) = Size - 1)
         /\ Between(i, o) > 0 => Between(i, Wrapped(o + 1, Size)) = Between(i, o) - 1
BY Distance

\* A value further on.
LEMMA FurtherOn ==
  ASSUME RingAssumption, NEW p \in Values, NEW r \in Values, NEW f \in Cells
  PROVE  /\ Before(p) = Wrapped(r + f, Serials) /\ f < Size - 1 => p = Wrapped(r + (f + 1), Serials)
         /\ \A j \in Cells : j + 1 < Size
              => Wrapped(Before(r) + (j + 1), Serials) = Wrapped(r + j, Serials)
BY DEF Values, Cells, RingAssumption, Before, Wrapped

LEMMA NextIs ==
  ASSUME RingAssumption
  PROVE  /\ \A i \in Cells : RB!NextIndex(i) = Wrapped(i + 1, Size) /\ RB!NextIndex(i) \in Cells
         /\ \A v \in Values : /\ RB!After(v) = Wrapped(v + 1, Serials) /\ RB!After(v) \in Values
                              /\ Before(RB!After(v)) = v
<1>1. ASSUME NEW i \in Cells
      PROVE  RB!NextIndex(i) = Wrapped(i + 1, Size) /\ RB!NextIndex(i) \in Cells
  BY DEF RingAssumption, Cells, Wrapped, RB!NextIndex
<1>2. ASSUME NEW v \in Values
      PROVE  /\ RB!After(v) = Wrapped(v + 1, Serials) /\ RB!After(v) \in Values
             /\ Before(RB!After(v)) = v
  <2>1. v \in Int /\ 0 <= v /\ v < Serials /\ Serials \in Int /\ Serials > 1
    BY DEF Values, RingAssumption
  <2>2. CASE v + 1 = Serials
    <3>1. (v + 1) % Serials = 0
      BY <2>1, <2>2
    <3> QED BY <2>1, <2>2, <3>1 DEF RB!After, Wrapped, Values, Before
  <2>3. CASE v + 1 # Serials
    <3>1. (v + 1) % Serials = v + 1
      BY <2>1, <2>3
    <3> QED BY <2>1, <2>3, <3>1 DEF RB!After, Wrapped, Values, Before
  <2> QED BY <2>2, <2>3
<1> QED BY <1>1, <1>2

LEMMA RingIs ==
  ASSUME RingAssumption, ring \in Rings
  PROVE  /\ ring.in \in Cells /\ ring.out \in Cells /\ ring.cell \in [Cells -> Values]
         /\ ring.produced \in Values /\ ring.expected \in Values
         /\ Published \in Values /\ Removed \in Values /\ Filled \in Cells
         /\ RB!Ring_Buf_Is_Empty <=> (Filled = 0)
         /\ RB!Ring_Buf_Is_Full <=> (Filled = Size - 1)
<1>1. /\ ring.in \in Cells /\ ring.out \in Cells /\ ring.cell \in [Cells -> Values]
      /\ ring.produced \in Values /\ ring.expected \in Values
  BY DEF Rings
<1>2. Published \in Values /\ Removed \in Values
  BY <1>1 DEF Published, Removed, Before, Values, RingAssumption
<1>3. Filled \in Cells /\ (RB!Ring_Buf_Is_Empty <=> (Filled = 0))
  BY <1>1, Distance, ZenonT(40) DEF Filled, RB!Ring_Buf_Is_Empty
<1>4. RB!Ring_Buf_Is_Full <=> (Filled = Size - 1)
  <2>1. RB!NextIndex(ring.in) = Wrapped(ring.in + 1, Size)
    BY <1>1, NextIs
  <2>2. (Wrapped(ring.in + 1, Size) = ring.out) <=> (Between(ring.in, ring.out) = Size - 1)
    BY ONLY RingAssumption, <1>1, StepOfIndex
  <2> QED BY ONLY <2>1, <2>2 DEF Filled, RB!Ring_Buf_Is_Full
<1> QED BY <1>1, <1>2, <1>3, <1>4

LEMMA RingInit ==
  ASSUME RingAssumption, RB!Init
  PROVE  RingInv
<1>1. ring = [in |-> 0, out |-> 0, cell |-> [i \in 0 .. Size - 1 |-> 0],
              producer |-> "ask", consumer |-> "ask", produced |-> 0, expected |-> 0]
  BY DEF RB!Init
<1>2. 0 \in Cells /\ 0 \in Values /\ [i \in 0 .. Size - 1 |-> 0] \in [Cells -> Values]
  BY DEF Cells, Values, RingAssumption
<1>3. ring \in Rings /\ Filled = 0 /\ Published = 0 /\ Removed = 0
  <2>1. Between(0, 0) = 0
    BY DEF Between, RingAssumption
  <2> QED BY <1>1, <1>2, <2>1 DEF Rings, Filled, Published, Removed
<1> QED
  BY <1>1, <1>3 DEF RingInv, Wrapped, RingAssumption

LEMMA RingNext ==
  ASSUME RingAssumption, RingInv, [RB!Next]_(RB!vars)
  PROVE  RingInv'
<1>1. /\ ring \in Rings /\ ring.in \in Cells /\ ring.out \in Cells
      /\ ring.cell \in [Cells -> Values]
      /\ ring.produced \in Values /\ ring.expected \in Values
      /\ Published \in Values /\ Removed \in Values /\ Filled \in Cells
      /\ RB!Ring_Buf_Is_Empty <=> (Filled = 0)
      /\ RB!Ring_Buf_Is_Full <=> (Filled = Size - 1)
  BY RingIs DEF RingInv
<1>2. Size \in Nat /\ Size > 0 /\ Serials \in Nat /\ Serials > Size
  BY DEF RingAssumption
<1>3. CASE RB!ProducerAsks
  <2>1. /\ ring' \in Rings /\ ring'.in = ring.in /\ ring'.out = ring.out
        /\ ring'.cell = ring.cell /\ ring'.producer = "write" /\ ring'.consumer = ring.consumer
        /\ ring'.produced = ring.produced /\ ring'.expected = ring.expected
        /\ ring.producer = "ask" /\ Filled # Size - 1
    BY <1>1, <1>3 DEF RB!ProducerAsks, Rings
  <2>2. Published' = Published /\ Removed' = Removed /\ Filled' = Filled /\ Filled < Size - 1
    BY <1>1, <1>2, <2>1 DEF Published, Removed, Filled, Cells
  <2> QED BY <2>1, <2>2 DEF RingInv
<1>4. CASE RB!ProducerWrites
  <2>1. /\ ring' = [ring EXCEPT !.cell[ring.in] = ring.produced,
                                !.produced = RB!After(@), !.producer = "add"]
        /\ ring.producer = "write" /\ RB!After(ring.produced) \in Values
        /\ Before(RB!After(ring.produced)) = ring.produced
    BY <1>1, <1>4, NextIs DEF RB!ProducerWrites
  <2>2. /\ ring' \in Rings /\ ring'.in = ring.in /\ ring'.out = ring.out
        /\ ring'.cell = [ring.cell EXCEPT ![ring.in] = ring.produced]
        /\ ring'.producer = "add" /\ ring'.consumer = ring.consumer
        /\ ring'.produced = RB!After(ring.produced) /\ ring'.expected = ring.expected
    BY ONLY <1>1, <2>1 DEF Rings
  <2>3. Published' = Published /\ Removed' = Removed /\ Filled' = Filled /\ Published = ring.produced
    BY <2>1, <2>2 DEF Published, Removed, Filled
  <2>4. ASSUME NEW j \in 0 .. Filled - 1
        PROVE  /\ Wrapped(ring.out + j, Size) \in Cells
               /\ Wrapped(ring.out + j, Size) # ring.in
    BY <1>1, Distance DEF Filled
  <2>5. \A j \in 0 .. Filled - 1 :
          ring'.cell[Wrapped(ring.out + j, Size)] = Wrapped(Removed + j, Serials)
    BY <1>1, <2>2, <2>4 DEF RingInv
  <2> QED BY <1>1, <2>1, <2>2, <2>3, <2>5 DEF RingInv
<1>5. CASE RB!Ring_Buf_Add
  <2>1. ring.producer = "add" /\ Filled < Size - 1 /\ RB!NextIndex(ring.in) \in Cells
        /\ RB!NextIndex(ring.in) = Wrapped(ring.in + 1, Size)
        /\ ring' = [ring EXCEPT !.producer = "ask", !.in = RB!NextIndex(ring.in)]
    <3>1. ring.producer = "add" /\ Filled < Size - 1
      BY <1>5 DEF RB!Ring_Buf_Add, RingInv
    <3>2. ~ RB!Ring_Buf_Is_Full
      BY <1>1, <1>2, <3>1 DEF Cells
    <3> QED BY <1>1, <1>5, <3>1, <3>2, NextIs DEF RB!Ring_Buf_Add
  <2>2. /\ ring' \in Rings /\ ring'.in = Wrapped(ring.in + 1, Size) /\ ring'.out = ring.out
        /\ ring'.cell = ring.cell /\ ring'.producer = "ask" /\ ring'.consumer = ring.consumer
        /\ ring'.produced = ring.produced /\ ring'.expected = ring.expected
    BY ONLY <1>1, <2>1 DEF Rings
  <2>3. Removed' = Removed /\ Filled' = Filled + 1
    <3>1. Between(Wrapped(ring.in + 1, Size), ring.out) = Between(ring.in, ring.out) + 1
      <4>1. Between(ring.in, ring.out) < Size - 1
        BY <2>1 DEF Filled
      <4> QED BY <1>1, <4>1, Distance, ZenonT(40)
    <3> QED BY <2>2, <3>1 DEF Removed, Filled
  <2>4. Published' = ring.produced /\ Published = Before(ring.produced)
    BY <2>1, <2>2 DEF Published
  <2>5. Published' = Wrapped(Removed' + Filled', Serials)
    BY <1>1, <2>1, <2>3, <2>4, FurtherOn DEF RingInv
  <2>6. ASSUME NEW j \in 0 .. Filled' - 1
        PROVE  ring'.cell[Wrapped(ring'.out + j, Size)] = Wrapped(Removed' + j, Serials)
    <3>1. CASE j \in 0 .. Filled - 1
      BY <2>2, <2>3, <3>1 DEF RingInv
    <3>2. CASE j = Filled
      <4>1. Wrapped(ring.out + Filled, Size) = ring.in
        BY <1>1, Distance DEF Filled
      <4> QED BY <2>1, <2>2, <2>3, <3>2, <4>1 DEF RingInv
    <3> QED BY <1>1, <2>3, <2>6, <3>1, <3>2 DEF Cells
  <2>7. ring'.consumer # "ask" => Filled' > 0
    BY <1>1, <2>3 DEF Cells
  <2> QED BY <2>2, <2>5, <2>6, <2>7 DEF RingInv
<1>6. CASE RB!ConsumerAsks
  <2>1. /\ ring' \in Rings /\ ring'.in = ring.in /\ ring'.out = ring.out
        /\ ring'.cell = ring.cell /\ ring'.producer = ring.producer /\ ring'.consumer = "read"
        /\ ring'.produced = ring.produced /\ ring'.expected = ring.expected
        /\ ring.consumer = "ask" /\ Filled # 0
    BY <1>1, <1>6 DEF RB!ConsumerAsks, Rings
  <2>2. Published' = Published /\ Removed' = Removed /\ Filled' = Filled /\ Filled > 0
    BY <1>1, <1>2, <2>1 DEF Published, Removed, Filled, Cells
  <2> QED BY <2>1, <2>2 DEF RingInv
<1>7. CASE RB!ConsumerReads
  <2>1. /\ ring' = [ring EXCEPT !.consumer = "remove", !.expected = RB!After(@)]
        /\ ring.consumer = "read" /\ RB!After(ring.expected) \in Values
        /\ Before(RB!After(ring.expected)) = ring.expected
    BY <1>1, <1>7, NextIs DEF RB!ConsumerReads
  <2>2. /\ ring' \in Rings /\ ring'.in = ring.in /\ ring'.out = ring.out
        /\ ring'.cell = ring.cell /\ ring'.producer = ring.producer /\ ring'.consumer = "remove"
        /\ ring'.produced = ring.produced /\ ring'.expected = RB!After(ring.expected)
    BY ONLY <1>1, <2>1 DEF Rings
  <2>3. Published' = Published /\ Removed' = Removed /\ Filled' = Filled
    BY <2>1, <2>2 DEF Published, Removed, Filled
  <2> QED BY <2>1, <2>2, <2>3 DEF RingInv
<1>8. CASE RB!Ring_Buf_Remove
  <2>1. ring.consumer = "remove" /\ Filled > 0 /\ RB!NextIndex(ring.out) \in Cells
        /\ RB!NextIndex(ring.out) = Wrapped(ring.out + 1, Size)
        /\ ring' = [ring EXCEPT !.consumer = "ask", !.out = RB!NextIndex(ring.out)]
    <3>1. ring.consumer = "remove" /\ Filled > 0
      BY <1>8 DEF RB!Ring_Buf_Remove, RingInv
    <3>2. ~ RB!Ring_Buf_Is_Empty
      BY <1>1, <3>1 DEF Cells
    <3> QED BY <1>1, <1>8, <3>1, <3>2, NextIs DEF RB!Ring_Buf_Remove
  <2>2. /\ ring' \in Rings /\ ring'.out = Wrapped(ring.out + 1, Size) /\ ring'.in = ring.in
        /\ ring'.cell = ring.cell /\ ring'.producer = ring.producer /\ ring'.consumer = "ask"
        /\ ring'.produced = ring.produced /\ ring'.expected = ring.expected
    BY ONLY <1>1, <2>1 DEF Rings
  <2>3. Published' = Published /\ Filled' = Filled - 1
    <3>1. Between(ring.in, Wrapped(ring.out + 1, Size)) = Between(ring.in, ring.out) - 1
      <4>1. Between(ring.in, ring.out) > 0
        BY <2>1 DEF Filled
      <4> QED BY ONLY RingAssumption, <1>1, <4>1, StepOfIndex
    <3> QED BY <2>2, <3>1 DEF Published, Filled
  <2>4. Removed' = ring.expected /\ Removed = Before(ring.expected)
    BY <2>1, <2>2 DEF Removed
  <2>5. Published' = Wrapped(Removed' + Filled', Serials)
    BY <1>1, <1>2, <2>1, <2>3, <2>4 DEF RingInv, Before, Wrapped, Values, Cells
  <2>6. ASSUME NEW j \in 0 .. Filled' - 1
        PROVE  ring'.cell[Wrapped(ring'.out + j, Size)] = Wrapped(Removed' + j, Serials)
    <3>1. j \in Nat /\ j + 1 \in 0 .. Filled - 1 /\ j + 1 < Size
      BY <1>1, <1>2, <2>3 DEF Cells
    <3>2. Wrapped(ring'.out + j, Size) = Wrapped(ring.out + (j + 1), Size)
      BY <1>1, <1>2, <2>2, <3>1 DEF Wrapped, Cells
    <3>3. Wrapped(Removed' + j, Serials) = Wrapped(Removed + (j + 1), Serials)
      BY <1>1, <1>2, <2>4, <3>1 DEF Wrapped, Before, Values
    <3> QED BY <2>2, <3>1, <3>2, <3>3 DEF RingInv
  <2>7. /\ ring'.producer # "ask" => Filled' < Size - 1
        /\ ring'.producer = "add" => ring'.cell[ring'.in] = Published'
    BY <1>1, <1>2, <2>2, <2>3 DEF RingInv, Cells
  <2> QED BY <2>2, <2>5, <2>6, <2>7 DEF RingInv
<1>9. CASE UNCHANGED RB!vars
  BY <1>9 DEF RB!vars, RingInv, Published, Removed, Filled
<1> QED
  BY <1>3, <1>4, <1>5, <1>6, <1>7, <1>8, <1>9 DEF RB!Next

LEMMA RingInvImplies ==
  ASSUME RingAssumption, RingInv
  PROVE  RB!ReadsInOrder /\ RB!CountsAgree
<1>1. /\ ring \in Rings /\ ring.in \in Cells /\ ring.out \in Cells
      /\ ring.produced \in Values /\ ring.expected \in Values
      /\ Published \in Values /\ Removed \in Values /\ Filled \in Cells
  BY RingIs DEF RingInv
<1>2. Size \in Nat /\ Size > 0 /\ Serials \in Nat /\ Serials > Size
  BY DEF RingAssumption
<1>3. RB!ReadsInOrder
  <2> SUFFICES ASSUME ring.consumer = "read"
               PROVE  ring.cell[ring.out] = ring.expected
    BY DEF RB!ReadsInOrder
  <2>1. Removed = ring.expected /\ 0 \in 0 .. Filled - 1
    BY <1>1 DEF Removed, RingInv, Cells
  <2>2. Wrapped(ring.out + 0, Size) = ring.out /\ Wrapped(Removed + 0, Serials) = Removed
    BY <1>1, <1>2 DEF Wrapped, Cells, Values
  <2> QED BY <2>1, <2>2 DEF RingInv
<1>4. RB!CountsAgree
  <2> DEFINE published == IF ring.producer = "add" THEN ring.produced - 1 ELSE ring.produced
             removed   == IF ring.consumer = "remove" THEN ring.expected - 1 ELSE ring.expected
  <2>1. ((ring.in + Size) - ring.out) % Size = Filled
    <3>1. PICK k \in {0, 1} : (ring.in + Size) - ring.out = k * Size + Filled
      BY <1>1, Distance DEF Filled
    <3>2. Filled \in Int /\ 0 <= Filled /\ Filled < Size
      BY <1>1, <1>2 DEF Cells
    <3>3. PICK x \in Int : x = (ring.in + Size) - ring.out
      BY <1>1, <1>2 DEF Cells
    <3> QED BY <1>2, <3>1, <3>2, <3>3, Remainder
  <2>2. /\ published \in Int /\ (published = Published \/ published = Published - Serials)
        /\ removed \in Int /\ (removed = Removed \/ removed = Removed - Serials)
    BY <1>1, <1>2 DEF Published, Removed, Before, Values
  <2>3. Published = Removed + Filled \/ Published = Removed + Filled - Serials
    BY <1>1, <1>2 DEF RingInv, Wrapped, Values, Cells
  <2> HIDE DEF published, removed
  <2>4. PICK k \in {0, 1, 2, 3} : (published + 2 * Serials) - removed = k * Serials + Filled
    <3>1. Published \in Int /\ Removed \in Int /\ Filled \in Int
      BY <1>1 DEF Values, Cells
    <3> QED BY ONLY <1>2, <2>2, <2>3, <3>1
  <2>5. Filled \in Int /\ 0 <= Filled /\ Filled < Serials
    BY <1>1, <1>2 DEF Cells
  <2>6. ((published + 2 * Serials) - removed) % Serials = Filled
    BY <1>2, <2>2, <2>4, <2>5, Remainder
  <2> QED BY <2>1, <2>6 DEF RB!CountsAgree, published, removed
<1> QED BY <1>3, <1>4

(* RingHandsOver: for any number of cells, one producer and one consumer     *)
(* without a lock hand over every value once and in order, and the indices   *)
(* count what is between them (ring_buffer.c).                               *)
THEOREM RingHandsOver ==
  ASSUME RingAssumption
  PROVE  RB!Spec => [](RB!ReadsInOrder /\ RB!CountsAgree)
<1>1. RB!Init => RingInv
  BY RingInit
<1>2. RingInv /\ [RB!Next]_(RB!vars) => RingInv'
  BY RingNext
<1>3. RingInv => RB!ReadsInOrder /\ RB!CountsAgree
  BY RingInvImplies
<1> QED
  BY <1>1, <1>2, <1>3, PTL DEF RB!Spec
=============================================================================
