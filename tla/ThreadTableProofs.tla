-------------------------- MODULE ThreadTableProofs --------------------------
(* The life of XSAL threads, for any number of threads, creations and waits: *)
(* the entries of the table, the codes of their threads and the counter      *)
(* agree, a ready gate has one token exactly while its thread is ready, and  *)
(* the end of a thread cannot be missed.  After it three parts with few      *)
(* threads of their own: SharedMemory, IicSlave and Uart.                    *)
EXTENDS ThreadTable, Sequences, FiniteSetTheorems, TLAPS

LEMMA InitType == Init => TypeOK
<1> SUFFICES ASSUME Init PROVE TypeOK
  OBVIOUS
<1> USE DEF Init
<1>1. live \in [Tids -> BOOLEAN] /\ is_ready \in [Ids -> BOOLEAN]
  OBVIOUS
<1>2. /\ ready_sem \in [Ids -> Nat] /\ destroyed_sem \in [Ids -> Nat]
      /\ leaving \in [Ids -> Nat]
  OBVIOUS
<1>3. running \in Int /\ table_mutex \in Tids \cup {Nobody} /\ created \in Nat
  OBVIOUS
<1>4. pc \in [Ids -> PcState]
  BY DEF PcState
<1>5. waiting \in [Ids -> [on : Ids, timed : BOOLEAN]]
  BY DEF Ids
<1>6. /\ pulse \in Int \cup {NoPulse} /\ exit_status \in Int \cup {NoPulse}
      /\ passed \subseteq Statuses /\ gone \in [Ids -> BOOLEAN]
  OBVIOUS
<1> HIDE DEF Init
<1> QED BY <1>1, <1>2, <1>3, <1>4, <1>5, <1>6 DEF TypeOK

LEMMA PulseType ==
  ASSUME NEW status \in Int PROVE Pulse(status) \in Int
BY DEF Pulse

LEMMA DividedType ==
  ASSUME NEW v \in Int PROVE Divided(v, 256) \in Int
<1>1. CASE v >= 0
  BY <1>1 DEF Divided
<1>2. CASE ~(v >= 0)
  <2>1. -v \in Int
    OBVIOUS
  <2>2. (-v) \div 256 \in Int
    BY <2>1
  <2> QED BY <1>2, <2>2 DEF Divided
<1> QED BY <1>1, <1>2

\* Two facts that several actions share.
LEMMA GotoType ==
  ASSUME TypeOK, NEW i \in Ids, NEW from, NEW to \in PcState, Goto(i, from, to)
  PROVE  pc' \in [Ids -> PcState]
BY DEF TypeOK, Goto

LEMMA LeaveEntryType ==
  ASSUME TypeOK, NEW s \in Tids, LeaveEntry(s)
  PROVE  /\ live' \in [Tids -> BOOLEAN]
         /\ leaving' \in [Ids -> Nat]
         /\ pc' \in [Ids -> PcState]
         /\ gone' \in [Ids -> BOOLEAN]
         /\ table_mutex' \in Tids \cup {Nobody}
<1> USE DEF TypeOK, LeaveEntry
<1>1. s \in Ids
  BY DEF Ids
<1>2. live' \in [Tids -> BOOLEAN] /\ table_mutex' \in Tids \cup {Nobody}
  OBVIOUS
<1>3. leaving' \in [Ids -> Nat]
  BY <1>1
<1>4. pc' \in [Ids -> PcState]
  BY <1>1 DEF PcState
<1>5. gone' \in [Ids -> BOOLEAN]
  OBVIOUS
<1> QED BY <1>2, <1>3, <1>4, <1>5

LEMMA UncountType ==
  ASSUME TypeOK, NEW s, Uncount(s)
  PROVE  running' \in Int /\ pulse' \in Int \cup {NoPulse}
<1>1. Pulse(0) \in Int
  BY PulseType
<1> QED BY <1>1 DEF TypeOK, Uncount, StopRouter

LEMMA ClosedType ==
  ASSUME TypeOK, NEW s \in Ids
  PROVE  Closed(s) \in Nat
BY DEF TypeOK, Closed

LEMMA NextType == TypeOK /\ [Next]_vars => TypeOK'
<1> SUFFICES ASSUME TypeOK, [Next]_vars PROVE TypeOK'
  OBVIOUS
<1> USE DEF table, gates, router, history
<1>1. CASE UNCHANGED vars
  BY <1>1 DEF vars, TypeOK
<1>2. ASSUME NEW i \in Ids, Call(i) PROVE TypeOK'
  <2>1. ASSUME NEW s \in Tids, Create(i, s) PROVE TypeOK'
    <3>1. s \in Ids /\ Closed(s) \in Nat
      BY ClosedType DEF Ids
    <3>2. "start" \in PcState
      BY DEF PcState
    <3> QED BY <2>1, <3>1, <3>2 DEF Create, TypeOK
  <2>2. ASSUME NEW s \in Tids, CreateFails(i, s) PROVE TypeOK'
    <3>1. s \in Ids /\ Closed(s) \in Nat
      BY ClosedType DEF Ids
    <3> QED BY <2>2, <3>1 DEF CreateFails, TypeOK
  <2>3. CASE SignalReady(i)
    BY <2>3 DEF SignalReady, TypeOK
  <2>4. ASSUME NEW s \in WaitTargets, NEW timed \in BOOLEAN,
               WaitReady(i, s, timed) \/ WaitDestroyed(i, s, timed)
        PROVE  TypeOK'
    <3>1. s \in Ids /\ "ready_wait" \in PcState /\ "destroyed_wait" \in PcState
      BY TargetsAssumption DEF Ids, PcState
    <3>2. Free(s) \in BOOLEAN
      <4>1. s # Main => live[s] \in BOOLEAN
        BY <3>1 DEF TypeOK, Ids
      <4>2. CASE s = Main
        <5>1. Free(s) = (pc[Main] \in {"init", "done"})
          BY <4>2 DEF Free
        <5>2. CASE pc[Main] \in {"init", "done"}
          BY <5>1, <5>2
        <5>3. CASE pc[Main] \notin {"init", "done"}
          BY <5>1, <5>3
        <5> QED BY <5>2, <5>3
      <4>3. CASE s # Main
        <5>1. Free(s) = ~live[s]
          BY <4>3 DEF Free
        <5> QED BY <4>1, <4>3, <5>1, Zenon
      <4> QED BY <4>2, <4>3
    <3>3. CASE WaitReady(i, s, timed)
      BY <3>1, <3>3, GotoType DEF WaitReady, Wait, TypeOK
    <3>4. CASE WaitDestroyed(i, s, timed)
      BY <3>1, <3>2, <3>4, GotoType DEF WaitDestroyed, Wait, TypeOK
    <3> QED BY <2>4, <3>3, <3>4
  <2>5. ASSUME NEW status \in Statuses, Exit(i, status) PROVE TypeOK'
    <3>1. Pulse(status) \in Int /\ "freeing" \in PcState
      BY StatusesAssumption, PulseType DEF PcState
    <3> QED BY <2>5, <3>1, GotoType DEF Exit, StopRouter, TypeOK
  <2>6. CASE Return(i)
    <3>1. "freeing" \in PcState
      BY DEF PcState
    <3> QED BY <2>6, <3>1, GotoType DEF Return, TypeOK
  <2> QED BY <1>2, <2>1, <2>2, <2>3, <2>4, <2>5, <2>6 DEF Call
<1>3. ASSUME NEW i \in Ids, WaitExpires(i) PROVE TypeOK'
  <2>1. "run" \in PcState
    BY DEF PcState
  <2> QED BY <1>3, <2>1, GotoType DEF WaitExpires, TypeOK
<1>4. ASSUME NEW i \in Ids, SignalDestroyed(i) PROVE TypeOK'
  BY <1>4 DEF SignalDestroyed, TypeOK
<1>5. ASSUME NEW s \in Tids, ThreadStep(s) PROVE TypeOK'
  <2> USE DEF TypeOK
  <2>1. s \in Ids /\ waiting[s].on \in Ids
    BY DEF Ids
  <2>2. {"run", "ready_wait", "ready_token", "destroyed_token", "resetting"}
          \subseteq PcState
    BY DEF PcState
  <2>3. CASE TakeReady(s)
    BY <2>1, <2>2, <2>3, GotoType DEF TakeReady
  <2>4. CASE TakeDestroyed(s)
    BY <2>1, <2>2, <2>4, GotoType DEF TakeDestroyed
  <2>5. CASE GiveReady(s)
    BY <2>1, <2>2, <2>5, GotoType DEF GiveReady
  <2>6. CASE GiveDestroyed(s)
    BY <2>1, <2>2, <2>6, GotoType DEF GiveDestroyed
  <2>7. CASE Start(s)
    <3>1. Main \in Ids
      BY DEF Ids
    <3> QED BY <2>1, <2>2, <2>7, <3>1, GotoType DEF Start
  <2>8. CASE LeaveUnready(s)
    BY <2>8, LeaveEntryType, UncountType DEF LeaveUnready
  <2>9. CASE LeaveReady(s)
    BY <2>1, <2>2, <2>9, GotoType, UncountType DEF LeaveReady
  <2>10. CASE Reset(s)
    BY <2>1, <2>10, LeaveEntryType DEF Reset
  <2> QED
    BY <1>5, <2>3, <2>4, <2>5, <2>6, <2>7, <2>8, <2>9, <2>10
       DEF ThreadStep, Take, Give, Leave
<1>6. CASE MainStep
  <2>1. Main \in Ids /\ {"rt", "after_run", "done"} \subseteq PcState
    BY DEF Ids, PcState
  <2>2. CASE Run
    BY <2>1, <2>2, GotoType DEF Run, TypeOK
  <2>3. CASE RouterStops
    <3>1. exit_status' \in Int
      BY <2>3, DividedType DEF RouterStops, TypeOK
    <3> QED BY <2>1, <2>3, <3>1, GotoType DEF RouterStops, TypeOK
  <2>4. CASE AfterRun
    BY <2>1, <2>4, GotoType DEF AfterRun, TypeOK
  <2> QED BY <1>6, <2>2, <2>3, <2>4 DEF MainStep
<1> QED BY <1>1, <1>2, <1>3, <1>4, <1>5, <1>6 DEF Next

\* Every variable of the threads keeps its type.
THEOREM ThreadTypeCorrect == Spec => []TypeOK
BY InitType, NextType, PTL DEF Spec

-----------------------------------------------------------------------------
(* Finite sets of threads *)

LEMMA IdsFinite ==
  ASSUME NEW S \in SUBSET Ids
  PROVE  IsFiniteSet(S) /\ Cardinality(S) \in Nat
<1>1. IsFiniteSet(Ids)
  BY TidsAssumption, FS_AddElement DEF Ids
<1>2. IsFiniteSet(S)
  BY <1>1, FS_Subset
<1> QED BY <1>2, FS_CardinalityType

LEMMA OneMore ==
  ASSUME NEW S \in SUBSET Ids, NEW T, NEW i, i \notin S, T = S \cup {i}
  PROVE  Cardinality(T) = Cardinality(S) + 1
BY IdsFinite, FS_AddElement

LEMMA OneLess ==
  ASSUME NEW S \in SUBSET Ids, NEW T, NEW i, i \in S, T = S \ {i}
  PROVE  Cardinality(T) = Cardinality(S) - 1
BY IdsFinite, FS_RemoveElement

LEMMA WithTokens ==
  ASSUME NEW label, NEW s
  PROVE  /\ With(label, s) \in SUBSET Ids
         /\ Cardinality(With(label, s)) \in Nat
<1>1. With(label, s) \in SUBSET Ids
  BY DEF With
<1> QED BY <1>1, IdsFinite

\* A step of one thread, from one label to another, and who is at a third.
LEMMA ElsewhereWith ==
  ASSUME TypeOK, NEW i \in Ids, NEW from, NEW to, Goto(i, from, to),
         waiting' = waiting, NEW label, label \notin {from, to}, NEW s
  PROVE  With(label, s)' = With(label, s)
<1>1. \A j \in Ids : (pc'[j] = label) <=> (pc[j] = label)
  BY DEF Goto, TypeOK
<1> QED BY <1>1 DEF With

LEMMA ArrivesWith ==
  ASSUME TypeOK, NEW i \in Ids, NEW from, NEW to, Goto(i, from, to),
         from # to, waiting' = waiting, NEW s
  PROVE  Cardinality(With(to, s)') =
           Cardinality(With(to, s)) + IF waiting[i].on = s THEN 1 ELSE 0
<1>1. /\ \A j \in Ids \ {i} : (pc'[j] = to) <=> (pc[j] = to)
      /\ pc'[i] = to /\ pc[i] # to
  BY DEF Goto, TypeOK
<1>2. CASE waiting[i].on = s
  <2>1. With(to, s)' = With(to, s) \cup {i} /\ i \notin With(to, s)
    BY <1>1, <1>2 DEF With
  <2>2. Cardinality(With(to, s)') = Cardinality(With(to, s)) + 1
    BY <2>1, WithTokens, OneMore
  <2> QED BY <1>2, <2>2
<1>3. CASE waiting[i].on # s
  <2>1. With(to, s)' = With(to, s)
    BY <1>1, <1>3 DEF With
  <2> QED BY <1>3, <2>1, WithTokens
<1> QED BY <1>2, <1>3

LEMMA DepartsWith ==
  ASSUME TypeOK, NEW i \in Ids, NEW from, NEW to, Goto(i, from, to),
         from # to, waiting' = waiting, NEW s
  PROVE  Cardinality(With(from, s)') =
           Cardinality(With(from, s)) - IF waiting[i].on = s THEN 1 ELSE 0
<1>1. /\ \A j \in Ids \ {i} : (pc'[j] = from) <=> (pc[j] = from)
      /\ pc'[i] # from /\ pc[i] = from
  BY DEF Goto, TypeOK
<1>2. CASE waiting[i].on = s
  <2>1. With(from, s)' = With(from, s) \ {i} /\ i \in With(from, s)
    BY <1>1, <1>2 DEF With
  <2>2. Cardinality(With(from, s)') = Cardinality(With(from, s)) - 1
    BY <2>1, WithTokens, OneLess
  <2> QED BY <1>2, <2>2
<1>3. CASE waiting[i].on # s
  <2>1. With(from, s)' = With(from, s)
    BY <1>1, <1>3 DEF With
  <2> QED BY <1>3, <2>1, WithTokens
<1> QED BY <1>2, <1>3

\* The steps that only some thread's label records: the call of a wait.
LEMMA WaitWith ==
  ASSUME TypeOK, NEW i \in Ids, NEW on, NEW timed, NEW gate,
         Wait(i, on, timed, gate),
         NEW label, label \notin {"run", gate}, NEW s
  PROVE  With(label, s)' = With(label, s)
<1>1. /\ \A j \in Ids \ {i} : pc'[j] = pc[j] /\ waiting'[j] = waiting[j]
      /\ pc'[i] # label /\ pc[i] # label
  BY DEF Wait, Goto, TypeOK
<1> QED BY <1>1 DEF With

LEMMA StartWith ==
  ASSUME TypeOK, NEW i \in Tids, Start(i), NEW label,
         label \notin {"start", "ready_wait"}, NEW s
  PROVE  With(label, s)' = With(label, s)
<1>1. /\ \A j \in Ids \ {i} : pc'[j] = pc[j] /\ waiting'[j] = waiting[j]
      /\ pc'[i] # label /\ pc[i] # label
  BY DEF Start, Goto, TypeOK, Ids
<1> QED BY <1>1 DEF With

-----------------------------------------------------------------------------
(* The entries of the table *)

\* The labels of the main thread and of the others do not mix, and the
\* router is not ready before SAL_Run.
MainLabels == {"init", "rt", "after_run", "done"}

Places ==
  /\ pc[Main] \in MainLabels
  /\ \A s \in Tids : pc[s] \notin MainLabels
  /\ pc[Main] = "init" => ~is_ready[Main]

Staying == {s \in Tids : pc[s] \notin {"none", "resetting"}}

\* EntriesAgree without the count, which the provers treat separately.
EntryAgrees ==
  /\ \A s \in Tids : live[s] <=> pc[s] # "none"
  /\ \A s \in Tids : table_mutex = s <=> pc[s] = "resetting"

EntryInv == Places /\ EntriesAgree

LEMMA EntryParts ==
  EntriesAgree <=> EntryAgrees /\ running = Cardinality(Staying)
BY DEF EntriesAgree, EntryAgrees, Staying

LEMMA StayingFacts == Staying \in SUBSET Ids /\ Cardinality(Staying) \in Nat
<1>1. Staying \in SUBSET Ids
  BY DEF Staying, Ids
<1> QED BY <1>1, IdsFinite

\* What most steps do to a thread: it goes on inside its entry.
LEMMA GoesOn ==
  ASSUME TypeOK, EntryInv, NEW i \in Ids, NEW from, NEW to, Goto(i, from, to),
         {from, to} \cap {"none", "resetting"} = {},
         from \in MainLabels <=> to \in MainLabels,
         to = "init" => from = "init",
         UNCHANGED <<live, table_mutex, running>>,
         pc'[Main] = "init" => is_ready'[Main] = is_ready[Main]
  PROVE  EntryInv'
<1>1. /\ pc[i] = from /\ pc'[i] = to
      /\ \A j \in Ids \ {i} : pc'[j] = pc[j]
  BY DEF Goto, TypeOK
<1>2. Places'
  <2>1. Main \in Ids /\ \A s \in Tids : s \in Ids
    BY DEF Ids
  <2> QED BY <1>1, <2>1 DEF EntryInv, Places
<1>3. \A s \in Tids :
        /\ pc'[s] = "none" <=> pc[s] = "none"
        /\ pc'[s] = "resetting" <=> pc[s] = "resetting"
  BY <1>1 DEF Ids
<1>4. EntryAgrees'
  BY <1>3, EntryParts DEF EntryInv, EntryAgrees
<1>5. Staying' = Staying
  BY <1>3 DEF Staying
<1>6. running' = Cardinality(Staying')
  BY <1>5, EntryParts DEF EntryInv
<1> QED BY <1>2, <1>4, <1>6, EntryParts
       DEF EntryInv, EntriesAgree, EntryAgrees, Staying

\* A step that moves no thread.
LEMMA GoesNowhere ==
  ASSUME EntryInv, UNCHANGED <<pc, live, table_mutex, running>>,
         pc[Main] = "init" => is_ready'[Main] = is_ready[Main]
  PROVE  EntryInv'
<1>1. Places'
  BY DEF EntryInv, Places
<1>2. EntriesAgree'
  BY DEF EntryInv, EntriesAgree
<1> QED BY <1>1, <1>2 DEF EntryInv

LEMMA CreateEntry ==
  ASSUME TypeOK, EntryInv, NEW i \in Ids, NEW s \in Tids, Create(i, s)
  PROVE  EntryInv' /\ Goto(s, "none", "start")
<1>1. pc[s] = "none" /\ pc' = [pc EXCEPT ![s] = "start"] /\ s \in Ids
  BY EntryParts DEF Create, EntryInv, EntryAgrees, TypeOK, Ids
<1>2. /\ pc'[s] = "start" /\ \A j \in Ids \ {s} : pc'[j] = pc[j]
      /\ live'[s] /\ \A j \in Tids \ {s} : live'[j] = live[j]
      /\ table_mutex' = table_mutex /\ running' = running + 1
      /\ is_ready' = is_ready
  BY <1>1 DEF Create, TypeOK
<1>3. Places'
  BY <1>1, <1>2, TidsAssumption DEF EntryInv, Places, MainLabels, Ids
<1>4. EntryAgrees'
  BY <1>1, <1>2, EntryParts DEF EntryInv, EntryAgrees, Ids
<1>5. Staying' = Staying \cup {s} /\ s \notin Staying
  BY <1>1, <1>2 DEF Staying, Ids
<1>6. running' = Cardinality(Staying')
  BY <1>2, <1>5, StayingFacts, OneMore, EntryParts DEF EntryInv
<1> QED BY <1>1, <1>3, <1>4, <1>6, EntryParts
       DEF EntryInv, Goto, EntriesAgree, EntryAgrees, Staying

LEMMA LeaveUnreadyEntry ==
  ASSUME TypeOK, EntryInv, NEW s \in Tids, LeaveUnready(s)
  PROVE  EntryInv' /\ Goto(s, "freeing", "none")
<1>1. pc[s] = "freeing" /\ pc' = [pc EXCEPT ![s] = "none"] /\ s \in Ids
  BY DEF LeaveUnready, LeaveEntry, Ids
<1>2. /\ pc'[s] = "none" /\ \A j \in Ids \ {s} : pc'[j] = pc[j]
      /\ ~live'[s] /\ \A j \in Tids \ {s} : live'[j] = live[j]
      /\ table_mutex = Nobody /\ table_mutex' = Nobody
      /\ running' = running - 1 /\ is_ready' = is_ready
  BY <1>1 DEF LeaveUnready, LeaveEntry, Uncount, TypeOK
<1>3. Places'
  BY <1>1, <1>2, TidsAssumption DEF EntryInv, Places, MainLabels, Ids
<1>4. EntryAgrees'
  BY <1>1, <1>2, EntryParts, TidsAssumption DEF EntryInv, EntryAgrees, Ids
<1>5. Staying' = Staying \ {s} /\ s \in Staying
  BY <1>1, <1>2 DEF Staying, Ids
<1>6. running' = Cardinality(Staying')
  BY <1>2, <1>5, StayingFacts, OneLess, EntryParts DEF EntryInv
<1> QED BY <1>1, <1>3, <1>4, <1>6, EntryParts
       DEF EntryInv, Goto, EntriesAgree, EntryAgrees, Staying

LEMMA LeaveReadyEntry ==
  ASSUME TypeOK, EntryInv, NEW s \in Tids, LeaveReady(s)
  PROVE  EntryInv'
<1>1. pc[s] = "freeing" /\ pc' = [pc EXCEPT ![s] = "resetting"] /\ s \in Ids
  BY DEF LeaveReady, Goto, Ids
<1>2. /\ pc'[s] = "resetting" /\ \A j \in Ids \ {s} : pc'[j] = pc[j]
      /\ live' = live /\ table_mutex = Nobody /\ table_mutex' = s
      /\ running' = running - 1 /\ is_ready' = is_ready
  BY <1>1 DEF LeaveReady, Uncount, TypeOK
<1>3. Places'
  BY <1>1, <1>2, TidsAssumption DEF EntryInv, Places, MainLabels, Ids
<1>4. EntryAgrees'
  BY <1>1, <1>2, EntryParts, TidsAssumption DEF EntryInv, EntryAgrees, Ids
<1>5. Staying' = Staying \ {s} /\ s \in Staying
  BY <1>1, <1>2 DEF Staying, Ids
<1>6. running' = Cardinality(Staying')
  BY <1>2, <1>5, StayingFacts, OneLess, EntryParts DEF EntryInv
<1> QED BY <1>3, <1>4, <1>6, EntryParts
       DEF EntryInv, EntriesAgree, EntryAgrees, Staying

LEMMA ResetEntry ==
  ASSUME TypeOK, EntryInv, NEW s \in Tids, Reset(s)
  PROVE  EntryInv' /\ Goto(s, "resetting", "none")
<1>1. pc[s] = "resetting" /\ pc' = [pc EXCEPT ![s] = "none"] /\ s \in Ids
  BY DEF Reset, LeaveEntry, Ids
<1>2. /\ pc'[s] = "none" /\ \A j \in Ids \ {s} : pc'[j] = pc[j]
      /\ ~live'[s] /\ \A j \in Tids \ {s} : live'[j] = live[j]
      /\ table_mutex = s /\ table_mutex' = Nobody
      /\ running' = running
      /\ is_ready' = [is_ready EXCEPT ![s] = FALSE]
  BY <1>1, EntryParts DEF Reset, LeaveEntry, TypeOK, EntryInv, EntryAgrees
<1>3. Places'
  BY <1>1, <1>2, TidsAssumption DEF EntryInv, Places, MainLabels, Ids, TypeOK
<1>4. EntryAgrees'
  BY <1>1, <1>2, EntryParts, TidsAssumption DEF EntryInv, EntryAgrees, Ids
<1>5. Staying' = Staying
  BY <1>1, <1>2 DEF Staying, Ids
<1>6. running' = Cardinality(Staying')
  BY <1>2, <1>5, EntryParts DEF EntryInv
<1> QED BY <1>1, <1>3, <1>4, <1>6, EntryParts
       DEF EntryInv, Goto, EntriesAgree, EntryAgrees, Staying

LEMMA NextEntry == TypeOK /\ EntryInv /\ [Next]_vars => EntryInv'
<1> SUFFICES ASSUME TypeOK, EntryInv, [Next]_vars PROVE EntryInv'
  OBVIOUS
<1> USE DEF table, gates, router, history, MainLabels
<1>1. CASE UNCHANGED vars
  BY <1>1, GoesNowhere DEF vars
<1>2. ASSUME NEW i \in Ids, Call(i) PROVE EntryInv'
  <2>1. ASSUME NEW s \in Tids, Create(i, s) PROVE EntryInv'
    BY <2>1, CreateEntry
  <2>2. ASSUME NEW s \in Tids, CreateFails(i, s) PROVE EntryInv'
    BY <2>2, GoesNowhere DEF CreateFails
  <2>3. CASE SignalReady(i)
    <3>1. i # Main
      BY <2>3 DEF SignalReady, EntryInv, Places
    <3>2. is_ready'[Main] = is_ready[Main]
      BY <2>3, <3>1 DEF SignalReady, TypeOK, Ids
    <3> QED BY <2>3, <3>2, GoesNowhere DEF SignalReady
  <2>4. ASSUME NEW s, NEW timed,
               WaitReady(i, s, timed) \/ WaitDestroyed(i, s, timed)
        PROVE  EntryInv'
    <3>1. CASE WaitReady(i, s, timed)
      BY <3>1, GoesOn DEF WaitReady, Wait
    <3>2. CASE WaitDestroyed(i, s, timed)
      BY <3>2, GoesOn DEF WaitDestroyed, Wait
    <3> QED BY <2>4, <3>1, <3>2
  <2>5. ASSUME NEW status, Exit(i, status) PROVE EntryInv'
    BY <2>5, GoesOn DEF Exit
  <2>6. CASE Return(i)
    BY <2>6, GoesOn DEF Return
  <2> QED BY <1>2, <2>1, <2>2, <2>3, <2>4, <2>5, <2>6 DEF Call
<1>3. ASSUME NEW i \in Ids, WaitExpires(i) PROVE EntryInv'
  BY <1>3, GoesOn DEF WaitExpires
<1>4. ASSUME NEW i \in Ids, SignalDestroyed(i) PROVE EntryInv'
  BY <1>4, GoesNowhere DEF SignalDestroyed
<1>5. ASSUME NEW s \in Tids, ThreadStep(s) PROVE EntryInv'
  <2> s \in Ids
    BY DEF Ids
  <2>1. CASE Take(s)
    BY <2>1, GoesOn DEF Take, TakeReady, TakeDestroyed
  <2>2. CASE Give(s)
    BY <2>2, GoesOn DEF Give, GiveReady, GiveDestroyed
  <2>3. CASE Start(s)
    BY <2>3, GoesOn DEF Start
  <2>4. CASE Leave(s)
    BY <2>4, LeaveUnreadyEntry, LeaveReadyEntry DEF Leave
  <2>5. CASE Reset(s)
    BY <2>5, ResetEntry
  <2> QED BY <1>5, <2>1, <2>2, <2>3, <2>4, <2>5 DEF ThreadStep
<1>6. CASE MainStep
  <2> Main \in Ids
    BY DEF Ids
  <2>1. CASE Run
    <3>1. pc'[Main] = "rt"
      BY <2>1 DEF Run, Goto, TypeOK
    <3> QED BY <2>1, <3>1, GoesOn DEF Run
  <2>2. CASE RouterStops
    BY <2>2, GoesOn DEF RouterStops
  <2>3. CASE AfterRun
    <3>1. pc'[Main] = "done"
      BY <2>3 DEF AfterRun, Goto, TypeOK
    <3> QED BY <2>3, <3>1, GoesOn DEF AfterRun
  <2> QED BY <1>6, <2>1, <2>2, <2>3 DEF MainStep
<1> QED BY <1>1, <1>2, <1>3, <1>4, <1>5, <1>6 DEF Next

LEMMA InitEntry == Init => EntryInv
<1> SUFFICES ASSUME Init PROVE EntryInv
  OBVIOUS
<1>1. Places
  BY TidsAssumption DEF Init, Places, MainLabels, Ids
<1>2. EntryAgrees
  BY TidsAssumption DEF Init, EntryAgrees, Ids
<1>3. Staying = {}
  BY TidsAssumption DEF Init, Staying, Ids
<1>4. running = Cardinality(Staying)
  BY <1>3, FS_EmptySet DEF Init
<1> QED BY <1>1, <1>2, <1>4, EntryParts DEF EntryInv

\* A thread runs exactly in a live entry, the mutex of the table is kept
\* exactly by a thread that waits for its own gate, and the counter that
\* stops the router holds the threads that have not begun to leave.
THEOREM EntriesCorrect == Spec => []EntriesAgree
<1>1. Init => TypeOK /\ EntryInv
  BY InitType, InitEntry
<1>2. TypeOK /\ EntryInv /\ [Next]_vars => (TypeOK /\ EntryInv)'
  BY NextType, NextEntry
<1>3. EntryInv => EntriesAgree
  BY DEF EntryInv
<1> QED BY <1>1, <1>2, <1>3, PTL DEF Spec

-----------------------------------------------------------------------------
(* The two gates of an entry *)

ReadyKeepers(s) == Cardinality(With("ready_token", s))
DestroyedKeepers(s) == Cardinality(With("destroyed_token", s))

ReadyGate(s) ==
  ready_sem[s] + ReadyKeepers(s) = IF is_ready[s] THEN 1 ELSE 0
Visible(s) == destroyed_sem[s] + leaving[s] + DestroyedKeepers(s) > 0

LEMMA Gates ==
  /\ ReadyGateAgrees <=> \A i \in Ids : ReadyGate(i)
  /\ GoneIsVisible <=> \A s \in Tids : ~live[s] => Visible(s)
BY DEF ReadyGateAgrees, GoneIsVisible, ReadyGate, Visible, ReadyKeepers,
       DestroyedKeepers

LEMMA KeepersType ==
  ASSUME NEW s
  PROVE  ReadyKeepers(s) \in Nat /\ DestroyedKeepers(s) \in Nat
BY WithTokens DEF ReadyKeepers, DestroyedKeepers

\* A step that leaves a gate, and those that keep its token, alone.
LEMMA ReadyGateStays ==
  ASSUME ReadyGateAgrees, UNCHANGED <<ready_sem, is_ready>>,
         \A s \in Ids : With("ready_token", s)' = With("ready_token", s)
  PROVE  ReadyGateAgrees'
BY Gates DEF ReadyGateAgrees

LEMMA VisibleStays ==
  ASSUME GoneIsVisible, UNCHANGED <<destroyed_sem, leaving, live>>,
         \A s \in Ids : With("destroyed_token", s)' = With("destroyed_token", s)
  PROVE  GoneIsVisible'
BY DEF GoneIsVisible, Ids

LEMMA NextReadyGate ==
  TypeOK /\ EntryInv /\ ReadyGateAgrees /\ [Next]_vars => ReadyGateAgrees'
<1> SUFFICES ASSUME TypeOK, EntryInv, ReadyGateAgrees, [Next]_vars
             PROVE  ReadyGateAgrees'
  OBVIOUS
<1> USE DEF table, gates, router, history
<1> DEFINE Same ==
      \A s \in Ids : With("ready_token", s)' = With("ready_token", s)
<1>1. CASE UNCHANGED vars
  <2>1. Same
    BY <1>1 DEF vars, With
  <2> QED BY <1>1, <2>1, ReadyGateStays DEF vars
<1>2. ASSUME NEW i \in Ids, Call(i) PROVE ReadyGateAgrees'
  <2>1. ASSUME NEW s \in Tids, Create(i, s) PROVE ReadyGateAgrees'
    <3>1. s \in Ids /\ Goto(s, "none", "start")
      BY <2>1, CreateEntry DEF Ids
    <3>2. Same
      BY <2>1, <3>1, ElsewhereWith DEF Create
    <3> QED BY <2>1, <3>2, ReadyGateStays DEF Create
  <2>2. ASSUME NEW s \in Tids, CreateFails(i, s) PROVE ReadyGateAgrees'
    <3>1. Same
      BY <2>2 DEF CreateFails, With
    <3> QED BY <2>2, <3>1, ReadyGateStays DEF CreateFails
  <2>3. CASE SignalReady(i)
    <3>1. \A s \in Ids : ReadyKeepers(s)' = ReadyKeepers(s)
      BY <2>3 DEF SignalReady, ReadyKeepers, With
    <3>2. ~is_ready[i] /\ is_ready'[i] /\ ready_sem'[i] = ready_sem[i] + 1
      BY <2>3 DEF SignalReady, TypeOK
    <3>3. \A s \in Ids \ {i} :
            ready_sem'[s] = ready_sem[s] /\ is_ready'[s] = is_ready[s]
      BY <2>3 DEF SignalReady, TypeOK
    <3>4. ASSUME NEW s \in Ids PROVE ReadyGate(s)'
      <4>1. ReadyGate(s) /\ ReadyKeepers(s) \in Nat /\ ready_sem[s] \in Nat
        BY Gates, KeepersType DEF TypeOK
      <4> QED BY <3>1, <3>2, <3>3, <4>1 DEF ReadyGate
    <3> QED BY <3>4, Gates DEF ReadyGateAgrees, ReadyGate, ReadyKeepers
  <2>4. ASSUME NEW s, NEW timed,
               WaitReady(i, s, timed) \/ WaitDestroyed(i, s, timed)
        PROVE  ReadyGateAgrees'
    <3>1. CASE WaitReady(i, s, timed)
      <4>1. Same
        BY <3>1, WaitWith DEF WaitReady
      <4> QED BY <3>1, <4>1, ReadyGateStays DEF WaitReady, Wait
    <3>2. CASE WaitDestroyed(i, s, timed)
      <4>1. Same
        BY <3>2, WaitWith DEF WaitDestroyed
      <4> QED BY <3>2, <4>1, ReadyGateStays DEF WaitDestroyed, Wait
    <3> QED BY <2>4, <3>1, <3>2
  <2>5. ASSUME NEW status, Exit(i, status) PROVE ReadyGateAgrees'
    <3>1. Same
      BY <2>5, ElsewhereWith DEF Exit
    <3> QED BY <2>5, <3>1, ReadyGateStays DEF Exit
  <2>6. CASE Return(i)
    <3>1. Same
      BY <2>6, ElsewhereWith DEF Return
    <3> QED BY <2>6, <3>1, ReadyGateStays DEF Return
  <2> QED BY <1>2, <2>1, <2>2, <2>3, <2>4, <2>5, <2>6 DEF Call
<1>3. ASSUME NEW i \in Ids, WaitExpires(i) PROVE ReadyGateAgrees'
  <2>1. Same
    BY <1>3, ElsewhereWith DEF WaitExpires
  <2> QED BY <1>3, <2>1, ReadyGateStays DEF WaitExpires
<1>4. ASSUME NEW i \in Ids, SignalDestroyed(i) PROVE ReadyGateAgrees'
  <2>1. Same
    BY <1>4 DEF SignalDestroyed, With
  <2> QED BY <1>4, <2>1, ReadyGateStays DEF SignalDestroyed
<1>5. ASSUME NEW t \in Tids, ThreadStep(t) PROVE ReadyGateAgrees'
  <2> t \in Ids
    BY DEF Ids
  <2>1. CASE TakeReady(t)
    <3> DEFINE on == waiting[t].on
    <3>1. on \in Ids /\ ready_sem[on] > 0
      BY <2>1 DEF TakeReady, TypeOK
    <3>2. ready_sem' = [ready_sem EXCEPT ![on] = @ - 1] /\ is_ready' = is_ready
      BY <2>1 DEF TakeReady
    <3>3. ASSUME NEW s \in Ids PROVE ReadyGate(s)'
      <4>1. ReadyGate(s) /\ ReadyKeepers(s) \in Nat /\ ready_sem[s] \in Nat
        BY Gates, KeepersType DEF TypeOK
      <4>2. ReadyKeepers(s)' = ReadyKeepers(s) + IF on = s THEN 1 ELSE 0
        BY <2>1, ArrivesWith DEF TakeReady, ReadyKeepers
      <4>3. ready_sem'[s] = ready_sem[s] - IF on = s THEN 1 ELSE 0
        BY <3>1, <3>2 DEF TypeOK
      <4> HIDE DEF on
      <4> QED BY <3>2, <4>1, <4>2, <4>3 DEF ReadyGate
    <3> QED BY <3>3, Gates DEF ReadyGateAgrees, ReadyGate, ReadyKeepers
  <2>2. CASE GiveReady(t)
    <3> DEFINE on == waiting[t].on
    <3>1. on \in Ids
      BY DEF TypeOK
    <3>2. ready_sem' = [ready_sem EXCEPT ![on] = @ + 1] /\ is_ready' = is_ready
      BY <2>2 DEF GiveReady
    <3>3. ASSUME NEW s \in Ids PROVE ReadyGate(s)'
      <4>1. ReadyGate(s) /\ ReadyKeepers(s) \in Nat /\ ready_sem[s] \in Nat
        BY Gates, KeepersType DEF TypeOK
      <4>2. ReadyKeepers(s)' = ReadyKeepers(s) - IF on = s THEN 1 ELSE 0
        BY <2>2, DepartsWith DEF GiveReady, ReadyKeepers
      <4>3. ready_sem'[s] = ready_sem[s] + IF on = s THEN 1 ELSE 0
        BY <3>1, <3>2 DEF TypeOK
      <4> HIDE DEF on
      <4> QED BY <3>2, <4>1, <4>2, <4>3 DEF ReadyGate
    <3> QED BY <3>3, Gates DEF ReadyGateAgrees, ReadyGate, ReadyKeepers
  <2>3. CASE TakeDestroyed(t)
    <3>1. Same
      BY <2>3, ElsewhereWith DEF TakeDestroyed
    <3> QED BY <2>3, <3>1, ReadyGateStays DEF TakeDestroyed
  <2>4. CASE GiveDestroyed(t)
    <3>1. Same
      BY <2>4, ElsewhereWith DEF GiveDestroyed
    <3> QED BY <2>4, <3>1, ReadyGateStays DEF GiveDestroyed
  <2>5. CASE Start(t)
    <3>1. Same
      BY <2>5, StartWith
    <3> QED BY <2>5, <3>1, ReadyGateStays DEF Start
  <2>6. CASE LeaveUnready(t)
    <3>1. Same
      BY <2>6, LeaveUnreadyEntry, ElsewhereWith DEF LeaveUnready
    <3> QED BY <2>6, <3>1, ReadyGateStays DEF LeaveUnready
  <2>7. CASE LeaveReady(t)
    <3>1. Same
      BY <2>7, ElsewhereWith DEF LeaveReady
    <3> QED BY <2>7, <3>1, ReadyGateStays DEF LeaveReady
  <2>8. CASE Reset(t)
    <3>1. Same
      <4>1. Goto(t, "resetting", "none") /\ waiting' = waiting
        BY <2>8, ResetEntry DEF Reset
      <4> QED BY <4>1, ElsewhereWith
    <3>2. /\ ready_sem[t] > 0
          /\ ready_sem' = [ready_sem EXCEPT ![t] = @ - 1]
          /\ is_ready' = [is_ready EXCEPT ![t] = FALSE]
      BY <2>8 DEF Reset
    <3>3. ASSUME NEW s \in Ids PROVE ReadyGate(s)'
      <4>1. ReadyGate(s) /\ ReadyKeepers(s) \in Nat /\ ready_sem[s] \in Nat
        BY Gates, KeepersType DEF TypeOK
      <4>2. ReadyKeepers(s)' = ReadyKeepers(s)
        BY <3>1 DEF ReadyKeepers
      <4>3. /\ ready_sem'[s] = ready_sem[s] - IF s = t THEN 1 ELSE 0
            /\ s = t => ~is_ready'[s]
            /\ s # t => (is_ready'[s] <=> is_ready[s])
        BY <3>2 DEF TypeOK
      <4>4. CASE s = t
        BY <3>2, <4>1, <4>2, <4>3, <4>4 DEF ReadyGate
      <4>5. CASE s # t
        BY <4>1, <4>2, <4>3, <4>5 DEF ReadyGate
      <4> QED BY <4>4, <4>5
    <3> QED BY <3>3, Gates DEF ReadyGateAgrees, ReadyGate, ReadyKeepers
  <2> QED
    BY <1>5, <2>1, <2>2, <2>3, <2>4, <2>5, <2>6, <2>7, <2>8
       DEF ThreadStep, Take, Give, Leave
<1>6. CASE MainStep
  <2> Main \in Ids
    BY DEF Ids
  <2>1. CASE Run
    <3>1. Same
      BY <2>1, ElsewhereWith DEF Run
    <3>2. /\ ~is_ready[Main]
          /\ ready_sem' = [ready_sem EXCEPT ![Main] = @ + 1]
          /\ is_ready' = [is_ready EXCEPT ![Main] = TRUE]
      BY <2>1 DEF Run, Goto, EntryInv, Places
    <3>3. ASSUME NEW s \in Ids PROVE ReadyGate(s)'
      <4>1. ReadyGate(s) /\ ReadyKeepers(s) \in Nat /\ ready_sem[s] \in Nat
        BY Gates, KeepersType DEF TypeOK
      <4>2. ReadyKeepers(s)' = ReadyKeepers(s)
        BY <3>1 DEF ReadyKeepers
      <4>3. /\ ready_sem'[s] = ready_sem[s] + IF s = Main THEN 1 ELSE 0
            /\ s = Main => is_ready'[s]
            /\ s # Main => (is_ready'[s] <=> is_ready[s])
        BY <3>2 DEF TypeOK
      <4>4. CASE s = Main
        BY <3>2, <4>1, <4>2, <4>3, <4>4 DEF ReadyGate
      <4>5. CASE s # Main
        BY <4>1, <4>2, <4>3, <4>5 DEF ReadyGate
      <4> QED BY <4>4, <4>5
    <3> QED BY <3>3, Gates DEF ReadyGateAgrees, ReadyGate, ReadyKeepers
  <2>2. CASE RouterStops
    <3>1. Same
      BY <2>2, ElsewhereWith DEF RouterStops
    <3> QED BY <2>2, <3>1, ReadyGateStays DEF RouterStops
  <2>3. CASE AfterRun
    <3>1. Same
      BY <2>3, ElsewhereWith DEF AfterRun
    <3>2. /\ ready_sem[Main] > 0
          /\ ready_sem' = [ready_sem EXCEPT ![Main] = @ - 1]
          /\ is_ready' = [is_ready EXCEPT ![Main] = FALSE]
      BY <2>3 DEF AfterRun
    <3>3. ASSUME NEW s \in Ids PROVE ReadyGate(s)'
      <4>1. ReadyGate(s) /\ ReadyKeepers(s) \in Nat /\ ready_sem[s] \in Nat
        BY Gates, KeepersType DEF TypeOK
      <4>2. ReadyKeepers(s)' = ReadyKeepers(s)
        BY <3>1 DEF ReadyKeepers
      <4>3. /\ ready_sem'[s] = ready_sem[s] - IF s = Main THEN 1 ELSE 0
            /\ s = Main => ~is_ready'[s]
            /\ s # Main => (is_ready'[s] <=> is_ready[s])
        BY <3>2 DEF TypeOK
      <4>4. CASE s = Main
        BY <3>2, <4>1, <4>2, <4>3, <4>4 DEF ReadyGate
      <4>5. CASE s # Main
        BY <4>1, <4>2, <4>3, <4>5 DEF ReadyGate
      <4> QED BY <4>4, <4>5
    <3> QED BY <3>3, Gates DEF ReadyGateAgrees, ReadyGate, ReadyKeepers
  <2> QED BY <1>6, <2>1, <2>2, <2>3 DEF MainStep
<1> QED BY <1>1, <1>2, <1>3, <1>4, <1>5, <1>6 DEF Next

LEMMA NextVisible ==
  TypeOK /\ EntryInv /\ GoneIsVisible /\ [Next]_vars => GoneIsVisible'
<1> SUFFICES ASSUME TypeOK, EntryInv, GoneIsVisible, [Next]_vars
             PROVE  GoneIsVisible'
  OBVIOUS
<1> USE DEF table, gates, router, history
<1> DEFINE Same ==
      \A s \in Ids : With("destroyed_token", s)' = With("destroyed_token", s)
<1>1. \A s \in Tids :
        /\ s \in Ids /\ DestroyedKeepers(s) \in Nat
        /\ destroyed_sem[s] \in Nat /\ leaving[s] \in Nat
        /\ ~live[s] => Visible(s)
  BY Gates, KeepersType DEF TypeOK, Ids
<1>2. ASSUME \A s \in Tids : ~live'[s] => Visible(s)' PROVE GoneIsVisible'
  BY <1>2 DEF GoneIsVisible, Visible, DestroyedKeepers
<1>3. CASE UNCHANGED vars
  <2>1. Same
    BY <1>3 DEF vars, With
  <2> QED BY <1>3, <2>1, VisibleStays DEF vars
<1>4. ASSUME NEW i \in Ids, Call(i) PROVE GoneIsVisible'
  <2>1. ASSUME NEW t \in Tids, Create(i, t) PROVE GoneIsVisible'
    <3>1. Goto(t, "none", "start") /\ t \in Ids /\ waiting' = waiting
      BY <1>1, <2>1, CreateEntry DEF Create
    <3>2. \A s \in Ids :
            With("destroyed_token", s)' = With("destroyed_token", s)
      BY <3>1, ElsewhereWith
    <3>3. /\ live'[t] /\ leaving' = leaving
          /\ \A s \in Tids \ {t} :
               (live'[s] <=> live[s]) /\ destroyed_sem'[s] = destroyed_sem[s]
      BY <1>1, <2>1 DEF Create, TypeOK
    <3>4. ASSUME NEW s \in Tids, ~live'[s] PROVE Visible(s)'
      BY <1>1, <3>2, <3>3, <3>4 DEF Visible, DestroyedKeepers
    <3> QED BY <1>2, <3>4
  <2>2. ASSUME NEW t \in Tids, CreateFails(i, t) PROVE GoneIsVisible'
    <3>1. Closed(t) \in Nat
      BY <1>1, ClosedType
    <3>2. /\ destroyed_sem'[t] \in Nat /\ destroyed_sem'[t] > 0
          /\ leaving' = leaving /\ live' = live
          /\ \A s \in Tids \ {t} : destroyed_sem'[s] = destroyed_sem[s]
      BY <1>1, <2>2, <3>1 DEF CreateFails, TypeOK
    <3>3. \A s \in Ids : DestroyedKeepers(s)' = DestroyedKeepers(s)
      BY <2>2 DEF CreateFails, DestroyedKeepers, With
    <3>4. ASSUME NEW s \in Tids, ~live'[s] PROVE Visible(s)'
      BY <1>1, <3>2, <3>3, <3>4 DEF Visible
    <3> QED BY <1>2, <3>4
  <2>3. CASE SignalReady(i)
    <3>1. Same
      BY <2>3 DEF SignalReady, With
    <3> QED BY <2>3, <3>1, VisibleStays DEF SignalReady
  <2>4. ASSUME NEW s, NEW timed,
               WaitReady(i, s, timed) \/ WaitDestroyed(i, s, timed)
        PROVE  GoneIsVisible'
    <3>1. CASE WaitReady(i, s, timed)
      <4>1. Same
        BY <3>1, WaitWith DEF WaitReady
      <4> QED BY <3>1, <4>1, VisibleStays DEF WaitReady, Wait
    <3>2. CASE WaitDestroyed(i, s, timed)
      <4>1. Same
        BY <3>2, WaitWith DEF WaitDestroyed
      <4> QED BY <3>2, <4>1, VisibleStays DEF WaitDestroyed, Wait
    <3> QED BY <2>4, <3>1, <3>2
  <2>5. ASSUME NEW status, Exit(i, status) PROVE GoneIsVisible'
    <3>1. Same
      BY <2>5, ElsewhereWith DEF Exit
    <3> QED BY <2>5, <3>1, VisibleStays DEF Exit
  <2>6. CASE Return(i)
    <3>1. Same
      BY <2>6, ElsewhereWith DEF Return
    <3> QED BY <2>6, <3>1, VisibleStays DEF Return
  <2> QED BY <1>4, <2>1, <2>2, <2>3, <2>4, <2>5, <2>6 DEF Call
<1>5. ASSUME NEW i \in Ids, WaitExpires(i) PROVE GoneIsVisible'
  <2>1. Same
    BY <1>5, ElsewhereWith DEF WaitExpires
  <2> QED BY <1>5, <2>1, VisibleStays DEF WaitExpires
<1>6. ASSUME NEW i \in Ids, SignalDestroyed(i) PROVE GoneIsVisible'
  <2>1. \A s \in Ids : DestroyedKeepers(s)' = DestroyedKeepers(s)
    BY <1>6 DEF SignalDestroyed, DestroyedKeepers, With
  <2>2. ASSUME NEW s \in Tids, ~live'[s] PROVE Visible(s)'
    <3>1. ~live[s]
      BY <1>6, <2>2 DEF SignalDestroyed
    <3>2. destroyed_sem'[s] + leaving'[s] = destroyed_sem[s] + leaving[s]
      BY <1>1, <1>6 DEF SignalDestroyed, TypeOK
    <3>3. destroyed_sem'[s] \in Nat /\ leaving'[s] \in Nat
      BY <1>1, <1>6, NextType DEF TypeOK
    <3> QED BY <1>1, <2>1, <3>1, <3>2, <3>3 DEF Visible
  <2> QED BY <1>2, <2>2
<1>7. ASSUME NEW t \in Tids, ThreadStep(t) PROVE GoneIsVisible'
  <2> t \in Ids
    BY DEF Ids
  <2>1. CASE TakeReady(t)
    <3>1. Same
      BY <2>1, ElsewhereWith DEF TakeReady
    <3> QED BY <2>1, <3>1, VisibleStays DEF TakeReady
  <2>2. CASE GiveReady(t)
    <3>1. Same
      BY <2>2, ElsewhereWith DEF GiveReady
    <3> QED BY <2>2, <3>1, VisibleStays DEF GiveReady
  <2>3. CASE TakeDestroyed(t)
    <3> DEFINE on == waiting[t].on
    <3>1. on \in Ids /\ destroyed_sem[on] > 0
          /\ live' = live /\ leaving' = leaving
      BY <2>3 DEF TakeDestroyed, TypeOK
    <3>2. destroyed_sem' = [destroyed_sem EXCEPT ![on] = @ - 1]
      BY <2>3 DEF TakeDestroyed
    <3>3. ASSUME NEW s \in Tids, ~live'[s] PROVE Visible(s)'
      <4>1. DestroyedKeepers(s)' =
              DestroyedKeepers(s) + IF on = s THEN 1 ELSE 0
        BY <2>3, ArrivesWith DEF TakeDestroyed, DestroyedKeepers
      <4>2. destroyed_sem'[s] = destroyed_sem[s] - IF on = s THEN 1 ELSE 0
        BY <1>1, <3>1, <3>2 DEF TypeOK
      <4>3. ~live[s]
        BY <3>1, <3>3
      <4> HIDE DEF on
      <4> QED BY <1>1, <3>1, <4>1, <4>2, <4>3 DEF Visible
    <3> QED BY <1>2, <3>3
  <2>4. CASE GiveDestroyed(t)
    <3> DEFINE on == waiting[t].on
    <3>1. on \in Ids /\ live' = live /\ leaving' = leaving
      BY <2>4 DEF GiveDestroyed, TypeOK
    <3>2. destroyed_sem' = [destroyed_sem EXCEPT ![on] = @ + 1]
      BY <2>4 DEF GiveDestroyed
    <3>3. ASSUME NEW s \in Tids, ~live'[s] PROVE Visible(s)'
      <4>1. DestroyedKeepers(s)' =
              DestroyedKeepers(s) - IF on = s THEN 1 ELSE 0
        BY <2>4, DepartsWith DEF GiveDestroyed, DestroyedKeepers
      <4>2. destroyed_sem'[s] = destroyed_sem[s] + IF on = s THEN 1 ELSE 0
        BY <1>1, <3>1, <3>2 DEF TypeOK
      <4>3. ~live[s]
        BY <3>1, <3>3
      <4> HIDE DEF on
      <4> QED BY <1>1, <3>1, <4>1, <4>2, <4>3 DEF Visible
    <3> QED BY <1>2, <3>3
  <2>5. CASE Start(t)
    <3>1. Same
      BY <2>5, StartWith
    <3> QED BY <2>5, <3>1, VisibleStays DEF Start
  <2>6. ASSUME LeaveEntry(t),
               Goto(t, "freeing", "none") \/ Goto(t, "resetting", "none"),
               UNCHANGED <<waiting, destroyed_sem>>
        PROVE  GoneIsVisible'
    <3>1. \A s \in Ids : DestroyedKeepers(s)' = DestroyedKeepers(s)
      BY <2>6, ElsewhereWith DEF DestroyedKeepers
    <3>2. /\ leaving'[t] \in Nat /\ leaving'[t] > 0
          /\ \A s \in Tids \ {t} :
               (live'[s] <=> live[s]) /\ leaving'[s] = leaving[s]
      BY <1>1, <2>6 DEF LeaveEntry, TypeOK
    <3>3. ASSUME NEW s \in Tids, ~live'[s] PROVE Visible(s)'
      BY <1>1, <2>6, <3>1, <3>2, <3>3 DEF Visible
    <3> QED BY <1>2, <3>3
  <2>7. CASE LeaveUnready(t)
    BY <2>6, <2>7, LeaveUnreadyEntry DEF LeaveUnready
  <2>8. CASE LeaveReady(t)
    <3>1. Same
      BY <2>8, ElsewhereWith DEF LeaveReady
    <3> QED BY <2>8, <3>1, VisibleStays DEF LeaveReady
  <2>9. CASE Reset(t)
    BY <2>6, <2>9, ResetEntry DEF Reset
  <2> QED
    BY <1>7, <2>1, <2>2, <2>3, <2>4, <2>5, <2>7, <2>8, <2>9
       DEF ThreadStep, Take, Give, Leave
<1>8. CASE MainStep
  <2> Main \in Ids
    BY DEF Ids
  <2>1. CASE Run
    <3>1. Same
      BY <2>1, ElsewhereWith DEF Run
    <3> QED BY <2>1, <3>1, VisibleStays DEF Run
  <2>2. CASE RouterStops
    <3>1. Same
      BY <2>2, ElsewhereWith DEF RouterStops
    <3> QED BY <2>2, <3>1, VisibleStays DEF RouterStops
  <2>3. CASE AfterRun
    <3>1. \A s \in Ids : DestroyedKeepers(s)' = DestroyedKeepers(s)
      BY <2>3, ElsewhereWith DEF AfterRun, DestroyedKeepers
    <3>2. \A s \in Tids : leaving'[s] = leaving[s]
      BY <2>3, TidsAssumption DEF AfterRun, TypeOK, Ids
    <3>3. ASSUME NEW s \in Tids, ~live'[s] PROVE Visible(s)'
      BY <1>1, <2>3, <3>1, <3>2, <3>3 DEF Visible, AfterRun
    <3> QED BY <1>2, <3>3
  <2> QED BY <1>8, <2>1, <2>2, <2>3 DEF MainStep
<1> QED BY <1>3, <1>4, <1>5, <1>6, <1>7, <1>8 DEF Next

LEMMA InitGates == Init => ReadyGateAgrees /\ GoneIsVisible
<1> SUFFICES ASSUME Init PROVE ReadyGateAgrees /\ GoneIsVisible
  OBVIOUS
<1>1. \A s \in Ids :
        With("ready_token", s) = {} /\ With("destroyed_token", s) = {}
  BY DEF Init, With
<1>2. \A s \in Ids : ReadyKeepers(s) = 0 /\ DestroyedKeepers(s) = 0
  BY <1>1, FS_EmptySet DEF ReadyKeepers, DestroyedKeepers
<1>3. \A s \in Ids :
        /\ ready_sem[s] = 0 /\ ~is_ready[s]
        /\ destroyed_sem[s] = 1 /\ leaving[s] = 0
  BY DEF Init
<1>4. \A s \in Ids : ReadyGate(s) /\ Visible(s)
  BY <1>2, <1>3 DEF ReadyGate, Visible
<1> QED BY <1>4, Gates DEF Ids

\* The ready gate has its one token exactly from SAL_Signal_Ready to the end
\* of its thread, in the semaphore or in the hands of one waiter.
THEOREM ReadyGateCorrect == Spec => []ReadyGateAgrees
<1>1. Init => TypeOK /\ EntryInv /\ ReadyGateAgrees
  BY InitType, InitEntry, InitGates
<1>2. TypeOK /\ EntryInv /\ ReadyGateAgrees /\ [Next]_vars
        => (TypeOK /\ EntryInv /\ ReadyGateAgrees)'
  BY NextType, NextEntry, NextReadyGate
<1> QED BY <1>1, <1>2, PTL DEF Spec

\* While an entry is free its destroyed gate is open, or will be after the
\* last step of a thread that left it or that passes it: the end of a thread
\* cannot be missed.
THEOREM EndIsVisible == Spec => []GoneIsVisible
<1>1. Init => TypeOK /\ EntryInv /\ GoneIsVisible
  BY InitType, InitEntry, InitGates
<1>2. TypeOK /\ EntryInv /\ GoneIsVisible /\ [Next]_vars
        => (TypeOK /\ EntryInv /\ GoneIsVisible)'
  BY NextType, NextEntry, NextVisible
<1> QED BY <1>1, <1>2, PTL DEF Spec

-----------------------------------------------------------------------------
(* Shared memory *)

CONSTANTS Processes, Objects, Sizes, None
VARIABLE shm

SM == INSTANCE SharedMemory

ShmAssumption == Sizes \subseteq Nat \ {0} /\ Objects \subseteq Nat /\ None \notin Objects

Handles ==
  [pc : {"closed", "truncate", "map", "open", "unlink", "stat", "view"},
   object : Objects \cup {None}, size : Nat, owner : BOOLEAN, writes : BOOLEAN]

Shms ==
  [name : Objects \cup {None}, size : [Objects -> Nat], used : Nat,
   proc : [Processes -> Handles],
   rival : BOOLEAN, crashed : BOOLEAN, shrunk : BOOLEAN]

\* Who creates the area or is about to unlink it owns it, who looks at it does not.
HandleOK(h) ==
  /\ h.pc \in {"closed", "stat", "view"} => ~ h.owner
  /\ h.pc \in {"truncate", "map", "unlink"} => h.owner
  /\ h.pc # "closed" => h.object \in Objects
  /\ h.pc \in {"truncate", "map", "open"} => h.size > 0

OneOwner ==
  ~ shm.rival => \A p, q \in Processes : SM!Owning(p) /\ SM!Owning(q) => p = q

\* The object is as large as a process has made or seen it.
Backed ==
  ~ shm.shrunk => \A p \in Processes :
    shm.proc[p].pc \in {"map", "view", "open"}
      => shm.proc[p].size <= shm.size[shm.proc[p].object]

ShmInv ==
  /\ shm \in Shms /\ \A p \in Processes : HandleOK(shm.proc[p])
  /\ OneOwner /\ SM!OwnerIsFound /\ Backed /\ SM!ClosedIsGone

LEMMA ShmInit ==
  ASSUME ShmAssumption, SM!Init
  PROVE  ShmInv
<1>1. shm = [name |-> None, size |-> [o \in Objects |-> 0], used |-> 0,
             proc |-> [p \in Processes |-> SM!Closed],
             rival |-> FALSE, crashed |-> FALSE, shrunk |-> FALSE]
  BY DEF SM!Init
<1>2. SM!Closed \in Handles /\ HandleOK(SM!Closed) /\ SM!Closed.owner = FALSE
      /\ SM!Closed.pc = "closed"
  BY DEF SM!Closed, Handles, HandleOK
<1>3. shm \in Shms
  BY <1>1, <1>2 DEF Shms
<1>4. \A p \in Processes : shm.proc[p] = SM!Closed
  BY <1>1
<1> QED
  BY <1>1, <1>2, <1>3, <1>4
     DEF ShmInv, OneOwner, SM!OwnerIsFound, SM!Owning, Backed, SM!ClosedIsGone

\* Process p goes on with h, and nothing else changes.
Becomes(p, h) ==
  /\ shm' = [shm EXCEPT !.proc[p] = h]
  /\ h \in Handles /\ HandleOK(h)
  /\ h.owner = shm.proc[p].owner
  /\ h.owner => h.object = shm.proc[p].object
  /\ ~ shm.shrunk /\ h.pc \in {"map", "view", "open"} => h.size <= shm.size[h.object]

LEMMA ShmBecomes ==
  ASSUME ShmAssumption, ShmInv, NEW p \in Processes, NEW h, Becomes(p, h)
  PROVE  ShmInv'
<1>1. ShmInv /\ shm \in Shms
  BY DEF ShmInv
<1>2. /\ shm' \in Shms /\ shm'.name = shm.name /\ shm'.size = shm.size
      /\ shm'.rival = shm.rival /\ shm'.crashed = shm.crashed /\ shm'.shrunk = shm.shrunk
      /\ shm'.proc = [shm.proc EXCEPT ![p] = h]
  BY <1>1 DEF Becomes, Shms
<1>3. /\ shm'.proc[p] = h
      /\ \A q \in Processes \ {p} : shm'.proc[q] = shm.proc[q]
  BY <1>1, <1>2 DEF Shms
<1>4. \A q \in Processes : /\ HandleOK(shm'.proc[q])
                           /\ shm'.proc[q].owner = shm.proc[q].owner
                           /\ shm'.proc[q].owner => shm'.proc[q].object = shm.proc[q].object
  BY <1>1, <1>3 DEF Becomes, ShmInv
<1>5. Backed'
  BY <1>1, <1>2, <1>3 DEF Becomes, ShmInv, Backed
<1>6. OneOwner' /\ SM!OwnerIsFound' /\ SM!ClosedIsGone'
  BY <1>1, <1>2, <1>4
     DEF ShmInv, OneOwner, SM!OwnerIsFound, SM!Owning, SM!ClosedIsGone
<1> QED
  BY <1>2, <1>4, <1>5, <1>6 DEF ShmInv

LEMMA ShmSimple ==
  ASSUME ShmAssumption, ShmInv, NEW p \in Processes,
         \/ SM!Mapped(p) \/ SM!CreateFails(p) \/ SM!OpenOpen(p) \/ SM!Stat(p)
         \/ SM!Viewed(p) \/ SM!OpenFails(p) \/ SM!Close(p)
  PROVE  ShmInv'
<1>1. /\ shm \in Shms /\ shm.proc[p] \in Handles /\ HandleOK(shm.proc[p])
      /\ shm.proc \in [Processes -> Handles]
      /\ ~ shm.shrunk /\ shm.proc[p].pc \in {"map", "view", "open"}
           => shm.proc[p].size <= shm.size[shm.proc[p].object]
      /\ shm.size \in [Objects -> Nat]
  BY DEF ShmInv, Shms, Backed
<1> DEFINE h == shm.proc[p]
<1>2. CASE SM!Mapped(p) \/ SM!CreateFails(p) \/ SM!Viewed(p) \/ (SM!Close(p) /\ h.owner)
  <2>1. PICK to \in {"open", "unlink"} :
          /\ shm' = [shm EXCEPT !.proc[p].pc = to]
          /\ to = "open" => h.pc \in {"map", "view"} /\ h.size > 0
          /\ to = "unlink" => h.owner /\ h.pc # "closed"
    BY <1>1, <1>2 DEF HandleOK, SM!Mapped, SM!CreateFails, SM!Viewed, SM!Close, SM!Open, SM!Owning, SM!At
  <2>2. shm' = [shm EXCEPT !.proc[p] = [h EXCEPT !.pc = to]]
    BY <1>1, <2>1 DEF Shms, Handles
  <2>3. [h EXCEPT !.pc = to] \in Handles /\ HandleOK([h EXCEPT !.pc = to])
    BY <1>1, <2>1 DEF Handles, HandleOK
  <2>4. Becomes(p, [h EXCEPT !.pc = to])
    BY <1>1, <2>1, <2>2, <2>3 DEF Becomes, Handles
  <2> QED BY <2>4, ShmBecomes
<1>3. CASE SM!OpenFails(p) \/ (SM!Close(p) /\ ~ h.owner)
  <2>1. shm' = [shm EXCEPT !.proc[p] = SM!Closed] /\ ~ h.owner
    BY <1>1, <1>3 DEF SM!OpenFails, SM!Close, SM!Owning, SM!At, HandleOK
  <2>2. SM!Closed \in Handles /\ HandleOK(SM!Closed) /\ SM!Closed.owner = FALSE
        /\ SM!Closed.pc = "closed"
    BY DEF SM!Closed, Handles, HandleOK
  <2>3. Becomes(p, SM!Closed)
    BY <1>1, <2>1, <2>2 DEF Becomes, Handles
  <2> QED BY <2>3, ShmBecomes
<1>4. CASE SM!OpenOpen(p)
  <2> DEFINE new == [SM!Closed EXCEPT !.pc = "stat", !.object = shm.name]
  <2>1. shm' = [shm EXCEPT !.proc[p] = new] /\ h.pc = "closed" /\ shm.name \in Objects
    BY <1>1, <1>4 DEF SM!OpenOpen, SM!At, Shms
  <2>2. new \in Handles /\ HandleOK(new) /\ new.owner = FALSE /\ new.pc = "stat"
    BY <2>1 DEF SM!Closed, Handles, HandleOK
  <2>3. h.owner = FALSE
    BY <1>1, <2>1 DEF HandleOK, Handles
  <2> HIDE DEF new, h
  <2>4. Becomes(p, new)
    BY <2>1, <2>2, <2>3 DEF Becomes, h
  <2> QED BY <2>4, ShmBecomes
<1>5. CASE SM!Stat(p)
  <2> DEFINE new == [h EXCEPT !.pc = "view", !.size = shm.size[h.object]]
  <2>1. h.pc = "stat" /\ shm' = [shm EXCEPT !.proc[p].pc = "view",
                                            !.proc[p].size = shm.size[h.object]]
    BY <1>5 DEF SM!Stat, SM!At
  <2>2. h.object \in Objects
    BY <1>1, <2>1 DEF HandleOK
  <2>3. shm' = [shm EXCEPT !.proc[p] = new]
    BY <1>1, <2>1 DEF Shms, Handles
  <2>4. /\ new \in Handles /\ HandleOK(new) /\ new.owner = h.owner /\ new.object = h.object
        /\ new.size = shm.size[h.object] /\ new.size \in Nat
    BY <1>1, <2>1, <2>2 DEF Handles, HandleOK
  <2> HIDE DEF new, h
  <2>5. Becomes(p, new)
    BY <2>3, <2>4 DEF Becomes, h
  <2> QED BY <2>5, ShmBecomes
<1> QED
  BY <1>2, <1>3, <1>4, <1>5

LEMMA ShmCreateOpen ==
  ASSUME ShmAssumption, ShmInv, NEW p \in Processes, NEW size \in Sizes,
         NEW writes \in BOOLEAN, SM!CreateOpen(p, size, writes)
  PROVE  ShmInv'
<1> DEFINE o == IF shm.name = None THEN shm.used + 1 ELSE shm.name
           new == [pc |-> "truncate", object |-> o, size |-> size,
                   owner |-> TRUE, writes |-> writes]
           used == IF shm.name = None THEN o ELSE shm.used
           rival == shm.rival \/ \E q \in Processes : SM!Owning(q)
<1>1. /\ ShmInv /\ shm \in Shms /\ shm.proc[p].pc = "closed" /\ o \in Objects
      /\ shm' = [shm EXCEPT !.name = o, !.used = used, !.proc[p] = new, !.rival = rival]
  BY DEF ShmInv, Shms, SM!CreateOpen, SM!At
<1>2. /\ used \in Nat /\ rival \in BOOLEAN /\ new \in Handles /\ HandleOK(new)
      /\ new.owner /\ new.pc = "truncate" /\ new.object = o
  BY <1>1 DEF ShmAssumption, Shms, Handles, HandleOK
<1>3. ~ rival => ~ shm.rival /\ \A q \in Processes : ~ shm.proc[q].owner
  BY DEF SM!Owning
<1> HIDE DEF o, used, rival, new
<1>4. /\ shm' \in Shms /\ shm'.name = o /\ shm'.size = shm.size /\ shm'.rival = rival
      /\ shm'.crashed = shm.crashed /\ shm'.shrunk = shm.shrunk
      /\ shm'.proc = [shm.proc EXCEPT ![p] = new]
  BY <1>1, <1>2 DEF Shms
<1>5. /\ shm'.proc[p] = new
      /\ \A q \in Processes \ {p} : shm'.proc[q] = shm.proc[q]
  BY <1>1, <1>4 DEF Shms
<1>6. \A q \in Processes : HandleOK(shm'.proc[q])
  BY <1>1, <1>2, <1>5 DEF ShmInv
<1>7. OneOwner' /\ SM!OwnerIsFound' /\ SM!ClosedIsGone'
  BY <1>2, <1>3, <1>4, <1>5 DEF OneOwner, SM!OwnerIsFound, SM!Owning, SM!ClosedIsGone
<1>8. Backed'
  BY <1>1, <1>2, <1>4, <1>5 DEF ShmInv, Backed
<1> QED
  BY <1>4, <1>6, <1>7, <1>8 DEF ShmInv

LEMMA ShmTruncate ==
  ASSUME ShmAssumption, ShmInv, NEW p \in Processes, SM!Truncate(p)
  PROVE  ShmInv'
<1> DEFINE h == shm.proc[p]
           o == h.object
           n == h.size
           new == [h EXCEPT !.pc = "map"]
           shrunk == shm.shrunk \/ \E q \in Processes \ {p} :
                       /\ shm.proc[q].pc \in {"map", "view", "open"}
                       /\ shm.proc[q].object = o /\ shm.proc[q].size > n
<1>1. /\ ShmInv /\ shm \in Shms /\ h \in Handles /\ HandleOK(h) /\ h.pc = "truncate"
      /\ shm' = [shm EXCEPT !.proc[p].pc = "map", !.size[o] = n, !.shrunk = shrunk]
  BY DEF ShmInv, Shms, SM!Truncate, SM!At
<1>2. /\ new \in Handles /\ HandleOK(new) /\ new.owner = h.owner /\ new.object = o
      /\ new.size = n /\ new.pc = "map" /\ o \in Objects /\ n \in Nat
      /\ shrunk \in BOOLEAN
  BY <1>1 DEF Handles, HandleOK
<1>3. /\ shm' \in Shms /\ shm'.name = shm.name /\ shm'.rival = shm.rival
      /\ shm'.crashed = shm.crashed /\ shm'.shrunk = shrunk
      /\ shm'.size = [shm.size EXCEPT ![o] = n]
      /\ shm'.proc = [shm.proc EXCEPT ![p] = new]
  <2>1. shm' = [shm EXCEPT !.proc[p] = new, !.size[o] = n, !.shrunk = shrunk]
    BY <1>1 DEF Shms, Handles
  <2> HIDE DEF new, n, shrunk, o, h
  <2>2. [shm EXCEPT !.proc[p] = new, !.size[o] = n, !.shrunk = shrunk] \in Shms
    BY <1>1, <1>2 DEF Shms
  <2> QED BY <1>1, <2>1, <2>2 DEF Shms
<1>4. ~ shrunk => /\ ~ shm.shrunk
                  /\ \A q \in Processes \ {p} :
                       shm.proc[q].pc \in {"map", "view", "open"} /\ shm.proc[q].object = o
                         => ~ (shm.proc[q].size > n)
  OBVIOUS
<1> HIDE DEF new, shrunk
<1>5. /\ shm'.proc[p] = new
      /\ \A q \in Processes \ {p} : shm'.proc[q] = shm.proc[q]
      /\ shm'.size[o] = n /\ \A b \in Objects \ {o} : shm'.size[b] = shm.size[b]
  BY <1>1, <1>2, <1>3 DEF Shms
<1>6. \A q \in Processes : /\ HandleOK(shm'.proc[q])
                           /\ shm'.proc[q].owner = shm.proc[q].owner
                           /\ shm'.proc[q].object = shm.proc[q].object
  BY <1>1, <1>2, <1>5 DEF ShmInv
<1>7. OneOwner' /\ SM!OwnerIsFound' /\ SM!ClosedIsGone'
  BY <1>1, <1>3, <1>6 DEF ShmInv, OneOwner, SM!OwnerIsFound, SM!Owning, SM!ClosedIsGone
<1>8. Backed'
  <2> SUFFICES ASSUME ~ shrunk, NEW q \in Processes,
                      shm'.proc[q].pc \in {"map", "view", "open"}
               PROVE  shm'.proc[q].size <= shm'.size[shm'.proc[q].object]
    BY <1>3 DEF Backed
  <2>1. CASE q = p
    BY <1>2, <1>5, <2>1
  <2>2. CASE q # p
    <3>1. shm.proc[q].object \in Objects /\ shm.proc[q].size \in Nat
      BY <1>1, <1>5, <2>2 DEF ShmInv, HandleOK, Shms, Handles
    <3>2. shm.proc[q].size <= shm.size[shm.proc[q].object]
      BY <1>1, <1>4, <1>5, <2>2 DEF ShmInv, Backed
    <3> QED BY <1>2, <1>4, <1>5, <2>2, <3>1, <3>2
  <2> QED BY <2>1, <2>2
<1> QED
  BY <1>3, <1>6, <1>7, <1>8 DEF ShmInv

LEMMA ShmEnds ==
  ASSUME ShmAssumption, ShmInv, NEW p \in Processes, SM!Unlink(p) \/ SM!Crash(p)
  PROVE  ShmInv'
<1>1. ShmInv /\ shm \in Shms /\ HandleOK(shm.proc[p])
  BY DEF ShmInv
<1>2. SM!Closed \in Handles /\ HandleOK(SM!Closed) /\ ~ SM!Closed.owner
      /\ SM!Closed.pc = "closed"
  BY DEF SM!Closed, Handles, HandleOK
<1>3. /\ shm' \in Shms /\ shm'.size = shm.size /\ shm'.rival = shm.rival
      /\ shm'.shrunk = shm.shrunk /\ shm'.proc = [shm.proc EXCEPT ![p] = SM!Closed]
      /\ \/ shm'.crashed /\ shm'.name = shm.name
         \/ shm'.name = None /\ shm.proc[p].owner
  <2>1. CASE SM!Unlink(p)
    BY <1>1, <1>2, <2>1 DEF SM!Unlink, SM!At, HandleOK, Shms
  <2>2. CASE SM!Crash(p)
    BY <1>1, <1>2, <2>2 DEF SM!Crash, Shms
  <2> QED BY <2>1, <2>2
<1>4. /\ shm'.proc[p] = SM!Closed
      /\ \A q \in Processes \ {p} : shm'.proc[q] = shm.proc[q]
  BY <1>1, <1>3 DEF Shms
<1>5. \A q \in Processes : HandleOK(shm'.proc[q])
  BY <1>1, <1>2, <1>4 DEF ShmInv
<1>6. OneOwner' /\ SM!OwnerIsFound' /\ SM!ClosedIsGone' /\ Backed'
  BY <1>1, <1>2, <1>3, <1>4
     DEF ShmInv, OneOwner, SM!OwnerIsFound, SM!Owning, SM!ClosedIsGone, Backed
<1> QED
  BY <1>3, <1>5, <1>6 DEF ShmInv

(* For any processes and sizes: the area of the only owner is the one that   *)
(* others would open, a process that opened it can use all the bytes it has  *)
(* seen until an owner makes it smaller, and without a crash no name         *)
(* outlives its owner (xsal_create_shared_memory.c).                         *)
THEOREM SharedMemoryIsOwned ==
  ASSUME ShmAssumption
  PROVE  SM!Spec => [](SM!OwnerIsFound /\ SM!MapsAreBacked /\ SM!ClosedIsGone)
<1>1. SM!Init => ShmInv
  BY ShmInit
<1>2. ShmInv /\ [SM!Next]_shm => ShmInv'
  <2>1. CASE shm' = shm
    BY <2>1 DEF ShmInv, OneOwner, SM!OwnerIsFound, SM!Owning, SM!ClosedIsGone, Backed
  <2>2. ASSUME ShmInv, SM!Next
        PROVE  ShmInv'
    BY <2>2, ShmSimple, ShmCreateOpen, ShmTruncate, ShmEnds DEF SM!Next
  <2> QED BY <2>1, <2>2
<1>3. ShmInv => SM!OwnerIsFound /\ SM!MapsAreBacked /\ SM!ClosedIsGone
  <2> SUFFICES ASSUME ShmInv, ~ shm.shrunk, NEW p \in Processes, shm.proc[p].pc = "open"
               PROVE  shm.proc[p].size \in 1 .. shm.size[shm.proc[p].object]
    BY DEF ShmInv, SM!MapsAreBacked, SM!Open, SM!At
  <2>1. /\ shm.proc[p].size \in Nat /\ shm.proc[p].size > 0
        /\ shm.size[shm.proc[p].object] \in Nat
    BY DEF ShmInv, HandleOK, Shms, Handles
  <2>2. shm.proc[p].size <= shm.size[shm.proc[p].object]
    BY DEF ShmInv, Backed
  <2> QED BY <2>1, <2>2
<1> QED
  BY <1>1, <1>2, <1>3, PTL DEF SM!Spec, SM!vars

-----------------------------------------------------------------------------
(* The slave end of an IIC bus *)

CONSTANTS Callers, Channels, MaxMessages, NULL
VARIABLE iic

IS == INSTANCE IicSlave

\* NULL is no channel and no thread.
IicAssumption == NULL \notin Channels /\ NULL \notin Callers

Buffers == {0, 1}

SlaveChannels ==
  [live : BOOLEAN, enabled : BOOLEAN, active : Buffers, pending : [Buffers -> BOOLEAN],
   data : [Buffers -> Nat], tx_loaded : Int, snd : BOOLEAN, rec : BOOLEAN]

Slaves ==
  [attr : Channels \cup {NULL}, channel : [Channels -> SlaveChannels],
   lock : Callers \cup {NULL},
   send : [pc : {"none", "check", "switch", "signal", "write", "writing"},
           chan : Channels \cup {NULL}],
   recv : [pc : {"none", "check", "read"}, chan : Channels \cup {NULL}],
   caller : [Callers -> [pc : {"idle", "copy", "wait"}, chan : Channels \cup {NULL},
                         buf : Buffers]],
   owner : {"idle", "send", "recv"}, accepted : Nat, written : Seq(Nat),
   dropped : BOOLEAN, reset : BOOLEAN, overdue : BOOLEAN, lied : BOOLEAN]

\* The channel that is enabled or being disabled, and where its send thread is.
ChanOf(r) == r.channel[r.attr]
SendsAt(r, pcs) == r.send.pc \in pcs /\ r.send.chan = r.attr
InUse == {"signal", "write", "writing"}

\* Who is where: the live channel, the lock, the threads.
WhereAll(r) ==
  /\ \A c \in Channels : r.channel[c].live <=> c = r.attr
  /\ \A t \in Callers : r.caller[t].pc = "copy" <=> r.lock = t
  /\ r.lock # NULL => r.attr # NULL /\ r.caller[r.lock].chan = r.attr
  /\ \A t \in Callers : r.caller[t].pc # "idle" => r.caller[t].chan \in Channels
  /\ r.owner # "idle" => r.attr # NULL
  /\ r.send.pc # "none" => r.send.chan \in Channels /\ r.channel[r.send.chan].snd
  /\ r.recv.pc # "none" => r.recv.chan \in Channels /\ r.channel[r.recv.chan].rec

\* The threads end before their channel, unless a wait ended too early.
EndsFirst(r) ==
  ~ r.overdue => /\ r.send.pc # "none" => r.send.chan = r.attr
                 /\ r.recv.pc # "none" => r.recv.chan = r.attr
                 /\ r.owner = "recv" => r.send.pc = "none"

Above(r, n) == \A i \in DOMAIN r.written : r.written[i] < n

\* What is in the buffers is newer than what was written.
BuffersOf(r) ==
  r.attr # NULL =>
    LET ch == ChanOf(r)
        a  == ch.active
        b  == 1 - a
    IN  /\ \A x \in Buffers : ch.data[x] <= r.accepted /\ (ch.pending[x] => ch.data[x] > 0)
        /\ ch.pending[b] => Above(r, ch.data[b])
        /\ SendsAt(r, {"switch"}) =>
             ~ ch.pending[a] /\ (ch.data[b] = 0 \/ Above(r, ch.data[b]))
        /\ SendsAt(r, {"signal", "write"}) =>
             /\ ch.data[a] = 0 \/ Above(r, ch.data[a])
             /\ ch.pending[b] => ch.data[a] < ch.data[b]

\* The buffer of a caller that copies.
CopiedOf(r) ==
  r.lock # NULL =>
    LET ch == ChanOf(r)
        x  == r.caller[r.lock].buf
    IN  /\ ~ ch.pending[x] /\ ch.data[x] = 0
        /\ x = ch.active => ~ ch.pending[1 - x] /\ ~ SendsAt(r, {"switch"})

Increasing(r) ==
  /\ \A i \in DOMAIN r.written : r.written[i] <= r.accepted
  /\ \A i, j \in DOMAIN r.written :
       i < j /\ r.written[i] # 0 /\ r.written[j] # 0 => r.written[i] < r.written[j]

\* Without a reset.
NoneReset(r) ==
  ~ r.reset =>
    /\ \A i \in DOMAIN r.written : r.written[i] # 0
    /\ r.attr # NULL =>
         LET ch == ChanOf(r) IN
         /\ SendsAt(r, {"switch"}) => ch.pending[1 - ch.active]
         /\ ch.pending[ch.active] <=> SendsAt(r, InUse)
         /\ r.lock # NULL => r.caller[r.lock].buf # ch.active

\* Messages that are accepted and not written.
Unwritten(r) ==
  (IF SendsAt(r, {"signal", "write"}) THEN 1 ELSE 0)
  + (IF ChanOf(r).pending[1 - ChanOf(r).active] THEN 1 ELSE 0)

\* Without a reset, and with no channel freed before its messages were read.
NoneDropped(r) ==
  ~ r.dropped =>
    /\ ~ r.reset
    /\ \A i \in DOMAIN r.written : r.written[i] = i
    /\ r.send.pc \in InUse => r.attr # NULL /\ r.send.chan = r.attr
    /\ r.attr = NULL => r.accepted = Len(r.written)
    /\ r.attr # NULL =>
         LET ch == ChanOf(r) IN
         /\ r.accepted = Len(r.written) + Unwritten(r)
         /\ SendsAt(r, {"signal", "write"}) => ch.data[ch.active] = Len(r.written) + 1
         /\ ch.pending[1 - ch.active] => ch.data[1 - ch.active] = r.accepted

SlaveKeeps(r) ==
  /\ r \in Slaves /\ WhereAll(r) /\ EndsFirst(r)
  /\ BuffersOf(r) /\ CopiedOf(r) /\ Increasing(r) /\ NoneReset(r) /\ NoneDropped(r)

LEMMA SlaveInit ==
  ASSUME IicAssumption, IS!Init
  PROVE  SlaveKeeps(iic)
<1>1. iic = [attr |-> NULL, channel |-> [c \in Channels |-> IS!Unused], lock |-> NULL,
             send |-> [pc |-> "none", chan |-> NULL], recv |-> [pc |-> "none", chan |-> NULL],
             caller |-> [t \in Callers |-> [pc |-> "idle", chan |-> NULL, buf |-> 0]],
             owner |-> "idle",
             accepted |-> 0, written |-> <<>>,
             dropped |-> FALSE, reset |-> FALSE, overdue |-> FALSE, lied |-> FALSE]
  BY DEF IS!Init
<1>2. IS!Unused \in SlaveChannels /\ ~ IS!Unused.live
  BY DEF IS!Unused, SlaveChannels, Buffers
<1>3. <<>> \in Seq(Nat) /\ Len(<<>>) = 0 /\ DOMAIN <<>> = {}
  OBVIOUS
<1>4. iic \in Slaves
  BY <1>1, <1>2, <1>3 DEF Slaves, Buffers
<1>5. WhereAll(iic) /\ EndsFirst(iic)
  BY <1>1, <1>2 DEF WhereAll, EndsFirst, IicAssumption
<1>6. BuffersOf(iic) /\ CopiedOf(iic) /\ Increasing(iic)
  BY <1>1, <1>3 DEF BuffersOf, CopiedOf, Increasing
<1>7. NoneReset(iic) /\ NoneDropped(iic)
  BY <1>1, <1>3 DEF NoneReset, NoneDropped, InUse
<1> QED BY <1>4, <1>5, <1>6, <1>7 DEF SlaveKeeps

\* What a state has.
LEMMA SlaveIs ==
  ASSUME IicAssumption, NEW r, SlaveKeeps(r)
  PROVE  /\ r \in Slaves /\ r.attr \in Channels \cup {NULL} /\ r.channel \in [Channels -> SlaveChannels]
         /\ r.lock \in Callers \cup {NULL} /\ r.accepted \in Nat /\ r.written \in Seq(Nat)
         /\ r.send.pc \in {"none", "check", "switch", "signal", "write", "writing"}
         /\ r.send.chan \in Channels \cup {NULL}
         /\ \A c \in Channels :
              /\ r.channel[c] \in SlaveChannels /\ r.channel[c].active \in Buffers
              /\ r.channel[c].pending \in [Buffers -> BOOLEAN]
              /\ r.channel[c].data \in [Buffers -> Nat]
              /\ r.channel[c].tx_loaded \in Int
         /\ \A t \in Callers : r.caller[t].buf \in Buffers /\ r.caller[t].chan \in Channels \cup {NULL}
BY DEF SlaveKeeps, Slaves, SlaveChannels

\* The buffers and what was written depend on these parts of the state only.
Alike(n, r) ==
  /\ n.attr = r.attr /\ n.lock = r.lock
  /\ n.accepted = r.accepted /\ n.written = r.written /\ n.dropped = r.dropped /\ n.reset = r.reset
  /\ n.lock # NULL => n.caller[n.lock].buf = r.caller[r.lock].buf
  /\ n.attr # NULL => /\ ChanOf(n).active = ChanOf(r).active
                      /\ ChanOf(n).pending = ChanOf(r).pending /\ ChanOf(n).data = ChanOf(r).data
  /\ (SendsAt(n, {"switch"})) <=> (SendsAt(r, {"switch"}))
  /\ (SendsAt(n, {"signal", "write"})) <=> (SendsAt(r, {"signal", "write"}))
  /\ (SendsAt(n, InUse)) <=> (SendsAt(r, InUse))
  /\ n.send.pc \in InUse => r.send.pc \in InUse /\ n.send.chan = r.send.chan

LEMMA AlikeKeep ==
  ASSUME NEW n, NEW r, Alike(n, r), SlaveKeeps(r)
  PROVE  /\ BuffersOf(n) /\ CopiedOf(n) /\ Increasing(n) /\ NoneReset(n) /\ NoneDropped(n)
<1>1. BuffersOf(r) /\ CopiedOf(r) /\ Increasing(r) /\ NoneReset(r) /\ NoneDropped(r)
  BY DEF SlaveKeeps
<1>2. BuffersOf(n)
  <2>1. \A x : Above(n, x) <=> Above(r, x)
    BY DEF Alike, Above
  <2> QED BY <1>1, <2>1 DEF BuffersOf, Alike
<1>3. CopiedOf(n)
  <2>1. r.lock # NULL => r.attr # NULL
    BY DEF SlaveKeeps, WhereAll
  <2> QED BY <1>1, <2>1 DEF CopiedOf, Alike
<1>4. Increasing(n)
  BY <1>1 DEF Increasing, Alike
<1>5. NoneReset(n)
  BY <1>1 DEF NoneReset, Alike
<1>6. NoneDropped(n)
  <2>1. n.attr # NULL => Unwritten(n) = Unwritten(r)
    BY DEF Unwritten, Alike
  <2> QED BY <1>1, <2>1 DEF NoneDropped, Alike
<1> QED BY <1>2, <1>3, <1>4, <1>5, <1>6

LEMMA SlaveDisable ==
  ASSUME IicAssumption, SlaveKeeps(iic), IS!Disable
  PROVE  SlaveKeeps(iic')
<1> DEFINE c == iic.attr
           ch == [iic.channel[c] EXCEPT !.enabled = FALSE]
           channel == [iic.channel EXCEPT ![c] = ch]
<1>1. /\ iic' = [iic EXCEPT !.channel = channel, !.owner = "send"]
      /\ c # NULL /\ iic \in Slaves /\ iic.channel \in [Channels -> SlaveChannels] /\ c \in Channels
  BY SlaveIs DEF IS!Disable
<1>2. /\ ch \in SlaveChannels /\ ch.live = iic.channel[c].live /\ ch.active = iic.channel[c].active
      /\ ch.pending = iic.channel[c].pending /\ ch.data = iic.channel[c].data
      /\ ch.snd = iic.channel[c].snd /\ ch.rec = iic.channel[c].rec
  BY <1>1 DEF SlaveChannels
<1> HIDE DEF ch
<1>3. /\ channel \in [Channels -> SlaveChannels] /\ channel[c] = ch
      /\ \A d \in Channels : d # c => channel[d] = iic.channel[d]
  BY <1>1, <1>2
<1> HIDE DEF channel
<1>4. /\ iic' \in Slaves /\ iic'.attr = iic.attr /\ iic'.channel = channel
      /\ iic'.lock = iic.lock /\ iic'.send = iic.send /\ iic'.recv = iic.recv
      /\ iic'.caller = iic.caller /\ iic'.owner = "send" /\ iic'.accepted = iic.accepted
      /\ iic'.written = iic.written /\ iic'.dropped = iic.dropped /\ iic'.reset = iic.reset
      /\ iic'.overdue = iic.overdue /\ iic'.lied = iic.lied
  BY ONLY <1>1, <1>3 DEF Slaves
<1>5. WhereAll(iic') /\ EndsFirst(iic')
  BY <1>1, <1>2, <1>3, <1>4 DEF SlaveKeeps, WhereAll, EndsFirst
<1>6. Alike(iic', iic)
  BY <1>1, <1>2, <1>3, <1>4 DEF Alike, ChanOf, SendsAt
<1> QED BY <1>4, <1>5, <1>6, AlikeKeep DEF SlaveKeeps

LEMMA SlaveSendGone ==
  ASSUME IicAssumption, SlaveKeeps(iic), IS!SendGone
  PROVE  SlaveKeeps(iic')
<1>1. /\ iic' = [iic EXCEPT !.owner = "recv"] /\ iic.owner = "send" /\ iic \in Slaves
      /\ iic.send.pc = "none" \/ iic.send.chan # iic.attr
  BY SlaveIs DEF IS!SendGone, IS!Gone
<1>2. /\ iic' \in Slaves /\ iic'.attr = iic.attr /\ iic'.channel = iic.channel
      /\ iic'.lock = iic.lock /\ iic'.send = iic.send /\ iic'.recv = iic.recv
      /\ iic'.caller = iic.caller /\ iic'.owner = "recv" /\ iic'.accepted = iic.accepted
      /\ iic'.written = iic.written /\ iic'.dropped = iic.dropped /\ iic'.reset = iic.reset
      /\ iic'.overdue = iic.overdue /\ iic'.lied = iic.lied
  BY ONLY <1>1 DEF Slaves
<1>3. WhereAll(iic') /\ EndsFirst(iic')
  BY <1>1, <1>2 DEF SlaveKeeps, WhereAll, EndsFirst
<1>4. Alike(iic', iic)
  BY <1>2 DEF Alike, ChanOf, SendsAt
<1> QED BY <1>2, <1>3, <1>4, AlikeKeep DEF SlaveKeeps

\* The receive thread.
LEMMA SlaveReceives ==
  ASSUME IicAssumption, SlaveKeeps(iic), IS!Read \/ IS!ReadEnd \/ IS!RecvLeaves
  PROVE  SlaveKeeps(iic')
<1>1. PICK recv : iic' = [iic EXCEPT !.recv = recv]
                  /\ recv \in [pc : {"none", "check", "read"}, chan : Channels \cup {NULL}]
                  /\ (recv.pc # "none" => recv.chan = iic.recv.chan /\ iic.recv.pc # "none")
  <2>0. iic.recv \in [pc : {"none", "check", "read"}, chan : Channels \cup {NULL}]
    BY DEF SlaveKeeps, Slaves
  <2>1. CASE IS!Read
    <3> WITNESS [iic.recv EXCEPT !.pc = "read"]
    <3> QED BY <2>0, <2>1 DEF IS!Read, IS!Receives
  <2>2. CASE IS!ReadEnd
    <3> WITNESS [iic.recv EXCEPT !.pc = "check"]
    <3> QED BY <2>0, <2>2 DEF IS!ReadEnd, IS!Receives
  <2>3. CASE IS!RecvLeaves
    <3> WITNESS [pc |-> "none", chan |-> NULL]
    <3> QED BY <2>0, <2>3 DEF IS!RecvLeaves
  <2> QED BY <2>1, <2>2, <2>3
<1>2. iic \in Slaves
  BY SlaveIs
<1>3. /\ iic' \in Slaves /\ iic'.attr = iic.attr /\ iic'.channel = iic.channel
      /\ iic'.lock = iic.lock /\ iic'.send = iic.send /\ iic'.recv = recv
      /\ iic'.caller = iic.caller /\ iic'.owner = iic.owner /\ iic'.accepted = iic.accepted
      /\ iic'.written = iic.written /\ iic'.dropped = iic.dropped /\ iic'.reset = iic.reset
      /\ iic'.overdue = iic.overdue /\ iic'.lied = iic.lied
  BY ONLY <1>1, <1>2 DEF Slaves
<1>4. WhereAll(iic') /\ EndsFirst(iic')
  BY <1>1, <1>3 DEF SlaveKeeps, WhereAll, EndsFirst
<1>5. Alike(iic', iic)
  BY <1>3 DEF Alike, ChanOf, SendsAt
<1> QED BY <1>3, <1>4, <1>5, AlikeKeep DEF SlaveKeeps

LEMMA SlaveSendLeaves ==
  ASSUME IicAssumption, SlaveKeeps(iic), IS!SendLeaves
  PROVE  SlaveKeeps(iic')
<1> DEFINE send == [pc |-> "none", chan |-> NULL]
<1>1. /\ iic' = [iic EXCEPT !.send = send] /\ iic.send.pc = "check" /\ iic \in Slaves
  BY SlaveIs DEF IS!SendLeaves, IS!Sends
<1>2. send \in [pc : {"none", "check", "switch", "signal", "write", "writing"},
                chan : Channels \cup {NULL}]
      /\ send.pc = "none"
  OBVIOUS
<1> HIDE DEF send
<1>3. /\ iic' \in Slaves /\ iic'.attr = iic.attr /\ iic'.channel = iic.channel
      /\ iic'.lock = iic.lock /\ iic'.send = send /\ iic'.recv = iic.recv
      /\ iic'.caller = iic.caller /\ iic'.owner = iic.owner /\ iic'.accepted = iic.accepted
      /\ iic'.written = iic.written /\ iic'.dropped = iic.dropped /\ iic'.reset = iic.reset
      /\ iic'.overdue = iic.overdue /\ iic'.lied = iic.lied
  BY ONLY <1>1, <1>2 DEF Slaves
<1>4. WhereAll(iic') /\ EndsFirst(iic')
  BY <1>1, <1>2, <1>3 DEF SlaveKeeps, WhereAll, EndsFirst
<1>5. Alike(iic', iic)
  BY <1>1, <1>2, <1>3 DEF Alike, ChanOf, SendsAt, InUse
<1> QED BY <1>3, <1>4, <1>5, AlikeKeep DEF SlaveKeeps

\* A step of the send thread makes ch of its channel c and send of itself.
SendSteps(c, ch, send, written, lied) ==
  /\ c \in Channels /\ ch \in SlaveChannels
  /\ send \in [pc : {"check", "switch", "signal", "write", "writing"},
               chan : Channels \cup {NULL}]
  /\ written \in Seq(Nat) /\ lied \in BOOLEAN
  /\ c = iic.send.chan /\ iic.send.pc # "none" /\ iic.channel[c].live /\ send.chan = c
  /\ ch.live /\ ch.snd = iic.channel[c].snd /\ ch.rec = iic.channel[c].rec
  /\ iic' = [iic EXCEPT !.send = send, !.channel = [iic.channel EXCEPT ![c] = ch],
                        !.written = written, !.lied = lied]

LEMMA SlaveStep ==
  ASSUME IicAssumption, SlaveKeeps(iic), NEW c, NEW ch, NEW send, NEW written, NEW lied,
         SendSteps(c, ch, send, written, lied)
  PROVE  /\ /\ iic' \in Slaves /\ iic'.attr = iic.attr
            /\ iic'.channel = [iic.channel EXCEPT ![c] = ch] /\ iic'.lock = iic.lock
            /\ iic'.send = send /\ iic'.recv = iic.recv /\ iic'.caller = iic.caller
            /\ iic'.owner = iic.owner /\ iic'.accepted = iic.accepted /\ iic'.written = written
            /\ iic'.dropped = iic.dropped /\ iic'.reset = iic.reset
            /\ iic'.overdue = iic.overdue /\ iic'.lied = lied
         /\ c = iic.attr /\ iic.attr # NULL /\ ChanOf(iic) = iic.channel[c] /\ ChanOf(iic') = ch
         /\ WhereAll(iic') /\ EndsFirst(iic')
<1>0. /\ c \in Channels /\ ch \in SlaveChannels
      /\ send \in [pc : {"check", "switch", "signal", "write", "writing"},
                   chan : Channels \cup {NULL}]
      /\ written \in Seq(Nat) /\ lied \in BOOLEAN
      /\ c = iic.send.chan /\ iic.send.pc # "none" /\ iic.channel[c].live /\ send.chan = c
      /\ ch.live /\ ch.snd = iic.channel[c].snd /\ ch.rec = iic.channel[c].rec
      /\ iic' = [iic EXCEPT !.send = send, !.channel = [iic.channel EXCEPT ![c] = ch],
                            !.written = written, !.lied = lied]
  BY DEF SendSteps
<1> DEFINE channel == [iic.channel EXCEPT ![c] = ch]
<1>1. iic \in Slaves /\ iic.channel \in [Channels -> SlaveChannels]
  BY SlaveIs
<1>2. /\ channel \in [Channels -> SlaveChannels] /\ channel[c] = ch
      /\ \A d \in Channels : d # c => channel[d] = iic.channel[d]
  BY <1>0, <1>1
<1>3. send \in [pc : {"none", "check", "switch", "signal", "write", "writing"},
                chan : Channels \cup {NULL}]
      /\ send.pc # "none"
  BY <1>0
<1>4. iic' = [iic EXCEPT !.send = send, !.channel = channel, !.written = written, !.lied = lied]
  BY <1>0
<1> HIDE DEF channel
<1>5. /\ iic' \in Slaves /\ iic'.attr = iic.attr /\ iic'.channel = channel
      /\ iic'.lock = iic.lock /\ iic'.send = send /\ iic'.recv = iic.recv
      /\ iic'.caller = iic.caller /\ iic'.owner = iic.owner /\ iic'.accepted = iic.accepted
      /\ iic'.written = written /\ iic'.dropped = iic.dropped /\ iic'.reset = iic.reset
      /\ iic'.overdue = iic.overdue /\ iic'.lied = lied
  <2>1. written \in Seq(Nat) /\ lied \in BOOLEAN
    BY <1>0
  <2> QED BY ONLY <1>1, <1>2, <1>3, <1>4, <2>1 DEF Slaves
<1>6. c = iic.attr /\ c # NULL
  BY <1>0 DEF SlaveKeeps, WhereAll, IicAssumption
<1>7. ChanOf(iic) = iic.channel[c] /\ ChanOf(iic') = ch
  BY <1>2, <1>5, <1>6 DEF ChanOf
<1>8. WhereAll(iic') /\ EndsFirst(iic')
  BY <1>0, <1>2, <1>3, <1>5, <1>6 DEF SlaveKeeps, WhereAll, EndsFirst
<1> QED BY <1>5, <1>6, <1>7, <1>8 DEF channel

LEMMA SlaveCheck ==
  ASSUME IicAssumption, SlaveKeeps(iic), IS!Check
  PROVE  SlaveKeeps(iic')
<1> DEFINE c == iic.send.chan
           ch == iic.channel[c]
           send == [iic.send EXCEPT !.pc = "switch"]
<1>1. /\ iic' = [iic EXCEPT !.send = send] /\ iic.send.pc = "check" /\ ch.live
      /\ ~ ch.pending[ch.active] /\ ch.pending[1 - ch.active] /\ iic.lock = NULL
      /\ iic \in Slaves /\ c \in Channels
  BY SlaveIs DEF IS!Check, IS!Sends, IS!SendChan, IS!Unlocked, SlaveKeeps, WhereAll
<1>2. /\ send \in [pc : {"none", "check", "switch", "signal", "write", "writing"},
                   chan : Channels \cup {NULL}]
      /\ send.pc = "switch" /\ send.chan = c
  BY <1>1 DEF Slaves
<1> HIDE DEF send
<1>3. /\ iic' \in Slaves /\ iic'.attr = iic.attr /\ iic'.channel = iic.channel
      /\ iic'.lock = iic.lock /\ iic'.send = send /\ iic'.recv = iic.recv
      /\ iic'.caller = iic.caller /\ iic'.owner = iic.owner /\ iic'.accepted = iic.accepted
      /\ iic'.written = iic.written /\ iic'.dropped = iic.dropped /\ iic'.reset = iic.reset
      /\ iic'.overdue = iic.overdue /\ iic'.lied = iic.lied
  BY ONLY <1>1, <1>2 DEF Slaves
<1>4. WhereAll(iic') /\ EndsFirst(iic')
  BY <1>1, <1>2, <1>3, SMTT(40) DEF SlaveKeeps, WhereAll, EndsFirst
<1>5. c = iic.attr /\ iic.attr # NULL /\ ChanOf(iic') = ch /\ ChanOf(iic) = ch
  BY <1>1, <1>3 DEF SlaveKeeps, WhereAll, IicAssumption, ChanOf
<1>6. /\ SendsAt(iic', {"switch"}) /\ ~ SendsAt(iic', {"signal", "write"})
      /\ ~ SendsAt(iic', InUse) /\ ~ SendsAt(iic, InUse) /\ iic'.send.pc \notin InUse
      /\ ~ SendsAt(iic, {"signal", "write"})
  BY <1>1, <1>2, <1>3, <1>5 DEF SendsAt, InUse
<1> HIDE DEF ch, c
<1>7. /\ BuffersOf(iic) /\ CopiedOf(iic) /\ Increasing(iic) /\ NoneReset(iic)
      /\ NoneDropped(iic)
  BY DEF SlaveKeeps
<1>8. \A x : Above(iic', x) <=> Above(iic, x)
  BY <1>3 DEF Above
<1>9. BuffersOf(iic')
  BY <1>1, <1>3, <1>5, <1>6, <1>7, <1>8 DEF BuffersOf
<1>10. CopiedOf(iic') /\ Increasing(iic')
  BY <1>1, <1>3, <1>7 DEF CopiedOf, Increasing
<1>11. NoneReset(iic')
  BY <1>1, <1>3, <1>5, <1>6, <1>7 DEF NoneReset
<1>12. NoneDropped(iic')
  <2>1. Unwritten(iic') = Unwritten(iic)
    BY <1>5, <1>6 DEF Unwritten
  <2> QED BY <1>3, <1>5, <1>6, <1>7, <2>1 DEF NoneDropped
<1> QED BY <1>3, <1>4, <1>9, <1>10, <1>11, <1>12 DEF SlaveKeeps

LEMMA SlaveSwitch ==
  ASSUME IicAssumption, SlaveKeeps(iic), IS!Switch
  PROVE  SlaveKeeps(iic')
<1> DEFINE c == iic.send.chan
           old == iic.channel[c]
           ch == [old EXCEPT !.active = 1 - old.active]
           send == [iic.send EXCEPT !.pc = "signal"]
<1>1. /\ iic' = [iic EXCEPT !.send = send, !.channel = [iic.channel EXCEPT ![c] = ch]]
      /\ iic.send.pc = "switch" /\ old.live
      /\ iic \in Slaves /\ c \in Channels /\ old \in SlaveChannels /\ old.active \in Buffers
  BY SlaveIs DEF IS!Switch, IS!Sends, SlaveKeeps, WhereAll
<1>2. /\ send \in [pc : {"check", "switch", "signal", "write", "writing"},
                   chan : Channels \cup {NULL}]
      /\ send.pc = "signal" /\ send.chan = c
  BY <1>1 DEF Slaves
<1>3. PICK a \in Buffers, b \in Buffers : a = old.active /\ b = 1 - a /\ a = 1 - b /\ a # b
  <2>1. CASE old.active = 0
    BY <2>1 DEF Buffers
  <2>2. CASE old.active = 1
    BY <2>2 DEF Buffers
  <2> QED BY <1>1, <2>1, <2>2 DEF Buffers
<1>4. /\ ch \in SlaveChannels /\ ch.active = b /\ ch.live = old.live /\ ch.snd = old.snd
      /\ ch.rec = old.rec /\ ch.pending = old.pending /\ ch.data = old.data
  <2>1. ch = [old EXCEPT !.active = b]
    BY <1>3
  <2> HIDE DEF ch, old
  <2> QED BY ONLY <1>1, <1>3, <2>1 DEF SlaveChannels
<1>5. PICK w, l : w = iic.written /\ l = iic.lied
  OBVIOUS
<1>6. w \in Seq(Nat) /\ l \in BOOLEAN
  BY <1>1, <1>5 DEF Slaves
<1>7. iic' = [iic EXCEPT !.send = send, !.channel = [iic.channel EXCEPT ![c] = ch],
                         !.written = w, !.lied = l]
  <2> HIDE DEF ch, send
  <2> QED BY <1>1, <1>5 DEF Slaves
<1> HIDE DEF ch, send, c, old
<1>8. /\ /\ iic' \in Slaves /\ iic'.attr = iic.attr
         /\ iic'.channel = [iic.channel EXCEPT ![c] = ch] /\ iic'.lock = iic.lock
         /\ iic'.send = send /\ iic'.recv = iic.recv /\ iic'.caller = iic.caller
         /\ iic'.owner = iic.owner /\ iic'.accepted = iic.accepted /\ iic'.written = w
         /\ iic'.dropped = iic.dropped /\ iic'.reset = iic.reset /\ iic'.overdue = iic.overdue
         /\ iic'.lied = l
      /\ c = iic.attr /\ iic.attr # NULL /\ ChanOf(iic) = iic.channel[c] /\ ChanOf(iic') = ch
      /\ WhereAll(iic') /\ EndsFirst(iic')
  <2>1. SendSteps(c, ch, send, w, l)
    BY <1>1, <1>2, <1>4, <1>6, <1>7 DEF c, old, SendSteps
  <2> QED BY <2>1, <1>5, SlaveStep
<1>9. /\ ~ SendsAt(iic', {"switch"}) /\ SendsAt(iic', {"signal", "write"}) /\ SendsAt(iic', InUse)
      /\ SendsAt(iic, {"switch"}) /\ ~ SendsAt(iic, {"signal", "write"}) /\ ~ SendsAt(iic, InUse)
      /\ iic'.send.chan = iic'.attr
  BY <1>1, <1>2, <1>8 DEF SendsAt, InUse, c
<1>10. /\ iic'.accepted = iic.accepted /\ iic'.written = iic.written /\ iic'.dropped = iic.dropped
       /\ iic'.reset = iic.reset /\ iic'.lock = iic.lock /\ iic'.caller = iic.caller
       /\ iic'.attr = iic.attr /\ ChanOf(iic) = old
  BY <1>1, <1>5, <1>8 DEF old
<1>11. /\ BuffersOf(iic) /\ CopiedOf(iic) /\ Increasing(iic) /\ NoneReset(iic)
       /\ NoneDropped(iic)
  BY DEF SlaveKeeps
<1>12. \A x : Above(iic', x) <=> Above(iic, x)
  BY <1>10 DEF Above
<1>13. /\ ~ old.pending[a] /\ (old.data[b] = 0 \/ Above(iic, old.data[b]))
       /\ \A x \in Buffers : old.data[x] <= iic.accepted /\ (old.pending[x] => old.data[x] > 0)
  BY <1>3, <1>8, <1>9, <1>10, <1>11 DEF BuffersOf
<1>14. BuffersOf(iic')
  BY <1>3, <1>4, <1>8, <1>9, <1>10, <1>12, <1>13 DEF BuffersOf
<1>15. CopiedOf(iic')
  <2>1. iic.lock # NULL => iic.caller[iic.lock].buf \in Buffers
    BY SlaveIs
  <2> QED BY <1>3, <1>4, <1>8, <1>9, <1>10, <1>11, <1>13, <2>1 DEF CopiedOf, Buffers
<1>16. Increasing(iic')
  BY <1>10, <1>11 DEF Increasing
<1>17. NoneReset(iic')
  <2>1. ~ iic.reset => old.pending[b]
    BY <1>3, <1>8, <1>9, <1>10, <1>11 DEF NoneReset
  <2>2. ~ iic.reset /\ iic.lock # NULL => iic.caller[iic.lock].buf # b
    BY <1>10, <1>11, <2>1 DEF CopiedOf
  <2> QED BY <1>3, <1>4, <1>8, <1>9, <1>10, <1>11, <2>1, <2>2 DEF NoneReset
<1>18. NoneDropped(iic')
  <2> SUFFICES ASSUME ~ iic.dropped
               PROVE  NoneDropped(iic')
    BY <1>10 DEF NoneDropped
  <2>1. ~ iic.reset /\ old.pending[b] /\ iic.accepted = Len(iic.written) + 1
        /\ old.data[b] = iic.accepted
    <3>1. ~ iic.reset
      BY <1>11 DEF NoneDropped
    <3>2. old.pending[b]
      BY <1>3, <1>8, <1>9, <1>10, <1>11, <3>1 DEF NoneReset
    <3>3. Unwritten(iic) = 1
      BY <1>3, <1>9, <1>10, <3>2 DEF Unwritten
    <3> QED BY <1>3, <1>8, <1>10, <1>11, <3>1, <3>2, <3>3 DEF NoneDropped
  <2>2. Unwritten(iic') = 1 /\ ~ ch.pending[1 - ch.active]
    BY <1>3, <1>4, <1>8, <1>9, <1>13 DEF Unwritten
  <2> QED BY <1>4, <1>8, <1>9, <1>10, <1>11, <2>1, <2>2 DEF NoneDropped
<1> QED BY <1>8, <1>14, <1>15, <1>16, <1>17, <1>18 DEF SlaveKeeps

\* A step of the send thread that leaves the state of its channel to it.
LEMMA SlaveSignal ==
  ASSUME IicAssumption, SlaveKeeps(iic), IS!Signal
  PROVE  SlaveKeeps(iic')
<1> DEFINE c == iic.send.chan
           old == iic.channel[c]
           ch == [old EXCEPT !.tx_loaded = old.tx_loaded + 1]
           send == [iic.send EXCEPT !.pc = "write"]
<1>1. /\ iic' = [iic EXCEPT !.send = send, !.channel = [iic.channel EXCEPT ![c] = ch]]
      /\ iic.send.pc = "signal" /\ old.live
      /\ iic \in Slaves /\ c \in Channels /\ old \in SlaveChannels /\ old.tx_loaded + 1 \in Int
  BY SlaveIs, SMTT(40) DEF IS!Signal, IS!Sends, SlaveKeeps, WhereAll
<1>2. /\ send \in [pc : {"check", "switch", "signal", "write", "writing"},
                   chan : Channels \cup {NULL}]
      /\ send.pc = "write" /\ send.chan = c
  BY <1>1 DEF Slaves
<1>3. PICK more \in Int : more = old.tx_loaded + 1
  BY <1>1
<1>4. /\ ch \in SlaveChannels /\ ch.active = old.active /\ ch.live = old.live /\ ch.snd = old.snd
      /\ ch.rec = old.rec /\ ch.pending = old.pending /\ ch.data = old.data
  <2>1. ch = [old EXCEPT !.tx_loaded = more]
    BY <1>3
  <2> HIDE DEF ch, old
  <2> QED BY ONLY <1>1, <1>3, <2>1 DEF SlaveChannels
<1>5. PICK w, l : w = iic.written /\ l = iic.lied
  OBVIOUS
<1>6. w \in Seq(Nat) /\ l \in BOOLEAN
  BY <1>1, <1>5 DEF Slaves
<1>7. iic' = [iic EXCEPT !.send = send, !.channel = [iic.channel EXCEPT ![c] = ch],
                         !.written = w, !.lied = l]
  <2> HIDE DEF ch, send
  <2> QED BY <1>1, <1>5 DEF Slaves
<1> HIDE DEF ch, send, c, old
<1>8. /\ /\ iic' \in Slaves /\ iic'.attr = iic.attr
         /\ iic'.channel = [iic.channel EXCEPT ![c] = ch] /\ iic'.lock = iic.lock
         /\ iic'.send = send /\ iic'.recv = iic.recv /\ iic'.caller = iic.caller
         /\ iic'.owner = iic.owner /\ iic'.accepted = iic.accepted /\ iic'.written = w
         /\ iic'.dropped = iic.dropped /\ iic'.reset = iic.reset /\ iic'.overdue = iic.overdue
         /\ iic'.lied = l
      /\ c = iic.attr /\ iic.attr # NULL /\ ChanOf(iic) = iic.channel[c] /\ ChanOf(iic') = ch
      /\ WhereAll(iic') /\ EndsFirst(iic')
  <2>1. SendSteps(c, ch, send, w, l)
    BY <1>1, <1>2, <1>4, <1>6, <1>7 DEF c, old, SendSteps
  <2> QED BY <2>1, <1>5, SlaveStep
<1>9. Alike(iic', iic)
  BY <1>1, <1>2, <1>4, <1>5, <1>8 DEF Alike, SendsAt, InUse, c, old
<1> QED BY <1>8, <1>9, AlikeKeep DEF SlaveKeeps

LEMMA SlaveWrite ==
  ASSUME IicAssumption, SlaveKeeps(iic), IS!Write
  PROVE  SlaveKeeps(iic')
<1> DEFINE c == iic.send.chan
           ch == iic.channel[c]
           send == [iic.send EXCEPT !.pc = "writing"]
<1>1. /\ iic' = [iic EXCEPT !.send = send, !.written = Append(iic.written, ch.data[ch.active])]
      /\ iic.send.pc = "write" /\ ch.live /\ iic.written \in Seq(Nat) /\ iic.accepted \in Nat
      /\ iic \in Slaves /\ c \in Channels /\ ch \in SlaveChannels /\ ch.active \in Buffers
      /\ ch.data \in [Buffers -> Nat]
  BY SlaveIs DEF IS!Write, IS!Sends, IS!SendChan, SlaveKeeps, WhereAll
<1>2. /\ send \in [pc : {"check", "switch", "signal", "write", "writing"},
                   chan : Channels \cup {NULL}]
      /\ send.pc = "writing" /\ send.chan = c
  BY <1>1 DEF Slaves
<1>3. PICK a \in Buffers, b \in Buffers : a = ch.active /\ b = 1 - a /\ a = 1 - b /\ a # b
  <2>1. CASE ch.active = 0
    BY <2>1 DEF Buffers
  <2>2. CASE ch.active = 1
    BY <2>2 DEF Buffers
  <2> QED BY <1>1, <2>1, <2>2 DEF Buffers
<1>4. PICK v \in Nat : v = ch.data[a]
  BY <1>1, <1>3
<1>5. PICK w \in Seq(Nat), m \in Nat :
        /\ w = Append(iic.written, v) /\ m = Len(iic.written) /\ Len(w) = m + 1
        /\ DOMAIN iic.written = 1 .. m /\ DOMAIN w = 1 .. m + 1 /\ w[m + 1] = v
        /\ \A i \in 1 .. m : w[i] = iic.written[i] /\ iic.written[i] \in Nat
  <2>1. PICK s \in Seq(Nat) : s = iic.written
    BY <1>1
  <2>2. PICK m \in Nat : m = Len(s) /\ DOMAIN s = 1 .. m /\ \A i \in 1 .. m : s[i] \in Nat
    BY <2>1
  <2>3. PICK w : w = Append(s, v)
    OBVIOUS
  <2>4. /\ w \in Seq(Nat) /\ Len(w) = m + 1 /\ w[m + 1] = v /\ \A i \in 1 .. m : w[i] = s[i]
    BY <2>1, <2>2, <2>3
  <2>5. DOMAIN w = 1 .. m + 1
    BY <2>2, <2>4
  <2> QED BY <2>1, <2>2, <2>3, <2>4, <2>5
<1>6. PICK l \in BOOLEAN : l = iic.lied
  BY <1>1 DEF Slaves
<1>7. iic' = [iic EXCEPT !.send = send, !.channel = [iic.channel EXCEPT ![c] = ch],
                         !.written = w, !.lied = l]
  <2>1. [iic.channel EXCEPT ![c] = ch] = iic.channel
    BY <1>1 DEF Slaves
  <2>2. iic' = [iic EXCEPT !.send = send, !.written = w]
    BY <1>1, <1>3, <1>4, <1>5
  <2>3. PICK channel : channel = [iic.channel EXCEPT ![c] = ch]
    OBVIOUS
  <2> HIDE DEF ch, send
  <2>4. iic \in Slaves /\ channel = iic.channel /\ l = iic.lied
    BY <1>1, <1>6, <2>1, <2>3
  <2>5. [iic EXCEPT !.send = send, !.written = w]
          = [iic EXCEPT !.send = send, !.channel = channel, !.written = w, !.lied = l]
    BY ONLY <2>4 DEF Slaves
  <2> QED BY <2>2, <2>3, <2>5
<1> HIDE DEF ch, send, c
<1>8. /\ /\ iic' \in Slaves /\ iic'.attr = iic.attr
         /\ iic'.channel = [iic.channel EXCEPT ![c] = ch] /\ iic'.lock = iic.lock
         /\ iic'.send = send /\ iic'.recv = iic.recv /\ iic'.caller = iic.caller
         /\ iic'.owner = iic.owner /\ iic'.accepted = iic.accepted /\ iic'.written = w
         /\ iic'.dropped = iic.dropped /\ iic'.reset = iic.reset /\ iic'.overdue = iic.overdue
         /\ iic'.lied = l
      /\ c = iic.attr /\ iic.attr # NULL /\ ChanOf(iic) = ch /\ ChanOf(iic') = ch
      /\ WhereAll(iic') /\ EndsFirst(iic')
  <2>1. SendSteps(c, ch, send, w, l)
    BY <1>1, <1>2, <1>5, <1>6, <1>7 DEF c, ch, SendSteps
  <2>2. /\ /\ iic' \in Slaves /\ iic'.attr = iic.attr
           /\ iic'.channel = [iic.channel EXCEPT ![c] = ch] /\ iic'.lock = iic.lock
           /\ iic'.send = send /\ iic'.recv = iic.recv /\ iic'.caller = iic.caller
           /\ iic'.owner = iic.owner /\ iic'.accepted = iic.accepted /\ iic'.written = w
           /\ iic'.dropped = iic.dropped /\ iic'.reset = iic.reset /\ iic'.overdue = iic.overdue
           /\ iic'.lied = l
        /\ c = iic.attr /\ iic.attr # NULL /\ ChanOf(iic) = iic.channel[c] /\ ChanOf(iic') = ch
        /\ WhereAll(iic') /\ EndsFirst(iic')
    BY <2>1, SlaveStep
  <2>3. ch = iic.channel[c]
    BY DEF ch
  <2> QED BY <2>2, <2>3
<1>9. /\ ~ SendsAt(iic', {"switch"}) /\ ~ SendsAt(iic', {"signal", "write"}) /\ SendsAt(iic', InUse)
      /\ ~ SendsAt(iic, {"switch"}) /\ SendsAt(iic, {"signal", "write"}) /\ SendsAt(iic, InUse)
      /\ iic'.send.chan = iic'.attr
  BY <1>1, <1>2, <1>8 DEF SendsAt, InUse, c
<1>10. /\ iic'.accepted = iic.accepted /\ iic'.written = w /\ iic'.dropped = iic.dropped
       /\ iic'.reset = iic.reset /\ iic'.lock = iic.lock /\ iic'.caller = iic.caller
       /\ iic'.attr = iic.attr
  BY <1>8
<1>11. /\ BuffersOf(iic) /\ CopiedOf(iic) /\ Increasing(iic) /\ NoneReset(iic)
       /\ NoneDropped(iic)
  BY DEF SlaveKeeps
<1>12. /\ v = 0 \/ Above(iic, v)
       /\ ch.pending[b] => v < ch.data[b] /\ Above(iic, ch.data[b])
       /\ \A x \in Buffers : ch.data[x] <= iic.accepted /\ (ch.pending[x] => ch.data[x] > 0)
  BY <1>3, <1>4, <1>8, <1>9, <1>11 DEF BuffersOf
<1>13. \A i \in 1 .. m + 1 : i \in 1 .. m \/ i = m + 1
  BY <1>5
<1>14. BuffersOf(iic')
  <2>1. ch.pending[b] => Above(iic', ch.data[b])
    BY <1>5, <1>10, <1>12, <1>13 DEF Above
  <2> QED BY <1>3, <1>8, <1>9, <1>10, <1>12, <2>1 DEF BuffersOf
<1>15. CopiedOf(iic')
  BY <1>8, <1>9, <1>10, <1>11 DEF CopiedOf
<1>16. Increasing(iic')
  <2>1. v <= iic.accepted
    BY <1>3, <1>4, <1>12
  <2>2. \A i \in 1 .. m + 1 : w[i] <= iic.accepted
    BY <1>5, <1>11, <1>13, <2>1 DEF Increasing
  <2>3. \A i, j \in 1 .. m + 1 : i < j /\ w[i] # 0 /\ w[j] # 0 => w[i] < w[j]
    <3> SUFFICES ASSUME NEW i \in 1 .. m + 1, NEW j \in 1 .. m + 1, i < j, w[i] # 0, w[j] # 0
                 PROVE  w[i] < w[j]
      OBVIOUS
    <3>1. i \in 1 .. m
      BY <1>13
    <3>2. CASE j = m + 1
      BY <1>5, <1>12, <3>1, <3>2 DEF Above
    <3>3. CASE j \in 1 .. m
      BY <1>5, <1>11, <3>1, <3>3 DEF Increasing
    <3> QED BY <1>13, <3>2, <3>3
  <2> QED BY <1>5, <1>10, <2>2, <2>3 DEF Increasing
<1>17. NoneReset(iic')
  <2> SUFFICES ASSUME ~ iic.reset
               PROVE  NoneReset(iic')
    BY <1>10 DEF NoneReset
  <2>1. v # 0
    <3>1. ch.pending[a]
      BY <1>3, <1>8, <1>9, <1>11 DEF NoneReset
    <3> QED BY <1>4, <1>12, <3>1
  <2>2. \A i \in 1 .. m + 1 : w[i] # 0
    BY <1>5, <1>11, <1>13, <2>1 DEF NoneReset
  <2> QED BY <1>5, <1>8, <1>9, <1>10, <1>11, <2>2 DEF NoneReset
<1>18. NoneDropped(iic')
  <2> SUFFICES ASSUME ~ iic.dropped
               PROVE  NoneDropped(iic')
    BY <1>10 DEF NoneDropped
  <2>1. /\ ~ iic.reset /\ v = m + 1
    BY <1>3, <1>4, <1>5, <1>8, <1>9, <1>11 DEF NoneDropped
  <2>2. \A i \in 1 .. m + 1 : w[i] = i
    BY <1>5, <1>11, <1>13, <2>1 DEF NoneDropped
  <2>3. /\ iic.accepted = m + Unwritten(iic)
        /\ ch.pending[b] => ch.data[b] = iic.accepted
    BY <1>3, <1>5, <1>8, <1>11 DEF NoneDropped
  <2>4. iic.accepted = (m + 1) + Unwritten(iic')
    <3>1. CASE ch.pending[b]
      BY <1>3, <1>5, <1>8, <1>9, <2>3, <3>1 DEF Unwritten
    <3>2. CASE ~ ch.pending[b]
      <4>1. Unwritten(iic) = 1 /\ Unwritten(iic') = 0
        <5>1. /\ ChanOf(iic).active = a /\ ChanOf(iic').active = a
              /\ ~ ChanOf(iic).pending[b] /\ ~ ChanOf(iic').pending[b]
          BY <1>3, <1>8, <3>2
        <5> QED BY ONLY <1>3, <1>9, <5>1 DEF Unwritten
      <4> QED BY <1>5, <2>3, <4>1
    <3> QED BY <3>1, <3>2
  <2> QED BY <1>3, <1>5, <1>8, <1>9, <1>10, <2>1, <2>2, <2>3, <2>4 DEF NoneDropped
<1> QED BY <1>8, <1>14, <1>15, <1>16, <1>17, <1>18 DEF SlaveKeeps

LEMMA SlaveWriteEnd ==
  ASSUME IicAssumption, SlaveKeeps(iic), NEW failed \in BOOLEAN, IS!WriteEnd(failed)
  PROVE  SlaveKeeps(iic')
<1> DEFINE c == iic.send.chan
           old == iic.channel[c]
           pending == [old.pending EXCEPT ![old.active] = FALSE]
           ch == [old EXCEPT !.pending = pending]
           send == [iic.send EXCEPT !.pc = "check"]
<1>1. /\ iic' = [iic EXCEPT !.send = send, !.lied = (iic.lied \/ failed),
                            !.channel = [iic.channel EXCEPT ![c] = ch]]
      /\ iic.send.pc = "writing" /\ old.live
      /\ iic \in Slaves /\ c \in Channels /\ old \in SlaveChannels /\ old.active \in Buffers
      /\ old.pending \in [Buffers -> BOOLEAN]
  BY SlaveIs, SMTT(40) DEF IS!WriteEnd, IS!Sends, IS!SendChan, SlaveKeeps, WhereAll
<1>2. /\ send \in [pc : {"check", "switch", "signal", "write", "writing"},
                   chan : Channels \cup {NULL}]
      /\ send.pc = "check" /\ send.chan = c
  BY <1>1 DEF Slaves
<1>3. PICK a \in Buffers, b \in Buffers : a = old.active /\ b = 1 - a /\ a = 1 - b /\ a # b
  <2>1. CASE old.active = 0
    BY <2>1 DEF Buffers
  <2>2. CASE old.active = 1
    BY <2>2 DEF Buffers
  <2> QED BY <1>1, <2>1, <2>2 DEF Buffers
<1>19. pending \in [Buffers -> BOOLEAN]
  BY <1>1
<1>4. /\ pending[a] = FALSE /\ pending[b] = old.pending[b]
      /\ \A x \in Buffers : pending[x] => old.pending[x]
  BY <1>1, <1>3
<1> HIDE DEF pending
<1>5. /\ ch \in SlaveChannels /\ ch.active = a /\ ch.live = old.live /\ ch.snd = old.snd
      /\ ch.rec = old.rec /\ ch.pending = pending /\ ch.data = old.data
  <2>1. ch = [old EXCEPT !.pending = pending]
    OBVIOUS
  <2>2. old \in SlaveChannels /\ old.active = a
    BY <1>1, <1>3
  <2> HIDE DEF ch, old
  <2> QED BY ONLY <1>19, <2>1, <2>2 DEF SlaveChannels
<1>6. PICK w, l : w = iic.written /\ l = (iic.lied \/ failed)
  OBVIOUS
<1>7. w \in Seq(Nat) /\ l \in BOOLEAN
  BY <1>1, <1>6 DEF Slaves
<1>8. iic' = [iic EXCEPT !.send = send, !.channel = [iic.channel EXCEPT ![c] = ch],
                         !.written = w, !.lied = l]
  <2> HIDE DEF ch, send
  <2> QED BY <1>1, <1>6 DEF Slaves
<1> HIDE DEF ch, send, c, old
<1>9. /\ /\ iic' \in Slaves /\ iic'.attr = iic.attr
         /\ iic'.channel = [iic.channel EXCEPT ![c] = ch] /\ iic'.lock = iic.lock
         /\ iic'.send = send /\ iic'.recv = iic.recv /\ iic'.caller = iic.caller
         /\ iic'.owner = iic.owner /\ iic'.accepted = iic.accepted /\ iic'.written = w
         /\ iic'.dropped = iic.dropped /\ iic'.reset = iic.reset /\ iic'.overdue = iic.overdue
         /\ iic'.lied = l
      /\ c = iic.attr /\ iic.attr # NULL /\ ChanOf(iic) = old /\ ChanOf(iic') = ch
      /\ WhereAll(iic') /\ EndsFirst(iic')
  <2>1. SendSteps(c, ch, send, w, l)
    BY <1>1, <1>2, <1>5, <1>7, <1>8 DEF c, old, SendSteps
  <2>2. old = iic.channel[c]
    BY DEF old
  <2> QED BY <2>1, <2>2, <1>6, SlaveStep
<1>10. /\ ~ SendsAt(iic', {"switch"}) /\ ~ SendsAt(iic', {"signal", "write"}) /\ ~ SendsAt(iic', InUse)
       /\ ~ SendsAt(iic, {"switch"}) /\ ~ SendsAt(iic, {"signal", "write"}) /\ SendsAt(iic, InUse)
       /\ iic'.send.pc \notin InUse
  BY <1>1, <1>2, <1>9 DEF SendsAt, InUse, c
<1>11. /\ iic'.accepted = iic.accepted /\ iic'.written = iic.written /\ iic'.dropped = iic.dropped
       /\ iic'.reset = iic.reset /\ iic'.lock = iic.lock /\ iic'.caller = iic.caller
       /\ iic'.attr = iic.attr
  BY <1>6, <1>9
<1>12. /\ BuffersOf(iic) /\ CopiedOf(iic) /\ Increasing(iic) /\ NoneReset(iic)
       /\ NoneDropped(iic)
  BY DEF SlaveKeeps
<1>13. \A x : Above(iic', x) <=> Above(iic, x)
  BY <1>11 DEF Above
<1>14. BuffersOf(iic')
  BY <1>3, <1>4, <1>5, <1>9, <1>10, <1>11, <1>12, <1>13 DEF BuffersOf
<1>15. CopiedOf(iic')
  <2> SUFFICES ASSUME iic.lock # NULL
               PROVE  CopiedOf(iic')
    BY <1>11 DEF CopiedOf
  <2>1. iic.caller[iic.lock].buf \in Buffers
    BY SlaveIs
  <2>2. PICK x \in Buffers : x = iic.caller[iic.lock].buf
    BY <2>1
  <2>3. 1 - x \in Buffers
    BY DEF Buffers
  <2>4. ~ old.pending[x] /\ old.data[x] = 0 /\ (x = a => ~ old.pending[1 - x])
    BY <1>3, <1>9, <1>12, <2>2 DEF CopiedOf
  <2>5. ~ pending[x] /\ (x = a => ~ pending[1 - x])
    BY <1>4, <2>3, <2>4
  <2> QED BY <1>5, <1>9, <1>10, <1>11, <2>2, <2>4, <2>5 DEF CopiedOf
<1>16. Increasing(iic')
  BY <1>11, <1>12 DEF Increasing
<1>17. NoneReset(iic')
  <2> SUFFICES ASSUME ~ iic.reset
               PROVE  NoneReset(iic')
    BY <1>11 DEF NoneReset
  <2>1. /\ \A i \in DOMAIN iic.written : iic.written[i] # 0
        /\ iic.lock # NULL => iic.caller[iic.lock].buf # a
    BY <1>3, <1>9, <1>12 DEF NoneReset
  <2>2. /\ ~ ChanOf(iic').pending[ChanOf(iic').active]
        /\ iic'.lock # NULL => iic'.caller[iic'.lock].buf # ChanOf(iic').active
    <3>1. ChanOf(iic').active = a /\ ChanOf(iic').pending = pending
      BY <1>5, <1>9
    <3> QED BY <1>4, <1>11, <2>1, <3>1
  <2> QED BY <1>10, <1>11, <2>1, <2>2 DEF NoneReset
<1>18. NoneDropped(iic')
  <2>1. Unwritten(iic') = Unwritten(iic)
    BY <1>3, <1>4, <1>5, <1>9, <1>10 DEF Unwritten
  <2> SUFFICES ASSUME ~ iic.dropped
               PROVE  NoneDropped(iic')
    BY <1>11 DEF NoneDropped
  <2>2. /\ ~ iic.reset /\ \A i \in DOMAIN iic.written : iic.written[i] = i
        /\ iic.accepted = Len(iic.written) + Unwritten(iic)
        /\ old.pending[b] => old.data[b] = iic.accepted
    BY <1>3, <1>9, <1>12 DEF NoneDropped
  <2>3. /\ ChanOf(iic').active = a /\ 1 - a = b
        /\ ChanOf(iic').pending[b] = old.pending[b] /\ ChanOf(iic').data = old.data
    BY <1>3, <1>4, <1>5, <1>9
  <2> QED BY <1>9, <1>10, <1>11, <2>1, <2>2, <2>3 DEF NoneDropped
<1> QED BY <1>9, <1>14, <1>15, <1>16, <1>17, <1>18 DEF SlaveKeeps

\* A step that makes ch of the channel, under the lock or with it.
UserSteps(ch, lock, caller, accepted, dropped, reset) ==
  /\ iic.attr # NULL /\ ch \in SlaveChannels
  /\ ch.live = iic.channel[iic.attr].live /\ ch.active = iic.channel[iic.attr].active
  /\ ch.snd = iic.channel[iic.attr].snd /\ ch.rec = iic.channel[iic.attr].rec
  /\ lock \in Callers \cup {NULL} /\ accepted \in Nat
  /\ caller \in [Callers -> [pc : {"idle", "copy", "wait"}, chan : Channels \cup {NULL},
                             buf : Buffers]]
  /\ \A t \in Callers : /\ (caller[t].pc = "copy") <=> (lock = t)
                        /\ caller[t].pc # "idle" => caller[t].chan \in Channels
  /\ lock # NULL => caller[lock].chan = iic.attr
  /\ dropped \in BOOLEAN /\ reset \in BOOLEAN
  /\ iic' = [iic EXCEPT !.channel = [iic.channel EXCEPT ![iic.attr] = ch], !.lock = lock,
                        !.caller = caller, !.accepted = accepted, !.dropped = dropped,
                        !.reset = reset]

LEMMA SlaveUsed ==
  ASSUME IicAssumption, SlaveKeeps(iic), NEW ch, NEW lock, NEW caller, NEW accepted, NEW dropped,
         NEW reset, UserSteps(ch, lock, caller, accepted, dropped, reset)
  PROVE  /\ /\ iic' \in Slaves /\ iic'.attr = iic.attr
            /\ iic'.channel = [iic.channel EXCEPT ![iic.attr] = ch] /\ iic'.lock = lock
            /\ iic'.send = iic.send /\ iic'.recv = iic.recv /\ iic'.caller = caller
            /\ iic'.owner = iic.owner /\ iic'.accepted = accepted /\ iic'.written = iic.written
            /\ iic'.dropped = dropped /\ iic'.reset = reset /\ iic'.overdue = iic.overdue
            /\ iic'.lied = iic.lied
         /\ iic.attr \in Channels /\ iic.attr # NULL
         /\ ChanOf(iic) = iic.channel[iic.attr] /\ ChanOf(iic') = ch
         /\ WhereAll(iic') /\ EndsFirst(iic')
<1>1. iic \in Slaves /\ iic.channel \in [Channels -> SlaveChannels]
      /\ iic.attr \in Channels /\ iic.attr # NULL
  BY SlaveIs DEF UserSteps
<1>2. PICK c \in Channels : c = iic.attr
  BY <1>1
<1> DEFINE channel == [iic.channel EXCEPT ![c] = ch]
<1>3. ch \in SlaveChannels
  BY DEF UserSteps
<1>4. /\ channel \in [Channels -> SlaveChannels] /\ channel[c] = ch
      /\ \A d \in Channels : d # c => channel[d] = iic.channel[d]
  BY <1>1, <1>3
<1>5. /\ iic' = [iic EXCEPT !.channel = channel, !.lock = lock, !.caller = caller,
                            !.accepted = accepted, !.dropped = dropped, !.reset = reset]
  BY <1>2 DEF UserSteps
<1>6. /\ lock \in Callers \cup {NULL} /\ accepted \in Nat
      /\ caller \in [Callers -> [pc : {"idle", "copy", "wait"}, chan : Channels \cup {NULL},
                                 buf : Buffers]]
      /\ dropped \in BOOLEAN /\ reset \in BOOLEAN
  BY DEF UserSteps
<1> HIDE DEF channel
<1>7. /\ iic' \in Slaves /\ iic'.attr = iic.attr /\ iic'.channel = channel /\ iic'.lock = lock
      /\ iic'.send = iic.send /\ iic'.recv = iic.recv /\ iic'.caller = caller
      /\ iic'.owner = iic.owner /\ iic'.accepted = accepted /\ iic'.written = iic.written
      /\ iic'.dropped = dropped /\ iic'.reset = reset /\ iic'.overdue = iic.overdue
      /\ iic'.lied = iic.lied
  BY ONLY <1>1, <1>4, <1>5, <1>6 DEF Slaves
<1>8. ChanOf(iic) = iic.channel[iic.attr] /\ ChanOf(iic') = ch
  BY <1>2, <1>4, <1>7 DEF ChanOf
<1>9. WhereAll(iic')
  <2>1. /\ ch.live = iic.channel[c].live
        /\ ch.snd = iic.channel[c].snd /\ ch.rec = iic.channel[c].rec
        /\ \A t \in Callers : /\ (caller[t].pc = "copy") <=> (lock = t)
                              /\ caller[t].pc # "idle" => caller[t].chan \in Channels
        /\ lock # NULL => caller[lock].chan = iic.attr
    BY <1>2 DEF UserSteps
  <2>2. WhereAll(iic)
    BY DEF SlaveKeeps
  <2>3. \A d \in Channels : /\ channel[d].live = iic.channel[d].live
                            /\ channel[d].snd = iic.channel[d].snd
                            /\ channel[d].rec = iic.channel[d].rec
    <3> TAKE d \in Channels
    <3> QED BY <1>4, <2>1
  <2>4. \A d \in Channels : (iic'.channel[d].live) <=> (d = iic'.attr)
    BY <1>7, <2>2, <2>3 DEF WhereAll
  <2>5. /\ \A t \in Callers : (iic'.caller[t].pc = "copy") <=> (iic'.lock = t)
        /\ \A t \in Callers : iic'.caller[t].pc # "idle" => iic'.caller[t].chan \in Channels
        /\ iic'.lock # NULL => iic'.attr # NULL /\ iic'.caller[iic'.lock].chan = iic'.attr
    <3>1. iic'.caller = caller /\ iic'.lock = lock /\ iic'.attr = iic.attr
      BY <1>7
    <3>2. \A t \in Callers : (iic'.caller[t].pc = "copy") <=> (iic'.lock = t)
      BY ONLY <3>1, <2>1
    <3>3. \A t \in Callers : iic'.caller[t].pc # "idle" => iic'.caller[t].chan \in Channels
      BY ONLY <3>1, <2>1
    <3> QED BY ONLY <1>1, <3>1, <3>2, <3>3, <2>1
  <2>6. /\ iic'.owner # "idle" => iic'.attr # NULL
        /\ iic'.send.pc # "none" => /\ iic'.send.chan \in Channels
                                    /\ iic'.channel[iic'.send.chan].snd
        /\ iic'.recv.pc # "none" => /\ iic'.recv.chan \in Channels
                                    /\ iic'.channel[iic'.recv.chan].rec
    BY <1>7, <2>2, <2>3 DEF WhereAll
  <2> QED BY <2>4, <2>5, <2>6 DEF WhereAll
<1>10. EndsFirst(iic')
  BY <1>7 DEF SlaveKeeps, EndsFirst
<1> QED BY <1>1, <1>2, <1>7, <1>8, <1>9, <1>10 DEF channel

LEMMA SlaveReset ==
  ASSUME IicAssumption, SlaveKeeps(iic), IS!Reset
  PROVE  SlaveKeeps(iic')
<1> DEFINE old == iic.channel[iic.attr]
           pending == [b \in {0, 1} |-> FALSE]
           ch == [old EXCEPT !.pending = pending]
<1>1. /\ iic' = [iic EXCEPT !.channel = [iic.channel EXCEPT ![iic.attr] = ch],
                            !.reset = TRUE, !.dropped = TRUE]
      /\ iic.attr # NULL /\ iic.attr \in Channels /\ iic.lock = NULL
      /\ iic \in Slaves /\ old \in SlaveChannels
  BY SlaveIs DEF IS!Reset, IS!Unlocked
<1>2. pending \in [Buffers -> BOOLEAN] /\ \A b \in Buffers : pending[b] = FALSE
  BY DEF Buffers
<1> HIDE DEF pending
<1>3. /\ ch \in SlaveChannels /\ ch.active = old.active /\ ch.live = old.live
      /\ ch.snd = old.snd /\ ch.rec = old.rec /\ ch.pending = pending /\ ch.data = old.data
  <2> HIDE DEF old
  <2> QED BY ONLY <1>1, <1>2 DEF SlaveChannels
<1>4. PICK lock, caller, accepted :
        lock = iic.lock /\ caller = iic.caller /\ accepted = iic.accepted
  OBVIOUS
<1>5. /\ lock \in Callers \cup {NULL} /\ accepted \in Nat
      /\ caller \in [Callers -> [pc : {"idle", "copy", "wait"}, chan : Channels \cup {NULL},
                                 buf : Buffers]]
  BY <1>1, <1>4 DEF Slaves
<1> HIDE DEF ch
<1>6. iic' = [iic EXCEPT !.channel = [iic.channel EXCEPT ![iic.attr] = ch], !.lock = lock,
                         !.caller = caller, !.accepted = accepted, !.dropped = TRUE,
                         !.reset = TRUE]
  BY <1>1, <1>4 DEF Slaves
<1>7. UserSteps(ch, lock, caller, accepted, TRUE, TRUE)
  <2>1. WhereAll(iic)
    BY DEF SlaveKeeps
  <2>2. /\ \A t \in Callers : /\ (caller[t].pc = "copy") <=> (lock = t)
                              /\ caller[t].pc # "idle" => caller[t].chan \in Channels
        /\ lock # NULL => caller[lock].chan = iic.attr
    BY <1>4, <2>1 DEF WhereAll
  <2> QED BY <1>1, <1>3, <1>5, <1>6, <2>2 DEF UserSteps
<1>8. /\ /\ iic' \in Slaves /\ iic'.attr = iic.attr
         /\ iic'.channel = [iic.channel EXCEPT ![iic.attr] = ch] /\ iic'.lock = lock
         /\ iic'.send = iic.send /\ iic'.recv = iic.recv /\ iic'.caller = caller
         /\ iic'.owner = iic.owner /\ iic'.accepted = accepted /\ iic'.written = iic.written
         /\ iic'.dropped = TRUE /\ iic'.reset = TRUE /\ iic'.overdue = iic.overdue
         /\ iic'.lied = iic.lied
      /\ ChanOf(iic) = old /\ ChanOf(iic') = ch
      /\ WhereAll(iic') /\ EndsFirst(iic')
  BY <1>7, SlaveUsed
<1> HIDE DEF old
<1>9. /\ BuffersOf(iic) /\ Increasing(iic)
  BY DEF SlaveKeeps
<1>10. \A x : Above(iic', x) <=> Above(iic, x)
  BY <1>8 DEF Above
<1>11. /\ 1 - old.active \in Buffers /\ old.active \in Buffers
  BY <1>1 DEF Buffers, SlaveChannels
<1>12. /\ (SendsAt(iic', {"switch"})) <=> (SendsAt(iic, {"switch"}))
       /\ (SendsAt(iic', {"signal", "write"})) <=> (SendsAt(iic, {"signal", "write"}))
  BY <1>8 DEF SendsAt
<1>13. BuffersOf(iic')
  BY <1>1, <1>2, <1>3, <1>4, <1>8, <1>9, <1>10, <1>11, <1>12 DEF BuffersOf
<1>14. CopiedOf(iic')
  BY <1>1, <1>4, <1>8 DEF CopiedOf
<1>15. Increasing(iic') /\ NoneReset(iic') /\ NoneDropped(iic')
  BY <1>4, <1>8, <1>9 DEF Increasing, NoneReset, NoneDropped
<1> QED BY <1>8, <1>13, <1>14, <1>15 DEF SlaveKeeps

LEMMA SlaveTransmit ==
  ASSUME IicAssumption, SlaveKeeps(iic), NEW t \in Callers, IS!Transmit(t)
  PROVE  SlaveKeeps(iic')
<1> DEFINE old == iic.channel[iic.attr]
<1>1. /\ iic.attr # NULL /\ iic.attr \in Channels /\ iic.lock = NULL
      /\ iic \in Slaves /\ old \in SlaveChannels /\ old.active \in Buffers
      /\ old.pending \in [Buffers -> BOOLEAN] /\ old.data \in [Buffers -> Nat]
      /\ iic.caller[t].pc = "idle"
  BY SlaveIs DEF IS!Transmit, IS!Unlocked
<1>2. PICK a \in Buffers, b \in Buffers : a = old.active /\ b = 1 - a /\ a = 1 - b /\ a # b
  <2>1. CASE old.active = 0
    BY <2>1 DEF Buffers
  <2>2. CASE old.active = 1
    BY <2>2 DEF Buffers
  <2> QED BY <1>1, <2>1, <2>2 DEF Buffers
<1> DEFINE data == [old.data EXCEPT ![b] = 0]
           ch == [old EXCEPT !.data = data]
           own == [pc |-> "copy", chan |-> iic.attr, buf |-> b]
           caller == [iic.caller EXCEPT ![t] = own]
<1>3. /\ iic' = [iic EXCEPT !.lock = t, !.channel = [iic.channel EXCEPT ![iic.attr] = ch],
                            !.caller = caller]
      /\ ~ old.pending[b]
  BY <1>2 DEF IS!Transmit, IS!Chan
<1>4. data \in [Buffers -> Nat] /\ data[b] = 0 /\ data[a] = old.data[a]
  BY <1>1, <1>2
<1> HIDE DEF data
<1>5. /\ ch \in SlaveChannels /\ ch.active = a /\ ch.live = old.live
      /\ ch.snd = old.snd /\ ch.rec = old.rec /\ ch.pending = old.pending /\ ch.data = data
  <2>1. a = old.active
    BY <1>2
  <2> HIDE DEF old
  <2> QED BY ONLY <1>1, <1>4, <2>1 DEF SlaveChannels
<1>6. /\ own \in [pc : {"idle", "copy", "wait"}, chan : Channels \cup {NULL}, buf : Buffers]
      /\ own.pc = "copy" /\ own.chan = iic.attr /\ own.buf = b
  BY <1>1, <1>2
<1> HIDE DEF ch, own
<1>7. /\ caller \in [Callers -> [pc : {"idle", "copy", "wait"}, chan : Channels \cup {NULL},
                                 buf : Buffers]]
      /\ caller[t] = own /\ \A s \in Callers : s # t => caller[s] = iic.caller[s]
  BY <1>1, <1>6 DEF Slaves
<1> HIDE DEF caller
<1>8. PICK accepted \in Nat, dropped \in BOOLEAN, reset \in BOOLEAN :
        accepted = iic.accepted /\ dropped = iic.dropped /\ reset = iic.reset
  BY <1>1 DEF Slaves
<1>9. iic' = [iic EXCEPT !.channel = [iic.channel EXCEPT ![iic.attr] = ch], !.lock = t,
                         !.caller = caller, !.accepted = accepted, !.dropped = dropped,
                         !.reset = reset]
  BY <1>3, <1>1, <1>8 DEF Slaves
<1>10. UserSteps(ch, t, caller, accepted, dropped, reset)
  <2>1. WhereAll(iic)
    BY DEF SlaveKeeps
  <2>2. \A s \in Callers : s # t => iic.caller[s].pc # "copy"
    BY <1>1, <2>1 DEF WhereAll, IicAssumption
  <2>3. /\ \A s \in Callers : /\ (caller[s].pc = "copy") <=> (t = s)
                              /\ caller[s].pc # "idle" => caller[s].chan \in Channels
        /\ caller[t].chan = iic.attr
    BY <1>1, <1>6, <1>7, <2>1, <2>2 DEF WhereAll
  <2>4. a = old.active
    BY <1>2
  <2> QED BY <1>1, <1>5, <1>7, <1>8, <1>9, <2>3, <2>4 DEF UserSteps
<1>11. /\ /\ iic' \in Slaves /\ iic'.attr = iic.attr
          /\ iic'.channel = [iic.channel EXCEPT ![iic.attr] = ch] /\ iic'.lock = t
          /\ iic'.send = iic.send /\ iic'.recv = iic.recv /\ iic'.caller = caller
          /\ iic'.owner = iic.owner /\ iic'.accepted = accepted /\ iic'.written = iic.written
          /\ iic'.dropped = dropped /\ iic'.reset = reset /\ iic'.overdue = iic.overdue
          /\ iic'.lied = iic.lied
       /\ ChanOf(iic) = old /\ ChanOf(iic') = ch
       /\ WhereAll(iic') /\ EndsFirst(iic')
  BY <1>10, SlaveUsed
<1> HIDE DEF old
<1>12. /\ BuffersOf(iic) /\ Increasing(iic) /\ NoneReset(iic) /\ NoneDropped(iic)
  BY DEF SlaveKeeps
<1>13. \A x : Above(iic', x) <=> Above(iic, x)
  BY <1>11 DEF Above
<1>14. /\ (SendsAt(iic', {"switch"})) <=> (SendsAt(iic, {"switch"}))
       /\ (SendsAt(iic', {"signal", "write"})) <=> (SendsAt(iic, {"signal", "write"}))
       /\ (SendsAt(iic', InUse)) <=> (SendsAt(iic, InUse))
  BY <1>11 DEF SendsAt
<1>15. \A x \in Buffers : x = a \/ x = b
  BY <1>2 DEF Buffers
<1>16. BuffersOf(iic')
  <2>1. /\ \A x \in Buffers : old.data[x] <= iic.accepted /\ (old.pending[x] => old.data[x] > 0)
        /\ SendsAt(iic, {"switch"}) => ~ old.pending[a]
        /\ SendsAt(iic, {"signal", "write"}) => old.data[a] = 0 \/ Above(iic, old.data[a])
    BY <1>1, <1>2, <1>11, <1>12 DEF BuffersOf
  <2>2. \A x \in Buffers : data[x] <= iic.accepted /\ (old.pending[x] => data[x] > 0)
    BY <1>3, <1>4, <1>8, <1>15, <2>1
  <2> QED BY <1>2, <1>3, <1>4, <1>5, <1>8, <1>11, <1>13, <1>14, <2>1, <2>2 DEF BuffersOf
<1>17. CopiedOf(iic')
  BY <1>2, <1>3, <1>4, <1>5, <1>6, <1>7, <1>11 DEF CopiedOf
<1>18. Increasing(iic')
  BY <1>8, <1>11, <1>12 DEF Increasing
<1>19. NoneReset(iic')
  <2> SUFFICES ASSUME ~ iic.reset
               PROVE  NoneReset(iic')
    BY <1>8, <1>11 DEF NoneReset
  <2>1. /\ \A i \in DOMAIN iic.written : iic.written[i] # 0
        /\ SendsAt(iic, {"switch"}) => old.pending[b]
        /\ (old.pending[a]) <=> (SendsAt(iic, InUse))
    BY <1>1, <1>2, <1>11, <1>12 DEF NoneReset
  <2>2. caller[t].buf # a
    BY <1>2, <1>6, <1>7
  <2> QED BY <1>2, <1>5, <1>11, <1>14, <2>1, <2>2 DEF NoneReset
<1>20. NoneDropped(iic')
  <2> SUFFICES ASSUME ~ iic.dropped
               PROVE  NoneDropped(iic')
    BY <1>8, <1>11 DEF NoneDropped
  <2>1. Unwritten(iic') = Unwritten(iic)
    BY <1>2, <1>5, <1>11, <1>14 DEF Unwritten
  <2>2. /\ ~ iic.reset /\ \A i \in DOMAIN iic.written : iic.written[i] = i
        /\ iic.send.pc \in InUse => iic.send.chan = iic.attr
        /\ iic.accepted = Len(iic.written) + Unwritten(iic)
        /\ SendsAt(iic, {"signal", "write"}) => old.data[a] = Len(iic.written) + 1
    BY <1>1, <1>2, <1>11, <1>12 DEF NoneDropped
  <2> QED BY <1>1, <1>2, <1>3, <1>4, <1>5, <1>8, <1>11, <1>14, <2>1, <2>2 DEF NoneDropped
<1> QED BY <1>11, <1>16, <1>17, <1>18, <1>19, <1>20 DEF SlaveKeeps

LEMMA SlaveAccept ==
  ASSUME IicAssumption, SlaveKeeps(iic), NEW t \in Callers, IS!Accept(t)
  PROVE  SlaveKeeps(iic')
<1> DEFINE old == iic.channel[iic.attr]
<1>1. /\ iic.attr # NULL /\ iic.attr \in Channels /\ iic.lock = t /\ t # NULL
      /\ iic \in Slaves /\ old \in SlaveChannels /\ old.active \in Buffers
      /\ old.pending \in [Buffers -> BOOLEAN] /\ old.data \in [Buffers -> Nat]
      /\ iic.caller[t].pc = "copy" /\ iic.caller[t].chan = iic.attr
      /\ iic.caller[t].buf \in Buffers
  <2>1. iic.caller[t].pc = "copy"
    BY DEF IS!Accept
  <2>2. iic.lock = t /\ t # NULL /\ iic.attr # NULL /\ iic.caller[t].chan = iic.attr
    BY <2>1 DEF SlaveKeeps, WhereAll, IicAssumption
  <2> QED BY <2>1, <2>2, SlaveIs
<1>2. PICK a \in Buffers, b \in Buffers : a = old.active /\ b = 1 - a /\ a = 1 - b /\ a # b
  <2>1. CASE old.active = 0
    BY <2>1 DEF Buffers
  <2>2. CASE old.active = 1
    BY <2>2 DEF Buffers
  <2> QED BY <1>1, <2>1, <2>2 DEF Buffers
<1>3. PICK x \in Buffers : x = iic.caller[t].buf
  BY <1>1
<1>4. PICK n \in Nat : n = iic.accepted
  BY SlaveIs
<1> DEFINE data == [old.data EXCEPT ![x] = n + 1]
           pending == [old.pending EXCEPT ![x] = TRUE]
           ch == [old EXCEPT !.data = data, !.pending = pending]
           own == [iic.caller[t] EXCEPT !.pc = "wait"]
           caller == [iic.caller EXCEPT ![t] = own]
<1>5. iic' = [iic EXCEPT !.lock = NULL, !.accepted = n + 1, !.caller = caller,
                         !.channel = [iic.channel EXCEPT ![iic.attr] = ch]]
  <2>1. iic' = [iic EXCEPT !.lock = NULL, !.accepted = @ + 1, !.caller[t].pc = "wait",
                           !.channel[iic.attr].data[x] = iic.accepted + 1,
                           !.channel[iic.attr].pending[x] = TRUE]
    BY <1>1, <1>3 DEF IS!Accept
  <2>2. iic.channel \in [Channels -> SlaveChannels]
    BY SlaveIs
  <2>3. PICK d : d = iic.attr /\ d \in Channels
    BY <1>1
  <2>4. iic' = [iic EXCEPT !.lock = NULL, !.accepted = n + 1, !.caller[t].pc = "wait",
                           !.channel[d].data[x] = n + 1, !.channel[d].pending[x] = TRUE]
    BY <1>4, <2>1, <2>3
  <2>5. iic' = [iic EXCEPT !.lock = NULL, !.accepted = n + 1, !.caller = caller,
                           !.channel = [[iic.channel EXCEPT ![d].data[x] = n + 1]
                                          EXCEPT ![d].pending[x] = TRUE]]
    <3>1. iic \in Slaves
      BY <1>1
    <3>2. PICK r : r = [iic EXCEPT !.lock = NULL, !.accepted = n + 1, !.caller[t].pc = "wait",
                                   !.channel[d].data[x] = n + 1]
      OBVIOUS
    <3>3. iic' = [r EXCEPT !.channel[d].pending[x] = TRUE]
      BY <2>4, <3>2
    <3>4. r = [iic EXCEPT !.lock = NULL, !.accepted = n + 1, !.caller = caller,
                          !.channel = [iic.channel EXCEPT ![d].data[x] = n + 1]]
      BY ONLY <3>1, <3>2 DEF Slaves
    <3>5. PICK chans : chans = [iic.channel EXCEPT ![d].data[x] = n + 1]
      OBVIOUS
    <3>6. iic' = [r EXCEPT !.channel = [chans EXCEPT ![d].pending[x] = TRUE]]
      BY <3>3, <3>4, <3>5
    <3>7. PICK after, cs : after = [chans EXCEPT ![d].pending[x] = TRUE] /\ cs = caller
      OBVIOUS
    <3>8. /\ r = [iic EXCEPT !.lock = NULL, !.accepted = n + 1, !.caller = cs, !.channel = chans]
          /\ iic' = [r EXCEPT !.channel = after]
      BY <3>4, <3>5, <3>6, <3>7
    <3>9. iic' = [iic EXCEPT !.lock = NULL, !.accepted = n + 1, !.caller = cs,
                             !.channel = after]
      BY ONLY <3>1, <3>8 DEF Slaves
    <3> QED BY <3>5, <3>7, <3>9
  <2>6. [[iic.channel EXCEPT ![d].data[x] = n + 1] EXCEPT ![d].pending[x] = TRUE]
          = [iic.channel EXCEPT ![iic.attr] = ch]
    BY <1>1, <2>2, <2>3 DEF SlaveChannels
  <2> QED BY <2>5, <2>6
<1>6. /\ data \in [Buffers -> Nat] /\ data[x] = n + 1
      /\ \A y \in Buffers : y # x => data[y] = old.data[y]
  BY <1>1
<1>7. pending \in [Buffers -> BOOLEAN]
  BY <1>1
<1>8. pending[x] = TRUE /\ \A y \in Buffers : y # x => pending[y] = old.pending[y]
  BY <1>1
<1> HIDE DEF data, pending
<1>9. /\ ch \in SlaveChannels /\ ch.active = a /\ ch.live = old.live
      /\ ch.snd = old.snd /\ ch.rec = old.rec /\ ch.pending = pending /\ ch.data = data
  <2>1. a = old.active
    BY <1>2
  <2> HIDE DEF old
  <2> QED BY ONLY <1>1, <1>6, <1>7, <2>1 DEF SlaveChannels
<1>10. /\ own \in [pc : {"idle", "copy", "wait"}, chan : Channels \cup {NULL}, buf : Buffers]
       /\ own.pc = "wait" /\ own.chan = iic.attr
  <2>1. iic.caller[t] \in [pc : {"idle", "copy", "wait"}, chan : Channels \cup {NULL},
                           buf : Buffers]
    BY <1>1 DEF Slaves
  <2>2. own = [iic.caller[t] EXCEPT !.pc = "wait"]
    OBVIOUS
  <2> HIDE DEF own
  <2> QED BY ONLY <1>1, <2>1, <2>2
<1> HIDE DEF ch, own
<1>11. /\ caller \in [Callers -> [pc : {"idle", "copy", "wait"}, chan : Channels \cup {NULL},
                                  buf : Buffers]]
       /\ caller[t] = own /\ \A s \in Callers : s # t => caller[s] = iic.caller[s]
  BY <1>1, <1>10 DEF Slaves
<1> HIDE DEF caller
<1>12. PICK dropped \in BOOLEAN, reset \in BOOLEAN : dropped = iic.dropped /\ reset = iic.reset
  BY <1>1 DEF Slaves
<1>13. PICK accepted \in Nat : accepted = n + 1
  OBVIOUS
<1>14. iic' = [iic EXCEPT !.channel = [iic.channel EXCEPT ![iic.attr] = ch], !.lock = NULL,
                          !.caller = caller, !.accepted = accepted, !.dropped = dropped,
                          !.reset = reset]
  BY <1>1, <1>5, <1>12, <1>13 DEF Slaves
<1>15. UserSteps(ch, NULL, caller, accepted, dropped, reset)
  <2>1. WhereAll(iic)
    BY DEF SlaveKeeps
  <2>2. \A s \in Callers : s # t => iic.caller[s].pc # "copy"
    BY <1>1, <2>1 DEF WhereAll
  <2>3. \A s \in Callers : /\ (caller[s].pc = "copy") <=> (NULL = s)
                           /\ caller[s].pc # "idle" => caller[s].chan \in Channels
    BY <1>1, <1>10, <1>11, <2>1, <2>2 DEF WhereAll, IicAssumption
  <2>4. a = old.active
    BY <1>2
  <2> QED BY <1>1, <1>9, <1>11, <1>12, <1>13, <1>14, <2>3, <2>4 DEF UserSteps
<1>16. /\ /\ iic' \in Slaves /\ iic'.attr = iic.attr
          /\ iic'.channel = [iic.channel EXCEPT ![iic.attr] = ch] /\ iic'.lock = NULL
          /\ iic'.send = iic.send /\ iic'.recv = iic.recv /\ iic'.caller = caller
          /\ iic'.owner = iic.owner /\ iic'.accepted = accepted /\ iic'.written = iic.written
          /\ iic'.dropped = dropped /\ iic'.reset = reset /\ iic'.overdue = iic.overdue
          /\ iic'.lied = iic.lied
       /\ ChanOf(iic) = old /\ ChanOf(iic') = ch
       /\ WhereAll(iic') /\ EndsFirst(iic')
  BY <1>15, SlaveUsed
<1> HIDE DEF old
<1>17. /\ BuffersOf(iic) /\ CopiedOf(iic) /\ Increasing(iic) /\ NoneReset(iic)
       /\ NoneDropped(iic)
  BY DEF SlaveKeeps
<1>18. \A y : Above(iic', y) <=> Above(iic, y)
  BY <1>16 DEF Above
<1>19. /\ (SendsAt(iic', {"switch"})) <=> (SendsAt(iic, {"switch"}))
       /\ (SendsAt(iic', {"signal", "write"})) <=> (SendsAt(iic, {"signal", "write"}))
       /\ (SendsAt(iic', InUse)) <=> (SendsAt(iic, InUse))
  BY <1>16 DEF SendsAt
<1>20. \A y \in Buffers : y = a \/ y = b
  BY <1>2 DEF Buffers
<1>21. /\ ~ old.pending[x] /\ old.data[x] = 0
       /\ x = a => ~ old.pending[b] /\ ~ SendsAt(iic, {"switch"})
  BY <1>1, <1>2, <1>3, <1>16, <1>17 DEF CopiedOf
<1>22. Above(iic, n + 1)
  <2>1. \A i \in DOMAIN iic.written : iic.written[i] <= n /\ iic.written[i] \in Nat
    BY <1>1, <1>4, <1>17 DEF Increasing, Slaves
  <2> QED BY <2>1 DEF Above
<1>23. /\ \A y \in Buffers : old.data[y] <= n /\ (old.pending[y] => old.data[y] > 0)
       /\ old.pending[b] => Above(iic, old.data[b])
       /\ SendsAt(iic, {"switch"}) => /\ ~ old.pending[a]
                                      /\ old.data[b] = 0 \/ Above(iic, old.data[b])
       /\ SendsAt(iic, {"signal", "write"}) =>
            /\ old.data[a] = 0 \/ Above(iic, old.data[a])
            /\ old.pending[b] => old.data[a] < old.data[b]
  BY <1>1, <1>2, <1>4, <1>16, <1>17 DEF BuffersOf
<1>24. BuffersOf(iic')
  <2>1. \A y \in Buffers : data[y] <= n + 1 /\ (pending[y] => data[y] > 0)
    BY <1>1, <1>6, <1>8, <1>23
  <2>2. pending[b] => Above(iic', data[b])
    BY <1>6, <1>8, <1>18, <1>20, <1>21, <1>22, <1>23
  <2>3. SendsAt(iic', {"switch"}) =>
          ~ pending[a] /\ (data[b] = 0 \/ Above(iic', data[b]))
    BY <1>2, <1>6, <1>8, <1>18, <1>19, <1>20, <1>21, <1>22, <1>23
  <2>4. SendsAt(iic', {"signal", "write"}) =>
          /\ data[a] = 0 \/ Above(iic', data[a])
          /\ pending[b] => data[a] < data[b]
    <3>1. CASE x = a
      BY <1>2, <1>6, <1>8, <1>18, <1>21, <1>22, <3>1
    <3>2. CASE x = b
      BY <1>1, <1>2, <1>6, <1>8, <1>18, <1>19, <1>23, <3>2
    <3> QED BY <1>20, <3>1, <3>2
  <2> QED BY <1>2, <1>9, <1>13, <1>16, <2>1, <2>2, <2>3, <2>4 DEF BuffersOf
<1>25. CopiedOf(iic')
  BY <1>16 DEF CopiedOf
<1>26. Increasing(iic')
  <2>1. \A i \in DOMAIN iic.written : iic.written[i] <= n /\ iic.written[i] \in Nat
    BY <1>1, <1>4, <1>17 DEF Increasing, Slaves
  <2>2. \A i \in DOMAIN iic.written : iic.written[i] <= accepted
    BY <1>13, <2>1
  <2> QED BY <1>16, <1>17, <2>2 DEF Increasing
<1>27. NoneReset(iic')
  <2> SUFFICES ASSUME ~ iic.reset
               PROVE  NoneReset(iic')
    BY <1>12, <1>16 DEF NoneReset
  <2>1. /\ \A i \in DOMAIN iic.written : iic.written[i] # 0
        /\ (old.pending[a]) <=> (SendsAt(iic, InUse))
        /\ x # a
    BY <1>1, <1>2, <1>3, <1>16, <1>17 DEF NoneReset
  <2>2. x = b /\ pending[b] /\ pending[a] = old.pending[a]
    BY <1>2, <1>8, <1>20, <2>1
  <2> QED BY <1>2, <1>9, <1>16, <1>19, <2>1, <2>2 DEF NoneReset
<1>28. NoneDropped(iic')
  <2> SUFFICES ASSUME ~ iic.dropped
               PROVE  NoneDropped(iic')
    BY <1>12, <1>16 DEF NoneDropped
  <2>1. /\ ~ iic.reset /\ \A i \in DOMAIN iic.written : iic.written[i] = i
        /\ iic.send.pc \in InUse => iic.send.chan = iic.attr
        /\ iic.accepted = Len(iic.written) + Unwritten(iic)
        /\ SendsAt(iic, {"signal", "write"}) => old.data[a] = Len(iic.written) + 1
    BY <1>1, <1>2, <1>16, <1>17 DEF NoneDropped
  <2>2. x # a
    BY <1>1, <1>2, <1>3, <1>16, <1>17, <2>1 DEF NoneReset
  <2>3. x = b /\ pending[b] = TRUE /\ data[b] = n + 1 /\ data[a] = old.data[a]
        /\ old.pending[b] = FALSE
    BY <1>1, <1>2, <1>6, <1>8, <1>20, <1>21, <2>2
  <2>4. PICK m \in Nat : m = Len(iic.written)
    BY <1>1 DEF Slaves
  <2>5. accepted = m + Unwritten(iic')
    <3>1. /\ ChanOf(iic).active = a /\ ChanOf(iic').active = a /\ 1 - a = b
          /\ ~ ChanOf(iic).pending[b] /\ ChanOf(iic').pending[b]
      BY <1>2, <1>9, <1>16, <2>3
    <3>2. CASE SendsAt(iic, {"signal", "write"})
      <4>1. Unwritten(iic) = 1 /\ Unwritten(iic') = 2
        BY ONLY <1>19, <3>1, <3>2 DEF Unwritten
      <4> QED BY <1>4, <1>13, <2>1, <2>4, <4>1
    <3>3. CASE ~ SendsAt(iic, {"signal", "write"})
      <4>1. Unwritten(iic) = 0 /\ Unwritten(iic') = 1
        BY ONLY <1>19, <3>1, <3>3 DEF Unwritten
      <4> QED BY <1>4, <1>13, <2>1, <2>4, <4>1
    <3> QED BY <3>2, <3>3
  <2> QED BY <1>1, <1>2, <1>9, <1>12, <1>13, <1>16, <1>19, <2>1, <2>3, <2>4, <2>5 DEF NoneDropped
<1> QED BY <1>16, <1>24, <1>25, <1>26, <1>27, <1>28 DEF SlaveKeeps

\* The end of a wait takes a token of the channel or none.
LEMMA SlaveTransmitEnd ==
  ASSUME IicAssumption, SlaveKeeps(iic), NEW t \in Callers, IS!TransmitEnd(t)
  PROVE  SlaveKeeps(iic')
<1> DEFINE own == [pc |-> "idle", chan |-> NULL, buf |-> 0]
           caller == [iic.caller EXCEPT ![t] = own]
           c == iic.caller[t].chan
<1>1. /\ iic \in Slaves /\ iic.channel \in [Channels -> SlaveChannels]
      /\ iic.caller[t].pc = "wait" /\ c \in Channels
  BY SlaveIs DEF IS!TransmitEnd, SlaveKeeps, WhereAll
<1>2. own \in [pc : {"idle", "copy", "wait"}, chan : Channels \cup {NULL}, buf : Buffers]
      /\ own.pc = "idle"
  BY DEF Buffers
<1>3. PICK channel :
        /\ channel \in [Channels -> SlaveChannels]
        /\ iic' = [iic EXCEPT !.caller = caller, !.channel = channel]
        /\ \A d \in Channels :
             /\ channel[d].live = iic.channel[d].live
             /\ channel[d].snd = iic.channel[d].snd /\ channel[d].rec = iic.channel[d].rec
             /\ channel[d].active = iic.channel[d].active
             /\ channel[d].pending = iic.channel[d].pending
             /\ channel[d].data = iic.channel[d].data
  <2>1. CASE iic' = [iic EXCEPT !.caller[t] = own]
    <3> WITNESS iic.channel
    <3>1. iic' = [iic EXCEPT !.caller = caller, !.channel = iic.channel]
      BY <1>1, <2>1 DEF Slaves
    <3> QED BY <1>1, <3>1
  <2>2. CASE /\ iic.channel[c].tx_loaded > 0
             /\ iic' = [[iic EXCEPT !.caller[t] = own] EXCEPT !.channel[c].tx_loaded = @ - 1]
    <3> DEFINE ch == [iic.channel[c] EXCEPT !.tx_loaded = @ - 1]
               channel == [iic.channel EXCEPT ![c] = ch]
    <3>1. PICK n \in Int : n = iic.channel[c].tx_loaded - 1
      BY <1>1 DEF SlaveChannels
    <3>2. iic.channel[c] \in SlaveChannels /\ ch = [iic.channel[c] EXCEPT !.tx_loaded = n]
      BY <1>1, <3>1
    <3>3. /\ ch \in SlaveChannels /\ ch.live = iic.channel[c].live
          /\ ch.snd = iic.channel[c].snd /\ ch.rec = iic.channel[c].rec
          /\ ch.active = iic.channel[c].active /\ ch.pending = iic.channel[c].pending
          /\ ch.data = iic.channel[c].data
      <4> HIDE DEF ch, c
      <4> QED BY <3>1, <3>2 DEF SlaveChannels
    <3>4. iic' = [iic EXCEPT !.caller = caller, !.channel = channel]
      BY <1>1, <2>2 DEF Slaves
    <3> HIDE DEF ch
    <3> WITNESS channel
    <3>5. channel \in [Channels -> SlaveChannels]
      BY <1>1, <3>3
    <3>6. channel[c] = ch /\ \A d \in Channels : d # c => channel[d] = iic.channel[d]
      BY <1>1
    <3> HIDE DEF channel
    <3> QED BY <3>3, <3>4, <3>5, <3>6
  <2> QED BY <2>1, <2>2 DEF IS!TransmitEnd
<1> HIDE DEF own
<1>4. /\ caller \in [Callers -> [pc : {"idle", "copy", "wait"}, chan : Channels \cup {NULL},
                                 buf : Buffers]]
      /\ caller[t] = own /\ \A s \in Callers : s # t => caller[s] = iic.caller[s]
  BY <1>1, <1>2 DEF Slaves
<1> HIDE DEF caller
<1>5. /\ iic' \in Slaves /\ iic'.attr = iic.attr /\ iic'.channel = channel
      /\ iic'.lock = iic.lock /\ iic'.send = iic.send /\ iic'.recv = iic.recv
      /\ iic'.caller = caller /\ iic'.owner = iic.owner /\ iic'.accepted = iic.accepted
      /\ iic'.written = iic.written /\ iic'.dropped = iic.dropped /\ iic'.reset = iic.reset
      /\ iic'.overdue = iic.overdue /\ iic'.lied = iic.lied
  BY ONLY <1>1, <1>3, <1>4 DEF Slaves
<1>6. iic.lock # t /\ WhereAll(iic)
  BY <1>1 DEF SlaveKeeps, WhereAll
<1>7. WhereAll(iic')
  <2>1. /\ \A s \in Callers : (caller[s].pc = "copy") <=> (iic.lock = s)
        /\ \A s \in Callers : caller[s].pc # "idle" => caller[s].chan \in Channels
        /\ iic.lock # NULL => iic.attr # NULL /\ caller[iic.lock].chan = iic.attr
    <3>1. \A s \in Callers :
            s # t => /\ (iic.caller[s].pc = "copy") <=> (iic.lock = s)
                     /\ iic.caller[s].pc # "idle" => iic.caller[s].chan \in Channels
      BY <1>6 DEF WhereAll
    <3>2. \A s \in Callers : (caller[s].pc = "copy") <=> (iic.lock = s)
      BY <1>2, <1>4, <1>6, <3>1
    <3>3. \A s \in Callers : caller[s].pc # "idle" => caller[s].chan \in Channels
      BY <1>2, <1>4, <3>1
    <3>4. iic.lock # NULL => iic.attr # NULL /\ caller[iic.lock].chan = iic.attr
      <4>1. iic.lock # NULL => iic.lock \in Callers
        BY SlaveIs
      <4>2. iic.lock # NULL => iic.attr # NULL /\ iic.caller[iic.lock].chan = iic.attr
        BY <1>6 DEF WhereAll
      <4> QED BY <1>4, <1>6, <4>1, <4>2
    <3> QED BY <3>2, <3>3, <3>4
  <2>2. /\ \A d \in Channels : (channel[d].live) <=> (d = iic.attr)
        /\ iic.owner # "idle" => iic.attr # NULL
        /\ iic.send.pc # "none" => iic.send.chan \in Channels /\ channel[iic.send.chan].snd
        /\ iic.recv.pc # "none" => iic.recv.chan \in Channels /\ channel[iic.recv.chan].rec
    BY <1>3, <1>6 DEF WhereAll
  <2> QED BY <1>5, <2>1, <2>2 DEF WhereAll
<1>8. EndsFirst(iic')
  BY <1>5 DEF SlaveKeeps, EndsFirst
<1>9. Alike(iic', iic)
  <2>1. iic.lock # NULL => iic.lock \in Callers
    BY SlaveIs
  <2>2. iic.attr # NULL => iic.attr \in Channels
    BY SlaveIs
  <2> QED BY <1>3, <1>4, <1>5, <1>6, <2>1, <2>2 DEF Alike, ChanOf, SendsAt
<1> QED BY <1>5, <1>7, <1>8, <1>9, AlikeKeep DEF SlaveKeeps

LEMMA SlaveDestroy ==
  ASSUME IicAssumption, SlaveKeeps(iic), IS!Destroy
  PROVE  SlaveKeeps(iic')
<1>1. PICK late \in BOOLEAN :
        /\ iic' = IS!Freed(late) /\ iic.lock = NULL
        /\ ~ late => iic.owner = "recv" /\ IS!Gone(iic.recv)
        /\ iic.owner # "idle"
  <2>1. iic.lock = NULL
    BY DEF IS!Destroy, IS!Unlocked
  <2>2. CASE iic.owner = "recv" /\ IS!Gone(iic.recv) /\ iic' = IS!Freed(FALSE)
    BY <2>1, <2>2
  <2>3. CASE iic.owner = "recv" /\ iic' = IS!Freed(TRUE)
    BY <2>1, <2>3
  <2>4. CASE iic.owner = "send" /\ iic' = IS!Freed(TRUE)
    BY <2>1, <2>4
  <2> QED BY <2>2, <2>3, <2>4 DEF IS!Destroy
<1>2. /\ iic \in Slaves /\ iic.channel \in [Channels -> SlaveChannels]
      /\ iic.attr # NULL /\ iic.attr \in Channels
      /\ WhereAll(iic) /\ EndsFirst(iic) /\ Increasing(iic) /\ NoneReset(iic)
      /\ NoneDropped(iic)
  <2>1. iic.attr # NULL
    BY <1>1 DEF SlaveKeeps, WhereAll
  <2> QED BY <2>1, SlaveIs DEF SlaveKeeps
<1>3. PICK c \in Channels : c = iic.attr
  BY <1>2
<1> DEFINE old == iic.channel[c]
           ch == [old EXCEPT !.live = FALSE]
           channel == [iic.channel EXCEPT ![c] = ch]
<1>4. PICK dropped \in BOOLEAN, overdue \in BOOLEAN :
        /\ dropped = (iic.dropped \/ \E b \in {0, 1} : old.pending[b])
        /\ overdue = (iic.overdue \/ late)
  <2>1. PICK d, o : d = (iic.dropped \/ \E b \in {0, 1} : old.pending[b])
                    /\ o = (iic.overdue \/ late)
    OBVIOUS
  <2>2. d \in BOOLEAN /\ o \in BOOLEAN
    BY <2>1
  <2> QED BY <2>1, <2>2
<1>5. iic' = [iic EXCEPT !.owner = "idle", !.attr = NULL, !.channel = channel,
                         !.dropped = dropped, !.overdue = overdue]
  BY <1>1, <1>2, <1>3, <1>4 DEF IS!Freed, IS!Chan, Slaves
<1>6. /\ old \in SlaveChannels /\ old.pending \in [Buffers -> BOOLEAN] /\ old.active \in Buffers
  BY SlaveIs
<1>7. /\ ch \in SlaveChannels /\ ~ ch.live /\ ch.snd = old.snd /\ ch.rec = old.rec
  <2> HIDE DEF old
  <2> QED BY ONLY <1>6 DEF SlaveChannels
<1> HIDE DEF ch
<1>8. /\ channel \in [Channels -> SlaveChannels] /\ channel[c] = ch
      /\ \A d \in Channels : d # c => channel[d] = iic.channel[d]
  BY <1>2, <1>7
<1> HIDE DEF channel
<1>9. /\ iic' \in Slaves /\ iic'.attr = NULL /\ iic'.channel = channel /\ iic'.lock = iic.lock
      /\ iic'.send = iic.send /\ iic'.recv = iic.recv /\ iic'.caller = iic.caller
      /\ iic'.owner = "idle" /\ iic'.accepted = iic.accepted /\ iic'.written = iic.written
      /\ iic'.dropped = dropped /\ iic'.reset = iic.reset /\ iic'.overdue = overdue
      /\ iic'.lied = iic.lied
  <2>1. dropped \in BOOLEAN /\ overdue \in BOOLEAN
    BY <1>4
  <2> QED BY ONLY <1>2, <1>5, <1>8, <2>1 DEF Slaves
<1>10. WhereAll(iic')
  <2>1. \A d \in Channels : /\ ~ channel[d].live
                            /\ channel[d].snd = iic.channel[d].snd
                            /\ channel[d].rec = iic.channel[d].rec
    <3> TAKE d \in Channels
    <3>1. CASE d = c
      BY <1>7, <1>8, <3>1
    <3>2. CASE d # c
      BY <1>2, <1>3, <1>8, <3>2 DEF WhereAll
    <3> QED BY <3>1, <3>2
  <2>2. \A d \in Channels : (channel[d].live) <=> (d = NULL)
    BY <2>1 DEF IicAssumption
  <2>3. /\ iic.send.pc # "none" => iic.send.chan \in Channels /\ channel[iic.send.chan].snd
        /\ iic.recv.pc # "none" => iic.recv.chan \in Channels /\ channel[iic.recv.chan].rec
    BY <1>2, <2>1 DEF WhereAll
  <2>4. /\ \A t \in Callers : (iic.caller[t].pc = "copy") <=> (iic.lock = t)
        /\ \A t \in Callers : iic.caller[t].pc # "idle" => iic.caller[t].chan \in Channels
    BY <1>2 DEF WhereAll
  <2> QED BY <1>1, <1>9, <2>2, <2>3, <2>4 DEF WhereAll
<1>11. EndsFirst(iic')
  <2> SUFFICES ASSUME ~ iic.overdue, ~ late
               PROVE  EndsFirst(iic')
    BY <1>4, <1>9 DEF EndsFirst
  <2>1. iic.send.pc = "none" /\ iic.recv.pc = "none"
    BY <1>1, <1>2 DEF EndsFirst, IS!Gone
  <2> QED BY <1>9, <2>1 DEF EndsFirst
<1>12. BuffersOf(iic') /\ CopiedOf(iic')
  BY <1>1, <1>9 DEF BuffersOf, CopiedOf
<1>13. Increasing(iic')
  BY <1>2, <1>9 DEF Increasing
<1>14. NoneReset(iic')
  BY <1>2, <1>9 DEF NoneReset
<1>15. NoneDropped(iic')
  <2> SUFFICES ASSUME ~ iic.dropped, \A b \in {0, 1} : ~ old.pending[b]
               PROVE  NoneDropped(iic')
    BY <1>4, <1>9 DEF NoneDropped
  <2>1. ChanOf(iic) = old
    BY <1>3 DEF ChanOf
  <2>2. /\ ~ iic.reset /\ \A i \in DOMAIN iic.written : iic.written[i] = i
        /\ iic.send.pc \in InUse => iic.send.chan = iic.attr
        /\ iic.accepted = Len(iic.written) + Unwritten(iic)
    BY <1>2 DEF NoneDropped
  <2>3. ~ old.pending[old.active] /\ ~ old.pending[1 - old.active]
    BY <1>6 DEF Buffers
  <2>4. ~ SendsAt(iic, InUse)
    BY <1>2, <2>1, <2>2, <2>3 DEF NoneReset
  <2>5. iic.send.pc \notin InUse
    BY <2>2, <2>4 DEF SendsAt
  <2>6. Unwritten(iic) = 0
    BY <2>1, <2>3, <2>5 DEF Unwritten, SendsAt, InUse
  <2>7. iic.accepted = Len(iic.written)
    <3>1. Len(iic.written) \in Nat
      BY <1>2 DEF Slaves
    <3> QED BY <2>2, <2>6, <3>1
  <2> QED BY <1>9, <2>2, <2>5, <2>7 DEF NoneDropped
<1> QED BY <1>9, <1>10, <1>11, <1>12, <1>13, <1>14, <1>15 DEF SlaveKeeps

\* What a channel that is enabled has, and the thread that is started for it.
Fresh(ch) ==
  /\ ch \in SlaveChannels /\ ch.live /\ ch.active = 0
  /\ \A b \in Buffers : ~ ch.pending[b] /\ ch.data[b] = 0

Started(old, new, c, has) == new = old \/ (old.pc = "none" /\ new = [pc |-> "check", chan |-> c] /\ has)

LEMMA SlaveEnable ==
  ASSUME IicAssumption, SlaveKeeps(iic), NEW c \in Channels, IS!Enable(c)
  PROVE  SlaveKeeps(iic')
<1>1. /\ iic \in Slaves /\ iic.channel \in [Channels -> SlaveChannels]
      /\ iic.owner = "idle" /\ iic.attr = NULL /\ iic.channel[c] = IS!Unused
      /\ WhereAll(iic) /\ EndsFirst(iic) /\ Increasing(iic) /\ NoneReset(iic)
      /\ NoneDropped(iic)
  BY SlaveIs DEF IS!Enable, SlaveKeeps
<1>2. PICK ch, send, recv :
        /\ Fresh(ch) /\ Started(iic.send, send, c, ch.snd) /\ Started(iic.recv, recv, c, ch.rec)
        /\ iic' = [iic EXCEPT !.attr = c, !.channel = [iic.channel EXCEPT ![c] = ch],
                              !.send = send, !.recv = recv]
  <2> DEFINE new == [IS!Unused EXCEPT !.live = TRUE, !.enabled = TRUE]
             newS == [new EXCEPT !.snd = TRUE]
             newR == [new EXCEPT !.rec = TRUE]
             newSR == [newS EXCEPT !.rec = TRUE]
             own == [pc |-> "check", chan |-> c]
             chans(ch) == [iic.channel EXCEPT ![c] = ch]
  <2>1. Fresh(new) /\ Fresh(newS) /\ Fresh(newR) /\ Fresh(newSR)
        /\ newS.snd /\ newR.rec /\ newSR.snd /\ newSR.rec
    <3>1. Fresh(new)
      <4>0. PICK no, zero : no = [b \in {0, 1} |-> FALSE] /\ zero = [b \in {0, 1} |-> 0]
        OBVIOUS
      <4>1. /\ no \in [Buffers -> BOOLEAN] /\ zero \in [Buffers -> Nat]
            /\ \A b \in Buffers : no[b] = FALSE /\ zero[b] = 0
        BY ONLY <4>0 DEF Buffers
      <4>4. IS!Unused = [live |-> FALSE, enabled |-> FALSE, active |-> 0, pending |-> no,
                         data |-> zero, tx_loaded |-> 0, snd |-> FALSE, rec |-> FALSE]
        BY <4>0 DEF IS!Unused
      <4>2. 0 \in Buffers
        BY DEF Buffers
      <4>3. /\ IS!Unused \in SlaveChannels /\ IS!Unused.active = 0
            /\ \A b \in Buffers : ~ IS!Unused.pending[b] /\ IS!Unused.data[b] = 0
        BY ONLY <4>1, <4>2, <4>4 DEF SlaveChannels
      <4>5. new = [IS!Unused EXCEPT !.live = TRUE, !.enabled = TRUE]
        OBVIOUS
      <4> HIDE DEF new
      <4> QED BY ONLY <4>3, <4>5 DEF Fresh, SlaveChannels
    <3> HIDE DEF new
    <3>2. Fresh(newS) /\ newS.snd
      BY <3>1 DEF Fresh, SlaveChannels
    <3>3. Fresh(newR) /\ newR.rec
      BY <3>1 DEF Fresh, SlaveChannels
    <3> HIDE DEF newS
    <3>4. Fresh(newSR) /\ newSR.snd /\ newSR.rec
      BY <3>2 DEF Fresh, SlaveChannels
    <3> QED BY <3>1, <3>2, <3>3, <3>4
  <2>10. /\ [chans(new) EXCEPT ![c].snd = TRUE] = chans(newS)
         /\ [chans(new) EXCEPT ![c].rec = TRUE] = chans(newR)
         /\ [chans(newS) EXCEPT ![c].rec = TRUE] = chans(newSR)
    <3> HIDE DEF new
    <3>1. \A x : chans(x)[c] = x /\ \A y : [chans(x) EXCEPT ![c] = y] = chans(y)
      BY <1>1
    <3> HIDE DEF chans
    <3> QED BY <3>1
  <2> HIDE DEF new, newS, newR, newSR, own, chans
  <2>2. IS!Created(c) = [iic EXCEPT !.attr = c, !.channel = chans(new)]
    <3>1. IS!Created(c) = [iic EXCEPT !.attr = c, !.channel[c] = new]
      BY DEF IS!Created, new
    <3> QED BY <1>1, <3>1 DEF chans, Slaves
  <2>3. /\ iic.send.pc = "none" =>
             IS!WithSend(IS!Created(c), c)
               = [iic EXCEPT !.attr = c, !.channel = chans(newS), !.send = own]
        /\ iic.send.pc # "none" => IS!WithSend(IS!Created(c), c) = IS!Created(c)
    <3> SUFFICES ASSUME iic.send.pc = "none"
                 PROVE  IS!WithSend(IS!Created(c), c)
                          = [iic EXCEPT !.attr = c, !.channel = chans(newS), !.send = own]
      BY DEF IS!WithSend
    <3>1. PICK r, k, l : r = IS!Created(c) /\ k = chans(new) /\ l = chans(newS)
      OBVIOUS
    <3>2. r = [iic EXCEPT !.attr = c, !.channel = k] /\ [k EXCEPT ![c].snd = TRUE] = l
      BY <2>2, <2>10, <3>1
    <3>3. IS!WithSend(r, c) = [r EXCEPT !.send = own, !.channel[c].snd = TRUE]
      BY DEF IS!WithSend, own
    <3>4. r.channel = k
      BY <1>1, <3>2 DEF Slaves
    <3>5. IS!WithSend(r, c) = [r EXCEPT !.send = own, !.channel = l]
      BY <3>2, <3>3, <3>4
    <3>6. iic \in Slaves
      BY <1>1
    <3>7. [r EXCEPT !.send = own, !.channel = l]
            = [iic EXCEPT !.attr = c, !.channel = l, !.send = own]
      BY ONLY <3>2, <3>6 DEF Slaves
    <3> QED BY <3>1, <3>5, <3>7
  <2>4. /\ iic.recv.pc # "none" =>
             IS!WithRecv(IS!WithSend(IS!Created(c), c), c) = IS!WithSend(IS!Created(c), c)
        /\ iic.recv.pc = "none" =>
             IS!WithRecv(IS!WithSend(IS!Created(c), c), c)
               = [IS!WithSend(IS!Created(c), c) EXCEPT !.recv = own, !.channel[c].rec = TRUE]
    BY DEF IS!WithRecv, own
  <2>5. CASE iic' = IS!Created(c)
    <3> WITNESS new, iic.send, iic.recv
    <3>1. iic' = [iic EXCEPT !.attr = c, !.channel = chans(new), !.send = iic.send,
                             !.recv = iic.recv]
      BY <1>1, <2>2, <2>5 DEF Slaves
    <3> QED BY <2>1, <3>1 DEF Started, chans
  <2>6. CASE /\ iic.send.pc = "none"
             /\ iic' = [iic EXCEPT !.attr = c, !.channel = chans(newS), !.send = own]
    <3> WITNESS newS, own, iic.recv
    <3>1. iic' = [iic EXCEPT !.attr = c, !.channel = chans(newS), !.send = own,
                             !.recv = iic.recv]
      BY <1>1, <2>6 DEF Slaves
    <3> QED BY <2>1, <2>6, <3>1 DEF Started, chans, own
  <2>7. CASE /\ iic.recv.pc = "none"
             /\ iic' = [IS!Created(c) EXCEPT !.recv = own, !.channel[c].rec = TRUE]
    <3> WITNESS newR, iic.send, own
    <3>1. iic' = [iic EXCEPT !.attr = c, !.channel = chans(newR), !.send = iic.send,
                             !.recv = own]
      <4>1. PICK r, k, l : r = IS!Created(c) /\ k = chans(new) /\ l = chans(newR)
        OBVIOUS
      <4>2. r = [iic EXCEPT !.attr = c, !.channel = k] /\ [k EXCEPT ![c].rec = TRUE] = l
        BY <2>2, <2>10, <4>1
      <4>3. r.channel = k /\ iic \in Slaves
        BY <1>1, <4>2 DEF Slaves
      <4>4. iic' = [r EXCEPT !.recv = own, !.channel = l]
        BY <2>7, <4>1, <4>2, <4>3
      <4>5. [r EXCEPT !.recv = own, !.channel = l]
              = [iic EXCEPT !.attr = c, !.channel = l, !.send = iic.send, !.recv = own]
        BY ONLY <4>2, <4>3 DEF Slaves
      <4> QED BY <4>1, <4>4, <4>5
    <3> QED BY <2>1, <2>7, <3>1 DEF Started, chans, own
  <2>8. CASE /\ iic.send.pc = "none" /\ iic.recv.pc = "none"
             /\ iic' = [[iic EXCEPT !.attr = c, !.channel = chans(newS), !.send = own]
                          EXCEPT !.recv = own, !.channel[c].rec = TRUE]
    <3> WITNESS newSR, own, own
    <3>1. iic' = [iic EXCEPT !.attr = c, !.channel = chans(newSR), !.send = own,
                             !.recv = own]
      <4>1. PICK r, k, l : /\ r = [iic EXCEPT !.attr = c, !.channel = chans(newS), !.send = own]
                           /\ k = chans(newS) /\ l = chans(newSR)
        OBVIOUS
      <4>2. /\ r = [iic EXCEPT !.attr = c, !.channel = k, !.send = own]
            /\ [k EXCEPT ![c].rec = TRUE] = l
        BY <2>10, <4>1
      <4>3. r.channel = k /\ iic \in Slaves
        BY <1>1, <4>2 DEF Slaves
      <4>4. iic' = [r EXCEPT !.recv = own, !.channel = l]
        BY <2>8, <4>1, <4>2, <4>3
      <4>5. [r EXCEPT !.recv = own, !.channel = l]
              = [iic EXCEPT !.attr = c, !.channel = l, !.send = own, !.recv = own]
        BY ONLY <4>2, <4>3 DEF Slaves
      <4> QED BY <4>1, <4>4, <4>5
    <3> QED BY <2>1, <2>8, <3>1 DEF Started, chans, own
  <2>9. iic' \in {IS!Created(c), IS!WithSend(IS!Created(c), c),
                  IS!WithRecv(IS!WithSend(IS!Created(c), c), c)}
    BY DEF IS!Enable
  <2> QED BY <2>3, <2>4, <2>5, <2>6, <2>7, <2>8, <2>9
<1> DEFINE channel == [iic.channel EXCEPT ![c] = ch]
<1>3. /\ channel \in [Channels -> SlaveChannels] /\ channel[c] = ch
      /\ \A d \in Channels : d # c => channel[d] = iic.channel[d]
  BY <1>1, <1>2 DEF Fresh
<1>4. /\ send \in [pc : {"none", "check", "switch", "signal", "write", "writing"},
                   chan : Channels \cup {NULL}]
      /\ recv \in [pc : {"none", "check", "read"}, chan : Channels \cup {NULL}]
  BY <1>1, <1>2 DEF Started, Slaves
<1>5. iic' = [iic EXCEPT !.attr = c, !.channel = channel, !.send = send, !.recv = recv]
  BY <1>2
<1> HIDE DEF channel
<1>6. /\ iic' \in Slaves /\ iic'.attr = c /\ iic'.channel = channel /\ iic'.lock = iic.lock
      /\ iic'.send = send /\ iic'.recv = recv /\ iic'.caller = iic.caller
      /\ iic'.owner = iic.owner /\ iic'.accepted = iic.accepted /\ iic'.written = iic.written
      /\ iic'.dropped = iic.dropped /\ iic'.reset = iic.reset /\ iic'.overdue = iic.overdue
      /\ iic'.lied = iic.lied
  <2>1. c \in Channels
    OBVIOUS
  <2>2. iic \in Slaves
    BY <1>1
  <2>3. PICK ss, rs : ss = send /\ rs = recv
    OBVIOUS
  <2>4. /\ ss \in [pc : {"none", "check", "switch", "signal", "write", "writing"},
                   chan : Channels \cup {NULL}]
        /\ rs \in [pc : {"none", "check", "read"}, chan : Channels \cup {NULL}]
        /\ channel \in [Channels -> SlaveChannels]
        /\ iic' = [iic EXCEPT !.attr = c, !.channel = channel, !.send = ss, !.recv = rs]
    BY <1>3, <1>4, <1>5, <2>3
  <2>5. /\ iic' \in Slaves /\ iic'.attr = c /\ iic'.channel = channel /\ iic'.lock = iic.lock
        /\ iic'.send = ss /\ iic'.recv = rs /\ iic'.caller = iic.caller
        /\ iic'.owner = iic.owner /\ iic'.accepted = iic.accepted /\ iic'.written = iic.written
        /\ iic'.dropped = iic.dropped /\ iic'.reset = iic.reset /\ iic'.overdue = iic.overdue
        /\ iic'.lied = iic.lied
    BY ONLY <2>1, <2>2, <2>4 DEF Slaves
  <2> QED BY <2>3, <2>5
<1>7. /\ iic.send.chan # c \/ iic.send.pc = "none"
      /\ iic.recv.chan # c \/ iic.recv.pc = "none"
  BY <1>1 DEF WhereAll, IS!Unused
<1>8. iic.lock = NULL
  BY <1>1 DEF WhereAll
<1>9. /\ send.pc # "none" => /\ send.chan \in Channels /\ channel[send.chan].snd
                             /\ send = iic.send \/ send = [pc |-> "check", chan |-> c]
      /\ recv.pc # "none" => /\ recv.chan \in Channels /\ channel[recv.chan].rec
                             /\ recv = iic.recv \/ recv = [pc |-> "check", chan |-> c]
  BY <1>1, <1>2, <1>3, <1>7 DEF WhereAll, Started
<1>10. WhereAll(iic')
  <2>1. \A d \in Channels : (channel[d].live) <=> (d = c)
    BY <1>1, <1>2, <1>3 DEF WhereAll, Fresh, IicAssumption
  <2>2. /\ \A t \in Callers : (iic.caller[t].pc = "copy") <=> (iic.lock = t)
        /\ \A t \in Callers : iic.caller[t].pc # "idle" => iic.caller[t].chan \in Channels
    BY <1>1 DEF WhereAll
  <2> QED BY <1>1, <1>6, <1>8, <1>9, <2>1, <2>2 DEF WhereAll
<1>11. EndsFirst(iic')
  <2> SUFFICES ASSUME ~ iic.overdue
               PROVE  EndsFirst(iic')
    BY <1>6 DEF EndsFirst
  <2>1. iic.send.pc = "none" /\ iic.recv.pc = "none"
    BY <1>1 DEF EndsFirst, WhereAll, IicAssumption
  <2> QED BY <1>1, <1>2, <1>6, <2>1 DEF EndsFirst, Started
<1>12. /\ ~ SendsAt(iic', {"switch"}) /\ ~ SendsAt(iic', {"signal", "write"})
       /\ ~ SendsAt(iic', InUse)
       /\ iic'.send.pc \in InUse => iic.send.pc \in InUse
  BY <1>2, <1>6, <1>7 DEF SendsAt, InUse, Started
<1>13. /\ ChanOf(iic') = ch /\ ch.active \in Buffers /\ 1 - ch.active \in Buffers
       /\ \A b \in Buffers : ~ ch.pending[b] /\ ch.data[b] = 0
  BY <1>2, <1>3, <1>6 DEF ChanOf, Fresh, Buffers
<1>14. BuffersOf(iic')
  <2>1. iic.accepted \in Nat
    BY SlaveIs
  <2> QED BY <1>6, <1>12, <1>13, <2>1 DEF BuffersOf
<1>15. CopiedOf(iic') /\ Increasing(iic')
  BY <1>1, <1>6, <1>8 DEF CopiedOf, Increasing
<1>16. NoneReset(iic')
  BY <1>1, <1>6, <1>8, <1>12, <1>13 DEF NoneReset
<1>17. NoneDropped(iic')
  <2> SUFFICES ASSUME ~ iic.dropped
               PROVE  NoneDropped(iic')
    BY <1>6 DEF NoneDropped
  <2>1. /\ ~ iic.reset /\ \A i \in DOMAIN iic.written : iic.written[i] = i
        /\ iic.send.pc \notin InUse /\ iic.accepted = Len(iic.written)
    BY <1>1 DEF NoneDropped
  <2>2. Unwritten(iic') = 0
    BY <1>12, <1>13 DEF Unwritten
  <2>3. Len(iic.written) \in Nat
    BY <1>1 DEF Slaves
  <2> QED BY <1>6, <1>12, <1>13, <2>1, <2>2, <2>3 DEF NoneDropped
<1> QED BY <1>6, <1>10, <1>11, <1>14, <1>15, <1>16, <1>17 DEF SlaveKeeps

LEMMA SlaveNext ==
  ASSUME IicAssumption, SlaveKeeps(iic), [IS!Next]_iic
  PROVE  SlaveKeeps(iic')
<1>1. CASE UNCHANGED iic
  BY <1>1
<1>2. CASE \E c \in Channels : IS!Enable(c)
  BY <1>2, SlaveEnable
<1>3. CASE IS!Disable \/ IS!SendGone \/ IS!Destroy
  BY <1>3, SlaveDisable, SlaveSendGone, SlaveDestroy
<1>4. CASE \E t \in Callers : IS!Transmit(t) \/ IS!Accept(t) \/ IS!TransmitEnd(t)
  BY <1>4, SlaveTransmit, SlaveAccept, SlaveTransmitEnd
<1>5. CASE IS!Reset \/ IS!Check \/ IS!Switch \/ IS!Signal \/ IS!Write \/ IS!SendLeaves
  BY <1>5, SlaveReset, SlaveCheck, SlaveSwitch, SlaveSignal, SlaveWrite, SlaveSendLeaves
<1>6. CASE \E failed \in BOOLEAN : IS!WriteEnd(failed)
  BY <1>6, SlaveWriteEnd
<1>7. CASE IS!Read \/ IS!ReadEnd \/ IS!RecvLeaves
  BY <1>7, SlaveReceives
<1> QED BY <1>1, <1>2, <1>3, <1>4, <1>5, <1>6, <1>7 DEF IS!Next

LEMMA SlaveIsRight ==
  ASSUME IicAssumption, SlaveKeeps(iic)
  PROVE  IS!WholeInOrder /\ IS!AvailableIsTrue /\ IS!NeverStalls /\ IS!ThreadsEndFirst
<1>1. /\ WhereAll(iic) /\ EndsFirst(iic) /\ Increasing(iic) /\ NoneReset(iic)
      /\ NoneDropped(iic)
  BY DEF SlaveKeeps
<1>2. IS!WholeInOrder
  BY <1>1 DEF IS!WholeInOrder, Increasing, NoneReset, NoneDropped
<1>3. IS!Chan = ChanOf(iic)
  BY DEF IS!Chan, ChanOf
<1>4. IS!AvailableIsTrue
  <2> SUFFICES ASSUME iic.attr # NULL, iic.lock = NULL, IS!Available, ~ iic.dropped
               PROVE  /\ Len(iic.written) = iic.accepted
                      /\ iic.send.pc \notin {"signal", "write", "writing"}
    BY DEF IS!AvailableIsTrue, IS!Unlocked
  <2>1. iic.channel[iic.attr].active \in Buffers
    BY SlaveIs
  <2>2. ~ ChanOf(iic).pending[ChanOf(iic).active] /\ ~ ChanOf(iic).pending[1 - ChanOf(iic).active]
    BY <1>3, <2>1 DEF IS!Available, ChanOf, Buffers
  <2>3. /\ ~ iic.reset
        /\ iic.send.pc \in InUse => iic.send.chan = iic.attr
        /\ iic.accepted = Len(iic.written) + Unwritten(iic)
    BY <1>1 DEF NoneDropped
  <2>4. ~ SendsAt(iic, InUse)
    BY <1>1, <2>2, <2>3 DEF NoneReset
  <2>5. iic.send.pc \notin InUse
    BY <2>3, <2>4 DEF SendsAt
  <2>6. Unwritten(iic) = 0
    BY <2>2, <2>5 DEF Unwritten, SendsAt, InUse
  <2>7. Len(iic.written) \in Nat
    BY SlaveIs
  <2> QED BY <2>3, <2>5, <2>6, <2>7 DEF InUse
<1>5. IS!NeverStalls
  BY <1>1, <1>3 DEF IS!NeverStalls, NoneReset, SendsAt, InUse
<1>6. IS!ThreadsEndFirst
  BY <1>1 DEF IS!ThreadsEndFirst, IS!Threads, EndsFirst, WhereAll
<1> QED BY <1>2, <1>4, <1>5, <1>6

(* For every number of callers and of times the channel is enabled, the     *)
(* master reads whole messages in the order they were accepted, none is     *)
(* missing without a reset or a disable, "available" means that all of them *)
(* were read, the buffer in use is pending only under the send thread, and  *)
(* unless a wait for them ended too early the threads are gone when their   *)
(* channel is freed (IIC_Slave_Send_Thread, IIC_SLV_Transmit and            *)
(* IIC_SLV_Disable of iic_slave_linux.c), although the buffers are switched *)
(* without the lock.                                                        *)
THEOREM SlaveMessagesInOrder ==
  ASSUME IicAssumption
  PROVE  IS!Spec => [](/\ IS!WholeInOrder /\ IS!AvailableIsTrue
                       /\ IS!NeverStalls /\ IS!ThreadsEndFirst)
<1>1. IS!Init => SlaveKeeps(iic)
  BY SlaveInit
<1>2. SlaveKeeps(iic) /\ [IS!Next]_iic => SlaveKeeps(iic)'
  BY SlaveNext
<1>3. SlaveKeeps(iic) => /\ IS!WholeInOrder /\ IS!AvailableIsTrue
                         /\ IS!NeverStalls /\ IS!ThreadsEndFirst
  BY SlaveIsRight
<1> QED BY <1>1, <1>2, <1>3, PTL DEF IS!Spec, IS!vars

-----------------------------------------------------------------------------
(* The receiving side of a UART *)

CONSTANTS Drivers, BufSize, Serials, CallerSizes, Unset
VARIABLE uart

UA == INSTANCE Uart



UartAssumption == BufSize \in Nat /\ CallerSizes \subseteq Nat

Received == [bytes : Seq(Nat \cup {Unset}), due : Nat, joined : BOOLEAN]

Uarts ==
  [driver : Drivers, open : BOOLEAN, device : Seq(Nat), buf : Seq(Nat), arrived : Nat,
   due : Nat, got : Received]

\* The bytes of s are those from the one with the number n on.
FromOn(s, n) == \A i \in 1 .. Len(s) : s[i] = n + i - 1

\* What is to be returned: the buffer, then the device.
StillDue(u) ==
  u.open => /\ u.arrived + 1 = u.due + Len(u.buf) + Len(u.device)
            /\ FromOn(u.buf, u.due) /\ FromOn(u.device, u.due + Len(u.buf))

InTurn(u) == u.driver = "qnx" \/ ~ u.got.joined => FromOn(u.got.bytes, u.got.due)

UartInv == uart \in Uarts /\ StillDue(uart) /\ InTurn(uart)

LEMMA ByteAppended ==
  ASSUME NEW s \in Seq(Nat), NEW n \in Nat, NEW k \in Nat, FromOn(s, n), k = n + Len(s)
  PROVE  /\ Append(s, k) \in Seq(Nat) /\ Len(Append(s, k)) = Len(s) + 1
         /\ FromOn(Append(s, k), n)
<1>1. PICK r : r = Append(s, k)
  OBVIOUS
<1>2. PICK m \in Nat : m = Len(s)
  OBVIOUS
<1>3. /\ r \in Seq(Nat) /\ Len(r) = m + 1 /\ r[m + 1] = k
      /\ \A i \in 1 .. m : r[i] = s[i]
  BY <1>1, <1>2
<1>4. \A i \in 1 .. m + 1 : r[i] = n + i - 1
  <2>1. \A i \in 1 .. m + 1 : i \in 1 .. m \/ i = m + 1
    BY <1>2
  <2>2. k = n + (m + 1) - 1 /\ \A i \in 1 .. m : s[i] = n + i - 1
    BY <1>2 DEF FromOn
  <2> QED BY <1>3, <2>1, <2>2
<1> QED BY <1>1, <1>2, <1>3, <1>4 DEF FromOn

LEMMA BytesSplit ==
  ASSUME NEW s \in Seq(Nat), NEW n \in Nat, NEW k \in Nat, k <= Len(s), FromOn(s, n)
  PROVE  /\ SubSeq(s, 1, k) \in Seq(Nat) /\ Len(SubSeq(s, 1, k)) = k
         /\ FromOn(SubSeq(s, 1, k), n)
         /\ SubSeq(s, k + 1, Len(s)) \in Seq(Nat) /\ Len(SubSeq(s, k + 1, Len(s))) = Len(s) - k
         /\ FromOn(SubSeq(s, k + 1, Len(s)), n + k)
<1>1. PICK m \in Nat : m = Len(s) /\ k <= m /\ \A i \in 1 .. m : s[i] \in Nat
  OBVIOUS
<1>2. PICK a, b : a = SubSeq(s, 1, k) /\ b = SubSeq(s, k + 1, m)
  OBVIOUS
<1>3. a \in Seq(Nat) /\ Len(a) = k /\ \A i \in 1 .. k : a[i] = s[i]
  BY <1>1, <1>2
<1>4. b \in Seq(Nat) /\ Len(b) = m - k /\ \A i \in 1 .. m - k : b[i] = s[k + i]
  BY <1>1, <1>2
<1>5. FromOn(a, n)
  BY <1>1, <1>3 DEF FromOn
<1>6. FromOn(b, n + k)
  <2>1. \A i \in 1 .. m - k : k + i \in 1 .. m /\ n + (k + i) - 1 = (n + k) + i - 1
    BY <1>1
  <2> QED BY <1>1, <1>4, <2>1 DEF FromOn
<1> QED BY <1>1, <1>2, <1>3, <1>4, <1>5, <1>6

LEMMA BytesJoined ==
  ASSUME NEW s \in Seq(Nat), NEW t \in Seq(Nat), NEW n \in Nat, FromOn(s, n),
         FromOn(t, n + Len(s))
  PROVE  s \o t \in Seq(Nat) /\ Len(s \o t) = Len(s) + Len(t) /\ FromOn(s \o t, n)
<1>1. PICK r : r = s \o t
  OBVIOUS
<1>2. PICK l \in Nat, m \in Nat : l = Len(s) /\ m = Len(t)
  OBVIOUS
<1>3. /\ r \in Seq(Nat) /\ Len(r) = l + m
      /\ \A i \in 1 .. l + m : r[i] = IF i <= l THEN s[i] ELSE t[i - l]
  BY <1>1, <1>2
<1>4. /\ \A i \in 1 .. l : s[i] = n + i - 1
      /\ \A i \in 1 .. m : t[i] = (n + l) + i - 1
  BY <1>2 DEF FromOn
<1>5. \A i \in 1 .. l + m : r[i] = n + i - 1
  <2> TAKE i \in 1 .. l + m
  <2>1. CASE i <= l
    <3>1. i \in 1 .. l
      BY <1>2, <2>1
    <3> QED BY <1>3, <1>4, <2>1, <3>1
  <2>2. CASE i > l
    <3>1. i - l \in 1 .. m /\ (n + l) + (i - l) - 1 = n + i - 1
      BY <1>2, <2>2
    <3>2. r[i] = t[i - l]
      BY <1>3, <2>2
    <3> QED BY <1>4, <3>1, <3>2
  <2> QED BY <2>1, <2>2
<1> QED BY <1>1, <1>2, <1>5, <1>3 DEF FromOn

\* Sequences that start with the same number and are as long are the same.
LEMMA FromOnIsRun ==
  ASSUME NEW S, NEW s \in Seq(S), NEW n \in Nat, FromOn(s, n)
  PROVE  s = UA!Run(n, Len(s))
BY DEF FromOn, UA!Run

LEMMA HeadAndTail ==
  ASSUME NEW s \in Seq(Nat), NEW n \in Nat, s # <<>>, FromOn(s, n)
  PROVE  /\ <<Head(s)>> \in Seq(Nat) /\ Len(<<Head(s)>>) = 1 /\ FromOn(<<Head(s)>>, n)
         /\ Tail(s) \in Seq(Nat) /\ Len(Tail(s)) = Len(s) - 1 /\ FromOn(Tail(s), n + 1)
<1>1. PICK m \in Nat : m = Len(s) /\ m > 0 /\ \A i \in 1 .. m : s[i] \in Nat
  OBVIOUS
<1>2. Head(s) = n /\ Head(s) \in Nat
  BY <1>1 DEF FromOn
<1>3. FromOn(<<Head(s)>>, n)
  BY <1>2 DEF FromOn
<1>6. PICK t : t = Tail(s)
  OBVIOUS
<1>4. t \in Seq(Nat) /\ Len(t) = m - 1 /\ \A i \in 1 .. m - 1 : t[i] = s[i + 1]
  BY <1>1, <1>6
<1>5. FromOn(t, n + 1)
  <2>1. \A i \in 1 .. m - 1 : i + 1 \in 1 .. m /\ n + (i + 1) - 1 = (n + 1) + i - 1
    BY <1>1
  <2> QED BY <1>1, <1>4, <2>1 DEF FromOn
<1> QED BY <1>1, <1>2, <1>3, <1>4, <1>5, <1>6

LEMMA UartInit ==
  ASSUME UA!Init
  PROVE  UartInv
<1>1. PICK d \in Drivers :
        uart = [driver |-> d, open |-> FALSE, device |-> <<>>, buf |-> <<>>,
                arrived |-> 0, due |-> 1, got |-> UA!Nothing]
  BY DEF UA!Init
<1>2. UA!Nothing \in Received /\ UA!Nothing.bytes = <<>>
  BY DEF UA!Nothing, Received
<1> QED BY <1>1, <1>2 DEF UartInv, Uarts, StillDue, InTurn, FromOn

LEMMA UartArrive ==
  ASSUME UartInv, UA!Arrive
  PROVE  UartInv'
<1>1. PICK n \in Nat : n = uart.arrived + 1
  BY DEF UartInv, Uarts
<1>2. PICK device : device = IF uart.open THEN Append(uart.device, n) ELSE uart.device
  OBVIOUS
<1>3. /\ uart' = [uart EXCEPT !.arrived = n, !.device = device]
      /\ uart \in Uarts /\ uart.due \in Nat /\ uart.buf \in Seq(Nat) /\ uart.device \in Seq(Nat)
  BY <1>1, <1>2 DEF UA!Arrive, UartInv, Uarts
<1>4. device \in Seq(Nat)
  BY <1>2, <1>3
<1>5. /\ uart' \in Uarts /\ uart'.driver = uart.driver /\ uart'.open = uart.open
      /\ uart'.device = device /\ uart'.buf = uart.buf /\ uart'.arrived = n
      /\ uart'.due = uart.due /\ uart'.got = uart.got
  BY ONLY <1>3, <1>4, n \in Nat DEF Uarts
<1>6. StillDue(uart')
  <2> SUFFICES ASSUME uart.open
               PROVE  StillDue(uart')
    BY <1>5 DEF StillDue
  <2>1. /\ n = uart.due + Len(uart.buf) + Len(uart.device)
        /\ FromOn(uart.buf, uart.due) /\ FromOn(uart.device, uart.due + Len(uart.buf))
    BY <1>1 DEF UartInv, StillDue
  <2>2. PICK k \in Nat : k = uart.due + Len(uart.buf)
    BY <1>3
  <2>3. Len(device) = Len(uart.device) + 1 /\ FromOn(device, k)
    BY <1>2, <1>3, <2>1, <2>2, ByteAppended
  <2>4. n + 1 = uart.due + Len(uart.buf) + Len(device)
    <3>1. Len(uart.buf) \in Nat /\ Len(uart.device) \in Nat
      <4>1. uart.buf \in Seq(Nat) /\ uart.device \in Seq(Nat)
        BY <1>3
      <4> QED BY ONLY <4>1
    <3>2. PICK a \in Nat : a = Len(uart.buf)
      BY <3>1
    <3>3. PICK b \in Nat : b = Len(uart.device)
      BY <3>1
    <3>4. PICK d \in Nat : d = uart.due
      BY <1>3
    <3>5. n = d + a + b /\ Len(device) = b + 1
      BY <2>1, <2>3, <3>2, <3>3, <3>4
    <3>6. n + 1 = d + a + (b + 1)
      BY <3>5
    <3> QED BY <3>2, <3>3, <3>4, <3>5, <3>6
  <2> QED BY <1>5, <2>1, <2>2, <2>3, <2>4 DEF StillDue
<1>7. InTurn(uart')
  BY <1>5 DEF UartInv, InTurn
<1> QED BY <1>5, <1>6, <1>7 DEF UartInv

\* Opening, closing and flushing leave nothing.
LEMMA UartEmptied ==
  ASSUME UartInv, NEW open \in BOOLEAN, uart' = [UA!Emptied(uart) EXCEPT !.open = open]
  PROVE  UartInv'
<1>1. PICK n \in Nat : n = uart.arrived + 1
  BY DEF UartInv, Uarts
<1>2. PICK no : no = UA!Nothing
  OBVIOUS
<1>3. no \in Received /\ no.bytes = <<>>
  BY <1>2 DEF UA!Nothing, Received
<1>4. uart \in Uarts
  BY DEF UartInv
<1>5. /\ uart' = [uart EXCEPT !.device = <<>>, !.buf = <<>>, !.due = n, !.got = no,
                              !.open = open]
  BY <1>2, <1>1, <1>4 DEF UA!Emptied, Uarts
<1>6. <<>> \in Seq(Nat)
  OBVIOUS
<1>7. /\ uart' \in Uarts /\ uart'.device = <<>> /\ uart'.buf = <<>> /\ uart'.due = n
      /\ uart'.arrived = uart.arrived /\ uart'.got = no
  BY ONLY <1>3, <1>4, <1>5, <1>6, n \in Nat, open \in BOOLEAN DEF Uarts
<1>8. StillDue(uart') /\ InTurn(uart')
  BY <1>1, <1>3, <1>7 DEF StillDue, InTurn, FromOn
<1> QED BY <1>7, <1>8 DEF UartInv

\* A call that returns leaves these parts of the channel.
Rests(device, buf, got, n) ==
  /\ device \in Seq(Nat) /\ buf \in Seq(Nat) /\ got \in Received /\ n \in Nat
  /\ uart' = [uart EXCEPT !.device = device, !.buf = buf, !.got = got, !.due = uart.due + n]
  /\ uart.open => /\ uart.arrived + 1 = uart.due + n + Len(buf) + Len(device)
                  /\ FromOn(buf, uart.due + n) /\ FromOn(device, uart.due + n + Len(buf))
  /\ uart.driver = "qnx" \/ ~ got.joined => FromOn(got.bytes, got.due)

LEMMA UartReturns ==
  ASSUME UartInv, NEW device, NEW buf, NEW got, NEW n, Rests(device, buf, got, n)
  PROVE  UartInv'
<1>1. /\ device \in Seq(Nat) /\ buf \in Seq(Nat) /\ got \in Received /\ n \in Nat
      /\ uart' = [uart EXCEPT !.device = device, !.buf = buf, !.got = got, !.due = uart.due + n]
      /\ uart.open => /\ uart.arrived + 1 = uart.due + n + Len(buf) + Len(device)
                      /\ FromOn(buf, uart.due + n) /\ FromOn(device, uart.due + n + Len(buf))
      /\ uart.driver = "qnx" \/ ~ got.joined => FromOn(got.bytes, got.due)
  BY DEF Rests
<1>2. uart \in Uarts
  BY DEF UartInv
<1>3. PICK m \in Nat : m = uart.due + n
  BY <1>1, <1>2 DEF Uarts
<1>4. uart' = [uart EXCEPT !.device = device, !.buf = buf, !.got = got, !.due = m]
  BY <1>1, <1>3
<1>5. device \in Seq(Nat) /\ buf \in Seq(Nat) /\ got \in Received
  BY <1>1
<1>6. /\ uart' \in Uarts /\ uart'.driver = uart.driver /\ uart'.open = uart.open
      /\ uart'.device = device /\ uart'.buf = buf /\ uart'.due = m
      /\ uart'.arrived = uart.arrived /\ uart'.got = got
  BY ONLY <1>2, <1>4, <1>5, m \in Nat DEF Uarts
<1>7. StillDue(uart') /\ InTurn(uart')
  BY <1>1, <1>3, <1>6 DEF StillDue, InTurn
<1> QED BY <1>6, <1>7 DEF UartInv

LEMMA UartGetc ==
  ASSUME UartAssumption, UartInv, UA!UA_Getc
  PROVE  UartInv'
<1>1. /\ uart \in Uarts /\ uart.open /\ uart.device \in Seq(Nat) /\ uart.buf \in Seq(Nat)
      /\ uart.due \in Nat /\ FromOn(uart.buf, uart.due)
      /\ FromOn(uart.device, uart.due + Len(uart.buf))
      /\ uart.arrived + 1 = uart.due + Len(uart.buf) + Len(uart.device)
  BY DEF UA!UA_Getc, UartInv, Uarts, StillDue
<1>2. PICK a \in Nat, b \in Nat, d \in Nat :
        a = Len(uart.buf) /\ b = Len(uart.device) /\ d = uart.due
  BY <1>1
<1>3. uart.arrived + 1 = d + a + b
  BY <1>1, <1>2
<1>4. CASE /\ uart.buf # <<>>
           /\ uart' = UA!Returned([uart EXCEPT !.buf = Tail(@)], <<Head(uart.buf)>>, 1, FALSE)
  <2> DEFINE got == [bytes |-> <<Head(uart.buf)>>, due |-> uart.due, joined |-> FALSE]
             buf == Tail(uart.buf)
  <2>1. /\ <<Head(uart.buf)>> \in Seq(Nat) /\ FromOn(<<Head(uart.buf)>>, d)
        /\ buf \in Seq(Nat) /\ Len(buf) = a - 1 /\ FromOn(buf, d + 1)
    BY <1>1, <1>2, <1>4, HeadAndTail
  <2>2. got \in Received /\ FromOn(got.bytes, got.due)
    BY <1>1, <1>2, <2>1 DEF Received
  <2>3. uart' = [uart EXCEPT !.device = uart.device, !.buf = buf, !.got = got,
                             !.due = uart.due + 1]
    BY <1>1, <1>4 DEF UA!Returned, Uarts
  <2> HIDE DEF got, buf
  <2>4. /\ uart.arrived + 1 = uart.due + 1 + Len(buf) + Len(uart.device)
        /\ FromOn(buf, uart.due + 1) /\ FromOn(uart.device, uart.due + 1 + Len(buf))
    <3>1. d + a + b = d + 1 + (a - 1) + b /\ d + a = d + 1 + (a - 1)
      OBVIOUS
    <3> QED BY <1>1, <1>2, <1>3, <2>1, <3>1
  <2>5. Rests(uart.device, buf, got, 1)
    BY <1>1, <2>1, <2>2, <2>3, <2>4 DEF Rests
  <2> QED BY <2>5, UartReturns
<1>5. ASSUME uart.buf = <<>>, NEW n \in UA!Reads(BufSize),
             uart' = LET block == SubSeq(uart.device, 1, n)
                         read  == [uart EXCEPT !.device = SubSeq(@, n + 1, Len(@))]
                     IN  IF n = 0 THEN UA!Returned(read, <<>>, 0, FALSE)
                         ELSE UA!Returned([read EXCEPT !.buf = Tail(block)], <<Head(block)>>, 1,
                                          FALSE)
      PROVE  UartInv'
  <2> DEFINE block == SubSeq(uart.device, 1, n)
             device == SubSeq(uart.device, n + 1, Len(uart.device))
  <2>1. n \in Nat /\ n <= b /\ a = 0
    BY <1>2, <1>5 DEF UA!Reads, UartAssumption
  <2>2. /\ block \in Seq(Nat) /\ Len(block) = n /\ FromOn(block, d)
        /\ device \in Seq(Nat) /\ Len(device) = b - n /\ FromOn(device, d + n)
    <3>1. FromOn(uart.device, d)
      BY <1>1, <1>2, <2>1
    <3> QED BY <1>1, <1>2, <2>1, <3>1, BytesSplit
  <2>3. CASE n = 0
    <3> DEFINE got == [bytes |-> <<>>, due |-> uart.due, joined |-> FALSE]
    <3>1. got \in Received /\ FromOn(got.bytes, got.due)
      BY <1>1 DEF Received, FromOn
    <3>2. uart' = [uart EXCEPT !.device = device, !.buf = uart.buf, !.got = got,
                               !.due = uart.due + 0]
      BY <1>1, <1>5, <2>3 DEF UA!Returned, Uarts
    <3> HIDE DEF got, device, block
    <3>3. /\ uart.arrived + 1 = uart.due + 0 + Len(uart.buf) + Len(device)
          /\ FromOn(uart.buf, uart.due + 0) /\ FromOn(device, uart.due + 0 + Len(uart.buf))
      <4>1. d + a + b = d + 0 + a + (b - n) /\ d + n = d + 0 + a /\ d + 0 = d
        BY <2>1, <2>3
      <4> QED BY <1>1, <1>2, <1>3, <2>2, <4>1
    <3>4. Rests(device, uart.buf, got, 0)
      BY <1>1, <2>2, <3>1, <3>2, <3>3 DEF Rests
    <3> QED BY <3>4, UartReturns
  <2>4. CASE n # 0
    <3> DEFINE got == [bytes |-> <<Head(block)>>, due |-> uart.due, joined |-> FALSE]
               buf == Tail(block)
    <3>1. uart' = [uart EXCEPT !.device = device, !.buf = buf, !.got = got,
                               !.due = uart.due + 1]
      BY <1>1, <1>5, <2>4 DEF UA!Returned, Uarts
    <3> HIDE DEF block, device
    <3>2. /\ <<Head(block)>> \in Seq(Nat) /\ FromOn(<<Head(block)>>, d)
          /\ buf \in Seq(Nat) /\ Len(buf) = n - 1 /\ FromOn(buf, d + 1)
      <4>1. block # <<>>
        BY <2>1, <2>2, <2>4
      <4> QED BY <2>2, <4>1, HeadAndTail
    <3>3. got \in Received /\ FromOn(got.bytes, got.due)
      BY <1>1, <1>2, <3>2 DEF Received
    <3> HIDE DEF got, buf
    <3>4. /\ uart.arrived + 1 = uart.due + 1 + Len(buf) + Len(device)
          /\ FromOn(buf, uart.due + 1) /\ FromOn(device, uart.due + 1 + Len(buf))
      <4>1. d + a + b = d + 1 + (n - 1) + (b - n) /\ d + n = d + 1 + (n - 1)
        BY <2>1
      <4> QED BY <1>1, <1>2, <1>3, <2>2, <3>2, <4>1
    <3>5. Rests(device, buf, got, 1)
      BY <1>1, <2>2, <3>1, <3>2, <3>3, <3>4 DEF Rests
    <3> QED BY <3>5, UartReturns
  <2> QED BY <2>3, <2>4
<1> QED BY <1>4, <1>5 DEF UA!UA_Getc

LEMMA UartGets ==
  ASSUME UartAssumption, UartInv, NEW size \in CallerSizes, UA!UA_Gets(size)
  PROVE  UartInv'
<1>1. /\ uart \in Uarts /\ uart.open /\ uart.device \in Seq(Nat) /\ uart.buf \in Seq(Nat)
      /\ uart.due \in Nat /\ FromOn(uart.buf, uart.due)
      /\ FromOn(uart.device, uart.due + Len(uart.buf))
      /\ uart.arrived + 1 = uart.due + Len(uart.buf) + Len(uart.device)
  BY DEF UA!UA_Gets, UartInv, Uarts, StillDue
<1>2. PICK a \in Nat, b \in Nat, d \in Nat :
        a = Len(uart.buf) /\ b = Len(uart.device) /\ d = uart.due
  BY <1>1
<1>3. uart.arrived + 1 = d + a + b
  BY <1>1, <1>2
<1>4. PICK k \in Nat : k = IF a < size THEN a ELSE size
  BY DEF UartAssumption
<1>5. k <= a /\ k <= size /\ size \in Nat
  BY <1>4 DEF UartAssumption
<1> DEFINE copied == SubSeq(uart.buf, 1, k)
           buf == SubSeq(uart.buf, k + 1, Len(uart.buf))
<1>6. /\ copied \in Seq(Nat) /\ Len(copied) = k /\ FromOn(copied, d)
      /\ buf \in Seq(Nat) /\ Len(buf) = a - k /\ FromOn(buf, d + k)
  BY <1>1, <1>2, <1>5, BytesSplit
<1>7. PICK n \in UA!Reads(size - k) :
        LET block == SubSeq(uart.device, 1, n) IN
        uart' = UA!Returned([uart EXCEPT !.buf = SubSeq(@, Len(copied) + 1, Len(@)),
                                         !.device = SubSeq(@, n + 1, Len(@))],
                            UA!CallersBuffer(copied, block), Len(copied) + n,
                            copied # <<>> /\ block # <<>>)
  BY <1>2, <1>4, <1>6 DEF UA!UA_Gets
<1> DEFINE block == SubSeq(uart.device, 1, n)
           device == SubSeq(uart.device, n + 1, Len(uart.device))
<1>8. n \in Nat /\ n <= b
  BY <1>2, <1>5 DEF UA!Reads
<1>9. /\ block \in Seq(Nat) /\ Len(block) = n /\ FromOn(block, d + a)
      /\ device \in Seq(Nat) /\ Len(device) = b - n /\ FromOn(device, (d + a) + n)
  <2>1. PICK e \in Nat : e = d + a
    OBVIOUS
  <2>2. FromOn(uart.device, e) /\ n <= Len(uart.device) /\ uart.device \in Seq(Nat)
    BY <1>1, <1>2, <1>8, <2>1
  <2>3. /\ block \in Seq(Nat) /\ Len(block) = n /\ FromOn(block, e)
        /\ device \in Seq(Nat) /\ Len(device) = Len(uart.device) - n /\ FromOn(device, e + n)
    BY <1>8, <2>2, BytesSplit
  <2> QED BY <1>2, <2>1, <2>3
<1>10. PICK joined \in BOOLEAN : joined = (copied # <<>> /\ block # <<>>)
  OBVIOUS
<1> DEFINE got == [bytes |-> UA!CallersBuffer(copied, block), due |-> uart.due,
                   joined |-> joined]
<1>11. uart' = [uart EXCEPT !.device = device, !.buf = buf, !.got = got,
                            !.due = uart.due + (k + n)]
  BY <1>1, <1>6, <1>7, <1>10 DEF UA!Returned, Uarts
<1> HIDE DEF copied, buf, block, device
<1>12. n > 0 => k = a
  BY <1>4, <1>5, <1>8 DEF UA!Reads
<1>13. /\ uart.arrived + 1 = uart.due + (k + n) + Len(buf) + Len(device)
       /\ FromOn(buf, uart.due + (k + n)) /\ FromOn(device, uart.due + (k + n) + Len(buf))
  <2>1. d + a + b = d + (k + n) + (a - k) + (b - n) /\ (d + a) + n = d + (k + n) + (a - k)
    BY <1>5, <1>8
  <2>2. FromOn(buf, d + (k + n))
    <3>1. CASE n = 0
      BY <1>6, <3>1
    <3>2. CASE n > 0
      BY <1>6, <1>12, <3>2 DEF FromOn
    <3> QED BY <1>8, <3>1, <3>2
  <2> QED BY <1>1, <1>2, <1>3, <1>6, <1>9, <2>1, <2>2
<1>14. UA!CallersBuffer(copied, block) \in Seq(Nat \cup {Unset})
  <2>1. CASE uart.driver = "qnx"
    <3>1. copied \in Seq(Nat \cup {Unset}) /\ block \in Seq(Nat \cup {Unset})
      <4>1. \A s \in Seq(Nat) : s \in Seq(Nat \cup {Unset})
        OBVIOUS
      <4> QED BY <1>6, <1>9, <4>1
    <3> QED BY <2>1, <3>1 DEF UA!CallersBuffer
  <2>2. CASE uart.driver # "qnx"
    <3> DEFINE Byte(i) == IF i <= n THEN block[i] ELSE IF i <= k THEN copied[i] ELSE Unset
    <3>1. UA!CallersBuffer(copied, block) = [i \in 1 .. k + n |-> Byte(i)]
      BY <1>6, <1>9, <2>2 DEF UA!CallersBuffer
    <3>2. ASSUME NEW i \in 1 .. k + n
          PROVE  Byte(i) \in Nat \cup {Unset}
      <4>1. i \in Nat /\ i >= 1
        BY <1>8
      <4>2. CASE i <= n
        BY <1>8, <1>9, <4>1, <4>2
      <4>3. CASE ~ (i <= n) /\ i <= k
        BY <1>6, <4>1, <4>3
      <4>4. CASE ~ (i <= n) /\ ~ (i <= k)
        BY <4>4
      <4> QED BY <4>2, <4>3, <4>4
    <3> HIDE DEF Byte
    <3>3. k + n \in Nat
      BY <1>8
    <3> QED BY <3>1, <3>2, <3>3
  <2> QED BY <2>1, <2>2
<1>15. uart.driver = "qnx" \/ ~ joined => FromOn(UA!CallersBuffer(copied, block), d)
  <2>1. CASE uart.driver = "qnx"
    <3>1. UA!CallersBuffer(copied, block) = copied \o block
      BY <2>1 DEF UA!CallersBuffer
    <3>2. CASE n = 0
      BY <1>6, <1>9, <3>1, <3>2
    <3>3. CASE n > 0
      <4>1. FromOn(block, d + Len(copied))
        BY <1>6, <1>9, <1>12, <3>3
      <4> QED BY <1>6, <1>9, <3>1, <4>1, BytesJoined
    <3> QED BY <1>8, <3>2, <3>3
  <2>2. CASE uart.driver # "qnx" /\ ~ joined
    <3>1. UA!CallersBuffer(copied, block)
            = [i \in 1 .. k + n |-> IF i <= n THEN block[i]
                                    ELSE IF i <= k THEN copied[i] ELSE Unset]
      BY <1>6, <1>9, <2>2 DEF UA!CallersBuffer
    <3>2. CASE block = <<>>
      <4>1. n = 0
        BY <1>9, <3>2
      <4>2. UA!CallersBuffer(copied, block) = [i \in 1 .. k |-> copied[i]]
        BY <1>4, <3>1, <4>1
      <4> QED BY <1>4, <1>6, <4>2 DEF FromOn
    <3>3. CASE copied = <<>> /\ n > 0
      <4>1. k = 0 /\ a = 0
        BY <1>6, <1>12, <3>3
      <4>2. UA!CallersBuffer(copied, block) = [i \in 1 .. n |-> block[i]]
        BY <1>8, <3>1, <4>1
      <4> QED BY <1>8, <1>9, <4>1, <4>2 DEF FromOn
    <3>4. block = <<>> \/ (block # <<>> /\ copied = <<>>)
      BY <1>10, <2>2
    <3>5. block # <<>> => n > 0
      BY <1>8, <1>9
    <3> QED BY <3>2, <3>3, <3>4, <3>5
  <2> QED BY <2>1, <2>2
<1>16. /\ got \in Received /\ (uart.driver = "qnx" \/ ~ got.joined => FromOn(got.bytes, got.due))
  BY <1>2, <1>10, <1>14, <1>15 DEF Received
<1> HIDE DEF got
<1>17. Rests(device, buf, got, k + n)
  <2>1. PICK m \in Nat : m = k + n
    BY <1>8
  <2>2. device \in Seq(Nat) /\ buf \in Seq(Nat)
    BY <1>6, <1>9
  <2>3. /\ uart' = [uart EXCEPT !.device = device, !.buf = buf, !.got = got, !.due = uart.due + m]
        /\ uart.arrived + 1 = uart.due + m + Len(buf) + Len(device)
        /\ FromOn(buf, uart.due + m) /\ FromOn(device, uart.due + m + Len(buf))
    BY <1>11, <1>13, <2>1
  <2>4. Rests(device, buf, got, m)
    BY <1>16, <2>1, <2>2, <2>3 DEF Rests
  <2> QED BY <2>1, <2>4
<1> QED BY <1>17, UartReturns

LEMMA UartNext ==
  ASSUME UartAssumption, UartInv, [UA!Next]_(UA!vars)
  PROVE  UartInv'
<1>1. CASE uart' = uart
  BY <1>1 DEF UartInv
<1>2. CASE UA!UA_Open \/ UA!UA_Close \/ UA!UA_Flush
  <2>1. UA!Emptied(uart) = [UA!Emptied(uart) EXCEPT !.open = uart.open] /\ uart.open \in BOOLEAN
    BY DEF UA!Emptied, UartInv, Uarts
  <2> QED BY <1>2, <2>1, UartEmptied DEF UA!UA_Open, UA!UA_Close, UA!UA_Flush
<1>3. CASE UA!Arrive \/ UA!UA_Getc \/ \E size \in CallerSizes : UA!UA_Gets(size)
  BY <1>3, UartArrive, UartGetc, UartGets
<1> QED BY <1>1, <1>2, <1>3 DEF UA!Next, UA!vars

LEMMA UartIsRight ==
  ASSUME UartInv
  PROVE  UA!EveryByteIsDue /\ UA!ReceivedInOrder
<1>1. UA!EveryByteIsDue
  <2> SUFFICES ASSUME uart.open
               PROVE  uart.buf \o uart.device = UA!Run(uart.due, uart.arrived - uart.due + 1)
    BY DEF UA!EveryByteIsDue
  <2>1. /\ uart.device \in Seq(Nat) /\ uart.buf \in Seq(Nat) /\ uart.due \in Nat
        /\ uart.arrived \in Nat /\ FromOn(uart.buf, uart.due)
        /\ FromOn(uart.device, uart.due + Len(uart.buf))
        /\ uart.arrived + 1 = uart.due + Len(uart.buf) + Len(uart.device)
    BY DEF UartInv, Uarts, StillDue
  <2>2. PICK s : s = uart.buf \o uart.device
    OBVIOUS
  <2>3. /\ s \in Seq(Nat) /\ Len(s) = Len(uart.buf) + Len(uart.device)
        /\ FromOn(s, uart.due)
    BY <2>1, <2>2, BytesJoined
  <2>4. s = UA!Run(uart.due, Len(s))
    BY <2>1, <2>3, FromOnIsRun
  <2>5. Len(s) = uart.arrived - uart.due + 1
    <3>1. PICK a \in Nat, b \in Nat, d \in Nat, n \in Nat :
            a = Len(uart.buf) /\ b = Len(uart.device) /\ d = uart.due /\ n = uart.arrived
      BY <2>1
    <3>2. n + 1 = d + a + b => a + b = n - d + 1
      OBVIOUS
    <3> QED BY <2>1, <2>3, <3>1, <3>2
  <2> QED BY <2>2, <2>4, <2>5
<1>2. UA!ReceivedInOrder
  <2> SUFFICES ASSUME uart.driver = "qnx" \/ ~ uart.got.joined
               PROVE  uart.got.bytes = UA!Run(uart.got.due, Len(uart.got.bytes))
    BY DEF UA!ReceivedInOrder
  <2>1. /\ uart.got.bytes \in Seq(Nat \cup {Unset}) /\ uart.got.due \in Nat
        /\ FromOn(uart.got.bytes, uart.got.due)
    BY DEF UartInv, Uarts, Received, InTurn
  <2> QED BY <2>1, FromOnIsRun
<1> QED BY <1>1, <1>2

(* For any sizes of the buffers and any number of bytes: however a caller   *)
(* mixes calls for a byte and for a block, what it still gets are the bytes *)
(* that arrived since the last open or flush, each once and in order, and a *)
(* call returns those that were due, on Linux unless it joins bytes of the  *)
(* channel's buffer and of the device (UA_Getc and UA_Gets of uart_linux.c  *)
(* and uart_qnx.c).                                                         *)
THEOREM BytesInOrder ==
  ASSUME UartAssumption
  PROVE  UA!Spec => [](UA!EveryByteIsDue /\ UA!ReceivedInOrder)
<1>1. UA!Init => UartInv
  BY UartInit
<1>2. UartInv /\ [UA!Next]_(UA!vars) => UartInv'
  BY UartNext
<1>3. UartInv => UA!EveryByteIsDue /\ UA!ReceivedInOrder
  BY UartIsRight
<1> QED BY <1>1, <1>2, <1>3, PTL DEF UA!Spec
=============================================================================
