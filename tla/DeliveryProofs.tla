---------------------------- MODULE DeliveryProofs ----------------------------
(* Proofs about Delivery, for any senders, receivers, threads, queues and     *)
(* numbers of trials: what callers are told agrees with what is in the        *)
(* queues, the messages of a thread stay in order, and a receiver that stays  *)
(* up is served.  At the end the synchronous messages of Rpc.                 *)
EXTENDS Delivery, SequenceLemmas

-----------------------------------------------------------------------------
(* Numbers and sequences *)

LEMMA FirstRemoved ==
  ASSUME NEW S, NEW q \in Seq(S), q # << >>
  PROVE  /\ RemoveAt(q, 1) \in Seq(S)
         /\ Len(q) \in Nat \ {0} /\ q[1] \in S
         /\ DOMAIN RemoveAt(q, 1) = 1..(Len(q) - 1)
         /\ \A j \in 1..(Len(q) - 1) : RemoveAt(q, 1)[j] = q[j + 1]
BY DEF RemoveAt

LEMMA Appended ==
  ASSUME NEW S, NEW q \in Seq(S), NEW m \in S
  PROVE  /\ Append(q, m) \in Seq(S) /\ Len(q) \in Nat
         /\ DOMAIN q = 1..Len(q) /\ DOMAIN Append(q, m) = 1..(Len(q) + 1)
         /\ \A j \in 1..Len(q) : Append(q, m)[j] = q[j]
         /\ Append(q, m)[Len(q) + 1] = m
OBVIOUS

LEMMA NextAppIs ==
  ASSUME TypeOK, NEW a \in Nat
  PROVE  LET next == NextApp(a)
         IN  \/ next = None /\ \A b \in routing : b <= a
             \/ /\ next \in routing /\ next \in Receivers /\ next > a
                /\ \A b \in routing : b > a => next <= b
<1> DEFINE rest == {b \in routing : b > a}
<1>1. routing \subseteq Receivers /\ Receivers \subseteq Nat /\ rest \in SUBSET Nat
  BY DeliveryAssumption DEF TypeOK
<1>2. CASE rest = {}
  BY <1>1, <1>2 DEF NextApp
<1>3. CASE rest # {}
  <2>1. Min(rest) \in rest /\ \A y \in rest : Min(rest) <= y
    BY <1>1, <1>3, MinIs
  <2> QED
    BY <1>1, <1>3, <2>1 DEF NextApp
<1> QED
  BY <1>2, <1>3

LEMMA LastTidIs ==
  ASSUME NEW a \in Receivers, TypeOK
  PROVE  LET last == LastTid(a)
         IN  \/ last = 0 /\ \A t \in Subscribed[a] : ~Room(<<a, t>>)
             \/ /\ last \in Subscribed[a] /\ last \in Tids /\ Room(<<a, last>>)
                /\ \A t \in Subscribed[a] : Room(<<a, t>>) => t <= last
<1> DEFINE free == {t \in Subscribed[a] : Room(<<a, t>>)}
<1>1. MaxThreads \in Nat /\ Subscribed[a] \in SUBSET (1..MaxThreads)
  BY DeliveryAssumption
<1>2. CASE free = {}
  BY <1>2 DEF LastTid
<1>3. CASE free # {}
  <2>1. Max(free) \in free /\ \A y \in free : Max(free) >= y
    BY <1>1, <1>3, MaxIs
  <2>2. LastTid(a) = Max(free)
    BY <1>3 DEF LastTid
  <2> HIDE DEF free
  <2>3. \A t \in free : t \in Subscribed[a] /\ Room(<<a, t>>)
    BY DEF free
  <2>4. \A t \in Subscribed[a] : Room(<<a, t>>) => t \in free
    BY DEF free
  <2>5. \A y \in free : y \in Nat /\ y \in Tids
    <3> SUFFICES ASSUME NEW y \in free PROVE y \in Nat /\ y \in Tids
      OBVIOUS
    <3>1. y \in Subscribed[a]
      BY <2>3
    <3> QED
      BY <1>1, <3>1 DEF Tids
  <2> QED
    BY <2>1, <2>2, <2>3, <2>4, <2>5
<1> QED
  BY <1>2, <1>3

-----------------------------------------------------------------------------
(* Types *)

LEMMA InitType == Init => TypeOK
<1> SUFFICES ASSUME Init PROVE TypeOK
  OBVIOUS
<1>1. /\ MaxLives \in Nat /\ 1 \in 1..MaxLives /\ QueueSize \in Nat /\ MaxFaults \in Nat
      /\ MaxThreads \in Nat
  BY DeliveryAssumption
<1>2. bound \in [Directory!Keys -> 0..MaxLives] /\ routing \subseteq Receivers
  BY <1>1 DEF Init
<1>3. backlog \in [Receivers -> Seq(Messages)] /\ router \in [Receivers -> Routers]
  BY DEF Init, Routers
<1>4. NoCall \in Calls
  BY <1>1 DEF NoCall, Calls, None
<1> QED
  BY <1>1, <1>2, <1>3, <1>4 DEF Init, TypeOK, None

LEMMA CallsExcept ==
  ASSUME NEW c \in Calls
  PROVE  /\ \A a \in Receivers \cup {None} : [c EXCEPT !.to = a] \in Calls
         /\ \A x \in 0..MaxThreads : [c EXCEPT !.tid = x] \in Calls
         /\ \A x \in 0..MaxLives : [c EXCEPT !.over = x] \in Calls
         /\ [c EXCEPT !.trial = @ + 1] \in Calls
         /\ \A b \in BOOLEAN : [c EXCEPT !.status = b] \in Calls
BY DEF Calls

LEMMA CallsFields ==
  ASSUME NEW c \in Calls
  PROVE  /\ c.to \in Receivers \cup {None} /\ c.to \in Nat /\ c.tid \in 0..MaxThreads /\ c.trial \in Nat
         /\ c.over \in 0..MaxLives /\ c.status \in BOOLEAN
<1>1. Receivers \subseteq Nat /\ 0 \in Nat
  BY DeliveryAssumption
<1> QED BY <1>1 DEF Calls, None

LEMMA MessageFields ==
  ASSUME NEW m \in Messages
  PROVE  /\ m.from \in Senders /\ m.n \in Nat /\ m.tid \in Nat /\ m.open \in BOOLEAN
         /\ m.tid # 0 => m.tid \in Tids
         /\ \A b \in BOOLEAN : [m EXCEPT !.open = b] \in Messages
<1>1. MaxThreads \in Nat
  BY DeliveryAssumption
<1>2. m.from \in Senders /\ m.n \in Nat /\ m.tid \in 0..MaxThreads /\ m.open \in BOOLEAN
  BY DEF Messages
<1>3. \A b \in BOOLEAN : [m EXCEPT !.open = b] \in Messages
  BY DEF Messages
<1> QED BY <1>1, <1>2, <1>3 DEF Tids

LEMMA DroppedType ==
  ASSUME TypeOK, NEW m \in Messages, NEW a, Dropped(m, a)
  PROVE  steady' \in [Senders -> SUBSET Receivers]
<1>1. m.from \in Senders /\ steady \in [Senders -> SUBSET Receivers]
  BY MessageFields DEF TypeOK
<1>2. steady' = [steady EXCEPT ![m.from] = steady[m.from] \ {a}]
  BY DEF Dropped
<1>3. steady[m.from] \ {a} \in SUBSET Receivers
  BY <1>1
<1> QED BY <1>1, <1>2, <1>3

LEMMA TakenNode ==
  ASSUME TypeOK, NEW i \in Inboxes, Room(i)
  PROVE  [queued EXCEPT ![i] = @ + 1] \in [Inboxes -> 0..QueueSize]
<1>1. queued[i] \in 0..QueueSize /\ queued[i] < QueueSize /\ QueueSize \in Nat /\ queued \in [Inboxes -> 0..QueueSize]
  BY DeliveryAssumption DEF TypeOK, Room
<1>2. queued[i] + 1 \in 0..QueueSize
  BY <1>1
<1> QED BY <1>1, <1>2

LEMMA CallsType ==
  ASSUME TypeOK
  PROVE  /\ NoCall \in Calls /\ \A a \in Nat : NextApp(a) \in Receivers \cup {None}
         /\ \A s \in Senders : call[s] \in Calls /\ call[s].to \in Nat
<1>1. NoCall \in Calls
  BY DeliveryAssumption DEF NoCall, Calls, None
<1>2. \A a \in Nat : NextApp(a) \in Receivers \cup {None}
  BY NextAppIs
<1>3. \A s \in Senders : call[s] \in Calls /\ call[s].to \in Nat
  BY CallsFields DEF TypeOK
<1> QED
  BY <1>1, <1>2, <1>3

LEMMA SendCallType ==
  ASSUME NEW s \in Senders, NEW a \in Receivers, NEW tid \in SendTids[s]
  PROVE  [NoCall EXCEPT !.to = a, !.tid = tid] \in Calls
<1>1. MaxThreads \in Nat /\ SendTids[s] \in SUBSET (1..MaxThreads) /\ 0 \in 0..MaxLives
  BY DeliveryAssumption
<1>2. tid \in 0..MaxThreads
  BY <1>1
<1>3. NoCall \in Calls
  BY <1>1 DEF NoCall, Calls, None
<1>4. [NoCall EXCEPT !.to = a] \in Calls
  BY <1>3, CallsExcept
<1>5. [[NoCall EXCEPT !.to = a] EXCEPT !.tid = tid] \in Calls
  BY <1>2, <1>4, CallsExcept
<1> QED
  BY <1>5

LEMMA MessageType ==
  ASSUME TypeOK, NEW s \in Senders
  PROVE  Message(s) \in Messages
BY DEF TypeOK, Message, Messages, Calls

LEMMA DoneType ==
  ASSUME TypeOK, NEW s \in Senders, NEW status \in BOOLEAN, Done(s, status)
  PROVE  /\ call' \in [Senders -> Calls]
         /\ pc' \in [Senders -> {"idle", "trial", "resolve", "send", "wait", "fail"}]
<1> DEFINE next == IF call[s].tid = 0 THEN NextApp(call[s].to) ELSE None
           c == IF next = None THEN [call[s] EXCEPT !.status = status, !.over = None]
                ELSE [NoCall EXCEPT !.to = next]
<1>1. next \in Receivers \cup {None}
  BY CallsType
<1>2. c \in Calls
  <2> HIDE DEF next
  <2>1. CASE next = None
    <3>1. call[s] \in Calls /\ 0 \in 0..MaxLives
      BY CallsType, DeliveryAssumption
    <3>2. [call[s] EXCEPT !.status = status] \in Calls
      BY <3>1, CallsExcept
    <3>3. [[call[s] EXCEPT !.status = status] EXCEPT !.over = 0] \in Calls
      BY <3>1, <3>2, CallsExcept
    <3> QED
      BY <2>1, <3>3 DEF None
  <2>2. CASE next # None
    BY <1>1, <2>2, CallsType DEF Calls
  <2> QED
    BY <2>1, <2>2
<1>3. call' = [call EXCEPT ![s] = c]
  BY DEF Done
<1> HIDE DEF c
<1>4. call' \in [Senders -> Calls]
  BY <1>2, <1>3 DEF TypeOK
<1>5. pc' = [pc EXCEPT ![s] = IF next = None THEN "idle" ELSE "trial"]
  BY DEF Done
<1> QED
  BY <1>4, <1>5 DEF TypeOK

LEMMA RouterType ==
  ASSUME TypeOK, NEW a \in Receivers
  PROVE  /\ router[a] \in Routers
         /\ router[a] # Idle => router[a].at \in {"post", "reply"} /\ router[a].msg \in Messages
         /\ router[a].at = "post" => router[a] \in [at : {"post"}, msg : Messages, last : Tids, next : Nat]
         /\ router[a].at = "reply" => router[a] \in [at : {"reply"}, msg : Messages, status : BOOLEAN]
         /\ router[a].at \notin {"post", "reply"} <=> router[a] = Idle
BY DEF TypeOK, Routers, Idle

LEMMA ArrivesType ==
  ASSUME TypeOK, NEW i \in Inboxes, NEW m \in Messages, Arrives(i, m)
  PROVE  got' \in [Inboxes -> [Senders -> Nat \X Nat]]
<1>1. m.from \in Senders /\ m.n \in Nat
  BY DEF Messages
<1>2. got[i] \in [Senders -> Nat \X Nat]
  BY DEF TypeOK
<1>3. got[i][m.from] \in Nat \X Nat
  BY <1>1, <1>2
<1> DEFINE g == IF got[i][m.from][1] = m.n THEN <<m.n, got[i][m.from][2] + 1>> ELSE <<m.n, 1>>
<1>4. g \in Nat \X Nat
  BY <1>1, <1>3
<1>5. got' = [got EXCEPT ![i] = [got[i] EXCEPT ![m.from] = g]]
  BY DEF Arrives
<1> HIDE DEF g
<1> QED
  BY <1>1, <1>2, <1>4, <1>5 DEF TypeOK

\* A call has an application and trials left; an answer waits for its reader.
CallInv ==
  \A s \in Senders :
    /\ pc[s] # "idle" => call[s].to \in Receivers /\ call[s].trial < max_number_of_trials
    /\ call[s].tid # 0 => call[s].to \in Receivers
    /\ pc[s] # "wait" => answer[s] = "none"

\* Who waits at a for the reply to the message m.
WaitsFor(a, m) ==
  LET s == m.from
  IN  /\ pc[s] = "wait" /\ answer[s] = "none"
      /\ call[s].to = a /\ call[s].tid = m.tid /\ calls[s] = m.n

\* The message m of a waiting sender is in the channel of a or at its router.
OpenAt(a, m) ==
  /\ m.open
  /\ \/ \E j \in DOMAIN backlog[a] : backlog[a][j] = m
     \/ router[a] # Idle /\ router[a].msg = m

\* There is one such message of a sender at most.
OneOpen(a) ==
  /\ \A j, k \in DOMAIN backlog[a] :
       /\ backlog[a][j].open /\ backlog[a][k].open
       /\ backlog[a][j].from = backlog[a][k].from
       => j = k
  /\ \A j \in DOMAIN backlog[a] :
       ~(/\ router[a] # Idle /\ router[a].msg.open /\ backlog[a][j].open
         /\ backlog[a][j].from = router[a].msg.from)

\* A message whose sender still waits is the one of its present trial.
OpenInv ==
  \A a \in Receivers :
    OneOpen(a) /\ \A m \in Messages : OpenAt(a, m) => WaitsFor(a, m)

LEMMA SenderType ==
  ASSUME TypeOK, CallInv, NEW s \in Senders,
         SenderStep(s) \/ ReplyLost(s) \/ SAL_Publish(s)
           \/ \E a \in Receivers, tid \in SendTids[s] : SAL_Send(s, a, tid)
  PROVE  TypeOK'
<1> USE DEF TypeOK, directory, receiver, sender, Goto
<1>1. ASSUME NEW c \in Calls, Begin(s, c) PROVE TypeOK'
  <2>1. calls' \in [Senders -> Nat]
    BY <1>1 DEF Begin
  <2>2. call' \in [Senders -> Calls] /\ pc' \in [Senders -> {"idle", "trial", "resolve", "send", "wait", "fail"}]
    BY <1>1 DEF Begin
  <2>3. steady' \in [Senders -> SUBSET Receivers]
    BY <1>1 DEF Begin, Up
  <2> QED
    BY <1>1, <2>1, <2>2, <2>3 DEF Begin
<1>2. CASE SAL_Publish(s)
  <2>1. [NoCall EXCEPT !.to = NextApp(None)] \in Calls
    BY CallsType DEF Calls, None
  <2> QED
    BY <1>1, <1>2, <2>1 DEF SAL_Publish
<1>3. CASE \E a \in Receivers, tid \in SendTids[s] : SAL_Send(s, a, tid)
  <2>1. PICK a \in Receivers, tid \in SendTids[s] : SAL_Send(s, a, tid)
    BY <1>3
  <2>3. [NoCall EXCEPT !.to = a, !.tid = tid] \in Calls
    BY SendCallType
  <2> QED
    BY <1>1, <2>1, <2>3 DEF SAL_Send
<1>4. ASSUME SenderStep(s) PROVE TypeOK'
  <2>0. \A x \in 0..MaxLives : [call[s] EXCEPT !.over = x] \in Calls
    BY CallsExcept
  <2>1. CASE Connected(s)
    <3>1. call[s].to \in Receivers
      BY <2>1 DEF Connected, CallInv
    <3>2. [call[s] EXCEPT !.over = connection[call[s].to]] \in Calls
      BY <2>0, <3>1
    <3>3. call' = [call EXCEPT ![s] = [call[s] EXCEPT !.over = connection[call[s].to]]]
      BY <2>1 DEF Connected
    <3>4. call' \in [Senders -> Calls]
      BY <3>2, <3>3
    <3> QED
      BY <2>1, <3>4 DEF Connected
  <2>2. CASE Connect(s)
    BY <2>2 DEF Connect
  <2>3. CASE SAL_Connect(s)
    <3>1. ASSUME call[s].to \in Receivers PROVE bound[<<call[s].to, 0>>] \in 0..MaxLives
      BY <3>1 DEF Directory!Keys
    <3>2. pc' \in [Senders -> {"idle", "trial", "resolve", "send", "wait", "fail"}]
      BY <2>3 DEF SAL_Connect
    <3>3. call[s].to \in Receivers
      BY <2>3 DEF SAL_Connect, CallInv
    <3>4. connection' \in [Receivers -> 0..MaxLives]
      BY <2>3, <3>1, <3>3 DEF SAL_Connect
    <3>5. call' \in [Senders -> Calls]
      <4>1. [call[s] EXCEPT !.over = bound[<<call[s].to, 0>>]] \in Calls
        BY <2>0, <3>1, <3>3
      <4>2. call' = [call EXCEPT ![s] = [call[s] EXCEPT !.over = bound[<<call[s].to, 0>>]]]
        BY <2>3 DEF SAL_Connect
      <4> QED
        BY <4>1, <4>2
    <3> QED
      BY <2>3, <3>2, <3>4, <3>5 DEF SAL_Connect
  <2>4. CASE Send(s)
    <3>1. backlog' \in [Receivers -> Seq(Messages)]
      <4>1. call[s].to \in Receivers /\ Message(s) \in Messages
        BY <2>4, MessageType DEF Send, CallInv
      <4>2. Append(backlog[call[s].to], Message(s)) \in Seq(Messages)
        BY <4>1
      <4>3. backlog' = [backlog EXCEPT ![call[s].to] = Append(backlog[call[s].to], Message(s))]
        BY <2>4 DEF Send
      <4> QED
        BY <4>1, <4>2, <4>3
    <3> QED
      BY <2>4, <3>1 DEF Send
  <2>5. CASE SendFails(s)
    BY <2>5 DEF SendFails
  <2>6. CASE Replied(s)
    BY <2>6, DoneType DEF Replied
  <2>7. CASE WaitFails(s)
    BY <2>7 DEF WaitFails
  <2>8. CASE Invalidate(s)
    <3>1. connection' \in [Receivers -> 0..MaxLives]
      <4>1. None \in 0..MaxLives
        BY DeliveryAssumption DEF None
      <4>2. connection' = [connection EXCEPT ![call[s].to] = None]
        BY <2>8 DEF Invalidate
      <4> QED
        BY <4>1, <4>2
    <3>2. /\ call' \in [Senders -> Calls]
          /\ pc' \in [Senders -> {"idle", "trial", "resolve", "send", "wait", "fail"}]
      <4>1. CASE call[s].trial + 1 < max_number_of_trials
        <5>1. [call[s] EXCEPT !.trial = @ + 1] \in Calls
          BY CallsExcept
        <5>2. call' = [call EXCEPT ![s] = [call[s] EXCEPT !.trial = @ + 1]]
          BY <2>8, <4>1 DEF Invalidate
        <5>3. pc' = [pc EXCEPT ![s] = "trial"]
          BY <2>8, <4>1 DEF Invalidate
        <5> QED
          BY <5>1, <5>2, <5>3
      <4>2. CASE ~(call[s].trial + 1 < max_number_of_trials)
        BY <2>8, <4>2, DoneType DEF Invalidate
      <4> QED
        BY <4>1, <4>2
    <3> QED
      BY <2>8, <3>1, <3>2 DEF Invalidate
  <2> QED
    BY <1>4, <2>1, <2>2, <2>3, <2>4, <2>5, <2>6, <2>7, <2>8 DEF SenderStep
<1>5. CASE ReplyLost(s)
  <2>1. backlog' \in [Receivers -> Seq(Messages)]
    <3> SUFFICES ASSUME NEW a \in Receivers
                 PROVE  [i \in DOMAIN backlog[a] |-> [backlog[a][i] EXCEPT
                           !.open = @ /\ backlog[a][i].from # s]] \in Seq(Messages)
      BY <1>5 DEF ReplyLost
    <3>1. backlog[a] \in Seq(Messages) /\ DOMAIN backlog[a] = 1..Len(backlog[a]) /\ Len(backlog[a]) \in Nat
      OBVIOUS
    <3>2. \A i \in DOMAIN backlog[a] : [backlog[a][i] EXCEPT
                           !.open = @ /\ backlog[a][i].from # s] \in Messages
      <4> SUFFICES ASSUME NEW i \in DOMAIN backlog[a]
                   PROVE  [backlog[a][i] EXCEPT !.open = @ /\ backlog[a][i].from # s] \in Messages
        OBVIOUS
      <4>1. backlog[a][i] \in Messages /\ backlog[a][i].open \in BOOLEAN
        BY <3>1, MessageFields
      <4>2. (backlog[a][i].open /\ backlog[a][i].from # s) \in BOOLEAN
        OBVIOUS
      <4> QED
        BY <4>1, <4>2, MessageFields
    <3> QED
      BY <3>1, <3>2
  <2>2. router' \in [Receivers -> Routers]
    <3> SUFFICES ASSUME NEW a \in Receivers, router[a] # Idle
                 PROVE  [router[a] EXCEPT !.msg.open = @ /\ router[a].msg.from # s] \in Routers
      BY <1>5 DEF ReplyLost, Routers
    <3> DEFINE b == router[a].msg.open /\ router[a].msg.from # s
               m == [router[a].msg EXCEPT !.open = b]
    <3>1. m \in Messages
      BY RouterType, MessageFields
    <3>2. [router[a] EXCEPT !.msg.open = b] = [router[a] EXCEPT !.msg = m]
      OBVIOUS
    <3> HIDE DEF m, b
    <3>3. [router[a] EXCEPT !.msg = m] \in Routers
      <4>1. CASE router[a].at = "post"
        BY <3>1, <4>1, RouterType DEF Routers
      <4>2. CASE router[a].at = "reply"
        BY <3>1, <4>2, RouterType, ZenonT(40) DEF Routers
      <4> QED
        BY <4>1, <4>2, RouterType
    <3> QED
      BY <3>2, <3>3 DEF b
  <2>3. faults' \in 0..MaxFaults
    BY <1>5, DeliveryAssumption DEF ReplyLost
  <2> QED
    BY <1>5, <2>1, <2>2, <2>3 DEF ReplyLost
<1> QED
  BY <1>2, <1>3, <1>4, <1>5

LEMMA CloseType ==
  ASSUME TypeOK, NEW a \in Receivers, Close(a)
  PROVE  /\ answer' \in [Senders -> {"none", "true", "false", "closed"}]
         /\ backlog' \in [Receivers -> Seq(Messages)] /\ router' \in [Receivers -> Routers]
<1>1. << >> \in Seq(Messages) /\ Idle \in Routers
  BY DEF Routers
<1> QED
  BY <1>1 DEF Close, TypeOK

LEMMA EndQueuesType ==
  ASSUME TypeOK, NEW a \in Receivers, EndQueues(a)
  PROVE  /\ queued' \in [Inboxes -> 0..QueueSize]
         /\ got' \in [Inboxes -> [Senders -> Nat \X Nat]]
<1>1. QueueSize \in Nat
  BY DeliveryAssumption
<1>2. \A i \in Inboxes, s \in Senders : got[i][s] \in Nat \X Nat /\ <<got[i][s][1], 0>> \in Nat \X Nat
  BY DEF TypeOK
<1> QED
  BY <1>1, <1>2 DEF EndQueues, TypeOK

LEMMA LifeType ==
  ASSUME TypeOK, NEW a \in Receivers,
         Leave(a) \/ LeaveUnbind(a) \/ LeaveClose(a) \/ Crash(a) \/ CleanUp(a)
           \/ Restart(a) \/ Subscribe(a)
  PROVE  TypeOK'
<1> USE DEF TypeOK, directory, sender, Outside
<1>1. Directory!UnbindApp(a) => bound' \in [Directory!Keys -> 0..MaxLives]
  BY DeliveryAssumption DEF Directory!UnbindApp, None
<1>2. Unsteady(a) => steady' \in [Senders -> SUBSET Receivers]
  BY DEF Unsteady
<1>3. CASE Leave(a)
  BY <1>2, <1>3 DEF Leave
<1>4. CASE LeaveUnbind(a)
  BY <1>1, <1>4 DEF LeaveUnbind
<1>5. CASE LeaveClose(a)
  BY <1>5, CloseType, EndQueuesType DEF LeaveClose
<1>6. CASE Crash(a)
  BY <1>2, <1>6, CloseType, EndQueuesType DEF Crash
<1>7. CASE CleanUp(a)
  BY <1>1, <1>7 DEF CleanUp
<1>8. CASE Restart(a)
  <2>1. life' \in [Receivers -> 1..MaxLives] /\ life[a] + 1 \in 0..MaxLives
    BY <1>8, DeliveryAssumption, SMTT(30) DEF Restart
  <2>2. bound' \in [Directory!Keys -> 0..MaxLives]
    BY <1>8, <2>1 DEF Restart, Directory!Bind
  <2> QED
    BY <1>8, <2>1, <2>2 DEF Restart
<1>9. CASE Subscribe(a)
  BY <1>9 DEF Subscribe
<1> QED
  BY <1>3, <1>4, <1>5, <1>6, <1>7, <1>8, <1>9

\* What Take does to the backlog: its first message is at hand.
LEMMA TakeIs ==
  ASSUME TypeOK, NEW a \in Receivers, NEW i, Take(a, i)
  PROVE  /\ i = 1 /\ backlog[a] \in Seq(Messages) /\ Len(backlog[a]) \in Nat \ {0}
         /\ backlog[a][1] \in Messages /\ router[a] = Idle
         /\ backlog' = [backlog EXCEPT ![a] = RemoveAt(@, 1)]
         /\ backlog' \in [Receivers -> Seq(Messages)]
         /\ DOMAIN backlog[a] = 1..Len(backlog[a])
         /\ DOMAIN backlog'[a] = 1..(Len(backlog[a]) - 1)
         /\ \A j \in 1..(Len(backlog[a]) - 1) : backlog'[a][j] = backlog[a][j + 1]
<1>1. i = 1 /\ backlog[a] \in Seq(Messages) /\ backlog[a] # << >> /\ router[a] = Idle
      /\ backlog' = [backlog EXCEPT ![a] = RemoveAt(@, 1)]
  BY DEF Take, Taken, TypeOK
<1>2. /\ RemoveAt(backlog[a], 1) \in Seq(Messages)
      /\ Len(backlog[a]) \in Nat \ {0} /\ backlog[a][1] \in Messages
      /\ DOMAIN RemoveAt(backlog[a], 1) = 1..(Len(backlog[a]) - 1)
      /\ \A j \in 1..(Len(backlog[a]) - 1) : RemoveAt(backlog[a], 1)[j] = backlog[a][j + 1]
  BY <1>1, FirstRemoved
<1>3. backlog'[a] = RemoveAt(backlog[a], 1)
  BY <1>1 DEF TypeOK
<1>4. DOMAIN backlog[a] = 1..Len(backlog[a])
  BY <1>1
<1> HIDE DEF RemoveAt
<1>5. backlog' \in [Receivers -> Seq(Messages)]
  BY <1>1, <1>2 DEF TypeOK
<1> QED
  BY <1>1, <1>2, <1>3, <1>4, <1>5

LEMMA RouterStepType ==
  ASSUME TypeOK, NEW a \in Receivers, RouterStep(a)
  PROVE  TypeOK'
<1> USE DEF directory, sender, Received
<1> DEFINE m == backlog[a][1]
<1>1. ASSUME NEW i, Process_Send(a, i) PROVE TypeOK'
  <2>1. Take(a, i) /\ backlog[a][i].tid # 0
    BY <1>1 DEF Process_Send
  <2>2. i = 1 /\ m \in Messages /\ backlog' \in [Receivers -> Seq(Messages)]
    BY <2>1, TakeIs
  <2>3. m.from \in Senders /\ m.tid \in Tids /\ <<a, m.tid>> \in Inboxes
    BY <2>1, <2>2, MessageFields DEF Inboxes
  <2>4. \A st \in BOOLEAN : [at |-> "reply", msg |-> m, status |-> st] \in Routers
    BY <2>2 DEF Routers
  <2>5. Dropped(m, a) => steady' \in [Senders -> SUBSET Receivers]
    BY <2>2, DroppedType
  <2>6. Arrives(<<a, m.tid>>, m) => got' \in [Inboxes -> [Senders -> Nat \X Nat]]
    BY <2>2, <2>3, ArrivesType
  <2>7. faults < MaxFaults => faults + 1 \in 0..MaxFaults
    BY DeliveryAssumption DEF TypeOK
  <2>8. Room(<<a, m.tid>>) =>
          [queued EXCEPT ![<<a, m.tid>>] = @ + 1] \in [Inboxes -> 0..QueueSize]
    BY <2>3, TakenNode
  <2> HIDE DEF m
  <2>9. router' \in [Receivers -> Routers]
    BY <1>1, <2>2, <2>4 DEF Process_Send, TypeOK, m
  <2>10. queued' \in [Inboxes -> 0..QueueSize] /\ got' \in [Inboxes -> [Senders -> Nat \X Nat]]
    <3>1. \/ queued' = queued
          \/ /\ Room(<<a, m.tid>>)
             /\ queued' = [queued EXCEPT ![<<a, m.tid>>] = @ + 1]
      BY <1>1, <2>2 DEF Process_Send, m
    <3>2. got' = got \/ Arrives(<<a, m.tid>>, m)
      BY <1>1, <2>2 DEF Process_Send, m
    <3> QED
      BY <2>6, <2>8, <3>1, <3>2 DEF TypeOK
  <2>11. faults' \in 0..MaxFaults /\ steady' \in [Senders -> SUBSET Receivers]
    BY <1>1, <2>2, <2>5, <2>7 DEF Process_Send, TypeOK, m
  <2> QED
    BY <1>1, <2>2, <2>9, <2>10, <2>11 DEF Process_Send, TypeOK
<1>2. ASSUME NEW i, Process_Publish(a, i) PROVE TypeOK'
  <2> DEFINE last == LastTid(a)
  <2>1. Take(a, i)
    BY <1>2 DEF Process_Publish
  <2>2. i = 1 /\ m \in Messages /\ backlog' \in [Receivers -> Seq(Messages)]
    BY <2>1, TakeIs
  <2>3. last # 0 => last \in Tids /\ Room(<<a, last>>) /\ <<a, last>> \in Inboxes
    BY LastTidIs DEF Inboxes
  <2>4. [at |-> "reply", msg |-> m, status |-> TRUE] \in Routers
    BY <2>2 DEF Routers
  <2>5. last # 0 => [at |-> "post", msg |-> m, last |-> last, next |-> 1] \in Routers
    BY <2>2, <2>3 DEF Routers
  <2>6. Dropped(m, a) => steady' \in [Senders -> SUBSET Receivers]
    BY <2>2, DroppedType
  <2>7. faults < MaxFaults => faults + 1 \in 0..MaxFaults
    BY DeliveryAssumption DEF TypeOK
  <2>8. last # 0 => [queued EXCEPT ![<<a, last>>] = @ + 1] \in [Inboxes -> 0..QueueSize]
    BY <2>3, TakenNode
  <2> HIDE DEF m, last
  <2>9. router' \in [Receivers -> Routers]
    <3>1. \/ router' = [router EXCEPT ![a] = [at |-> "reply", msg |-> m, status |-> TRUE]]
          \/ /\ last # 0
             /\ router' = [router EXCEPT ![a] =
                            [at |-> "post", msg |-> m, last |-> last, next |-> 1]]
      BY <1>2, <2>2 DEF Process_Publish, m, last
    <3> QED
      BY <2>4, <2>5, <3>1 DEF TypeOK
  <2>10. queued' \in [Inboxes -> 0..QueueSize]
    <3>1. \/ queued' = queued
          \/ last # 0 /\ queued' = [queued EXCEPT ![<<a, last>>] = @ + 1]
      BY <1>2, <2>2 DEF Process_Publish, m, last
    <3> QED
      BY <2>8, <3>1 DEF TypeOK
  <2>11. faults' \in 0..MaxFaults
    BY <1>2, <2>2, <2>7 DEF Process_Publish, TypeOK, m, last
  <2>12. steady' \in [Senders -> SUBSET Receivers]
    BY <1>2, <2>2, <2>6 DEF Process_Publish, TypeOK, m, last
  <2> QED
    BY <1>2, <2>2, <2>9, <2>10, <2>11, <2>12 DEF Process_Publish, TypeOK
<1>3. CASE PostCopy(a)
  <2> DEFINE r == router[a]  inbox == <<a, r.next>>
  <2>1. /\ r \in [at : {"post"}, msg : Messages, last : Tids, next : Nat] /\ r.next < r.last
        /\ r.msg \in Messages
    BY <1>3, RouterType DEF PostCopy
  <2>2. r.next \in Subscribed[a] => inbox \in Inboxes
    BY DeliveryAssumption DEF Inboxes, Tids
  <2>3. router' \in [Receivers -> Routers]
    <3>1. [r EXCEPT !.next = @ + 1] \in Routers
      BY <2>1 DEF Routers
    <3> QED
      BY <1>3, <3>1 DEF PostCopy, TypeOK
  <2>4. inbox \in Inboxes /\ Arrives(inbox, r.msg) => got' \in [Inboxes -> [Senders -> Nat \X Nat]]
    BY <2>1, ArrivesType
  <2>5. inbox \in Inboxes /\ Room(inbox) =>
          [queued EXCEPT ![inbox] = @ + 1] \in [Inboxes -> 0..QueueSize]
    BY TakenNode
  <2>6. Dropped(r.msg, a) => steady' \in [Senders -> SUBSET Receivers]
    BY <2>1, DroppedType
  <2> HIDE DEF inbox, r
  <2>7. got' \in [Inboxes -> [Senders -> Nat \X Nat]] /\ queued' \in [Inboxes -> 0..QueueSize]
    <3>1. \/ got' = got /\ queued' = queued
          \/ /\ r.next \in Subscribed[a] /\ Room(inbox) /\ Arrives(inbox, r.msg)
             /\ queued' = [queued EXCEPT ![inbox] = @ + 1]
      BY <1>3 DEF PostCopy, inbox, r
    <3> QED
      BY <2>2, <2>4, <2>5, <3>1 DEF TypeOK
  <2>8. steady' \in [Senders -> SUBSET Receivers]
    BY <1>3, <2>6 DEF PostCopy, TypeOK, inbox, r
  <2> QED
    BY <1>3, <2>3, <2>7, <2>8 DEF PostCopy, TypeOK
<1>4. CASE PostLast(a)
  <2> DEFINE r == router[a]  inbox == <<a, r.last>>
  <2>1. r \in [at : {"post"}, msg : Messages, last : Tids, next : Nat] /\ inbox \in Inboxes
    BY <1>4, RouterType DEF PostLast, Inboxes
  <2>2. got' \in [Inboxes -> [Senders -> Nat \X Nat]]
    BY <1>4, <2>1, ArrivesType DEF PostLast
  <2>3. [at |-> "reply", msg |-> r.msg, status |-> TRUE] \in Routers
    BY <2>1 DEF Routers
  <2>4. router' \in [Receivers -> Routers]
    BY <1>4, <2>3 DEF PostLast, TypeOK
  <2> QED
    BY <1>4, <2>2, <2>4 DEF PostLast, TypeOK
<1>5. CASE Reply(a)
  <2>1. Idle \in Routers
    BY DEF Routers
  <2> QED
    BY <1>5, <2>1 DEF Reply, TypeOK
<1> QED
  BY <1>1, <1>2, <1>3, <1>4, <1>5 DEF RouterStep

LEMMA StepType == TypeOK /\ CallInv /\ [Next]_vars => TypeOK'
<1> SUFFICES ASSUME TypeOK, CallInv, [Next]_vars PROVE TypeOK'
  OBVIOUS
<1>1. CASE UNCHANGED vars
  BY <1>1 DEF vars, directory, receiver, sender, TypeOK
<1>2. ASSUME NEW i \in Inboxes, Receive(i) PROVE TypeOK'
  <2>1. queued' \in [Inboxes -> 0..QueueSize]
    BY <1>2, DeliveryAssumption DEF Receive, TypeOK
  <2> QED
    BY <1>2, <2>1 DEF Receive, directory, sender, TypeOK
<1> QED
  BY <1>1, <1>2, SenderType, RouterStepType, LifeType DEF Next

-----------------------------------------------------------------------------
(* Calls and their answers *)

\* What the rest of a call makes of it.
LEMMA DoneIs ==
  ASSUME TypeOK, CallInv, NEW s \in Senders, NEW status \in BOOLEAN, Done(s, status),
         pc[s] # "idle"
  PROVE  \/ /\ call[s].tid = 0
            /\ call'[s].to \in routing /\ call'[s].to \in Receivers /\ call'[s].to > call[s].to
            /\ \A b \in routing : b > call[s].to => call'[s].to <= b
            /\ pc' = [pc EXCEPT ![s] = "trial"]
            /\ call'[s].trial = 0 /\ call'[s].tid = 0
         \/ /\ call[s].tid = 0 => \A b \in routing : b <= call[s].to
            /\ pc' = [pc EXCEPT ![s] = "idle"]
            /\ call'[s].to = call[s].to /\ call'[s].tid = call[s].tid
            /\ call'[s].status = status
<1> DEFINE next == IF call[s].tid = 0 THEN NextApp(call[s].to) ELSE None
           c == IF next = None THEN [call[s] EXCEPT !.status = status, !.over = None]
                ELSE [NoCall EXCEPT !.to = next]
<1>1. /\ call' = [call EXCEPT ![s] = c]
      /\ pc' = [pc EXCEPT ![s] = IF next = None THEN "idle" ELSE "trial"]
  BY DEF Done
<1>2. call[s] \in Calls /\ call'[s] = c /\ call[s].to \in Receivers
  BY <1>1 DEF TypeOK, CallInv
<1>3. \/ next = None /\ (call[s].tid = 0 => \A b \in routing : b <= call[s].to)
      \/ /\ call[s].tid = 0 /\ next \in routing /\ next \in Receivers /\ next > call[s].to
         /\ \A b \in routing : b > call[s].to => next <= b
  BY <1>2, CallsType, NextAppIs
<1>4. CASE next = None
  <2>1. /\ pc' = [pc EXCEPT ![s] = "idle"]
        /\ call'[s] = [call[s] EXCEPT !.status = status, !.over = None]
    BY <1>1, <1>2, <1>4
  <2>2. call[s].tid = 0 => \A b \in routing : b <= call[s].to
    BY <1>3, <1>4, DeliveryAssumption DEF None
  <2> QED
    BY <1>2, <2>1, <2>2 DEF Calls
<1>5. CASE next # None
  <2>1. /\ pc' = [pc EXCEPT ![s] = "trial"] /\ call'[s] = [NoCall EXCEPT !.to = next]
    BY <1>1, <1>2, <1>5
  <2>2. call'[s].to = next /\ call'[s].trial = 0 /\ call'[s].tid = 0
    BY <2>1 DEF NoCall
  <2> QED
    BY <1>3, <1>5, <2>1, <2>2
<1> QED
  BY <1>4, <1>5

\* A sender that ends a trial in vain goes on with the next one, or ends.
LEMMA InvalidateIs ==
  ASSUME TypeOK, CallInv, NEW s \in Senders, Invalidate(s)
  PROVE  /\ pc[s] = "fail" /\ call[s].to \in Receivers
         /\ \/ /\ pc' = [pc EXCEPT ![s] = "trial"]
               /\ call' = [call EXCEPT ![s].trial = @ + 1]
               /\ call[s].trial + 1 < max_number_of_trials
            \/ ~(call[s].trial + 1 < max_number_of_trials) /\ Done(s, FALSE)
BY DEF Invalidate, Goto, CallInv

LEMMA OthersCall ==
  ASSUME TypeOK, NEW s \in Senders,
         SenderStep(s) \/ ReplyLost(s) \/ \E c : Begin(s, c),
         NEW z \in Senders \ {s}
  PROVE  pc'[z] = pc[z] /\ call'[z] = call[z] /\ calls'[z] = calls[z] /\ answer'[z] = answer[z]
<1> USE DEF TypeOK, Goto
<1>1. CASE \E c : Begin(s, c)
  BY <1>1 DEF Begin
<1>2. CASE ReplyLost(s)
  BY <1>2 DEF ReplyLost
<1>3. CASE SenderStep(s)
  BY <1>3 DEF SenderStep, Connected, Connect, SAL_Connect, Send, SendFails, Replied,
     WaitFails, Invalidate, Done
<1> QED
  BY <1>1, <1>2, <1>3

LEMMA CallStep == TypeOK /\ CallInv /\ OpenInv /\ [Next]_vars => CallInv'
<1> SUFFICES ASSUME TypeOK, CallInv, OpenInv, [Next]_vars PROVE CallInv'
  OBVIOUS
<1> DEFINE Good(s) ==
      /\ pc[s] # "idle" => call[s].to \in Receivers /\ call[s].trial < max_number_of_trials
      /\ call[s].tid # 0 => call[s].to \in Receivers
      /\ pc[s] # "wait" => answer[s] = "none"
<1>1. \A s \in Senders : Good(s)
  BY DEF CallInv
<1>2. CASE UNCHANGED <<pc, call, answer>>
  BY <1>2 DEF CallInv
<1>3. ASSUME NEW s \in Senders,
             SenderStep(s) \/ ReplyLost(s) \/ \E c : Begin(s, c),
             Good(s)'
      PROVE  CallInv'
  <2>1. \A z \in Senders \ {s} : Good(z)'
    BY <1>1, <1>3, OthersCall
  <2> QED
    BY <1>3, <2>1 DEF CallInv
<1>4. max_number_of_trials > 0 /\ max_number_of_trials \in Nat
  BY DeliveryAssumption
<1>5. ASSUME NEW s \in Senders, NEW c \in Calls, Begin(s, c), c.trial = 0,
             c.tid # 0 => c.to \in Receivers
      PROVE  CallInv'
  <2>1. Good(s)'
    <3>1. call'[s] = c /\ answer' = answer /\ pc[s] = "idle"
          /\ pc'[s] = IF c.to = None THEN "idle" ELSE "trial"
      BY <1>5 DEF Begin, Goto, TypeOK
    <3>2. c.to \in Receivers \cup {None}
      BY CallsFields
    <3> QED
      BY <1>1, <1>4, <1>5, <3>1, <3>2
  <2> QED
    BY <1>3, <1>5, <2>1
<1>6. ASSUME NEW s \in Senders, SAL_Publish(s) PROVE CallInv'
  <2>1. /\ [NoCall EXCEPT !.to = NextApp(None)] \in Calls
        /\ [NoCall EXCEPT !.to = NextApp(None)].trial = 0
        /\ [NoCall EXCEPT !.to = NextApp(None)].tid = 0
    BY CallsType DEF Calls, None, NoCall
  <2> QED
    BY <1>5, <1>6, <2>1 DEF SAL_Publish
<1>7. ASSUME NEW s \in Senders, NEW a \in Receivers, NEW tid \in SendTids[s], SAL_Send(s, a, tid)
      PROVE  CallInv'
  <2>1. /\ [NoCall EXCEPT !.to = a, !.tid = tid] \in Calls
        /\ [NoCall EXCEPT !.to = a, !.tid = tid].trial = 0
        /\ [NoCall EXCEPT !.to = a, !.tid = tid].to = a
    BY SendCallType DEF NoCall
  <2> QED
    BY <1>5, <1>7, <2>1 DEF SAL_Send
<1>8. ASSUME NEW s \in Senders, SenderStep(s) PROVE Good(s)'
  <2> USE DEF TypeOK, Goto
  <2>1. CASE Connected(s) \/ Connect(s) \/ SAL_Connect(s) \/ Send(s) \/ SendFails(s) \/ WaitFails(s)
    <3>1. call'[s].to = call[s].to /\ call'[s].trial = call[s].trial /\ pc[s] # "idle"
      BY <2>1 DEF Connected, Connect, SAL_Connect, Send, SendFails, WaitFails, Calls
    <3>2. \/ WaitFails(s)
          \/ answer' = answer /\ (pc[s] = "wait" => pc'[s] = "wait")
      BY <2>1 DEF Connected, Connect, SAL_Connect, Send, SendFails
    <3>3. WaitFails(s) => answer'[s] = "none"
      BY DEF WaitFails
    <3> QED
      BY <1>1, <3>1, <3>2, <3>3
  <2>2. CASE Replied(s)
    <3>1. /\ Done(s, answer[s] = "true") /\ pc[s] = "wait" /\ answer' = [answer EXCEPT ![s] = "none"]
      BY <2>2 DEF Replied
    <3>2. (answer[s] = "true") \in BOOLEAN
      OBVIOUS
    <3> QED
      BY <1>1, <1>4, <3>1, <3>2, DoneIs, ZenonT(40)
  <2>3. CASE Invalidate(s)
    <3>1. answer' = answer /\ pc[s] = "fail"
      BY <2>3 DEF Invalidate
    <3>2. CASE Done(s, FALSE)
      BY <1>1, <1>4, <3>1, <3>2, DoneIs, ZenonT(40)
    <3>3. CASE /\ pc' = [pc EXCEPT ![s] = "trial"]
               /\ call' = [call EXCEPT ![s].trial = @ + 1]
               /\ call[s].trial + 1 < max_number_of_trials
      BY <1>1, <3>1, <3>3 DEF Calls
    <3> QED
      BY <2>3, <3>2, <3>3, InvalidateIs
  <2> QED
    BY <1>8, <2>1, <2>2, <2>3 DEF SenderStep
<1>9. ASSUME NEW s \in Senders, ReplyLost(s) PROVE Good(s)'
  BY <1>1, <1>9 DEF ReplyLost, Goto, TypeOK
<1>10. ASSUME NEW a \in Receivers, RouterStep(a) PROVE CallInv'
  <2>1. CASE Reply(a)
    <3> DEFINE m == router[a].msg
    <3>1. router[a] # Idle /\ m \in Messages /\ m.from \in Senders
      BY <2>1, RouterType DEF Reply, Messages
    <3>2. m.open => pc[m.from] = "wait"
      BY <3>1 DEF OpenInv, OpenAt, WaitsFor
    <3>3. \A s \in Senders : pc[s] # "wait" => answer'[s] = answer[s]
      BY <2>1, <3>1, <3>2 DEF Reply, TypeOK
    <3>4. pc' = pc /\ call' = call
      BY <2>1 DEF Reply, sender
    <3> QED
      BY <1>1, <3>3, <3>4 DEF CallInv
  <2>2. CASE ~Reply(a)
    BY <1>2, <1>10, <2>2 DEF RouterStep, Process_Send, Process_Publish, PostCopy, PostLast,
       Received, sender
  <2> QED
    BY <2>1, <2>2
<1>11. ASSUME NEW a \in Receivers, Close(a), UNCHANGED <<pc, call>> PROVE CallInv'
  <2>1. \A s \in Senders : answer'[s] # answer[s] => pc[s] = "wait"
    <3> SUFFICES ASSUME NEW s \in Senders, answer'[s] # answer[s] PROVE pc[s] = "wait"
      OBVIOUS
    <3>1. \/ \E i \in DOMAIN backlog[a] : backlog[a][i].from = s /\ backlog[a][i].open
          \/ router[a] # Idle /\ router[a].msg.from = s /\ router[a].msg.open
      BY <1>11 DEF Close, TypeOK
    <3>2. CASE \E i \in DOMAIN backlog[a] : backlog[a][i].from = s /\ backlog[a][i].open
      <4>1. PICK i \in DOMAIN backlog[a] : backlog[a][i].from = s /\ backlog[a][i].open
        BY <3>2
      <4>2. backlog[a][i] \in Messages
        BY DEF TypeOK
      <4> QED
        BY <4>1, <4>2 DEF OpenInv, OpenAt, WaitsFor
    <3>3. CASE router[a] # Idle /\ router[a].msg.from = s /\ router[a].msg.open
      BY <3>3, RouterType DEF OpenInv, OpenAt, WaitsFor
    <3> QED
      BY <3>1, <3>2, <3>3
  <2> QED
    BY <1>1, <1>11, <2>1 DEF CallInv
<1>12. ASSUME NEW a \in Receivers,
              Leave(a) \/ LeaveUnbind(a) \/ LeaveClose(a) \/ Crash(a) \/ CleanUp(a)
                \/ Restart(a) \/ Subscribe(a)
       PROVE  CallInv'
  <2>1. CASE LeaveClose(a) \/ Crash(a)
    BY <1>11, <2>1 DEF LeaveClose, Crash, Outside, sender
  <2>2. CASE ~(LeaveClose(a) \/ Crash(a))
    BY <1>2, <1>12, <2>2 DEF Leave, LeaveUnbind, CleanUp, Restart, Subscribe, Outside, sender
  <2> QED
    BY <2>1, <2>2
<1>13. CASE UNCHANGED vars \/ \E i \in Inboxes : Receive(i)
  BY <1>2, <1>13 DEF vars, sender, Receive
<1> QED
  BY <1>3, <1>6, <1>7, <1>8, <1>9, <1>10, <1>12, <1>13 DEF Next

-----------------------------------------------------------------------------
(* The messages whose senders still wait *)

LEMMA Messaged ==
  ASSUME TypeOK, NEW a \in Receivers
  PROVE  /\ backlog[a] \in Seq(Messages)
         /\ \A j \in DOMAIN backlog[a] : backlog[a][j] \in Messages
         /\ router[a] # Idle => router[a].msg \in Messages
BY RouterType DEF TypeOK

\* A step of a sender that does not wait touches no message that is waited for.
LEMMA WaitsAside ==
  ASSUME TypeOK, NEW s \in Senders, ~(pc[s] = "wait" /\ answer[s] = "none"),
         \A z \in Senders \ {s} : /\ pc'[z] = pc[z] /\ call'[z] = call[z]
                                  /\ calls'[z] = calls[z] /\ answer'[z] = answer[z],
         NEW a \in Receivers, NEW m \in Messages, WaitsFor(a, m)
  PROVE  m.from # s /\ WaitsFor(a, m)'
<1>1. m.from \in Senders \ {s}
  BY MessageFields DEF WaitsFor
<1> QED
  BY <1>1 DEF WaitsFor

LEMMA SendOpen ==
  ASSUME TypeOK, CallInv, OpenInv, NEW s \in Senders, Send(s)
  PROVE  OpenInv'
<1> DEFINE a == call[s].to  q == backlog[a]  new == Message(s)
<1>1. /\ pc[s] = "send" /\ pc' = [pc EXCEPT ![s] = "wait"] /\ answer[s] = "none"
      /\ UNCHANGED <<call, calls, answer, router>> /\ a \in Receivers /\ new \in Messages
      /\ backlog' = [backlog EXCEPT ![a] = Append(@, new)]
  BY MessageType DEF Send, Goto, CallInv
<1>2. /\ Len(q) \in Nat /\ DOMAIN q = 1..Len(q) /\ DOMAIN backlog'[a] = 1..(Len(q) + 1)
      /\ \A j \in 1..Len(q) : backlog'[a][j] = q[j] /\ q[j] \in Messages
      /\ backlog'[a][Len(q) + 1] = new
  <2>1. q \in Seq(Messages) /\ backlog'[a] = Append(q, new)
    BY <1>1, Messaged DEF TypeOK
  <2> HIDE DEF q, new
  <2>2. \A j \in 1..Len(q) : q[j] \in Messages
    BY <2>1
  <2> QED
    BY <1>1, <2>1, <2>2, Appended, SMTT(40)
<1>3. \A b \in Receivers \ {a} : backlog'[b] = backlog[b]
  BY <1>1 DEF TypeOK
<1>4. new.from = s /\ new.open /\ new.n = calls[s] /\ new.tid = call[s].tid
  BY DEF Message
<1> HIDE DEF a, q, new
<1>5. \A b \in Receivers, m \in Messages : OpenAt(b, m) => m.from # s /\ WaitsFor(b, m)'
  <2> SUFFICES ASSUME NEW b \in Receivers, NEW m \in Messages, OpenAt(b, m)
               PROVE  m.from # s /\ WaitsFor(b, m)'
    OBVIOUS
  <2>1. WaitsFor(b, m)
    BY DEF OpenInv
  <2>2. \A z \in Senders \ {s} : /\ pc'[z] = pc[z] /\ call'[z] = call[z]
                                 /\ calls'[z] = calls[z] /\ answer'[z] = answer[z]
    BY <1>1 DEF TypeOK
  <2> QED
    BY <1>1, <2>1, <2>2, WaitsAside
<1>6. ASSUME NEW b \in Receivers, NEW m \in Messages, OpenAt(b, m)'
      PROVE  WaitsFor(b, m)'
  <2>1. CASE OpenAt(b, m)
    BY <1>5, <2>1
  <2>2. CASE ~OpenAt(b, m)
    <3>1. b = a /\ m = new
      BY <1>1, <1>2, <1>3, <1>6, <2>2 DEF OpenAt, q
    <3>2. pc'[s] = "wait"
      BY <1>1 DEF TypeOK
    <3> QED
      BY <1>1, <1>4, <3>1, <3>2 DEF WaitsFor, a
  <2> QED
    BY <2>1, <2>2
<1>7. \A b \in Receivers : \A j \in DOMAIN backlog[b] : backlog[b][j].open => backlog[b][j].from # s
  BY <1>5, Messaged DEF OpenAt
<1>8. \A b \in Receivers : router[b] # Idle /\ router[b].msg.open => router[b].msg.from # s
  BY <1>5, Messaged DEF OpenAt
<1>9. ASSUME NEW b \in Receivers PROVE OneOpen(b)'
  <2>1. CASE b # a
    BY <1>1, <1>3, <2>1 DEF OpenInv, OneOpen
  <2>2. CASE b = a
    <3>1. OneOpen(a) /\ router'[a] = router[a]
      BY <1>1 DEF OpenInv
    <3>2. \A j \in DOMAIN backlog'[a] :
            \/ j \in DOMAIN q /\ backlog'[a][j] = q[j] /\ (q[j].open => q[j].from # s)
            \/ j = Len(q) + 1 /\ backlog'[a][j] = new
      BY <1>1, <1>2, <1>7 DEF q
    <3>3. router'[a] # Idle /\ router'[a].msg.open => router'[a].msg.from # s
      BY <1>1, <1>8, <3>1
    <3> QED
      BY <1>4, <2>2, <3>1, <3>2, <3>3 DEF OneOpen, q
  <2> QED
    BY <2>1, <2>2
<1> QED
  BY <1>6, <1>9 DEF OpenInv

\* A sender that goes closes its messages, and these only.
LEMMA LostMessages ==
  ASSUME TypeOK, NEW s \in Senders, ReplyLost(s), NEW a \in Receivers
  PROVE  /\ DOMAIN backlog'[a] = DOMAIN backlog[a]
         /\ \A j \in DOMAIN backlog[a] :
              /\ backlog'[a][j].from = backlog[a][j].from /\ backlog'[a][j].tid = backlog[a][j].tid
              /\ backlog'[a][j].n = backlog[a][j].n
              /\ backlog'[a][j].open =>
                   backlog'[a][j] = backlog[a][j] /\ backlog[a][j].from # s
         /\ router'[a] = Idle <=> router[a] = Idle
         /\ router[a] # Idle =>
              LET m == router[a].msg  mm == router'[a].msg
              IN  /\ mm.from = m.from /\ mm.tid = m.tid /\ mm.n = m.n
                  /\ mm.open => mm = m /\ m.from # s
                  /\ router'[a].at = router[a].at
                  /\ router[a].at = "post" =>
                       router'[a].last = router[a].last /\ router'[a].next = router[a].next
                  /\ router[a].at = "reply" => router'[a].status = router[a].status
<1>1. DOMAIN backlog'[a] = DOMAIN backlog[a]
  BY DEF ReplyLost
<1>2. ASSUME NEW j \in DOMAIN backlog[a]
      PROVE  /\ backlog'[a][j].from = backlog[a][j].from /\ backlog'[a][j].tid = backlog[a][j].tid
             /\ backlog'[a][j].n = backlog[a][j].n
             /\ backlog'[a][j].open =>
                  backlog'[a][j] = backlog[a][j] /\ backlog[a][j].from # s
  <2>1. backlog[a][j] \in Messages
    BY Messaged
  <2>2. backlog'[a][j] = [backlog[a][j] EXCEPT !.open = @ /\ backlog[a][j].from # s]
    BY DEF ReplyLost
  <2> QED
    BY <2>1, <2>2 DEF Messages
<1>3. CASE router[a] = Idle
  BY <1>1, <1>2, <1>3 DEF ReplyLost
<1>4. CASE router[a] # Idle
  <2> DEFINE m == router[a].msg  mm == [m EXCEPT !.open = @ /\ m.from # s]
  <2>1. router'[a] = [router[a] EXCEPT !.msg = mm]
    BY <1>4 DEF ReplyLost
  <2>2. m \in Messages
    BY <1>4, Messaged
  <2>3. /\ mm.from = m.from /\ mm.tid = m.tid /\ mm.n = m.n
        /\ mm.open => mm = m /\ m.from # s
    BY <2>2 DEF Messages
  <2> HIDE DEF mm
  <2>4. /\ router'[a].msg = mm /\ router'[a].at = router[a].at
        /\ router[a].at = "post" =>
             router'[a].last = router[a].last /\ router'[a].next = router[a].next
        /\ router[a].at = "reply" => router'[a].status = router[a].status
    BY <1>4, <2>1, RouterType
  <2>5. router'[a] # Idle
    BY <1>4, <2>4, RouterType DEF Idle
  <2> QED
    BY <1>1, <1>2, <1>4, <2>3, <2>4, <2>5
<1> QED
  BY <1>3, <1>4

LEMMA LostOpen ==
  ASSUME TypeOK, OpenInv, NEW s \in Senders, ReplyLost(s)
  PROVE  OpenInv'
<1>1. ASSUME NEW a \in Receivers, NEW m \in Messages, OpenAt(a, m)' PROVE WaitsFor(a, m)'
  <2>1. OpenAt(a, m) /\ m.from # s
    BY <1>1, LostMessages DEF OpenAt
  <2>2. WaitsFor(a, m) /\ m.from \in Senders \ {s}
    BY <2>1, MessageFields DEF OpenInv
  <2> QED
    BY <2>2 DEF WaitsFor, ReplyLost, Goto, TypeOK
<1>2. ASSUME NEW a \in Receivers PROVE OneOpen(a)'
  BY LostMessages DEF OpenInv, OneOpen
<1> QED
  BY <1>1, <1>2 DEF OpenInv

LEMMA SenderOpen ==
  ASSUME TypeOK, CallInv, OpenInv, NEW s \in Senders,
         SenderStep(s) \/ ReplyLost(s) \/ \E c : Begin(s, c)
  PROVE  OpenInv'
<1>1. CASE ~ReplyLost(s) /\ ~Send(s)
  <2>1. ~(pc[s] = "wait" /\ answer[s] = "none") /\ UNCHANGED <<backlog, router>>
    BY <1>1 DEF SenderStep, Begin, Connected, Connect, SAL_Connect, SendFails, Replied, WaitFails,
       Invalidate, Goto, receiver
  <2>2. \A a \in Receivers, m \in Messages : WaitsFor(a, m) => WaitsFor(a, m)'
    BY <2>1, OthersCall, WaitsAside
  <2> QED
    BY <2>1, <2>2 DEF OpenInv, OpenAt, OneOpen
<1> QED
  BY <1>1, SendOpen, LostOpen

\* What the router does with the message that it takes.
LEMMA ProcessIs ==
  ASSUME TypeOK, NEW a \in Receivers, NEW i, Process_Send(a, i) \/ Process_Publish(a, i)
  PROVE  /\ Take(a, i) /\ UNCHANGED <<directory, alive, life, sender, answer>>
         /\ \A b \in Receivers \ {a} : router'[b] = router[b] /\ backlog'[b] = backlog[b]
         /\ router'[a] # Idle /\ router'[a].msg = backlog[a][1]
         /\ router'[a].at = "post" => router'[a].next = 1
<1>1. Take(a, i) /\ UNCHANGED <<directory, alive, life, sender, answer>>
  BY DEF Process_Send, Process_Publish, Received
<1>2. i = 1 /\ \A b \in Receivers \ {a} : backlog'[b] = backlog[b]
  BY <1>1, TakeIs DEF TypeOK
<1>3. \/ \E st \in BOOLEAN : router' = [router EXCEPT ![a] =
                       [at |-> "reply", msg |-> backlog[a][1], status |-> st]]
      \/ \E last : router' = [router EXCEPT ![a] =
                       [at |-> "post", msg |-> backlog[a][1], last |-> last, next |-> 1]]
  <2>1. CASE Process_Send(a, i)
    BY <1>2, <2>1 DEF Process_Send
  <2>2. CASE Process_Publish(a, i)
    BY <1>2, <2>2 DEF Process_Publish
  <2> QED
    BY <2>1, <2>2
<1>4. /\ \A b \in Receivers \ {a} : router'[b] = router[b]
      /\ router'[a] # Idle /\ router'[a].msg = backlog[a][1]
      /\ router'[a].at = "post" => router'[a].next = 1
  BY <1>3 DEF TypeOK, Idle
<1> QED
  BY <1>1, <1>2, <1>4

LEMMA PostIs ==
  ASSUME TypeOK, NEW a \in Receivers, PostCopy(a) \/ PostLast(a)
  PROVE  /\ UNCHANGED <<directory, alive, life, backlog, sender, answer, faults>>
         /\ \A b \in Receivers \ {a} : router'[b] = router[b]
         /\ router[a] \in [at : {"post"}, msg : Messages, last : Tids, next : Nat]
         /\ router[a] # Idle /\ router'[a] # Idle /\ router'[a].msg = router[a].msg
         /\ PostCopy(a) => /\ router[a].next < router[a].last /\ router'[a].at = "post"
                           /\ router'[a].last = router[a].last
                           /\ router'[a].next = router[a].next + 1
         /\ PostLast(a) => /\ router[a].next >= router[a].last
                           /\ router'[a].at = "reply" /\ router'[a].status = TRUE
<1>1. /\ UNCHANGED <<directory, alive, life, backlog, sender, answer, faults>>
      /\ router[a].at = "post"
  BY DEF PostCopy, PostLast, Received
<1>2. router[a] \in [at : {"post"}, msg : Messages, last : Tids, next : Nat] /\ router[a] # Idle
  BY <1>1, RouterType DEF Idle
<1>3. CASE PostCopy(a)
  <2>1. /\ router[a].next < router[a].last
        /\ router' = [router EXCEPT ![a] = [router[a] EXCEPT !.next = @ + 1]]
    BY <1>3 DEF PostCopy
  <2>2. router'[a] = [router[a] EXCEPT !.next = @ + 1]
    BY <2>1 DEF TypeOK
  <2>3. ~PostLast(a)
    <3>1. router[a].next \in Nat /\ router[a].last \in Nat
      BY <1>2, DeliveryAssumption DEF Tids
    <3> QED
      BY <2>1, <3>1 DEF PostLast
  <2>4. /\ router'[a].at = "post" /\ router'[a].last = router[a].last
        /\ router'[a].next = router[a].next + 1 /\ router'[a].msg = router[a].msg
    BY <1>2, <2>2
  <2>5. router'[a] # Idle
    BY <2>4 DEF Idle
  <2> QED
    BY <1>1, <1>2, <2>1, <2>3, <2>4, <2>5 DEF TypeOK
<1>4. CASE PostLast(a)
  <2>1. /\ router[a].next >= router[a].last
        /\ router' = [router EXCEPT ![a] = [at |-> "reply", msg |-> router[a].msg, status |-> TRUE]]
    BY <1>4 DEF PostLast
  <2>2. ~PostCopy(a)
    <3>1. router[a].next \in Nat /\ router[a].last \in Nat
      BY <1>2, DeliveryAssumption DEF Tids
    <3> QED
      BY <2>1, <3>1 DEF PostCopy
  <2> QED
    BY <1>1, <1>2, <2>1, <2>2 DEF TypeOK, Idle
<1> QED
  BY <1>3, <1>4

LEMMA RouterOpen ==
  ASSUME TypeOK, OpenInv, NEW a \in Receivers, RouterStep(a)
  PROVE  OpenInv'
<1>1. CASE \E i \in DOMAIN backlog[a] : Process_Send(a, i) \/ Process_Publish(a, i)
  <2>1. PICK i : Process_Send(a, i) \/ Process_Publish(a, i)
    BY <1>1
  <2>2. /\ UNCHANGED <<pc, call, calls, answer>>
        /\ \A b \in Receivers \ {a} : router'[b] = router[b] /\ backlog'[b] = backlog[b]
        /\ router'[a] # Idle /\ router'[a].msg = backlog[a][1] /\ Take(a, i)
    BY <2>1, ProcessIs DEF sender
  <2>3. /\ Len(backlog[a]) \in Nat \ {0} /\ router[a] = Idle
        /\ DOMAIN backlog[a] = 1..Len(backlog[a])
        /\ DOMAIN backlog'[a] = 1..(Len(backlog[a]) - 1)
        /\ \A j \in 1..(Len(backlog[a]) - 1) : backlog'[a][j] = backlog[a][j + 1]
    BY <2>2, TakeIs
  <2>4. \A m \in Messages : OpenAt(a, m)' => OpenAt(a, m)
    <3>1. 1 \in DOMAIN backlog[a]
          /\ \A j \in DOMAIN backlog'[a] : j + 1 \in DOMAIN backlog[a] /\ backlog'[a][j] = backlog[a][j + 1]
      BY <2>3
    <3> QED
      BY <2>2, <3>1 DEF OpenAt
  <2>5. \A b \in Receivers, m \in Messages : OpenAt(b, m)' => WaitsFor(b, m)
    BY <2>2, <2>4 DEF OpenAt, OpenInv
  <2>6. OneOpen(a)'
    <3>1. \A j, k \in DOMAIN backlog[a] :
            /\ backlog[a][j].open /\ backlog[a][k].open
            /\ backlog[a][j].from = backlog[a][k].from
            => j = k
      BY DEF OpenInv, OneOpen
    <3>2. \A j \in DOMAIN backlog'[a] :
            j + 1 \in DOMAIN backlog[a] /\ 1 \in DOMAIN backlog[a] /\ j + 1 # 1
            /\ backlog'[a][j] = backlog[a][j + 1]
      BY <2>3
    <3>3. ASSUME NEW j \in DOMAIN backlog'[a], NEW k \in DOMAIN backlog'[a],
                 backlog'[a][j].open, backlog'[a][k].open, backlog'[a][j].from = backlog'[a][k].from
          PROVE  j = k
      <4>1. j + 1 = k + 1
        BY <3>1, <3>2, <3>3
      <4>2. j \in Int /\ k \in Int
        BY <2>3
      <4> QED
        BY <4>1, <4>2
    <3>4. ASSUME NEW j \in DOMAIN backlog'[a]
          PROVE  ~(/\ router'[a] # Idle /\ router'[a].msg.open /\ backlog'[a][j].open
                   /\ backlog'[a][j].from = router'[a].msg.from)
      BY <2>2, <3>1, <3>2
    <3> QED
      BY <3>3, <3>4 DEF OneOpen
  <2>7. \A b \in Receivers \ {a} : OneOpen(b)'
    BY <2>2 DEF OpenInv, OneOpen
  <2> QED
    BY <2>2, <2>5, <2>6, <2>7 DEF OpenInv, WaitsFor
<1>2. CASE PostCopy(a) \/ PostLast(a)
  <2>1. UNCHANGED <<pc, call, calls, answer, backlog>>
    BY <1>2, PostIs DEF sender
  <2>2. \A b \in Receivers : /\ router'[b] # Idle <=> router[b] # Idle
                             /\ router[b] # Idle => router'[b].msg = router[b].msg
    BY <1>2, PostIs
  <2> QED
    BY <2>1, <2>2 DEF OpenInv, OneOpen, OpenAt, WaitsFor
<1>3. CASE Reply(a)
  <2> DEFINE m == router[a].msg
  <2>1. /\ router[a] # Idle /\ router' = [router EXCEPT ![a] = Idle]
        /\ UNCHANGED <<pc, call, calls, backlog>> /\ m \in Messages
    BY <1>3, RouterType DEF Reply, sender, Idle
  <2>2. ~m.open => answer' = answer
    BY <1>3 DEF Reply
  <2>3. \A s \in Senders : s # m.from => answer'[s] = answer[s]
    BY <1>3 DEF Reply, TypeOK
  <2>4. ASSUME NEW b \in Receivers, NEW mm \in Messages, OpenAt(b, mm)'
        PROVE  WaitsFor(b, mm)'
    <3>1. OpenAt(b, mm) /\ WaitsFor(b, mm)
      BY <2>1, <2>4 DEF OpenInv, OpenAt, TypeOK
    <3>2. ASSUME m.open PROVE mm.from # m.from
      <4>1. OpenAt(a, m) /\ WaitsFor(a, m)
        BY <2>1, <3>2 DEF OpenInv, OpenAt
      <4>2. mm.from = m.from => b = a
        BY <3>1, <4>1 DEF WaitsFor
      <4>3. b = a => \E j \in DOMAIN backlog[a] : backlog[a][j] = mm /\ mm.open
        BY <2>1, <2>4 DEF OpenAt, TypeOK
      <4> QED
        BY <2>1, <3>2, <4>2, <4>3 DEF OpenInv, OneOpen
    <3> QED
      BY <2>1, <2>2, <2>3, <3>1, <3>2, MessageFields DEF WaitsFor
  <2>5. \A b \in Receivers : OneOpen(b)'
    BY <2>1 DEF OpenInv, OneOpen, TypeOK
  <2> QED
    BY <2>4, <2>5 DEF OpenInv
<1> QED
  BY <1>1, <1>2, <1>3 DEF RouterStep

\* Who waits at a closed channel learns of it.
LEMMA CloseOpen ==
  ASSUME TypeOK, OpenInv, NEW a \in Receivers, Close(a), UNCHANGED <<pc, call, calls>>
  PROVE  OpenInv'
<1>1. /\ backlog'[a] = << >> /\ router'[a] = Idle
      /\ \A b \in Receivers \ {a} : backlog'[b] = backlog[b] /\ router'[b] = router[b]
  BY DEF Close, TypeOK
<1>2. ASSUME NEW b \in Receivers, NEW m \in Messages, OpenAt(b, m)'
      PROVE  WaitsFor(b, m)'
  <2>1. b # a /\ OpenAt(b, m) /\ WaitsFor(b, m)
    BY <1>1, <1>2 DEF OpenInv, OpenAt
  <2>2. answer'[m.from] = answer[m.from]
    <3>1. \A mm \in Messages : OpenAt(a, mm) => mm.from # m.from
      BY <2>1 DEF OpenInv, WaitsFor
    <3>2. ~ \/ \E i \in DOMAIN backlog[a] : backlog[a][i].from = m.from /\ backlog[a][i].open
            \/ router[a] # Idle /\ router[a].msg.from = m.from /\ router[a].msg.open
      BY <3>1, Messaged DEF OpenAt
    <3> QED
      BY <3>2, MessageFields DEF Close
  <2> QED
    BY <2>1, <2>2 DEF WaitsFor
<1>3. \A b \in Receivers : OneOpen(b)'
  BY <1>1 DEF OpenInv, OneOpen
<1> QED
  BY <1>2, <1>3 DEF OpenInv

LEMMA OpenStep == TypeOK /\ CallInv /\ OpenInv /\ [Next]_vars => OpenInv'
<1> SUFFICES ASSUME TypeOK, CallInv, OpenInv, [Next]_vars PROVE OpenInv'
  OBVIOUS
<1>1. CASE UNCHANGED <<pc, call, calls, answer, backlog, router>>
  BY <1>1 DEF OpenInv, OneOpen, OpenAt, WaitsFor
<1>2. ASSUME NEW a \in Receivers,
             Leave(a) \/ LeaveUnbind(a) \/ LeaveClose(a) \/ Crash(a) \/ CleanUp(a)
               \/ Restart(a) \/ Subscribe(a)
      PROVE  OpenInv'
  <2>1. CASE LeaveClose(a) \/ Crash(a)
    BY <2>1, CloseOpen DEF LeaveClose, Crash, Outside, sender
  <2>2. CASE ~(LeaveClose(a) \/ Crash(a))
    BY <1>1, <1>2, <2>2 DEF Leave, LeaveUnbind, CleanUp, Restart, Subscribe, Outside, sender
  <2> QED
    BY <2>1, <2>2
<1>3. CASE UNCHANGED vars \/ \E i \in Inboxes : Receive(i)
  BY <1>1, <1>3 DEF vars, sender, receiver, Receive
<1> QED
  BY <1>2, <1>3, SenderOpen, RouterOpen DEF Next, SAL_Publish, SAL_Send

-----------------------------------------------------------------------------
(* The order of the messages *)

\* The indices of the messages of s in a channel.
Of(q, s) == {j \in DOMAIN q : q[j].from = s}

\* The messages of a sender are in the order of its calls: the last one that
\* came into a queue, the one at the router, those that wait at its channel.
OrderAt(a, s) ==
  /\ \A t \in Tids : got[<<a, t>>][s][1] <= calls[s]
  /\ router[a] # Idle /\ router[a].msg.from = s =>
       /\ router[a].msg.n <= calls[s]
       /\ \A t \in Tids : got[<<a, t>>][s][1] <= router[a].msg.n
       /\ \A j \in Of(backlog[a], s) : router[a].msg.n <= backlog[a][j].n
  /\ \A j \in Of(backlog[a], s) :
       /\ backlog[a][j].n <= calls[s]
       /\ \A t \in Tids : got[<<a, t>>][s][1] <= backlog[a][j].n
       /\ \A k \in Of(backlog[a], s) : j < k => backlog[a][j].n <= backlog[a][k].n

OrderInv == \A a \in Receivers, s \in Senders : OrderAt(a, s)

LEMMA GotType ==
  ASSUME TypeOK, NEW a \in Receivers, NEW t \in Tids, NEW s \in Senders
  PROVE  /\ got[<<a, t>>][s][1] \in Nat /\ got[<<a, t>>][s][2] \in Nat
         /\ got[<<a, t>>][s] \in Nat \X Nat /\ calls[s] \in Nat
<1>1. <<a, t>> \in Inboxes
  BY DEF Inboxes
<1>2. got[<<a, t>>] \in [Senders -> Nat \X Nat]
  BY <1>1 DEF TypeOK
<1>3. got[<<a, t>>][s] \in Nat \X Nat
  BY <1>2
<1> QED
  BY <1>3 DEF TypeOK

\* What a message that arrives changes: the last one of its sender in that queue.
LEMMA ArrivesIs ==
  ASSUME TypeOK, NEW a \in Receivers, NEW t \in Tids, NEW m \in Messages, Arrives(<<a, t>>, m)
  PROVE  /\ got'[<<a, t>>][m.from] =
              IF got[<<a, t>>][m.from][1] = m.n
              THEN <<m.n, got[<<a, t>>][m.from][2] + 1>> ELSE <<m.n, 1>>
         /\ \A b \in Receivers, u \in Tids, s \in Senders :
              b # a \/ u # t \/ s # m.from => got'[<<b, u>>][s] = got[<<b, u>>][s]
<1> DEFINE i == <<a, t>>
           g == IF got[i][m.from][1] = m.n THEN <<m.n, got[i][m.from][2] + 1>> ELSE <<m.n, 1>>
<1>1. /\ got' = [got EXCEPT ![i] = [got[i] EXCEPT ![m.from] = g]]
      /\ i \in Inboxes /\ m.from \in Senders
  BY MessageFields DEF Arrives, Inboxes
<1>2. DOMAIN got = Inboxes /\ \A j \in Inboxes : DOMAIN got[j] = Senders
  BY DEF TypeOK
<1> HIDE DEF g
<1>3. got'[i][m.from] = g
  BY <1>1, <1>2
<1>4. ASSUME NEW b \in Receivers, NEW u \in Tids, NEW s \in Senders, b # a \/ u # t \/ s # m.from
      PROVE  got'[<<b, u>>][s] = got[<<b, u>>][s]
  <2>1. <<b, u>> \in Inboxes
    BY DEF Inboxes
  <2>2. CASE <<b, u>> = i
    BY <1>1, <1>2, <1>4, <2>2
  <2>3. CASE <<b, u>> # i
    BY <1>1, <1>2, <2>1, <2>3
  <2> QED
    BY <2>2, <2>3
<1> QED
  BY <1>3, <1>4 DEF g

\* A step of the router brings its message to the queue of one thread at most.
LEMMA GotChange ==
  ASSUME TypeOK, NEW a \in Receivers, RouterStep(a)
  PROVE  \/ got' = got
         \/ \E t \in Tids, m \in Messages :
              /\ Arrives(<<a, t>>, m)
              /\ router'[a] # Idle /\ router'[a].msg = m
              /\ \/ /\ router[a] = Idle /\ m = backlog[a][1] /\ m.tid = t
                    /\ router'[a].at = "reply" /\ Process_Send(a, 1)
                 \/ /\ router[a].at = "post" /\ router[a].msg = m /\ PostCopy(a)
                    /\ t = router[a].next /\ t \in Subscribed[a]
                 \/ /\ router[a].at = "post" /\ router[a].msg = m /\ PostLast(a)
                    /\ t = router[a].last
<1>1. ASSUME NEW i \in DOMAIN backlog[a], Process_Send(a, i), got' # got
      PROVE  \E t \in Tids, m \in Messages :
              /\ Arrives(<<a, t>>, m)
              /\ router'[a] # Idle /\ router'[a].msg = m
              /\ router[a] = Idle /\ m = backlog[a][1] /\ m.tid = t
              /\ router'[a].at = "reply" /\ Process_Send(a, 1)
  <2> DEFINE m == backlog[a][1]
  <2>1. /\ i = 1 /\ m \in Messages /\ router[a] = Idle
        /\ router'[a] # Idle /\ router'[a].msg = m
    BY <1>1, ProcessIs, TakeIs
  <2>2. m.tid # 0 /\ Arrives(<<a, m.tid>>, m)
        /\ router' = [router EXCEPT ![a] = [at |-> "reply", msg |-> m, status |-> TRUE]]
    BY <1>1, <2>1 DEF Process_Send
  <2>3. m.tid \in Tids /\ router'[a].at = "reply"
    BY <2>1, <2>2, MessageFields DEF TypeOK
  <2> QED
    BY <1>1, <2>1, <2>2, <2>3
<1>2. ASSUME NEW i \in DOMAIN backlog[a], Process_Publish(a, i)
      PROVE  got' = got
  BY <1>2 DEF Process_Publish
<1>3. ASSUME PostCopy(a), got' # got
      PROVE  \E t \in Tids, m \in Messages :
              /\ Arrives(<<a, t>>, m)
              /\ router'[a] # Idle /\ router'[a].msg = m
              /\ router[a].at = "post" /\ router[a].msg = m /\ PostCopy(a)
              /\ t = router[a].next /\ t \in Subscribed[a]
  <2>1. /\ router[a].msg \in Messages /\ router'[a] # Idle /\ router'[a].msg = router[a].msg
        /\ router[a].at = "post"
    BY <1>3, PostIs, Messaged
  <2>2. router[a].next \in Subscribed[a] /\ Arrives(<<a, router[a].next>>, router[a].msg)
    BY <1>3 DEF PostCopy
  <2>3. router[a].next \in Tids
    BY <2>2, DeliveryAssumption DEF Tids
  <2> QED
    BY <1>3, <2>1, <2>2, <2>3
<1>4. ASSUME PostLast(a)
      PROVE  \E t \in Tids, m \in Messages :
              /\ Arrives(<<a, t>>, m)
              /\ router'[a] # Idle /\ router'[a].msg = m
              /\ router[a].at = "post" /\ router[a].msg = m /\ PostLast(a)
              /\ t = router[a].last
  <2>1. /\ router[a] \in [at : {"post"}, msg : Messages, last : Tids, next : Nat]
        /\ router'[a] # Idle /\ router'[a].msg = router[a].msg
    BY <1>4, PostIs
  <2>2. Arrives(<<a, router[a].last>>, router[a].msg)
    BY <1>4 DEF PostLast
  <2>3. router[a].at = "post" /\ router[a].msg \in Messages /\ router[a].last \in Tids
    BY <2>1
  <2> QED
    BY <1>4, <2>1, <2>2, <2>3
<1>5. CASE Reply(a)
  BY <1>5 DEF Reply
<1> QED
  BY <1>1, <1>2, <1>3, <1>4, <1>5 DEF RouterStep

\* The last message of a sender stays the last, or it is the router's now.
LEMMA LastChange ==
  ASSUME TypeOK, NEW a \in Receivers, RouterStep(a),
         NEW b \in Receivers, NEW t \in Tids, NEW s \in Senders
  PROVE  \/ got'[<<b, t>>][s] = got[<<b, t>>][s]
         \/ /\ b = a /\ router'[a] # Idle /\ router'[a].msg.from = s
            /\ got'[<<b, t>>][s][1] = router'[a].msg.n
<1>1. CASE got' = got
  BY <1>1
<1>2. CASE \E u \in Tids, m \in Messages :
             Arrives(<<a, u>>, m) /\ router'[a] # Idle /\ router'[a].msg = m
  <2>1. PICK u \in Tids, m \in Messages :
             Arrives(<<a, u>>, m) /\ router'[a] # Idle /\ router'[a].msg = m
    BY <1>2
  <2>2. Arrives(<<a, u>>, m)
    BY <2>1
  <2>3. /\ got'[<<a, u>>][m.from] =
             IF got[<<a, u>>][m.from][1] = m.n
             THEN <<m.n, got[<<a, u>>][m.from][2] + 1>> ELSE <<m.n, 1>>
        /\ \A c \in Receivers, v \in Tids, z \in Senders :
             c # a \/ v # u \/ z # m.from => got'[<<c, v>>][z] = got[<<c, v>>][z]
    BY <2>2, ArrivesIs, Zenon
  <2>4. got'[<<a, u>>][m.from][1] = m.n
    BY <2>3
  <2> QED
    BY <2>1, <2>3, <2>4
<1> QED
  BY <1>1, <1>2, GotChange

\* Where nothing of it changes, the order stays.
LEMMA OrderAside ==
  ASSUME NEW a \in Receivers, NEW s \in Senders, OrderAt(a, s),
         backlog'[a] = backlog[a], calls'[s] = calls[s],
         router'[a] = router[a] \/ router'[a] = Idle,
         \A t \in Tids : got'[<<a, t>>][s][1] = got[<<a, t>>][s][1]
  PROVE  OrderAt(a, s)'
BY DEF OrderAt, Of

LEMMA ProcessOrder ==
  ASSUME TypeOK, OrderInv, NEW a \in Receivers, NEW i \in DOMAIN backlog[a],
         Process_Send(a, i) \/ Process_Publish(a, i), NEW s \in Senders
  PROVE  OrderAt(a, s)'
<1> DEFINE q == backlog[a]  m == q[1]
<1>1. /\ m \in Messages /\ calls' = calls /\ router'[a] # Idle /\ router'[a].msg = m
      /\ Len(q) \in Nat \ {0} /\ DOMAIN q = 1..Len(q) /\ DOMAIN backlog'[a] = 1..(Len(q) - 1)
      /\ \A j \in 1..(Len(q) - 1) : backlog'[a][j] = q[j + 1]
  BY ProcessIs, TakeIs DEF sender
<1>2. OrderAt(a, s) /\ 1 \in DOMAIN q
  BY <1>1 DEF OrderInv
<1>3. \A j \in Of(backlog'[a], s) :
        /\ j \in Nat /\ j + 1 \in Of(q, s) /\ 1 < j + 1 /\ backlog'[a][j] = q[j + 1]
        /\ q[j + 1] \in Messages
  BY <1>1, Messaged DEF Of
<1>4. \A j \in Of(backlog'[a], s) :
        /\ backlog'[a][j].n \in Nat /\ backlog'[a][j].n <= calls[s]
        /\ \A k \in Of(backlog'[a], s) : j < k => backlog'[a][j].n <= backlog'[a][k].n
        /\ m.from = s => m.n <= backlog'[a][j].n
        /\ \A t \in Tids : got[<<a, t>>][s][1] <= backlog'[a][j].n
  <2> SUFFICES ASSUME NEW j \in Of(backlog'[a], s)
               PROVE  /\ backlog'[a][j].n \in Nat /\ backlog'[a][j].n <= calls[s]
                      /\ \A k \in Of(backlog'[a], s) : j < k => backlog'[a][j].n <= backlog'[a][k].n
                      /\ m.from = s => m.n <= backlog'[a][j].n
                      /\ \A t \in Tids : got[<<a, t>>][s][1] <= backlog'[a][j].n
    OBVIOUS
  <2>1. /\ j \in Nat /\ j + 1 \in Of(q, s) /\ 1 < j + 1 /\ backlog'[a][j] = q[j + 1]
        /\ q[j + 1].n \in Nat
    BY <1>3, MessageFields
  <2>2. \A k \in Of(backlog'[a], s) : j < k =>
          k + 1 \in Of(q, s) /\ j + 1 < k + 1 /\ backlog'[a][k] = q[k + 1]
    BY <1>3, <2>1
  <2>3. m.from = s => 1 \in Of(q, s)
    BY <1>2 DEF Of
  <2> QED
    BY <1>2, <2>1, <2>2, <2>3 DEF OrderAt
<1>5. m.from = s => m.n \in Nat /\ m.n <= calls[s] /\ \A t \in Tids : got[<<a, t>>][s][1] <= m.n
  <2>1. m.from = s => 1 \in Of(q, s)
    BY <1>2 DEF Of
  <2> QED
    BY <1>1, <1>2, <2>1, MessageFields DEF OrderAt
<1>6. \A t \in Tids : \/ got'[<<a, t>>][s][1] = got[<<a, t>>][s][1]
                      \/ m.from = s /\ got'[<<a, t>>][s][1] = m.n
  BY <1>1, LastChange DEF RouterStep
<1> HIDE DEF q, m
<1>7. \A t \in Tids : got'[<<a, t>>][s][1] <= calls[s]
  BY <1>2, <1>5, <1>6 DEF OrderAt
<1>8. m.from = s => \A t \in Tids : got'[<<a, t>>][s][1] <= m.n
  BY <1>5, <1>6
<1>9. \A j \in Of(backlog'[a], s), t \in Tids : got'[<<a, t>>][s][1] <= backlog'[a][j].n
  BY <1>4, <1>6
<1> QED
  BY <1>1, <1>4, <1>5, <1>7, <1>8, <1>9 DEF OrderAt

LEMMA PostOrder ==
  ASSUME TypeOK, OrderInv, NEW a \in Receivers, PostCopy(a) \/ PostLast(a), NEW s \in Senders
  PROVE  OrderAt(a, s)'
<1> DEFINE m == router[a].msg
<1>1. /\ m \in Messages /\ UNCHANGED <<backlog, calls>> /\ router[a] # Idle
      /\ router'[a] # Idle /\ router'[a].msg = m /\ m.n \in Nat
  BY PostIs, Messaged, MessageFields DEF sender
<1>2. OrderAt(a, s)
  BY DEF OrderInv
<1>3. \A t \in Tids : \/ got'[<<a, t>>][s][1] = got[<<a, t>>][s][1]
                      \/ m.from = s /\ got'[<<a, t>>][s][1] = m.n
  BY <1>1, LastChange DEF RouterStep
<1> HIDE DEF m
<1> QED
  BY <1>1, <1>2, <1>3 DEF OrderAt, Of, m

LEMMA RouterOrder ==
  ASSUME TypeOK, OrderInv, NEW a \in Receivers, RouterStep(a)
  PROVE  OrderInv'
<1> SUFFICES ASSUME NEW b \in Receivers, NEW s \in Senders PROVE OrderAt(b, s)'
  BY DEF OrderInv
<1>1. CASE b # a
  <2>1. \A t \in Tids : got'[<<b, t>>][s][1] = got[<<b, t>>][s][1]
    BY <1>1, LastChange
  <2>2. backlog'[b] = backlog[b] /\ router'[b] = router[b] /\ calls' = calls
    <3>1. CASE Reply(a)
      BY <1>1, <3>1 DEF Reply, sender, TypeOK
    <3>2. ASSUME NEW i, Process_Send(a, i) \/ Process_Publish(a, i)
          PROVE  backlog'[b] = backlog[b] /\ router'[b] = router[b] /\ calls' = calls
      BY <1>1, <3>2, ProcessIs DEF sender
    <3>3. CASE PostCopy(a) \/ PostLast(a)
      BY <1>1, <3>3, PostIs DEF sender
    <3> QED
      BY <3>1, <3>2, <3>3 DEF RouterStep
  <2> QED
    BY <2>1, <2>2, OrderAside DEF OrderInv
<1>2. CASE b = a /\ Reply(a)
  BY <1>2, OrderAside DEF Reply, sender, TypeOK, OrderInv
<1> QED
  BY <1>1, <1>2, ProcessOrder, PostOrder DEF RouterStep

LEMMA SendOrder ==
  ASSUME TypeOK, CallInv, OrderInv, NEW s \in Senders, Send(s)
  PROVE  OrderInv'
<1> DEFINE a == call[s].to  q == backlog[a]  new == Message(s)
<1>1. /\ UNCHANGED <<calls, router, got>> /\ a \in Receivers /\ new \in Messages
      /\ backlog' = [backlog EXCEPT ![a] = Append(@, new)] /\ q \in Seq(Messages)
  BY MessageType, Messaged DEF Send, Goto, CallInv
<1> SUFFICES ASSUME NEW b \in Receivers, NEW z \in Senders PROVE OrderAt(b, z)'
  BY DEF OrderInv
<1>2. OrderAt(b, z)
  BY DEF OrderInv
<1>3. CASE b # a
  BY <1>1, <1>2, <1>3, OrderAside DEF TypeOK
<1>4. CASE b = a
  <2>1. backlog'[a] = Append(q, new)
    BY <1>1 DEF TypeOK
  <2>2. /\ Len(q) \in Nat /\ DOMAIN q = 1..Len(q) /\ DOMAIN backlog'[a] = 1..(Len(q) + 1)
        /\ \A j \in 1..Len(q) : backlog'[a][j] = q[j]
        /\ backlog'[a][Len(q) + 1] = new
    <3> HIDE DEF q, new
    <3> QED
      BY <1>1, <2>1, Appended, SMTT(40)
  <2>3. new.from = s /\ new.n = calls[s]
    BY DEF Message
  <2> HIDE DEF new, a
  <2>4. \A j \in Of(backlog'[a], z) :
          \/ j \in Of(q, z) /\ backlog'[a][j] = q[j] /\ j < Len(q) + 1
          \/ j = Len(q) + 1 /\ z = s /\ backlog'[a][j] = new
    <3> HIDE DEF q
    <3> QED
      BY <2>2, <2>3 DEF Of
  <2>5. \A j \in Of(q, z) : q[j].n \in Nat
    BY <1>1, Messaged, MessageFields DEF Of
  <2>6. /\ \A t \in Tids : got[<<a, t>>][z][1] <= calls[z]
        /\ router[a] # Idle /\ router[a].msg.from = z => router[a].msg.n <= calls[z]
    BY <1>2, <1>4 DEF OrderAt
  <2>7. \A j \in Of(backlog'[a], z) :
          /\ backlog'[a][j].n <= calls[z] /\ backlog'[a][j].n \in Nat
          /\ \A t \in Tids : got[<<a, t>>][z][1] <= backlog'[a][j].n
          /\ router[a] # Idle /\ router[a].msg.from = z => router[a].msg.n <= backlog'[a][j].n
    <3> SUFFICES ASSUME NEW j \in Of(backlog'[a], z)
                 PROVE  /\ backlog'[a][j].n <= calls[z] /\ backlog'[a][j].n \in Nat
                        /\ \A t \in Tids : got[<<a, t>>][z][1] <= backlog'[a][j].n
                        /\ router[a] # Idle /\ router[a].msg.from = z =>
                             router[a].msg.n <= backlog'[a][j].n
      OBVIOUS
    <3>1. CASE j \in Of(q, z) /\ backlog'[a][j] = q[j]
      BY <1>2, <1>4, <2>5, <3>1 DEF OrderAt
    <3>2. CASE z = s /\ backlog'[a][j] = new
      <4>1. calls[z] \in Nat
        BY DEF TypeOK
      <4> QED
        BY <2>3, <2>6, <3>2, <4>1
    <3> QED
      BY <2>4, <3>1, <3>2
  <2>8. \A j, k \in Of(backlog'[a], z) : j < k => backlog'[a][j].n <= backlog'[a][k].n
    <3> SUFFICES ASSUME NEW j \in Of(backlog'[a], z), NEW k \in Of(backlog'[a], z), j < k
                 PROVE  backlog'[a][j].n <= backlog'[a][k].n
      OBVIOUS
    <3>1. j \in 1..(Len(q) + 1) /\ k \in 1..(Len(q) + 1)
      BY <2>2 DEF Of
    <3>2. j \in Of(q, z) /\ backlog'[a][j] = q[j]
      BY <2>2, <2>4, <3>1
    <3>3. CASE k \in Of(q, z) /\ backlog'[a][k] = q[k]
      BY <1>2, <1>4, <3>2, <3>3 DEF OrderAt
    <3>4. CASE z = s /\ backlog'[a][k] = new
      BY <2>3, <2>7, <3>4
    <3> QED
      BY <2>4, <3>3, <3>4
  <2> QED
    BY <1>1, <1>2, <1>4, <2>6, <2>7, <2>8 DEF OrderAt
<1> QED
  BY <1>3, <1>4

LEMMA OrderStep == TypeOK /\ CallInv /\ OrderInv /\ [Next]_vars => OrderInv'
<1> SUFFICES ASSUME TypeOK, CallInv, OrderInv, [Next]_vars PROVE OrderInv'
  OBVIOUS
<1>1. ASSUME UNCHANGED <<calls, backlog, router, got>> PROVE OrderInv'
  BY <1>1 DEF OrderInv, OrderAt, Of
<1>2. ASSUME NEW s \in Senders, NEW c, Begin(s, c) PROVE OrderInv'
  <2> SUFFICES ASSUME NEW a \in Receivers, NEW z \in Senders PROVE OrderAt(a, z)'
    BY DEF OrderInv
  <2>1. /\ UNCHANGED <<backlog, router, got>> /\ calls[z] \in Nat
        /\ calls'[z] = calls[z] \/ calls'[z] = calls[z] + 1
    BY <1>2 DEF Begin, receiver, TypeOK
  <2>2. OrderAt(a, z)
    BY DEF OrderInv
  <2>3. \A j \in Of(backlog[a], z) : backlog[a][j].n \in Nat
    BY Messaged, MessageFields DEF Of
  <2>4. router[a] # Idle => router[a].msg.n \in Nat
    BY Messaged, MessageFields
  <2> QED
    BY <2>1, <2>2, <2>3, <2>4, GotType DEF OrderAt
<1>3. ASSUME NEW s \in Senders, SenderStep(s) PROVE OrderInv'
  <2>1. CASE ~Send(s)
    BY <1>1, <1>3, <2>1 DEF SenderStep, Connected, Connect, SAL_Connect, SendFails, Replied,
       WaitFails, Invalidate, receiver
  <2> QED
    BY <2>1, SendOrder
<1>4. ASSUME NEW s \in Senders, ReplyLost(s) PROVE OrderInv'
  <2> SUFFICES ASSUME NEW a \in Receivers, NEW z \in Senders PROVE OrderAt(a, z)'
    BY DEF OrderInv
  <2>1. OrderAt(a, z) /\ UNCHANGED <<calls, got>>
    BY <1>4 DEF OrderInv, ReplyLost
  <2>2. /\ Of(backlog'[a], z) = Of(backlog[a], z)
        /\ \A j \in Of(backlog[a], z) : backlog'[a][j].n = backlog[a][j].n
    BY <1>4, LostMessages DEF Of
  <2>3. router'[a] # Idle => router[a] # Idle /\ router'[a].msg.from = router[a].msg.from
                             /\ router'[a].msg.n = router[a].msg.n
    BY <1>4, LostMessages
  <2> QED
    BY <2>1, <2>2, <2>3 DEF OrderAt
<1>5. ASSUME NEW a \in Receivers, Close(a), EndQueues(a), UNCHANGED calls PROVE OrderInv'
  <2> SUFFICES ASSUME NEW b \in Receivers, NEW z \in Senders PROVE OrderAt(b, z)'
    BY DEF OrderInv
  <2>1. \A t \in Tids : got'[<<b, t>>][z][1] = got[<<b, t>>][z][1]
    BY <1>5 DEF EndQueues, Inboxes
  <2>2. CASE b # a
    BY <1>5, <2>1, <2>2, OrderAside DEF Close, TypeOK, OrderInv
  <2>3. CASE b = a
    <3>1. DOMAIN backlog'[b] = {} /\ router'[b] = Idle
      BY <1>5, <2>3 DEF Close, TypeOK
    <3> QED
      BY <1>5, <2>1, <3>1 DEF OrderInv, OrderAt, Of
  <2> QED
    BY <2>2, <2>3
<1>6. ASSUME NEW a \in Receivers,
             Leave(a) \/ LeaveUnbind(a) \/ LeaveClose(a) \/ Crash(a) \/ CleanUp(a)
               \/ Restart(a) \/ Subscribe(a)
      PROVE  OrderInv'
  <2>1. CASE LeaveClose(a) \/ Crash(a)
    BY <1>5, <2>1 DEF LeaveClose, Crash, Outside, sender
  <2>2. CASE ~(LeaveClose(a) \/ Crash(a))
    BY <1>1, <1>6, <2>2 DEF Leave, LeaveUnbind, CleanUp, Restart, Subscribe, Outside, sender
  <2> QED
    BY <2>1, <2>2
<1>7. CASE UNCHANGED vars \/ \E i \in Inboxes : Receive(i)
  BY <1>1, <1>7 DEF vars, sender, receiver, Receive
<1> QED
  BY <1>2, <1>3, <1>4, <1>6, <1>7, RouterOrder DEF Next, SAL_Publish, SAL_Send

\* The last message of a sender never becomes an earlier one.
LEMMA LastGrows ==
  ASSUME TypeOK, OrderInv, [Next]_vars, NEW a \in Receivers, NEW t \in Tids, NEW s \in Senders
  PROVE  got'[<<a, t>>][s][1] \in Nat /\ got'[<<a, t>>][s][1] >= got[<<a, t>>][s][1]
<1>1. CASE got' = got
  BY <1>1, GotType
<1>2. ASSUME NEW b \in Receivers, RouterStep(b)
      PROVE  got'[<<a, t>>][s][1] \in Nat /\ got'[<<a, t>>][s][1] >= got[<<a, t>>][s][1]
  <2>1. CASE got'[<<a, t>>][s] = got[<<a, t>>][s]
    BY <2>1, GotType
  <2>2. CASE /\ a = b /\ router'[b] # Idle /\ router'[b].msg.from = s
             /\ got'[<<a, t>>][s][1] = router'[b].msg.n
    <3>1. ASSUME NEW i, Process_Send(b, i) \/ Process_Publish(b, i)
          PROVE  router'[b].msg \in Messages /\ router'[b].msg.n >= got[<<a, t>>][s][1]
      <4>1. /\ router'[b].msg = backlog[b][1] /\ 1 \in DOMAIN backlog[b]
            /\ backlog[b][1] \in Messages
        BY <3>1, ProcessIs, TakeIs
      <4>2. 1 \in Of(backlog[a], s) /\ OrderAt(a, s)
        BY <2>2, <4>1 DEF OrderInv, Of
      <4>3. got[<<a, t>>][s][1] <= backlog[a][1].n
        BY <4>2 DEF OrderAt
      <4> QED
        BY <2>2, <4>1, <4>3, GotType, MessageFields
    <3>2. CASE PostCopy(b) \/ PostLast(b)
      <4>1. router[b] # Idle /\ router'[b].msg = router[b].msg /\ router[b].msg \in Messages
        BY <3>2, PostIs, Messaged
      <4>2. OrderAt(a, s)
        BY DEF OrderInv
      <4>3. got[<<a, t>>][s][1] <= router[a].msg.n
        BY <2>2, <4>1, <4>2 DEF OrderAt
      <4> QED
        BY <2>2, <4>1, <4>3, GotType, MessageFields
    <3>3. CASE Reply(b)
      BY <2>2, <3>3 DEF Reply, TypeOK
    <3> QED
      BY <1>2, <2>2, <3>1, <3>2, <3>3, GotType, MessageFields DEF RouterStep
  <2> QED
    BY <1>2, <2>1, <2>2, LastChange
<1>3. ASSUME NEW b \in Receivers, EndQueues(b)
      PROVE  got'[<<a, t>>][s][1] \in Nat /\ got'[<<a, t>>][s][1] >= got[<<a, t>>][s][1]
  <2>1. got'[<<a, t>>][s][1] = got[<<a, t>>][s][1]
    BY <1>3 DEF EndQueues, Inboxes
  <2> QED
    BY <2>1, GotType
<1>4. ASSUME NEW z \in Senders,
             SenderStep(z) \/ ReplyLost(z) \/ SAL_Publish(z)
               \/ \E b \in Receivers, tid \in SendTids[z] : SAL_Send(z, b, tid)
      PROVE  got' = got
  BY <1>4 DEF SenderStep, ReplyLost, SAL_Publish, SAL_Send, Begin, Connected, Connect, SAL_Connect,
     Send, SendFails, Replied, WaitFails, Invalidate
<1>5. ASSUME NEW b \in Receivers,
             Leave(b) \/ LeaveUnbind(b) \/ LeaveClose(b) \/ Crash(b) \/ CleanUp(b)
               \/ Restart(b) \/ Subscribe(b)
      PROVE  got' = got \/ EndQueues(b)
  BY <1>5 DEF Leave, LeaveUnbind, LeaveClose, Crash, CleanUp, Restart, Subscribe
<1>6. UNCHANGED vars \/ (\E i \in Inboxes : Receive(i)) => got' = got
  BY DEF vars, Receive
<1> QED
  BY <1>1, <1>2, <1>3, <1>4, <1>5, <1>6 DEF Next

-----------------------------------------------------------------------------
(* What a call is told *)

\* What a router is about to tell agrees with the queue; publications go to all.
ToldAt(a) ==
  LET r == router[a]
  IN  /\ r.at = "post" => r.msg.tid = 0
      /\ r.at = "reply" /\ r.msg.tid # 0 /\ r.status =>
           got[<<a, r.msg.tid>>][r.msg.from][1] >= r.msg.n

ToldInv ==
  /\ \A a \in Receivers : ToldAt(a)
  /\ \A s \in Senders :
       pc[s] = "wait" /\ answer[s] = "true" /\ call[s].tid # 0 =>
         got[<<call[s].to, call[s].tid>>][s][1] >= calls[s]

\* Where the router does not move, what it tells stays true.
LEMMA ToldAside ==
  ASSUME TypeOK, OrderInv, [Next]_vars, NEW a \in Receivers, ToldAt(a),
         \/ router'[a] = Idle
         \/ /\ router[a] # Idle /\ router'[a].at = router[a].at
            /\ router'[a].msg.from = router[a].msg.from /\ router'[a].msg.n = router[a].msg.n
            /\ router'[a].msg.tid = router[a].msg.tid
            /\ router[a].at = "reply" => router'[a].status = router[a].status
  PROVE  ToldAt(a)'
<1>1. CASE router'[a] = Idle
  BY <1>1 DEF ToldAt, Idle
<1>2. CASE /\ router[a] # Idle /\ router'[a].at = router[a].at
           /\ router'[a].msg.from = router[a].msg.from /\ router'[a].msg.n = router[a].msg.n
           /\ router'[a].msg.tid = router[a].msg.tid
           /\ router[a].at = "reply" => router'[a].status = router[a].status
  <2> DEFINE m == router[a].msg
  <2>1. m \in Messages /\ m.from \in Senders /\ m.n \in Nat /\ (m.tid # 0 => m.tid \in Tids)
    BY <1>2, Messaged, MessageFields
  <2>2. m.tid # 0 => /\ got[<<a, m.tid>>][m.from][1] \in Nat
                     /\ got'[<<a, m.tid>>][m.from][1] \in Nat
                     /\ got'[<<a, m.tid>>][m.from][1] >= got[<<a, m.tid>>][m.from][1]
    BY <2>1, GotType, LastGrows
  <2> QED
    BY <1>2, <2>1, <2>2, SMTT(40) DEF ToldAt
<1> QED
  BY <1>1, <1>2

LEMMA RouterTold ==
  ASSUME TypeOK, OrderInv, ToldInv, NEW a \in Receivers, RouterStep(a), [Next]_vars,
         NEW b \in Receivers
  PROVE  ToldAt(b)'
<1>0. ToldAt(b)
  BY DEF ToldInv
<1>1. ASSUME router'[b] = router[b] PROVE ToldAt(b)'
  BY <1>0, <1>1, ToldAside
<1>2. CASE Reply(a)
  BY <1>0, <1>1, <1>2, ToldAside DEF Reply, TypeOK
<1>3. ASSUME NEW i, Process_Send(a, i) PROVE ToldAt(b)'
  <2>1. CASE b # a
    BY <1>1, <1>3, <2>1, ProcessIs
  <2>2. CASE b = a
    <3> DEFINE m == backlog[a][1]
    <3>1. i = 1 /\ m \in Messages /\ m.n \in Nat /\ m.tid \in Tids
      BY <1>3, TakeIs, MessageFields DEF Process_Send
    <3>2. \/ /\ Arrives(<<a, m.tid>>, m)
             /\ router' = [router EXCEPT ![a] = [at |-> "reply", msg |-> m, status |-> TRUE]]
          \/ router' = [router EXCEPT ![a] = [at |-> "reply", msg |-> m, status |-> FALSE]]
      BY <1>3, <3>1 DEF Process_Send
    <3> HIDE DEF m
    <3>3. CASE router' = [router EXCEPT ![a] = [at |-> "reply", msg |-> m, status |-> FALSE]]
      BY <2>2, <3>3 DEF ToldAt, TypeOK
    <3>4. CASE /\ Arrives(<<a, m.tid>>, m)
               /\ router' = [router EXCEPT ![a] = [at |-> "reply", msg |-> m, status |-> TRUE]]
      <4>1. got'[<<a, m.tid>>][m.from] =
              IF got[<<a, m.tid>>][m.from][1] = m.n
              THEN <<m.n, got[<<a, m.tid>>][m.from][2] + 1>> ELSE <<m.n, 1>>
        BY <3>1, <3>4, ArrivesIs, Zenon
      <4>2. got'[<<a, m.tid>>][m.from][1] = m.n
        BY <4>1
      <4>3. router'[a] = [at |-> "reply", msg |-> m, status |-> TRUE]
        BY <3>4 DEF TypeOK
      <4> QED
        BY <2>2, <3>1, <4>2, <4>3 DEF ToldAt
    <3> QED
      BY <3>2, <3>3, <3>4
  <2> QED
    BY <2>1, <2>2
<1>4. ASSUME NEW i, Process_Publish(a, i) PROVE ToldAt(b)'
  <2>1. CASE b # a
    BY <1>1, <1>4, <2>1, ProcessIs
  <2>2. CASE b = a
    <3>1. i = 1 /\ router'[a].msg = backlog[a][1]
      BY <1>4, ProcessIs, TakeIs
    <3>2. router'[a].msg.tid = 0
      BY <1>4, <3>1 DEF Process_Publish
    <3> QED
      BY <2>2, <3>2 DEF ToldAt
  <2> QED
    BY <2>1, <2>2
<1>5. CASE PostCopy(a) \/ PostLast(a)
  <2>1. CASE b # a
    BY <1>1, <1>5, <2>1, PostIs
  <2>2. CASE b = a
    <3>1. router'[a].msg = router[a].msg /\ router[a].at = "post"
      BY <1>5, PostIs
    <3> QED
      BY <1>0, <2>2, <3>1 DEF ToldAt
  <2> QED
    BY <2>1, <2>2
<1> QED
  BY <1>2, <1>3, <1>4, <1>5 DEF RouterStep

LEMMA ToldStep ==
  TypeOK /\ CallInv /\ OpenInv /\ OrderInv /\ ToldInv /\ [Next]_vars => ToldInv'
<1> SUFFICES ASSUME TypeOK, CallInv, OpenInv, OrderInv, ToldInv, [Next]_vars PROVE ToldInv'
  OBVIOUS
<1> DEFINE Told(s) == pc[s] = "wait" /\ answer[s] = "true" /\ call[s].tid # 0 =>
                        got[<<call[s].to, call[s].tid>>][s][1] >= calls[s]
<1>1. ASSUME NEW a \in Receivers PROVE ToldAt(a)'
  <2>1. ToldAt(a)
    BY DEF ToldInv
  <2>2. CASE router'[a] = router[a] \/ router'[a] = Idle
    BY <2>1, <2>2, ToldAside
  <2>3. ASSUME NEW s \in Senders, ReplyLost(s) PROVE ToldAt(a)'
    BY <2>1, <2>3, LostMessages, ToldAside
  <2>4. ASSUME NEW s \in Senders,
               SenderStep(s) \/ SAL_Publish(s)
                 \/ \E b \in Receivers, tid \in SendTids[s] : SAL_Send(s, b, tid)
        PROVE  router' = router
    BY <2>4 DEF SenderStep, SAL_Publish, SAL_Send, Begin, Connected, Connect, SAL_Connect,
       Send, SendFails, Replied, WaitFails, Invalidate, receiver
  <2>5. ASSUME NEW b \in Receivers,
               Leave(b) \/ LeaveUnbind(b) \/ LeaveClose(b) \/ Crash(b) \/ CleanUp(b)
                 \/ Restart(b) \/ Subscribe(b)
        PROVE  router'[a] = router[a] \/ router'[a] = Idle
    BY <2>5 DEF Leave, LeaveUnbind, LeaveClose, Crash, CleanUp, Restart, Subscribe, Close, TypeOK
  <2>6. UNCHANGED vars \/ (\E i \in Inboxes : Receive(i)) => router' = router
    BY DEF vars, receiver, Receive
  <2> QED
    BY <2>2, <2>3, <2>4, <2>5, <2>6, RouterTold DEF Next
<1>2. ASSUME NEW s \in Senders, Told(s), pc'[s] = pc[s], answer'[s] = answer[s],
             call'[s] = call[s], calls'[s] = calls[s]
      PROVE  Told(s)'
  <2> SUFFICES ASSUME pc[s] = "wait", answer[s] = "true", call[s].tid # 0
               PROVE  got'[<<call[s].to, call[s].tid>>][s][1] >= calls[s]
    BY <1>2
  <2> DEFINE a == call[s].to  t == call[s].tid
  <2>1. a \in Receivers /\ t \in Tids /\ calls[s] \in Nat
    <3>1. call[s] \in Calls /\ MaxThreads \in Nat
      BY CallsType, DeliveryAssumption
    <3> QED
      BY <3>1, CallsFields DEF CallInv, Tids, TypeOK
  <2>2. got[<<a, t>>][s][1] >= calls[s]
    BY <1>2
  <2> HIDE DEF a, t
  <2>3. got'[<<a, t>>][s][1] \in Nat /\ got'[<<a, t>>][s][1] >= got[<<a, t>>][s][1]
    BY <2>1, LastGrows
  <2>4. got'[<<a, t>>][s][1] >= calls[s]
    BY <2>1, <2>2, <2>3, GotType
  <2> QED
    BY <2>4 DEF a, t
<1>3. ASSUME NEW s \in Senders PROVE Told(s)'
  <2>0. Told(s)
    BY DEF ToldInv
  <2>1. CASE pc'[s] = pc[s] /\ answer'[s] = answer[s] /\ call'[s] = call[s] /\ calls'[s] = calls[s]
    BY <1>2, <2>0, <2>1
  <2>2. ASSUME NEW z \in Senders, SenderStep(z) \/ ReplyLost(z) \/ \E c : Begin(z, c)
        PROVE  Told(s)'
    <3>1. CASE s # z
      BY <1>2, <2>0, <2>2, <3>1, OthersCall
    <3>2. CASE s = z
      <4>1. pc'[s] # "wait" \/ answer'[s] # "true"
        <5>1. CASE Send(s)
          BY <5>1 DEF Send, Goto, CallInv
        <5>2. CASE Replied(s)
          BY <5>2 DEF Replied, TypeOK
        <5>3. CASE Invalidate(s)
          BY <5>3 DEF Invalidate, CallInv
        <5>4. CASE ~Send(s) /\ ~Replied(s) /\ ~Invalidate(s)
          BY <2>2, <3>2, <5>4 DEF SenderStep, ReplyLost, Begin, Connected, Connect, SAL_Connect,
             SendFails, WaitFails, Goto, CallInv, TypeOK
        <5> QED
          BY <5>1, <5>2, <5>3, <5>4
      <4> QED
        BY <4>1
    <3> QED
      BY <3>1, <3>2
  <2>3. ASSUME NEW a \in Receivers, RouterStep(a) PROVE Told(s)'
    <3>1. CASE Reply(a) /\ router[a].msg.from = s /\ router[a].msg.open
      <4> DEFINE m == router[a].msg
      <4>1. router[a] # Idle /\ m \in Messages /\ router[a].at = "reply" /\ OpenAt(a, m)
        BY <3>1, RouterType DEF Reply, OpenAt
      <4>2. WaitsFor(a, m)
        BY <4>1 DEF OpenInv
      <4>3. /\ call[s].to = a /\ call[s].tid = m.tid /\ calls[s] = m.n /\ m.from = s
            /\ UNCHANGED <<pc, call, calls, got>>
            /\ answer'[s] = IF router[a].status THEN "true" ELSE "false"
        BY <3>1, <4>2 DEF WaitsFor, Reply, sender, TypeOK
      <4>4. ToldAt(a)
        BY DEF ToldInv
      <4> QED
        BY <4>1, <4>3, <4>4 DEF ToldAt
    <3>2. CASE Reply(a) /\ ~(router[a].msg.from = s /\ router[a].msg.open)
      <4>1. answer'[s] = answer[s] /\ UNCHANGED <<pc, call, calls>>
        BY <3>2 DEF Reply, sender, TypeOK
      <4> QED
        BY <2>1, <4>1
    <3>3. CASE ~Reply(a)
      BY <2>1, <2>3, <3>3 DEF RouterStep, Process_Send, Process_Publish, PostCopy, PostLast,
         Received, sender
    <3> QED
      BY <3>1, <3>2, <3>3
  <2>4. ASSUME NEW a \in Receivers,
               Leave(a) \/ LeaveUnbind(a) \/ LeaveClose(a) \/ Crash(a) \/ CleanUp(a)
                 \/ Restart(a) \/ Subscribe(a)
        PROVE  Told(s)'
    <3>1. UNCHANGED <<pc, call, calls>> /\ (answer' = answer \/ Close(a))
      BY <2>4 DEF Leave, LeaveUnbind, LeaveClose, Crash, CleanUp, Restart, Subscribe, Outside, sender
    <3>2. answer'[s] = answer[s] \/ answer'[s] = "closed"
      BY <3>1 DEF Close
    <3> QED
      BY <2>1, <3>1, <3>2
  <2>5. UNCHANGED vars \/ (\E i \in Inboxes : Receive(i)) => UNCHANGED <<pc, call, calls, answer>>
    BY DEF vars, sender, Receive
  <2> QED
    BY <2>1, <2>2, <2>3, <2>4, <2>5 DEF Next, SAL_Publish, SAL_Send
<1> QED
  BY <1>1, <1>3 DEF ToldInv

LEMMA SentStep ==
  /\ TypeOK /\ CallInv /\ OrderInv /\ ToldInv /\ SentIsQueued /\ [Next]_vars /\ OrderInv' /\ TypeOK'
  => SentIsQueued'
<1> SUFFICES ASSUME TypeOK, CallInv, OrderInv, ToldInv, SentIsQueued, [Next]_vars, OrderInv', TypeOK'
             PROVE  SentIsQueued'
  OBVIOUS
<1> DEFINE Sent(s) == pc[s] = "idle" /\ call[s].status /\ call[s].tid # 0 =>
                        got[<<call[s].to, call[s].tid>>][s][1] = calls[s]
<1> SUFFICES ASSUME NEW s \in Senders PROVE Sent(s)'
  BY DEF SentIsQueued
<1>0. Sent(s) /\ call[s] \in Calls /\ calls[s] \in Nat /\ MaxThreads \in Nat
  BY DeliveryAssumption DEF SentIsQueued, TypeOK
<1>1. ASSUME call'[s].to \in Receivers, call'[s].tid \in Tids, calls'[s] = calls[s],
             got[<<call'[s].to, call'[s].tid>>][s][1] >= calls[s]
      PROVE  Sent(s)'
  <2> DEFINE a == call'[s].to  t == call'[s].tid
  <2>1. a \in Receivers /\ t \in Tids /\ got[<<a, t>>][s][1] >= calls[s]
    BY <1>1
  <2> HIDE DEF a, t
  <2>2. got'[<<a, t>>][s][1] \in Nat /\ got'[<<a, t>>][s][1] >= got[<<a, t>>][s][1]
    BY <2>1, LastGrows
  <2>3. got'[<<a, t>>][s][1] <= calls'[s]
    BY <2>1 DEF OrderInv, OrderAt
  <2>4. got'[<<a, t>>][s][1] = calls'[s]
    BY <1>0, <1>1, <2>1, <2>2, <2>3, GotType
  <2> QED
    BY <2>4 DEF a, t
<1>2. ASSUME pc'[s] = pc[s], call'[s] = call[s], calls'[s] = calls[s]
      PROVE  Sent(s)'
  <2>1. CASE pc[s] = "idle" /\ call[s].status /\ call[s].tid # 0
    <3>1. call[s].tid \in Tids
      BY <1>0, <2>1, CallsFields DEF Tids
    <3>2. call[s].to \in Receivers
      BY <2>1 DEF CallInv
    <3> QED
      BY <1>0, <1>1, <1>2, <2>1, <3>1, <3>2
  <2>2. CASE ~(pc[s] = "idle" /\ call[s].status /\ call[s].tid # 0)
    BY <1>2, <2>2
  <2> QED
    BY <2>1, <2>2
<1>3. ASSUME NEW z \in Senders, SenderStep(z) \/ ReplyLost(z) PROVE Sent(s)'
  <2>1. CASE s # z
    BY <1>2, <1>3, <2>1, OthersCall
  <2>2. CASE s = z /\ Replied(s)
    <3>1. /\ Done(s, answer[s] = "true") /\ pc[s] = "wait" /\ calls' = calls
      BY <2>2 DEF Replied
    <3>2. (answer[s] = "true") \in BOOLEAN
      OBVIOUS
    <3>3. \/ pc'[s] = "trial"
          \/ /\ call'[s].to = call[s].to /\ call'[s].tid = call[s].tid
             /\ call'[s].status = (answer[s] = "true")
      BY <3>1, <3>2, DoneIs, ZenonT(40) DEF TypeOK
    <3>4. CASE pc'[s] = "trial"
      BY <3>4
    <3>5. CASE /\ call'[s].to = call[s].to /\ call'[s].tid = call[s].tid
               /\ call'[s].status = (answer[s] = "true")
      <4> SUFFICES ASSUME call'[s].status, call'[s].tid # 0 PROVE Sent(s)'
        OBVIOUS
      <4>1. call[s].to \in Receivers /\ call[s].tid \in Tids
        BY <1>0, <3>1, <3>5, CallsFields DEF CallInv, Tids
      <4>2. got[<<call[s].to, call[s].tid>>][s][1] >= calls[s]
        BY <3>1, <3>5 DEF ToldInv
      <4> QED
        BY <1>1, <3>1, <3>5, <4>1, <4>2
    <3> QED
      BY <3>3, <3>4, <3>5
  <2>3. CASE s = z /\ Invalidate(s)
    <3>1. CASE pc'[s] = "trial"
      BY <3>1
    <3>2. CASE pc'[s] # "trial"
      <4>1. Done(s, FALSE) /\ pc[s] = "fail"
        BY <2>3, <3>2, InvalidateIs DEF TypeOK
      <4>2. call'[s].status = FALSE
        BY <3>2, <4>1, DoneIs, ZenonT(40) DEF TypeOK
      <4> QED
        BY <4>2
    <3> QED
      BY <3>1, <3>2
  <2>4. CASE s = z /\ ~Replied(s) /\ ~Invalidate(s)
    <3>1. pc'[s] # "idle"
      BY <1>3, <2>4 DEF SenderStep, ReplyLost, Connected, Connect, SAL_Connect, Send, SendFails,
         WaitFails, Goto, TypeOK
    <3> QED
      BY <3>1
  <2> QED
    BY <2>1, <2>2, <2>3, <2>4
<1>4. ASSUME NEW z \in Senders, NEW c, Begin(z, c), c.status = FALSE PROVE Sent(s)'
  <2>1. CASE s # z
    BY <1>2, <1>4, <2>1, OthersCall
  <2>2. CASE s = z
    <3>1. call'[s].status = FALSE
      BY <1>4, <2>2 DEF Begin, TypeOK
    <3> QED
      BY <3>1
  <2> QED
    BY <2>1, <2>2
<1>5. ASSUME NEW z \in Senders,
             SAL_Publish(z) \/ \E b \in Receivers, tid \in SendTids[z] : SAL_Send(z, b, tid)
      PROVE  Sent(s)'
  BY <1>4, <1>5 DEF SAL_Publish, SAL_Send, NoCall
<1>6. ASSUME NEW a \in Receivers,
             RouterStep(a) \/ Leave(a) \/ LeaveUnbind(a) \/ LeaveClose(a) \/ Crash(a)
               \/ CleanUp(a) \/ Restart(a) \/ Subscribe(a)
      PROVE  Sent(s)'
  <2>1. CASE RouterStep(a)
    BY <1>2, <2>1 DEF RouterStep, Process_Send, Process_Publish, PostCopy, PostLast, Reply,
       Received, sender
  <2>2. CASE ~RouterStep(a)
    BY <1>2, <1>6, <2>2 DEF Leave, LeaveUnbind, LeaveClose, Crash, CleanUp, Restart, Subscribe,
       Outside, sender
  <2> QED
    BY <2>1, <2>2
<1>7. CASE UNCHANGED vars \/ \E i \in Inboxes : Receive(i)
  BY <1>2, <1>7 DEF vars, sender, Receive
<1> QED
  BY <1>3, <1>5, <1>6, <1>7 DEF Next

-----------------------------------------------------------------------------
(* How often a message comes *)

\* The copies of the message n of s that came into the queue of a thread, that
\* the router has for it, and that wait at the channel.
Arrived(a, t, s, n) == IF got[<<a, t>>][s][1] = n THEN got[<<a, t>>][s][2] ELSE 0
ToCome(a, t, s, n) ==
  IF /\ router[a].at = "post" /\ router[a].msg.from = s /\ router[a].msg.n = n
     /\ t = router[a].last \/ t \in router[a].next .. router[a].last - 1
  THEN 1 ELSE 0
Waiting(q, s, n) == {j \in DOMAIN q : q[j].from = s /\ q[j].n = n}
Copies(a, t, s, n) ==
  Arrived(a, t, s, n) + ToCome(a, t, s, n) + Cardinality(Waiting(backlog[a], s, n))

\* A sender has sent one copy in each trial to an application, none of them to
\* those that come later, and every trial but one lost a reply.
CopyAt(a, t, s) ==
  /\ \A n \in Nat : /\ Copies(a, t, s, n) <= 1 + faults
                    /\ Copies(a, t, s, n) <= max_number_of_trials
  /\ pc[s] # "idle" /\ a = call[s].to =>
       LET c == Copies(a, t, s, calls[s])
       IN  /\ c <= call[s].trial + 1
           /\ pc[s] \in {"trial", "resolve", "send"} => c <= call[s].trial
           /\ pc[s] # "wait" \/ answer[s] = "closed" => c <= faults
  /\ pc[s] # "idle" /\ a > call[s].to => Copies(a, t, s, calls[s]) = 0

CopyInv == \A a \in Receivers, t \in Tids, s \in Senders : CopyAt(a, t, s)

LEMMA WaitingFinite ==
  ASSUME NEW q \in Seq(Messages), NEW s, NEW n
  PROVE  IsFiniteSet(Waiting(q, s, n)) /\ Cardinality(Waiting(q, s, n)) \in Nat
<1>1. DOMAIN q = 1..Len(q) /\ Len(q) \in Nat
  OBVIOUS
<1>2. IsFiniteSet(DOMAIN q) /\ Waiting(q, s, n) \in SUBSET DOMAIN q
  BY <1>1, FS_Interval DEF Waiting
<1>3. IsFiniteSet(Waiting(q, s, n))
  BY <1>2, FS_Subset
<1> QED
  BY <1>3, FS_CardinalityType

LEMMA WaitingAppend ==
  ASSUME NEW q \in Seq(Messages), NEW m \in Messages, NEW s, NEW n
  PROVE  Cardinality(Waiting(Append(q, m), s, n)) =
           Cardinality(Waiting(q, s, n)) + (IF m.from = s /\ m.n = n THEN 1 ELSE 0)
<1> DEFINE r == Append(q, m)  last == Len(q) + 1
<1>1. /\ Len(q) \in Nat /\ DOMAIN q = 1..Len(q) /\ DOMAIN r = 1..last
      /\ \A j \in 1..Len(q) : r[j] = q[j]
      /\ r[last] = m
  BY Appended
<1> HIDE DEF r
<1>2. \A j \in DOMAIN r : \/ (j \in DOMAIN q /\ r[j] = q[j] /\ j # last)
                           \/ (j = last /\ r[j] = m)
  BY <1>1
<1>3. last \in DOMAIN r /\ \A j \in DOMAIN q : j \in DOMAIN r /\ j # last
  BY <1>1
<1>4. Waiting(r, s, n) = Waiting(q, s, n) \cup (IF m.from = s /\ m.n = n THEN {last} ELSE {})
  BY <1>1, <1>2, <1>3 DEF Waiting
<1>5. last \notin Waiting(q, s, n)
  BY <1>3 DEF Waiting
<1>6. IsFiniteSet(Waiting(q, s, n)) /\ Cardinality(Waiting(q, s, n)) \in Nat
  BY WaitingFinite
<1>7. CASE m.from = s /\ m.n = n
  <2>1. Waiting(r, s, n) = Waiting(q, s, n) \cup {last}
    BY <1>4, <1>7
  <2> HIDE DEF last
  <2>2. Cardinality(Waiting(q, s, n) \cup {last}) = Cardinality(Waiting(q, s, n)) + 1
    BY <1>5, <1>6, FS_AddElement
  <2> QED
    BY <1>6, <1>7, <2>1, <2>2 DEF r
<1>8. CASE ~(m.from = s /\ m.n = n)
  <2>1. Waiting(r, s, n) = Waiting(q, s, n)
    BY <1>4, <1>8
  <2> QED
    BY <1>6, <1>8, <2>1 DEF r
<1> QED
  BY <1>7, <1>8

LEMMA WaitingFirst ==
  ASSUME NEW q \in Seq(Messages), NEW r \in Seq(Messages), Len(q) \in Nat \ {0},
         DOMAIN q = 1..Len(q), DOMAIN r = 1..(Len(q) - 1),
         \A j \in 1..(Len(q) - 1) : r[j] = q[j + 1], NEW s, NEW n
  PROVE  Cardinality(Waiting(q, s, n)) =
           Cardinality(Waiting(r, s, n)) + (IF q[1].from = s /\ q[1].n = n THEN 1 ELSE 0)
<1> DEFINE W == Waiting(q, s, n)  R == Waiting(r, s, n)  f == [j \in R |-> j + 1]
<1>1. \A j \in R : j \in Nat \ {0} /\ j + 1 \in W \ {1}
  BY DEF Waiting
<1>2. \A k \in W \ {1} : k - 1 \in R /\ k = (k - 1) + 1 /\ k \in Nat
  BY DEF Waiting
<1>3. f \in Bijection(R, W \ {1})
  <2>1. f \in [R -> W \ {1}]
    BY <1>1
  <2>2. \A i, j \in R : f[i] = f[j] => i = j
    BY <1>1
  <2>3. \A k \in W \ {1} : \E j \in R : f[j] = k
    BY <1>2
  <2> QED
    BY <2>1, <2>2, <2>3 DEF Bijection, Injection, Surjection, IsInjective
<1>4. IsFiniteSet(R) /\ IsFiniteSet(W) /\ Cardinality(R) \in Nat /\ Cardinality(W) \in Nat
  BY WaitingFinite
<1> HIDE DEF W, R, f
<1>5. Cardinality(W \ {1}) = Cardinality(R)
  BY <1>3, <1>4, FS_Bijection DEF ExistsBijection
<1>6. Cardinality(W \ {1}) = IF 1 \in W THEN Cardinality(W) - 1 ELSE Cardinality(W)
  BY <1>4, FS_RemoveElement
<1>7. 1 \in W <=> q[1].from = s /\ q[1].n = n
  BY DEF W, Waiting
<1> QED
  BY <1>4, <1>5, <1>6, <1>7 DEF W, R

LEMMA CopiesType ==
  ASSUME TypeOK, NEW a \in Receivers, NEW t \in Tids, NEW s \in Senders, NEW n \in Nat
  PROVE  /\ Copies(a, t, s, n) \in Nat /\ Arrived(a, t, s, n) \in Nat
         /\ ToCome(a, t, s, n) \in {0, 1}
         /\ Cardinality(Waiting(backlog[a], s, n)) \in Nat
<1>1. Cardinality(Waiting(backlog[a], s, n)) \in Nat
  BY WaitingFinite, Messaged
<1>2. Arrived(a, t, s, n) \in Nat
  BY GotType DEF Arrived
<1>3. ToCome(a, t, s, n) \in {0, 1}
  BY DEF ToCome
<1> QED
  BY <1>1, <1>2, <1>3 DEF Copies

\* A message that arrives is one copy more of it, and of no other message.
LEMMA ArrivedIs ==
  ASSUME TypeOK, NEW a \in Receivers, NEW t \in Tids, NEW m \in Messages, Arrives(<<a, t>>, m),
         NEW b \in Receivers, NEW u \in Tids, NEW s \in Senders, NEW n \in Nat
  PROVE  IF a = b /\ t = u /\ s = m.from
         THEN IF n = m.n THEN Arrived(b, u, s, n)' = Arrived(b, u, s, n) + 1
                         ELSE Arrived(b, u, s, n)' = 0
         ELSE Arrived(b, u, s, n)' = Arrived(b, u, s, n)
<1>0. /\ got'[<<a, t>>][m.from] =
              IF got[<<a, t>>][m.from][1] = m.n
              THEN <<m.n, got[<<a, t>>][m.from][2] + 1>> ELSE <<m.n, 1>>
      /\ \A c \in Receivers, v \in Tids, z \in Senders :
           c # a \/ v # t \/ z # m.from => got'[<<c, v>>][z] = got[<<c, v>>][z]
  BY ArrivesIs, Zenon
<1>1. /\ got'[<<a, t>>][m.from] =
              IF got[<<a, t>>][m.from][1] = m.n
              THEN <<m.n, got[<<a, t>>][m.from][2] + 1>> ELSE <<m.n, 1>>
      /\ b # a \/ u # t \/ s # m.from => got'[<<b, u>>][s] = got[<<b, u>>][s]
  BY <1>0
<1>2. CASE ~(a = b /\ t = u /\ s = m.from)
  BY <1>1, <1>2 DEF Arrived
<1>3. CASE a = b /\ t = u /\ s = m.from
  <2>1. got[<<a, t>>][s][2] \in Nat
    BY <1>3, GotType
  <2>2. CASE got[<<a, t>>][s][1] = m.n
    BY <1>1, <1>3, <2>1, <2>2 DEF Arrived
  <2>3. CASE got[<<a, t>>][s][1] # m.n
    BY <1>1, <1>3, <2>1, <2>3 DEF Arrived
  <2> QED
    BY <2>2, <2>3
<1> QED
  BY <1>2, <1>3

\* Nothing of a call before it is made.
LEMMA NoCopies ==
  ASSUME TypeOK, OrderInv, NEW a \in Receivers, NEW t \in Tids, NEW s \in Senders,
         NEW n \in Nat, n > calls[s]
  PROVE  Copies(a, t, s, n) = 0
<1>1. OrderAt(a, s) /\ calls[s] \in Nat
  BY DEF OrderInv, TypeOK
<1>2. Arrived(a, t, s, n) = 0
  BY <1>1, GotType DEF OrderAt, Arrived
<1>3. ToCome(a, t, s, n) = 0
  <2>1. router[a].at = "post" => router[a] # Idle
    BY DEF Idle
  <2>2. router[a].at = "post" /\ router[a].msg.from = s => router[a].msg.n # n
    BY <1>1, <2>1, Messaged, MessageFields DEF OrderAt
  <2> QED
    BY <2>2 DEF ToCome
<1>4. Waiting(backlog[a], s, n) = {}
  <2>1. \A j \in Of(backlog[a], s) : backlog[a][j].n # n
    BY <1>1, Messaged, MessageFields DEF OrderAt, Of
  <2> QED
    BY <2>1 DEF Waiting, Of
<1> QED
  BY <1>2, <1>3, <1>4, FS_EmptySet DEF Copies

CopiesNat ==
  \A a \in Receivers, t \in Tids, s \in Senders, n \in Nat : Copies(a, t, s, n) \in Nat

LEMMA CopiesCounted == TypeOK => CopiesNat
BY CopiesType DEF CopiesNat

LEMMA CopiesCountedNext == TypeOK' => CopiesNat'
BY CopiesCounted, PTL

\* Where neither its queue, its router nor its channel has news of a sender.
LEMMA CopiesSame ==
  ASSUME NEW a, NEW t, NEW s, NEW n,
         got'[<<a, t>>][s] = got[<<a, t>>][s], router'[a] = router[a], backlog'[a] = backlog[a]
  PROVE  Copies(a, t, s, n)' = Copies(a, t, s, n)
BY DEF Copies, Arrived, ToCome, Waiting

\* A call that stays where it is, while copies of its message only go.
LEMMA CopyAside ==
  ASSUME TypeOK, TypeOK', NEW a \in Receivers, NEW t \in Tids, NEW s \in Senders, CopyAt(a, t, s),
         pc'[s] = pc[s], call'[s] = call[s], calls'[s] = calls[s], faults' >= faults,
         \A n \in Nat : Copies(a, t, s, n)' <= Copies(a, t, s, n),
         answer'[s] = "closed" /\ answer[s] # "closed" /\ a = call[s].to =>
           \A n \in Nat : Copies(a, t, s, n)' = 0
  PROVE  CopyAt(a, t, s)'
<1>1. /\ faults \in Nat /\ faults' \in Nat /\ calls[s] \in Nat /\ max_number_of_trials \in Nat
      /\ call[s].trial \in Nat
  <2>1. call[s].trial \in Nat /\ max_number_of_trials \in Nat /\ MaxFaults \in Nat
    BY DeliveryAssumption, CallsType, CallsFields
  <2> QED
    BY <2>1 DEF TypeOK
<1>2. \A n \in Nat : Copies(a, t, s, n) \in Nat /\ Copies(a, t, s, n)' \in Nat
  BY CopiesCounted, CopiesCountedNext DEF CopiesNat
<1>3. ASSUME NEW n \in Nat
      PROVE  Copies(a, t, s, n)' <= 1 + faults' /\ Copies(a, t, s, n)' <= max_number_of_trials
  <2>1. Copies(a, t, s, n) <= 1 + faults /\ Copies(a, t, s, n) <= max_number_of_trials
    BY DEF CopyAt
  <2>2. Copies(a, t, s, n)' <= Copies(a, t, s, n)
    OBVIOUS
  <2> QED
    BY <1>1, <1>2, <2>1, <2>2
<1>4. PICK k \in Nat : k = calls[s] /\ k = calls'[s]
  BY <1>1
<1>5. /\ pc[s] # "idle" /\ a = call[s].to =>
           /\ Copies(a, t, s, k) <= call[s].trial + 1
           /\ pc[s] \in {"trial", "resolve", "send"} => Copies(a, t, s, k) <= call[s].trial
           /\ pc[s] # "wait" \/ answer[s] = "closed" => Copies(a, t, s, k) <= faults
      /\ pc[s] # "idle" /\ a > call[s].to => Copies(a, t, s, k) = 0
  BY <1>4 DEF CopyAt
<1>6. /\ Copies(a, t, s, k)' <= Copies(a, t, s, k)
      /\ answer'[s] = "closed" /\ answer[s] # "closed" /\ a = call[s].to => Copies(a, t, s, k)' = 0
      /\ Copies(a, t, s, k) \in Nat /\ Copies(a, t, s, k)' \in Nat
  BY <1>2
<1>7. /\ pc[s] # "idle" /\ a = call[s].to =>
           /\ Copies(a, t, s, k)' <= call[s].trial + 1
           /\ pc[s] \in {"trial", "resolve", "send"} => Copies(a, t, s, k)' <= call[s].trial
           /\ pc[s] # "wait" \/ answer'[s] = "closed" => Copies(a, t, s, k)' <= faults'
      /\ pc[s] # "idle" /\ a > call[s].to => Copies(a, t, s, k)' = 0
  BY <1>1, <1>5, <1>6
<1> QED
  BY <1>3, <1>4, <1>7 DEF CopyAt

\* The router passes the copies on, or it drops them.
LEMMA RouterCopies ==
  ASSUME TypeOK, TypeOK', NEW a \in Receivers, RouterStep(a),
         NEW b \in Receivers, NEW t \in Tids, NEW s \in Senders, NEW n \in Nat
  PROVE  Copies(b, t, s, n)' <= Copies(b, t, s, n)
<1> DEFINE w == Cardinality(Waiting(backlog[a], s, n))
           ww == Cardinality(Waiting(backlog'[a], s, n))
           one(m) == IF m.from = s /\ m.n = n THEN 1 ELSE 0
<1>0. /\ Copies(b, t, s, n) \in Nat
      /\ w \in Nat /\ ww \in Nat
      /\ Arrived(a, t, s, n) \in Nat
      /\ Copies(a, t, s, n) = Arrived(a, t, s, n) + ToCome(a, t, s, n) + w
      /\ Copies(a, t, s, n)' = Arrived(a, t, s, n)' + ToCome(a, t, s, n)' + ww
  <2>1. backlog'[a] \in Seq(Messages)
    BY DEF TypeOK
  <2>2. ww \in Nat
    BY <2>1, WaitingFinite
  <2>3. Waiting(backlog[a], s, n)' = Waiting(backlog'[a], s, n)
    BY DEF Waiting
  <2> QED
    BY <2>2, <2>3, CopiesType DEF Copies
<1>1. ASSUME NEW u \in Tids, NEW m \in Messages, Arrives(<<a, u>>, m)
      PROVE  /\ Arrived(a, t, s, n)' \in Nat
             /\ Arrived(a, t, s, n)' <= Arrived(a, t, s, n) + (IF t = u THEN one(m) ELSE 0)
             /\ b # a => got'[<<b, t>>][s] = got[<<b, t>>][s]
  <2>1. IF t = u /\ s = m.from
        THEN IF n = m.n THEN Arrived(a, t, s, n)' = Arrived(a, t, s, n) + 1
                        ELSE Arrived(a, t, s, n)' = 0
        ELSE Arrived(a, t, s, n)' = Arrived(a, t, s, n)
    BY <1>1, ArrivedIs
  <2>2. \A c \in Receivers, v \in Tids, z \in Senders :
           c # a \/ v # u \/ z # m.from => got'[<<c, v>>][z] = got[<<c, v>>][z]
    BY <1>1, ArrivesIs, ZenonT(40)
  <2> QED
    BY <1>0, <2>1, <2>2
<1>2. got' = got => Arrived(a, t, s, n)' = Arrived(a, t, s, n)
  BY DEF Arrived
<1>3. ASSUME b # a PROVE Copies(b, t, s, n)' <= Copies(b, t, s, n)
  <2>1. router'[b] = router[b] /\ backlog'[b] = backlog[b]
    <3>1. CASE \E i \in DOMAIN backlog[a] : Process_Send(a, i) \/ Process_Publish(a, i)
      BY <1>3, <3>1, ProcessIs
    <3>2. CASE PostCopy(a) \/ PostLast(a)
      BY <1>3, <3>2, PostIs
    <3>3. CASE Reply(a)
      BY <1>3, <3>3 DEF Reply, TypeOK
    <3> QED
      BY <3>1, <3>2, <3>3 DEF RouterStep
  <2>2. got'[<<b, t>>][s] = got[<<b, t>>][s]
    <3>1. got' = got \/ \E u \in Tids, m \in Messages : Arrives(<<a, u>>, m)
      BY GotChange
    <3> QED
      BY <1>1, <1>3, <3>1
  <2>3. Copies(b, t, s, n)' = Copies(b, t, s, n)
    BY <2>1, <2>2, CopiesSame
  <2> QED
    BY <1>0, <2>3
<1> HIDE DEF w, ww
<1>4. ASSUME NEW i, Take(a, i)
      PROVE  ww + one(backlog[a][1]) = w /\ ToCome(a, t, s, n) = 0 /\ backlog[a][1] \in Messages
  <2>1. w = ww + one(backlog[a][1])
    <3> DEFINE q == backlog[a]  r == backlog'[a]
    <3>1. /\ q \in Seq(Messages) /\ r \in Seq(Messages) /\ Len(q) \in Nat \ {0}
          /\ DOMAIN q = 1..Len(q) /\ DOMAIN r = 1..(Len(q) - 1)
          /\ \A j \in 1..(Len(q) - 1) : r[j] = q[j + 1]
      BY <1>4, TakeIs DEF TypeOK
    <3> HIDE DEF q, r
    <3>2. Cardinality(Waiting(q, s, n)) =
            Cardinality(Waiting(r, s, n)) + (IF q[1].from = s /\ q[1].n = n THEN 1 ELSE 0)
      BY <3>1, WaitingFirst
    <3> QED
      BY <3>2 DEF q, r, w, ww
  <2>2. ToCome(a, t, s, n) = 0
    BY <1>4, TakeIs DEF ToCome, Idle
  <2> QED
    BY <1>0, <1>4, <2>1, <2>2, TakeIs
<1>5. ASSUME NEW i, Process_Send(a, i) PROVE Copies(a, t, s, n)' <= Copies(a, t, s, n)
  <2> DEFINE m == backlog[a][1]
  <2>1. ww + one(m) = w /\ ToCome(a, t, s, n) = 0 /\ m \in Messages /\ i = 1
    BY <1>4, <1>5, TakeIs DEF Process_Send
  <2>2. ToCome(a, t, s, n)' = 0
    <3>1. router'[a].at = "reply"
      BY <1>5, SMTT(40) DEF Process_Send, TypeOK
    <3> QED
      BY <3>1 DEF ToCome
  <2>3. Arrived(a, t, s, n)' \in Nat /\ Arrived(a, t, s, n)' <= Arrived(a, t, s, n) + one(m)
    <3>1. CASE got' = got
      BY <1>0, <1>2, <3>1
    <3>2. CASE got' # got
      <4>1. m.tid # 0 /\ Arrives(<<a, m.tid>>, m)
        BY <1>5, <2>1, <3>2 DEF Process_Send
      <4>2. m.tid \in Tids
        BY <2>1, <4>1, MessageFields
      <4> QED
        BY <1>0, <1>1, <2>1, <4>1, <4>2
    <3> QED
      BY <3>1, <3>2
  <2> HIDE DEF m
  <2> QED
    BY <1>0, <2>1, <2>2, <2>3
<1>6. ASSUME NEW i, Process_Publish(a, i) PROVE Copies(a, t, s, n)' <= Copies(a, t, s, n)
  <2> DEFINE m == backlog[a][1]
  <2>1. ww + one(m) = w /\ ToCome(a, t, s, n) = 0 /\ router'[a].msg = m
    BY <1>4, <1>6, ProcessIs DEF Process_Publish
  <2>2. ToCome(a, t, s, n)' \in {0, 1} /\ ToCome(a, t, s, n)' <= one(m)
    BY <2>1 DEF ToCome
  <2>3. Arrived(a, t, s, n)' = Arrived(a, t, s, n)
    BY <1>2, <1>6 DEF Process_Publish
  <2> HIDE DEF m
  <2> QED
    BY <1>0, <2>1, <2>2, <2>3
<1>7. ASSUME PostCopy(a) \/ PostLast(a) PROVE Copies(a, t, s, n)' <= Copies(a, t, s, n)
  <2> DEFINE m == router[a].msg
             u == IF PostLast(a) THEN router[a].last ELSE router[a].next
  <2>1. /\ router[a].at = "post" /\ m \in Messages /\ router[a].last \in Nat
        /\ router[a].next \in Nat /\ router[a].last \in Tids /\ t \in Nat
        /\ router'[a].msg = m /\ ww = w
        /\ PostCopy(a) => /\ router[a].next < router[a].last /\ router'[a].at = "post"
                          /\ router'[a].last = router[a].last
                          /\ router'[a].next = router[a].next + 1
        /\ PostLast(a) => router[a].next >= router[a].last /\ router'[a].at = "reply"
    <3>1. router[a] \in [at : {"post"}, msg : Messages, last : Tids, next : Nat] /\ backlog' = backlog
      BY <1>7, PostIs
    <3>2. Tids \subseteq Nat
      BY DeliveryAssumption DEF Tids
    <3> QED
      BY <1>7, <3>1, <3>2, PostIs DEF w, ww
  <2>2. ToCome(a, t, s, n)' + (IF t = u THEN one(m) ELSE 0) <= ToCome(a, t, s, n)
        /\ ToCome(a, t, s, n) \in {0, 1} /\ ToCome(a, t, s, n)' \in {0, 1}
    <3>1. CASE PostLast(a)
      BY <2>1, <3>1 DEF ToCome
    <3>2. CASE ~PostLast(a)
      BY <1>7, <2>1, <3>2 DEF ToCome
    <3> QED
      BY <3>1, <3>2
  <2>3. /\ Arrived(a, t, s, n)' \in Nat
        /\ Arrived(a, t, s, n)' <= Arrived(a, t, s, n) + (IF t = u THEN one(m) ELSE 0)
    <3>1. CASE got' = got
      BY <1>0, <1>2, <3>1
    <3>2. CASE got' # got
      <4>1. Arrives(<<a, u>>, m) /\ u \in Tids
        BY <1>7, <2>1, <3>2, DeliveryAssumption DEF PostCopy, PostLast, Tids
      <4> QED
        BY <1>0, <1>1, <2>1, <4>1
    <3> QED
      BY <3>1, <3>2
  <2> HIDE DEF m, u
  <2> QED
    BY <1>0, <2>1, <2>2, <2>3
<1>8. ASSUME Reply(a) PROVE Copies(a, t, s, n)' <= Copies(a, t, s, n)
  <2>1. /\ router[a].at = "reply" /\ router'[a] = Idle /\ got' = got /\ backlog' = backlog
    BY <1>8 DEF Reply, TypeOK
  <2>2. ToCome(a, t, s, n) = 0 /\ ToCome(a, t, s, n)' = 0 /\ ww = w
    BY <2>1 DEF ToCome, Idle, w, ww
  <2> QED
    BY <1>0, <1>2, <2>1, <2>2
<1> QED
  BY <1>3, <1>5, <1>6, <1>7, <1>8 DEF RouterStep

\* Nothing of a process that ends is left.
LEMMA CloseCopies ==
  ASSUME TypeOK, NEW a \in Receivers, Close(a), EndQueues(a),
         NEW b \in Receivers, NEW t \in Tids, NEW s \in Senders, NEW n \in Nat
  PROVE  /\ b = a => Copies(b, t, s, n)' = 0
         /\ b # a => Copies(b, t, s, n)' = Copies(b, t, s, n)
<1>1. <<b, t>> \in Inboxes /\ <<b, t>>[1] = b
  BY DEF Inboxes
<1>2. got'[<<b, t>>][s] = IF b = a THEN <<got[<<b, t>>][s][1], 0>> ELSE got[<<b, t>>][s]
  BY <1>1 DEF EndQueues
<1>3. CASE b = a
  <2>1. router'[b] = Idle /\ backlog'[b] = << >>
    BY <1>3 DEF Close, TypeOK
  <2>2. Arrived(b, t, s, n)' = 0
    BY <1>2, <1>3 DEF Arrived
  <2>3. ToCome(b, t, s, n)' = 0 /\ Waiting(backlog[b], s, n)' = {}
    BY <2>1 DEF ToCome, Waiting, Idle
  <2> QED
    BY <1>3, <2>2, <2>3, FS_EmptySet DEF Copies
<1>4. CASE b # a
  <2>1. router'[b] = router[b] /\ backlog'[b] = backlog[b]
    BY <1>4 DEF Close, TypeOK
  <2> QED
    BY <1>2, <1>4, <2>1, CopiesSame
<1> QED
  BY <1>3, <1>4

\* A sender that goes leaves its message where it is.
LEMMA LostCopies ==
  ASSUME TypeOK, NEW z \in Senders, ReplyLost(z),
         NEW a \in Receivers, NEW t \in Tids, NEW s \in Senders, NEW n \in Nat
  PROVE  Copies(a, t, s, n)' = Copies(a, t, s, n)
<1>1. Arrived(a, t, s, n)' = Arrived(a, t, s, n)
  BY DEF ReplyLost, Arrived
<1>2. Waiting(backlog[a], s, n)' = Waiting(backlog[a], s, n)
  BY LostMessages DEF Waiting
<1>3. ToCome(a, t, s, n)' = ToCome(a, t, s, n)
  <2>1. CASE router[a] = Idle
    BY <2>1, LostMessages DEF ToCome, Idle
  <2>2. CASE router[a] # Idle
    BY <2>2, LostMessages DEF ToCome
  <2> QED
    BY <2>1, <2>2
<1> QED
  BY <1>1, <1>2, <1>3 DEF Copies

\* A sender that sends has one copy more of its message under way.
LEMMA SendCopies ==
  ASSUME TypeOK, CallInv, NEW z \in Senders, Send(z),
         NEW a \in Receivers, NEW t \in Tids, NEW s \in Senders, NEW n \in Nat
  PROVE  Copies(a, t, s, n)' = IF a = call[z].to /\ s = z /\ n = calls[z]
                               THEN Copies(a, t, s, n) + 1 ELSE Copies(a, t, s, n)
<1>1. Message(z) \in Messages /\ Message(z).from = z /\ Message(z).n = calls[z]
  BY MessageType DEF Message
<1>2. UNCHANGED <<got, router>> /\ pc[z] = "send" /\ call[z].to \in Receivers
  BY DEF Send, Goto, CallInv
<1>3. CASE a # call[z].to
  <2>1. backlog'[a] = backlog[a]
    BY <1>3 DEF Send, TypeOK
  <2> QED
    BY <1>2, <1>3, <2>1, CopiesSame
<1>4. CASE a = call[z].to
  <2> DEFINE q == backlog[a]  m == Message(z)
  <2>1. backlog'[a] = Append(q, m) /\ q \in Seq(Messages)
    BY <1>4 DEF Send, TypeOK
  <2>2. Waiting(backlog[a], s, n)' = Waiting(Append(q, m), s, n)
    BY <2>1 DEF Waiting
  <2> HIDE DEF q, m
  <2>3. Cardinality(Waiting(Append(q, m), s, n)) =
          Cardinality(Waiting(q, s, n)) + (IF m.from = s /\ m.n = n THEN 1 ELSE 0)
    BY <1>1, <2>1, WaitingAppend DEF m
  <2>4. Arrived(a, t, s, n)' = Arrived(a, t, s, n) /\ ToCome(a, t, s, n)' = ToCome(a, t, s, n)
    BY <1>2 DEF Arrived, ToCome
  <2>5. /\ Arrived(a, t, s, n) \in Nat /\ ToCome(a, t, s, n) \in Nat
        /\ Cardinality(Waiting(q, s, n)) \in Nat
    BY CopiesType DEF q
  <2> QED
    BY <1>1, <1>4, <2>2, <2>3, <2>4, <2>5 DEF Copies, q, m
<1> QED
  BY <1>3, <1>4

\* What CopyAt says of the call a sender is in.
CallCopies(a, t, s) ==
  /\ pc[s] # "idle" /\ a = call[s].to =>
       LET c == Copies(a, t, s, calls[s])
       IN  /\ c <= call[s].trial + 1
           /\ pc[s] \in {"trial", "resolve", "send"} => c <= call[s].trial
           /\ pc[s] # "wait" \/ answer[s] = "closed" => c <= faults
  /\ pc[s] # "idle" /\ a > call[s].to => Copies(a, t, s, calls[s]) = 0

\* A step of a sender that neither sends nor loses a reply.
LEMMA StepCopies ==
  ASSUME TypeOK, TypeOK', CallInv, NEW s \in Senders, SenderStep(s), ~Send(s),
         NEW a \in Receivers, NEW t \in Tids, CopyAt(a, t, s),
         \A n \in Nat : Copies(a, t, s, n)' = Copies(a, t, s, n)
  PROVE  CallCopies(a, t, s)'
<1>1. PICK k \in Nat : k = calls[s] /\ k = calls'[s]
  <2>1. calls' = calls /\ calls[s] \in Nat
    BY DEF SenderStep, Connected, Connect, SAL_Connect, SendFails, Replied, WaitFails, Invalidate,
       TypeOK
  <2> QED
    BY <2>1
<1> DEFINE c == Copies(a, t, s, k)
<1>2. /\ Copies(a, t, s, k)' = c /\ c \in Nat /\ faults' = faults
      /\ call[s] \in Calls /\ call[s].trial \in Nat /\ call[s].to \in Nat /\ a \in Nat
      /\ call'[s].trial \in Nat
  <2>1. c \in Nat
    BY CopiesType
  <2>2. call[s] \in Calls /\ call'[s] \in Calls /\ a \in Nat
    BY DeliveryAssumption DEF TypeOK
  <2>3. faults' = faults
    BY DEF SenderStep, Connected, Connect, SAL_Connect, SendFails, Replied, WaitFails, Invalidate
  <2> QED
    BY <2>1, <2>2, <2>3, CallsFields
<1>3. /\ pc[s] # "idle" /\ a = call[s].to =>
           /\ c <= call[s].trial + 1
           /\ pc[s] \in {"trial", "resolve", "send"} => c <= call[s].trial
           /\ pc[s] # "wait" \/ answer[s] = "closed" => c <= faults
      /\ pc[s] # "idle" /\ a > call[s].to => c = 0
  BY <1>1 DEF CopyAt
<1> HIDE DEF c
<1>4. ASSUME call'[s].to = call[s].to, call'[s].trial = call[s].trial, pc[s] # "idle",
             pc'[s] # "wait", pc[s] # "wait" \/ answer[s] = "closed",
             pc'[s] = "fail" \/ pc[s] \in {"trial", "resolve", "send"}
      PROVE  CallCopies(a, t, s)'
  BY <1>1, <1>2, <1>3, <1>4 DEF CallCopies, c
<1>5. ASSUME NEW st \in BOOLEAN, Done(s, st), pc[s] # "idle"
      PROVE  CallCopies(a, t, s)'
  <2>1. \/ call'[s].to > call[s].to /\ pc'[s] = "trial" /\ call'[s].trial = 0
           /\ call'[s].to \in Receivers
        \/ pc'[s] = "idle"
    BY <1>5, DoneIs, SMTT(30) DEF TypeOK
  <2>2. CASE pc'[s] = "idle"
    BY <2>2 DEF CallCopies
  <2>3. CASE call'[s].to > call[s].to /\ pc'[s] = "trial" /\ call'[s].trial = 0
             /\ call'[s].to \in Receivers
    <3>1. call'[s].to \in Nat /\ faults \in Nat
      <4>1. MaxFaults \in Nat /\ Receivers \subseteq Nat
        BY DeliveryAssumption
      <4>2. faults \in 0..MaxFaults
        BY DEF TypeOK
      <4>3. call'[s].to \in Nat
        BY <2>3, <4>1, Zenon
      <4> QED
        BY <4>1, <4>2, <4>3
    <3>2. a >= call'[s].to => c = 0
      BY <1>2, <1>3, <1>5, <2>3, <3>1
    <3> QED
      BY <1>1, <1>2, <2>3, <3>1, <3>2 DEF CallCopies, c
  <2> QED
    BY <2>1, <2>2, <2>3
<1> USE DEF TypeOK
<1>6. CASE Connected(s)
  <2>1. pc[s] = "trial" /\ pc'[s] = "send" /\ call' = [call EXCEPT ![s].over = connection[call[s].to]]
    BY <1>6 DEF Connected, Goto
  <2>2. call'[s].to = call[s].to /\ call'[s].trial = call[s].trial
    BY <1>2, <2>1 DEF Calls
  <2> QED
    BY <1>4, <2>1, <2>2
<1>7. CASE Connect(s)
  BY <1>4, <1>7 DEF Connect, Goto
<1>8. CASE SAL_Connect(s)
  <2>1. /\ pc[s] = "resolve" /\ pc'[s] \in {"send", "fail"}
        /\ call' = [call EXCEPT ![s].over = bound[<<call[s].to, 0>>]]
    BY <1>8 DEF SAL_Connect, Goto
  <2>2. call'[s].to = call[s].to /\ call'[s].trial = call[s].trial
    BY <1>2, <2>1 DEF Calls
  <2> QED
    BY <1>4, <2>1, <2>2
<1>9. CASE SendFails(s)
  BY <1>4, <1>9 DEF SendFails, Goto
<1>10. CASE Replied(s)
  <2>1. Done(s, answer[s] = "true") /\ pc[s] = "wait" /\ (answer[s] = "true") \in BOOLEAN
    BY <1>10 DEF Replied
  <2> QED
    BY <1>5, <2>1
<1>11. CASE WaitFails(s)
  BY <1>4, <1>11 DEF WaitFails, Goto
<1>12. CASE Invalidate(s)
  <2>1. /\ pc[s] = "fail" /\ call[s].to \in Receivers
        /\ \/ /\ pc' = [pc EXCEPT ![s] = "trial"]
              /\ call' = [call EXCEPT ![s].trial = @ + 1]
           \/ Done(s, FALSE)
    BY <1>12, InvalidateIs
  <2>2. CASE pc' = [pc EXCEPT ![s] = "trial"] /\ call' = [call EXCEPT ![s].trial = @ + 1]
    <3>1. pc'[s] = "trial" /\ call'[s].to = call[s].to /\ call'[s].trial = call[s].trial + 1
      BY <1>2, <2>2 DEF Calls
    <3> QED
      BY <1>1, <1>2, <1>3, <2>1, <3>1 DEF CallCopies, c
  <2> QED
    BY <1>5, <2>1, <2>2
<1> QED
  BY <1>6, <1>7, <1>8, <1>9, <1>10, <1>11, <1>12 DEF SenderStep

LEMMA CopyStep ==
  TypeOK /\ CallInv /\ OpenInv /\ OrderInv /\ CopyInv /\ [Next]_vars /\ TypeOK' => CopyInv'
<1> SUFFICES ASSUME TypeOK, CallInv, OpenInv, OrderInv, CopyInv, [Next]_vars, TypeOK',
                    NEW a \in Receivers, NEW t \in Tids, NEW s \in Senders
             PROVE  CopyAt(a, t, s)'
  BY DEF CopyInv
<1>0. /\ CopyAt(a, t, s) /\ faults \in Nat /\ faults' \in Nat /\ a \in Nat
      /\ calls[s] \in Nat /\ calls'[s] \in Nat /\ max_number_of_trials \in Nat
      /\ \A n \in Nat : Copies(a, t, s, n) \in Nat
  <2>1. MaxFaults \in Nat /\ Receivers \subseteq Nat /\ max_number_of_trials \in Nat
    BY DeliveryAssumption
  <2>2. \A n \in Nat : Copies(a, t, s, n) \in Nat
    BY CopiesType
  <2> QED
    BY <2>1, <2>2 DEF CopyInv, TypeOK
<1>1. ASSUME \A n \in Nat : Copies(a, t, s, n)' = Copies(a, t, s, n), faults' >= faults,
             CallCopies(a, t, s)'
      PROVE  CopyAt(a, t, s)'
  <2>1. ASSUME NEW n \in Nat
        PROVE  Copies(a, t, s, n)' <= 1 + faults' /\ Copies(a, t, s, n)' <= max_number_of_trials
    <3>1. Copies(a, t, s, n)' = Copies(a, t, s, n) /\ Copies(a, t, s, n) \in Nat
      BY <1>0, <1>1
    <3>2. Copies(a, t, s, n) <= 1 + faults /\ Copies(a, t, s, n) <= max_number_of_trials
      BY <1>0 DEF CopyAt
    <3> QED
      BY <1>0, <1>1, <3>1, <3>2
  <2> QED
    BY <1>1, <2>1 DEF CopyAt, CallCopies
<1>2. ASSUME pc'[s] = pc[s], call'[s] = call[s], calls'[s] = calls[s],
             answer'[s] = answer[s] \/ answer'[s] # "closed", faults' >= faults,
             \A n \in Nat : Copies(a, t, s, n)' = Copies(a, t, s, n)
      PROVE  CopyAt(a, t, s)'
  <2>1. \A n \in Nat : Copies(a, t, s, n)' <= Copies(a, t, s, n)
    BY <1>0, <1>2
  <2> QED
    BY <1>0, <1>2, <2>1, CopyAside
<1>3. ASSUME UNCHANGED <<got, router, backlog>>
      PROVE  \A n \in Nat : Copies(a, t, s, n)' = Copies(a, t, s, n)
  BY <1>3, CopiesSame
<1>4. ASSUME NEW z \in Senders, SenderStep(z), ~Send(z) PROVE CopyAt(a, t, s)'
  <2>1. UNCHANGED <<got, router, backlog, faults>>
    BY <1>4 DEF SenderStep, Connected, Connect, SAL_Connect, SendFails, Replied, WaitFails,
       Invalidate, receiver
  <2>2. CASE z # s
    BY <1>0, <1>2, <1>3, <1>4, <2>1, <2>2, OthersCall
  <2>3. CASE z = s
    BY <1>0, <1>1, <1>3, <1>4, <2>1, <2>3, StepCopies
  <2> QED
    BY <2>2, <2>3
<1>5. ASSUME NEW z \in Senders, NEW c, Begin(z, c) PROVE CopyAt(a, t, s)'
  <2>1. UNCHANGED <<got, router, backlog, faults>>
    BY <1>5 DEF Begin, receiver
  <2>2. CASE z # s
    BY <1>0, <1>2, <1>3, <1>5, <2>1, <2>2, OthersCall
  <2>3. CASE z = s
    <3>1. calls'[s] = calls[s] + 1 /\ pc'[s] # "wait" /\ pc'[s] # "fail"
      BY <1>5, <2>3 DEF Begin, Goto, TypeOK
    <3>2. Copies(a, t, s, calls[s] + 1) = 0
      BY <1>0, NoCopies
    <3>3. PICK k \in Nat : k = calls'[s] /\ Copies(a, t, s, k)' = 0
      BY <1>0, <1>3, <2>1, <3>1, <3>2
    <3>4. call'[s].trial \in Nat
      <4>1. call'[s] \in Calls
        BY DEF TypeOK
      <4> QED
        BY <4>1, CallsFields
    <3>5. CallCopies(a, t, s)'
      BY <1>0, <3>3, <3>4 DEF CallCopies
    <3> QED
      BY <1>0, <1>1, <1>3, <2>1, <3>5
  <2> QED
    BY <2>2, <2>3
<1>6. ASSUME NEW z \in Senders, Send(z) PROVE CopyAt(a, t, s)'
  <2>1. UNCHANGED <<faults, call, calls, answer>> /\ pc[z] = "send" /\ pc' = [pc EXCEPT ![z] = "wait"]
    BY <1>6 DEF Send, Goto
  <2>2. \A n \in Nat : Copies(a, t, s, n)' = IF a = call[z].to /\ s = z /\ n = calls[z]
                               THEN Copies(a, t, s, n) + 1 ELSE Copies(a, t, s, n)
    BY <1>6, SendCopies
  <2>3. CASE z # s
    BY <1>0, <1>2, <1>6, <2>1, <2>2, <2>3, OthersCall
  <2>4. CASE z = s
    <3>1. /\ answer'[s] = "none" /\ pc'[s] = "wait" /\ call[s].trial < max_number_of_trials
          /\ call[s].trial \in Nat /\ call[s].to \in Nat
      BY <2>1, <2>4, CallsType, CallsFields DEF CallInv, TypeOK
    <3>2. PICK k \in Nat : k = calls[s] /\ k = calls'[s]
      BY <1>0, <2>1
    <3>3. a = call[s].to => Copies(a, t, s, k) <= call[s].trial /\ Copies(a, t, s, k) <= faults
      BY <2>1, <2>4, <3>2 DEF CopyAt, CopyInv
    <3>4. ASSUME NEW n \in Nat
          PROVE  Copies(a, t, s, n)' <= 1 + faults' /\ Copies(a, t, s, n)' <= max_number_of_trials
      <4>1. Copies(a, t, s, n) <= 1 + faults /\ Copies(a, t, s, n) <= max_number_of_trials
        BY <1>0 DEF CopyAt
      <4>2. /\ a = call[s].to /\ n = k => Copies(a, t, s, n)' = Copies(a, t, s, n) + 1
            /\ ~(a = call[s].to /\ n = k) => Copies(a, t, s, n)' = Copies(a, t, s, n)
        BY <2>2, <2>4, <3>2
      <4>3. Copies(a, t, s, n) \in Nat /\ faults' = faults
        BY <1>0, <2>1
      <4> QED
        BY <1>0, <3>1, <3>3, <4>1, <4>2, <4>3
    <3>5. CallCopies(a, t, s)'
      <4>1. /\ a = call[s].to => Copies(a, t, s, k)' = Copies(a, t, s, k) + 1
            /\ a # call[s].to => Copies(a, t, s, k)' = Copies(a, t, s, k)
        BY <2>2, <2>4, <3>2
      <4>2. Copies(a, t, s, k) \in Nat
        BY <1>0
      <4>3. a > call[s].to => Copies(a, t, s, k) = 0
        BY <1>0, <2>1, <2>4, <3>2 DEF CopyAt
      <4> QED
        BY <1>0, <2>1, <3>1, <3>2, <3>3, <4>1, <4>2, <4>3 DEF CallCopies
    <3> QED
      BY <3>4, <3>5 DEF CopyAt, CallCopies
  <2> QED
    BY <2>3, <2>4
<1>7. ASSUME NEW z \in Senders, ReplyLost(z) PROVE CopyAt(a, t, s)'
  <2>1. /\ faults' = faults + 1 /\ UNCHANGED <<call, calls>> /\ pc[z] = "wait"
        /\ pc' = [pc EXCEPT ![z] = "fail"]
    BY <1>7 DEF ReplyLost, Goto
  <2>2. \A n \in Nat : Copies(a, t, s, n)' = Copies(a, t, s, n)
    BY <1>7, LostCopies
  <2>3. CASE z # s
    BY <1>0, <1>2, <1>7, <2>1, <2>2, <2>3, OthersCall
  <2>4. CASE z = s
    <3>1. PICK k \in Nat : k = calls[s] /\ k = calls'[s]
      BY <1>0, <2>1
    <3>2. /\ Copies(a, t, s, k)' = Copies(a, t, s, k) /\ Copies(a, t, s, k) \in Nat
          /\ Copies(a, t, s, k) <= 1 + faults
      BY <1>0, <2>2 DEF CopyAt
    <3>3. /\ a = call[s].to => Copies(a, t, s, k) <= call[s].trial + 1
          /\ a > call[s].to => Copies(a, t, s, k) = 0
      BY <1>0, <2>1, <2>4, <3>1 DEF CopyAt
    <3>4. pc'[s] = "fail"
      BY <2>1, <2>4 DEF TypeOK
    <3>5. CallCopies(a, t, s)'
      BY <1>0, <2>1, <3>1, <3>2, <3>3, <3>4 DEF CallCopies
    <3> QED
      BY <1>0, <1>1, <2>1, <2>2, <3>5
  <2> QED
    BY <2>3, <2>4
<1>8. ASSUME NEW b \in Receivers, RouterStep(b) PROVE CopyAt(a, t, s)'
  <2>1. UNCHANGED <<pc, call, calls>> /\ (answer'[s] = answer[s] \/ answer'[s] # "closed")
    <3>1. CASE Reply(b)
      BY <3>1 DEF Reply, sender, TypeOK
    <3>2. CASE ~Reply(b)
      BY <1>8, <3>2 DEF RouterStep, Process_Send, Process_Publish, PostCopy, PostLast, Received,
         sender
    <3> QED
      BY <3>1, <3>2
  <2>2. faults' >= faults
    <3>1. faults' = faults \/ faults' = faults + 1
      BY <1>8 DEF RouterStep, Process_Send, Process_Publish, PostCopy, PostLast, Reply
    <3> QED
      BY <1>0, <3>1
  <2>3. \A n \in Nat : Copies(a, t, s, n)' <= Copies(a, t, s, n)
    BY <1>8, RouterCopies
  <2> QED
    BY <1>0, <2>1, <2>2, <2>3, CopyAside
<1>9. ASSUME NEW b \in Receivers, LeaveClose(b) \/ Crash(b) PROVE CopyAt(a, t, s)'
  <2>1. Close(b) /\ EndQueues(b) /\ UNCHANGED <<pc, call, calls, faults>>
    BY <1>9 DEF LeaveClose, Crash, Outside, sender
  <2>2. \A n \in Nat : Copies(a, t, s, n)' = IF a = b THEN 0 ELSE Copies(a, t, s, n)
    BY <2>1, CloseCopies
  <2>3. answer'[s] = answer[s] \/ call[s].to = b
    <3>1. ASSUME NEW m \in Messages, OpenAt(b, m), m.from = s PROVE call[s].to = b
      BY <3>1 DEF OpenInv, WaitsFor
    <3>2. \/ \E i \in DOMAIN backlog[b] : backlog[b][i].from = s /\ backlog[b][i].open
          \/ router[b] # Idle /\ router[b].msg.from = s /\ router[b].msg.open
          => \E m \in Messages : OpenAt(b, m) /\ m.from = s
      BY Messaged DEF OpenAt
    <3> QED
      BY <2>1, <3>1, <3>2 DEF Close
  <2>4. \A n \in Nat : Copies(a, t, s, n)' <= Copies(a, t, s, n)
    BY <1>0, <2>2
  <2> QED
    BY <1>0, <2>1, <2>2, <2>3, <2>4, CopyAside
<1>10. ASSUME NEW b \in Receivers,
              Leave(b) \/ LeaveUnbind(b) \/ CleanUp(b) \/ Restart(b) \/ Subscribe(b)
       PROVE  CopyAt(a, t, s)'
  <2>1. UNCHANGED <<pc, call, calls, faults, answer, got, router, backlog>>
    BY <1>10 DEF Leave, LeaveUnbind, CleanUp, Restart, Subscribe, Outside, sender
  <2> QED
    BY <1>0, <1>2, <1>3, <2>1
<1>11. CASE UNCHANGED vars \/ \E i \in Inboxes : Receive(i)
  <2>1. UNCHANGED <<pc, call, calls, faults, answer, got, router, backlog>>
    BY <1>11 DEF vars, sender, receiver, Receive
  <2> QED
    BY <1>0, <1>2, <1>3, <2>1
<1> QED
  BY <1>4, <1>5, <1>6, <1>7, <1>8, <1>9, <1>10, <1>11 DEF Next, SAL_Publish, SAL_Send

LEMMA NoDuplicate == TypeOK /\ CopyInv => NoNeedlessDuplicate
<1> SUFFICES ASSUME TypeOK, CopyInv, NEW i \in Inboxes, NEW s \in Senders
             PROVE  /\ got[i][s][2] <= 1 + faults
                    /\ got[i][s][2] <= max_number_of_trials
  BY DEF NoNeedlessDuplicate
<1>1. PICK a \in Receivers, t \in Tids : i = <<a, t>>
  BY DEF Inboxes
<1>2. PICK n \in Nat : n = got[i][s][1]
  BY <1>1, GotType
<1>3. /\ Copies(a, t, s, n) <= 1 + faults /\ Copies(a, t, s, n) <= max_number_of_trials
  BY DEF CopyInv, CopyAt
<1>4. /\ Arrived(a, t, s, n) = got[i][s][2] /\ got[i][s][2] \in Nat
      /\ ToCome(a, t, s, n) \in Nat /\ Cardinality(Waiting(backlog[a], s, n)) \in Nat
  BY <1>1, <1>2, CopiesType, GotType DEF Arrived
<1>5. MaxFaults \in Nat /\ max_number_of_trials \in Nat
  BY DeliveryAssumption
<1>6. faults \in Nat
  BY <1>5 DEF TypeOK
<1> QED
  BY <1>3, <1>4, <1>5, <1>6 DEF Copies

-----------------------------------------------------------------------------
(* What callers are told agrees with the queues *)

\* DeliveryInv with what makes it inductive.
IInv ==
  TypeOK /\ CallInv /\ OpenInv /\ OrderInv /\ ToldInv /\ SentIsQueued /\ CopyInv

LEMMA InitIInv == Init => IInv
<1> SUFFICES ASSUME Init PROVE IInv
  OBVIOUS
<1>1. TypeOK
  BY InitType
<1>2. \A a \in Receivers : backlog[a] = << >> /\ router[a] = Idle
  BY DEF Init
<1>3. \A s \in Senders : /\ pc[s] = "idle" /\ calls[s] = 0 /\ answer[s] = "none"
                         /\ call[s].tid = 0 /\ call[s].status = FALSE
  BY DEF Init, NoCall
<1>4. \A a \in Receivers, t \in Tids, s \in Senders : got[<<a, t>>][s] = <<0, 0>>
  BY DEF Init, Inboxes
<1>5. CallInv /\ SentIsQueued
  BY <1>3 DEF CallInv, SentIsQueued
<1>6. OpenInv
  BY <1>2 DEF OpenInv, OneOpen, OpenAt
<1>7. OrderInv
  BY <1>2, <1>3, <1>4 DEF OrderInv, OrderAt, Of
<1>8. ToldInv
  BY <1>2, <1>3 DEF ToldInv, ToldAt, Idle
<1>9. CopyInv
  <2> SUFFICES ASSUME NEW a \in Receivers, NEW t \in Tids, NEW s \in Senders
               PROVE  CopyAt(a, t, s)
    BY DEF CopyInv
  <2>1. ASSUME NEW n \in Nat PROVE Copies(a, t, s, n) = 0
    <3>1. Arrived(a, t, s, n) = 0
      BY <1>4 DEF Arrived
    <3>2. ToCome(a, t, s, n) = 0 /\ Waiting(backlog[a], s, n) = {}
      BY <1>2 DEF ToCome, Waiting, Idle
    <3> QED
      BY <3>1, <3>2, FS_EmptySet DEF Copies
  <2>2. faults = 0 /\ max_number_of_trials \in Nat
    BY DeliveryAssumption DEF Init
  <2> QED
    BY <1>3, <2>1, <2>2 DEF CopyAt
<1> QED
  BY <1>1, <1>5, <1>6, <1>7, <1>8, <1>9 DEF IInv

LEMMA IInvStep == IInv /\ [Next]_vars => IInv'
<1> SUFFICES ASSUME IInv, [Next]_vars PROVE IInv'
  OBVIOUS
<1> USE DEF IInv
<1>1. TypeOK'
  BY StepType
<1>2. CallInv' /\ OpenInv' /\ OrderInv' /\ ToldInv'
  BY CallStep, OpenStep, OrderStep, ToldStep
<1>3. SentIsQueued'
  BY <1>1, <1>2, SentStep
<1>4. CopyInv'
  BY <1>1, CopyStep
<1> QED
  BY <1>1, <1>2, <1>3, <1>4

LEMMA IInvHolds == Spec => []IInv
BY InitIInv, IInvStep, PTL DEF Spec

\* What the callers are told agrees with what is in the queues, for any senders,
\* receivers, threads, queues and numbers of trials: a message comes twice only
\* after a reply was lost, and SAL_Send that returns true is in the queue.
THEOREM DeliveryCorrect == Spec => []DeliveryInv
<1>1. IInv => DeliveryInv
  BY NoDuplicate DEF IInv, DeliveryInv
<1> QED
  BY <1>1, IInvHolds, PTL

\* The messages of a thread come into each queue in the order they were sent.
THEOREM InOrder == Spec => SenderOrder
<1> DEFINE Ordered == \A i \in Inboxes, s \in Senders : got'[i][s][1] >= got[i][s][1]
<1>1. IInv /\ [Next]_vars => Ordered
  BY LastGrows DEF IInv, Inboxes
<1>2. IInv /\ [Next]_vars => [Ordered]_vars
  BY <1>1
<1> QED
  BY <1>2, IInvHolds, PTL DEF Spec, SenderOrder

-----------------------------------------------------------------------------
(* Receivers that stay up *)

\* A receiver that is up is bound to its present channel, and routed to when
\* it has subscribed.
UpAt(a) ==
  /\ alive[a] \in {"starting", "up"} => bound[<<a, 0>>] = life[a]
  /\ alive[a] = "up" /\ Subscribed[a] # {} => a \in routing
  /\ \A s \in Senders : a \in steady[s] => alive[a] = "up"

UpInv == \A a \in Receivers : UpAt(a)

\* A step that begins no call of s takes receivers from its steady ones only.
LEMMA SteadyShrinks ==
  ASSUME TypeOK, [Next]_vars, NEW s \in Senders, \A c : ~Begin(s, c)
  PROVE  steady'[s] \subseteq steady[s]
<1> USE DEF TypeOK
<1>1. ASSUME steady' = steady PROVE steady'[s] \subseteq steady[s]
  BY <1>1
<1>2. ASSUME NEW z \in Senders, NEW c, Begin(z, c) PROVE steady'[s] \subseteq steady[s]
  BY <1>2 DEF Begin
<1>3. ASSUME NEW z \in Senders, SenderStep(z) PROVE steady' = steady
  BY <1>3 DEF SenderStep, Connected, Connect, SAL_Connect, Send, SendFails, Replied, WaitFails,
     Invalidate
<1>4. ASSUME NEW z \in Senders, ReplyLost(z) PROVE steady'[s] \subseteq steady[s]
  BY <1>4 DEF ReplyLost
<1>5. ASSUME NEW a, NEW m, Dropped(m, a) PROVE steady'[s] \subseteq steady[s]
  BY <1>5 DEF Dropped
<1>6. ASSUME NEW a \in Receivers, RouterStep(a) PROVE steady'[s] \subseteq steady[s]
  <2>1. steady' = steady \/ \E m : Dropped(m, a)
    BY <1>6 DEF RouterStep, Process_Send, Process_Publish, PostCopy, PostLast, Reply
  <2> QED
    BY <1>5, <2>1
<1>7. ASSUME NEW a \in Receivers,
             Leave(a) \/ LeaveUnbind(a) \/ LeaveClose(a) \/ Crash(a) \/ CleanUp(a)
               \/ Restart(a) \/ Subscribe(a)
      PROVE  steady'[s] \subseteq steady[s]
  <2>1. steady' = steady \/ Unsteady(a)
    BY <1>7 DEF Leave, LeaveUnbind, LeaveClose, Crash, CleanUp, Restart, Subscribe
  <2> QED
    BY <2>1 DEF Unsteady
<1>8. CASE UNCHANGED vars \/ \E i \in Inboxes : Receive(i)
  BY <1>8 DEF vars, Receive
<1> QED
  BY <1>1, <1>2, <1>3, <1>4, <1>6, <1>7, <1>8 DEF Next, SAL_Publish, SAL_Send

\* What the life of a receiver is, but for the steps it takes itself.
LEMMA LifeAside ==
  ASSUME TypeOK, [Next]_vars, NEW a \in Receivers
  PROVE  \/ /\ alive'[a] = alive[a] /\ life'[a] = life[a] /\ bound'[<<a, 0>>] = bound[<<a, 0>>]
            /\ a \in routing' <=> a \in routing
         \/ Leave(a) \/ LeaveUnbind(a) \/ LeaveClose(a) \/ Crash(a) \/ CleanUp(a)
         \/ Restart(a) \/ Subscribe(a)
<1> DEFINE Same == /\ alive'[a] = alive[a] /\ life'[a] = life[a]
                   /\ bound'[<<a, 0>>] = bound[<<a, 0>>] /\ (a \in routing' <=> a \in routing)
<1>1. ASSUME UNCHANGED <<bound, routing, alive, life>> PROVE Same
  BY <1>1
<1>2. ASSUME NEW s \in Senders, SenderStep(s) \/ ReplyLost(s) \/ \E c : Begin(s, c) PROVE Same
  BY <1>1, <1>2 DEF SenderStep, ReplyLost, Begin, Connected, Connect, SAL_Connect, Send, SendFails,
     Replied, WaitFails, Invalidate, directory, receiver
<1>3. ASSUME NEW b \in Receivers, RouterStep(b) PROVE Same
  BY <1>1, <1>3 DEF RouterStep, Process_Send, Process_Publish, PostCopy, PostLast, Reply, Received,
     directory
<1>4. ASSUME NEW b \in Receivers \ {a},
             Leave(b) \/ LeaveUnbind(b) \/ LeaveClose(b) \/ Crash(b) \/ CleanUp(b)
               \/ Restart(b) \/ Subscribe(b)
      PROVE  Same
  <2>1. <<a, 0>> \in Directory!Keys
    BY DEF Directory!Keys
  <2>2. alive'[a] = alive[a] /\ life'[a] = life[a]
    BY <1>4 DEF Leave, LeaveUnbind, LeaveClose, Crash, CleanUp, Restart, Subscribe, TypeOK
  <2>3. bound' = bound \/ Directory!UnbindApp(b) \/ Directory!Bind(<<b, 0>>, life[b] + 1)
    BY <1>4 DEF Leave, LeaveUnbind, LeaveClose, Crash, CleanUp, Restart, Subscribe, directory
  <2>4. bound'[<<a, 0>>] = bound[<<a, 0>>]
    BY <2>1, <2>3 DEF Directory!UnbindApp, Directory!Bind, TypeOK
  <2>5. \/ routing' = routing \/ routing' = routing \ {b} \/ routing' = routing \cup {b}
    BY <1>4 DEF Leave, LeaveUnbind, LeaveClose, Crash, CleanUp, Restart, Subscribe, directory
  <2> QED
    BY <2>2, <2>4, <2>5
<1>5. ASSUME UNCHANGED vars \/ \E i \in Inboxes : Receive(i) PROVE Same
  BY <1>1, <1>5 DEF vars, directory, receiver, Receive
<1> DEFINE Life(b) == \/ Leave(b) \/ LeaveUnbind(b) \/ LeaveClose(b) \/ Crash(b) \/ CleanUp(b)
                      \/ Restart(b) \/ Subscribe(b)
<1>6. \A b \in Receivers : Life(b) => Same \/ b = a
  BY <1>4
<1> HIDE DEF Same
<1>7. Same \/ \E b \in Receivers : Life(b)
  <2>1. ASSUME NEW s \in Senders, SAL_Publish(s) \/ \E b, tid : SAL_Send(s, b, tid) PROVE Same
    BY <1>2, <2>1 DEF SAL_Publish, SAL_Send
  <2> QED
    BY <1>2, <1>3, <1>5, <2>1 DEF Next
<1> HIDE DEF Life
<1>8. Same \/ Life(a)
  BY <1>6, <1>7
<1> QED
  BY <1>8 DEF Same, Life

LEMMA UpStep == TypeOK /\ UpInv /\ [Next]_vars => UpInv'
<1> SUFFICES ASSUME TypeOK, UpInv, [Next]_vars, NEW a \in Receivers PROVE UpAt(a)'
  BY DEF UpInv
<1>0. UpAt(a) /\ <<a, 0>> \in Directory!Keys /\ life[a] \in Nat
  BY DeliveryAssumption DEF UpInv, Directory!Keys, TypeOK
<1>1. ASSUME NEW s \in Senders, a \in steady'[s] PROVE alive'[a] = "up"
  <2>1. CASE \E c : Begin(s, c)
    BY <1>1, <2>1 DEF Begin, Up, receiver, TypeOK
  <2>2. CASE \A c : ~Begin(s, c)
    <3>1. a \in steady[s] /\ alive[a] = "up"
      BY <1>0, <1>1, <2>2, SteadyShrinks DEF UpAt
    <3>2. CASE alive'[a] = alive[a]
      BY <3>1, <3>2
    <3>3. CASE Leave(a) \/ Crash(a)
      BY <1>1, <3>3 DEF Leave, Crash, Unsteady
    <3>4. CASE LeaveUnbind(a) \/ LeaveClose(a) \/ CleanUp(a) \/ Restart(a) \/ Subscribe(a)
      BY <3>1, <3>4 DEF LeaveUnbind, LeaveClose, CleanUp, Restart, Subscribe
    <3> QED
      BY <3>2, <3>3, <3>4, LifeAside
  <2> QED
    BY <2>1, <2>2
<1>2. ASSUME alive'[a] = alive[a], life'[a] = life[a], bound'[<<a, 0>>] = bound[<<a, 0>>],
             a \in routing' <=> a \in routing
      PROVE  UpAt(a)'
  BY <1>0, <1>1, <1>2 DEF UpAt
<1>3. CASE Leave(a) \/ LeaveUnbind(a) \/ LeaveClose(a) \/ Crash(a) \/ CleanUp(a)
  <2>1. alive'[a] \notin {"starting", "up"}
    BY <1>3 DEF Leave, LeaveUnbind, LeaveClose, Crash, CleanUp, TypeOK
  <2> QED
    BY <1>1, <2>1 DEF UpAt
<1>4. CASE Restart(a)
  <2>1. alive'[a] = "starting" /\ life'[a] = life[a] + 1 /\ bound'[<<a, 0>>] = life[a] + 1
    BY <1>0, <1>4 DEF Restart, Directory!Bind, TypeOK
  <2> QED
    BY <1>1, <2>1 DEF UpAt
<1>5. CASE Subscribe(a)
  <2>1. /\ alive[a] = "starting" /\ alive'[a] = "up" /\ life' = life /\ bound' = bound
        /\ Subscribed[a] # {} => a \in routing'
    BY <1>5 DEF Subscribe, TypeOK
  <2> QED
    BY <1>0, <1>1, <2>1 DEF UpAt
<1> QED
  BY <1>2, <1>3, <1>4, <1>5, LifeAside

LEMMA CallGoesOn ==
  ASSUME TypeOK, [Next]_vars, NEW s \in Senders
  PROVE  (\E c : Begin(s, c)) \/ (calls'[s] = calls[s] /\ steady'[s] \subseteq steady[s])
<1> SUFFICES ASSUME \A c : ~Begin(s, c) PROVE calls'[s] = calls[s]
  BY SteadyShrinks
<1>1. ASSUME NEW z \in Senders, NEW c, Begin(z, c) PROVE calls'[s] = calls[s]
  BY <1>1 DEF Begin, TypeOK
<1>2. ASSUME NEW z \in Senders, SenderStep(z) \/ ReplyLost(z) PROVE calls'[s] = calls[s]
  BY <1>2 DEF SenderStep, ReplyLost, Connected, Connect, SAL_Connect, Send, SendFails, Replied,
     WaitFails, Invalidate
<1>3. ASSUME NEW a \in Receivers, RouterStep(a) PROVE calls'[s] = calls[s]
  BY <1>3 DEF RouterStep, Process_Send, Process_Publish, PostCopy, PostLast, Reply, Received, sender
<1>4. ASSUME NEW a \in Receivers,
             Leave(a) \/ LeaveUnbind(a) \/ LeaveClose(a) \/ Crash(a) \/ CleanUp(a)
               \/ Restart(a) \/ Subscribe(a)
      PROVE  calls'[s] = calls[s]
  BY <1>4 DEF Leave, LeaveUnbind, LeaveClose, Crash, CleanUp, Restart, Subscribe, Outside, sender
<1>5. CASE UNCHANGED vars \/ \E i \in Inboxes : Receive(i)
  BY <1>5 DEF vars, sender, Receive
<1> QED
  BY <1>1, <1>2, <1>3, <1>4, <1>5 DEF Next, SAL_Publish, SAL_Send

\* All subscribed threads of a have the message n of s, or a later one.
Served(a, s, n) == \A t \in Subscribed[a] : got[<<a, t>>][s][1] >= n

LEMMA ServedGrows ==
  ASSUME TypeOK, OrderInv, [Next]_vars, NEW a \in Receivers, NEW s \in Senders, NEW n \in Nat,
         Served(a, s, n)
  PROVE  Served(a, s, n)'
<1> SUFFICES ASSUME NEW t \in Subscribed[a] PROVE got'[<<a, t>>][s][1] >= n
  BY DEF Served
<1>1. t \in Tids
  BY DeliveryAssumption DEF Tids
<1>2. /\ got'[<<a, t>>][s][1] \in Nat /\ got[<<a, t>>][s][1] \in Nat
      /\ got'[<<a, t>>][s][1] >= got[<<a, t>>][s][1]
  BY <1>1, LastGrows, GotType
<1> QED
  BY <1>2 DEF Served

\* A router that has the message of a call of a sender steady with it brings it
\* to every subscribed thread, and tells so.
RouterServesAt(a) ==
  LET r == router[a]
  IN  r # Idle /\ a \in steady[r.msg.from] /\ r.msg.n = calls[r.msg.from] =>
        /\ r.at = "post" => \A t \in Subscribed[a] :
             t <= r.last /\ (t < r.next => got[<<a, t>>][r.msg.from][1] >= r.msg.n)
        /\ r.at = "reply" => IF r.msg.tid = 0 THEN Served(a, r.msg.from, r.msg.n) ELSE r.status

RouterServes == \A a \in Receivers : RouterServesAt(a)

\* Where the router does not move.
LEMMA ServesAside ==
  ASSUME TypeOK, OrderInv, [Next]_vars, NEW a \in Receivers, RouterServesAt(a),
         \/ router'[a] = Idle
         \/ /\ router[a] # Idle /\ router'[a].at = router[a].at
            /\ router'[a].msg.from = router[a].msg.from /\ router'[a].msg.n = router[a].msg.n
            /\ router'[a].msg.tid = router[a].msg.tid
            /\ router[a].at = "post" =>
                 router'[a].last = router[a].last /\ router'[a].next = router[a].next
            /\ router[a].at = "reply" => router'[a].status = router[a].status
  PROVE  RouterServesAt(a)'
<1> DEFINE m == router[a].msg  s == m.from  n == m.n
<1> SUFFICES ASSUME router'[a] # Idle, router[a] # Idle, router'[a].at = router[a].at,
                    router'[a].msg.from = s, router'[a].msg.n = n, router'[a].msg.tid = m.tid,
                    router[a].at = "post" =>
                      router'[a].last = router[a].last /\ router'[a].next = router[a].next,
                    router[a].at = "reply" => router'[a].status = router[a].status,
                    a \in steady'[s], n = calls'[s]
             PROVE  RouterServesAt(a)'
  BY DEF RouterServesAt
<1>1. m \in Messages /\ s \in Senders /\ n \in Nat
  BY Messaged, MessageFields
<1> HIDE DEF m, s, n
<1>2. calls'[s] = calls[s] /\ steady'[s] \subseteq steady[s]
  <2>1. n <= calls[s] /\ calls[s] \in Nat
    BY <1>1 DEF OrderInv, OrderAt, TypeOK, m, s, n
  <2>2. ~ \E c : Begin(s, c)
    BY <1>1, <2>1 DEF Begin, TypeOK
  <2> QED
    BY <1>1, <2>2, CallGoesOn
<1>3. a \in steady[s] /\ n = calls[s]
  BY <1>2
<1>4. \A t \in Subscribed[a] : got[<<a, t>>][s][1] >= n => got'[<<a, t>>][s][1] >= n
  <2> SUFFICES ASSUME NEW t \in Subscribed[a], got[<<a, t>>][s][1] >= n
               PROVE  got'[<<a, t>>][s][1] >= n
    OBVIOUS
  <2>1. t \in Tids
    BY DeliveryAssumption DEF Tids
  <2>2. /\ got'[<<a, t>>][s][1] \in Nat /\ got[<<a, t>>][s][1] \in Nat
        /\ got'[<<a, t>>][s][1] >= got[<<a, t>>][s][1]
    BY <1>1, <2>1, LastGrows, GotType
  <2> QED
    BY <1>1, <2>2
<1>5. CASE router[a].at = "post"
  BY <1>3, <1>4, <1>5 DEF RouterServesAt, m, s, n
<1>6. CASE router[a].at = "reply"
  <2>1. IF m.tid = 0 THEN Served(a, s, n) ELSE router[a].status
    BY <1>3, <1>6 DEF RouterServesAt, m, s, n
  <2>2. IF m.tid = 0 THEN \A t \in Subscribed[a] : got'[<<a, t>>][s][1] >= n ELSE router'[a].status
    BY <1>4, <1>6, <2>1 DEF Served
  <2> QED
    BY <1>6, <2>2 DEF RouterServesAt, Served
<1>7. CASE router[a].at \notin {"post", "reply"}
  BY <1>7 DEF RouterServesAt
<1> QED
  BY <1>5, <1>6, <1>7

\* The router takes a message: nobody steady with it is left out.
LEMMA ProcessServes ==
  ASSUME TypeOK, OrderInv, [Next]_vars, NEW a \in Receivers, NEW i,
         Process_Send(a, i) \/ Process_Publish(a, i)
  PROVE  RouterServesAt(a)'
<1> DEFINE m == backlog[a][1]
<1>1. i = 1 /\ m \in Messages /\ m.from \in Senders /\ m.n \in Nat
  BY TakeIs, MessageFields DEF Process_Send, Process_Publish
<1> HIDE DEF m
<1>2. Dropped(m, a) => a \notin steady'[m.from]
  BY <1>1 DEF Dropped, TypeOK
<1>3. CASE Process_Send(a, i)
  <2>1. m.tid # 0
    BY <1>1, <1>3 DEF Process_Send, m
  <2>2. \/ router' = [router EXCEPT ![a] = [at |-> "reply", msg |-> m, status |-> TRUE]]
        \/ router' = [router EXCEPT ![a] = [at |-> "reply", msg |-> m, status |-> FALSE]]
           /\ Dropped(m, a)
    BY <1>1, <1>3 DEF Process_Send, m
  <2>3. /\ router'[a].at = "reply" /\ router'[a].msg = m
        /\ router'[a].status = TRUE \/ Dropped(m, a)
    BY <2>2 DEF TypeOK
  <2> QED
    BY <1>2, <2>1, <2>3 DEF RouterServesAt
<1>4. CASE Process_Publish(a, i)
  <2> DEFINE last == LastTid(a)
  <2>1. /\ m.tid = 0
        /\ \/ /\ last # 0
              /\ router' = [router EXCEPT ![a] =
                   [at |-> "post", msg |-> m, last |-> last, next |-> 1]]
              /\ IF \E t \in Subscribed[a] : t > last THEN Dropped(m, a) ELSE UNCHANGED steady
           \/ /\ router' = [router EXCEPT ![a] = [at |-> "reply", msg |-> m, status |-> TRUE]]
              /\ Dropped(m, a)
    BY <1>1, <1>4 DEF Process_Publish, m
  <2>2. last \in Nat /\ \A t \in Subscribed[a] : t \in Nat /\ t >= 1
    <3>1. MaxThreads \in Nat /\ Subscribed[a] \in SUBSET (1..MaxThreads)
      BY DeliveryAssumption
    <3>2. \A t \in Subscribed[a] : t \in Nat /\ t >= 1
      BY <3>1
    <3>3. last = 0 \/ last \in Subscribed[a]
      BY LastTidIs
    <3> QED
      BY <3>2, <3>3
  <2> HIDE DEF last
  <2>3. CASE Dropped(m, a)
    <3>1. router'[a].msg = m
      BY <2>1 DEF TypeOK
    <3> QED
      BY <1>2, <2>3, <3>1 DEF RouterServesAt
  <2>4. CASE ~Dropped(m, a)
    <3>1. /\ router'[a].at = "post" /\ router'[a].last = last /\ router'[a].next = 1
          /\ \A t \in Subscribed[a] : ~(t > last)
      BY <2>1, <2>4 DEF TypeOK
    <3> QED
      BY <2>2, <3>1 DEF RouterServesAt
  <2> QED
    BY <2>3, <2>4
<1> QED
  BY <1>3, <1>4

\* The router copies the message into one queue after the other.
LEMMA PostServes ==
  ASSUME TypeOK, OrderInv, [Next]_vars, NEW a \in Receivers, RouterServesAt(a), ToldAt(a),
         PostCopy(a) \/ PostLast(a)
  PROVE  RouterServesAt(a)'
<1> DEFINE m == router[a].msg  s == m.from  n == m.n
<1>1. /\ m \in Messages /\ s \in Senders /\ n \in Nat /\ router[a] # Idle
      /\ router'[a].msg = m /\ calls' = calls /\ router[a].at = "post"
      /\ router[a].last \in Tids /\ router[a].next \in Nat
  BY PostIs, MessageFields DEF sender
<1>2. /\ PostCopy(a) => /\ router[a].next < router[a].last /\ router'[a].at = "post"
                        /\ router'[a].last = router[a].last
                        /\ router'[a].next = router[a].next + 1
      /\ PostLast(a) => /\ router[a].next >= router[a].last
                        /\ router'[a].at = "reply" /\ router'[a].status = TRUE
  BY PostIs
<1>3. m.tid = 0
  BY <1>1 DEF ToldAt
<1>4. \A t \in Subscribed[a] : t \in Nat /\ t \in Tids
  <2>1. MaxThreads \in Nat /\ Subscribed[a] \in SUBSET (1..MaxThreads)
    BY DeliveryAssumption
  <2> QED
    BY <2>1 DEF Tids
<1>5. router[a].last \in Nat
  BY <1>1, DeliveryAssumption DEF Tids
<1> HIDE DEF m, s, n
<1>6. SUFFICES ASSUME a \in steady'[s], n = calls[s] PROVE RouterServesAt(a)'
  BY <1>1 DEF RouterServesAt, s, n
<1>7. a \in steady[s]
  <2>1. steady' = steady \/ Dropped(m, a)
    BY DEF PostCopy, PostLast, m
  <2> QED
    BY <1>1, <1>6, <2>1 DEF Dropped, TypeOK, s
<1>8. \A t \in Subscribed[a] : /\ t <= router[a].last
                               /\ t < router[a].next => got[<<a, t>>][s][1] >= n
  BY <1>1, <1>6, <1>7 DEF RouterServesAt, m, s, n
<1>9. ASSUME NEW t \in Subscribed[a], got[<<a, t>>][s][1] >= n PROVE got'[<<a, t>>][s][1] >= n
  <2>1. /\ got'[<<a, t>>][s][1] \in Nat /\ got[<<a, t>>][s][1] \in Nat
        /\ got'[<<a, t>>][s][1] >= got[<<a, t>>][s][1]
    BY <1>1, <1>4, LastGrows, GotType
  <2> QED
    BY <1>1, <1>9, <2>1
<1>10. ASSUME NEW t \in Tids, Arrives(<<a, t>>, m) PROVE got'[<<a, t>>][s][1] >= n
  <2>1. got'[<<a, t>>][m.from] = IF got[<<a, t>>][m.from][1] = m.n
              THEN <<m.n, got[<<a, t>>][m.from][2] + 1>> ELSE <<m.n, 1>>
    BY <1>1, <1>10, ArrivesIs, Zenon
  <2>2. got'[<<a, t>>][s][1] = n
    BY <2>1 DEF s, n
  <2> QED
    BY <1>1, <2>2
<1>11. CASE PostCopy(a)
  <2> DEFINE next == router[a].next
  <2>1. next \in Subscribed[a] => Arrives(<<a, next>>, m)
    <3>1. Dropped(m, a) => a \notin steady'[s]
      BY <1>1 DEF Dropped, TypeOK, s
    <3> QED
      BY <1>6, <1>11, <3>1 DEF PostCopy, m
  <2>2. \A t \in Subscribed[a] : t < next + 1 => got'[<<a, t>>][s][1] >= n
    <3> SUFFICES ASSUME NEW t \in Subscribed[a], t < next + 1 PROVE got'[<<a, t>>][s][1] >= n
      OBVIOUS
    <3>1. t < next \/ t = next
      BY <1>1, <1>4
    <3> QED
      BY <1>4, <1>8, <1>9, <1>10, <2>1, <3>1
  <2> QED
    BY <1>1, <1>2, <1>8, <1>11, <2>2 DEF RouterServesAt, m, s, n
<1>12. CASE PostLast(a)
  <2>1. Arrives(<<a, router[a].last>>, m)
    BY <1>12 DEF PostLast, m
  <2>2. \A t \in Subscribed[a] : got'[<<a, t>>][s][1] >= n
    <3> SUFFICES ASSUME NEW t \in Subscribed[a] PROVE got'[<<a, t>>][s][1] >= n
      OBVIOUS
    <3>1. t < router[a].next \/ t = router[a].last
      <4>1. router[a].next >= router[a].last
        BY <1>2, <1>12
      <4>2. t \in Nat /\ router[a].next \in Nat /\ t <= router[a].last
        BY <1>1, <1>4, <1>8
      <4> QED
        BY <1>5, <4>1, <4>2
    <3> QED
      BY <1>1, <1>4, <1>8, <1>9, <1>10, <2>1, <3>1
  <2> QED
    BY <1>1, <1>2, <1>3, <1>12, <2>2 DEF RouterServesAt, Served, m, s, n
<1> QED
  BY <1>11, <1>12

LEMMA ServesStep ==
  TypeOK /\ OrderInv /\ ToldInv /\ RouterServes /\ [Next]_vars => RouterServes'
<1> SUFFICES ASSUME TypeOK, OrderInv, ToldInv, RouterServes, [Next]_vars, NEW a \in Receivers
             PROVE  RouterServesAt(a)'
  BY DEF RouterServes
<1>0. RouterServesAt(a) /\ ToldAt(a)
  BY DEF RouterServes, ToldInv
<1>1. ASSUME router'[a] = router[a] \/ router'[a] = Idle PROVE RouterServesAt(a)'
  BY <1>0, <1>1, ServesAside
<1>2. ASSUME NEW s \in Senders, ReplyLost(s) PROVE RouterServesAt(a)'
  BY <1>0, <1>2, LostMessages, ServesAside
<1>3. ASSUME NEW s \in Senders, SenderStep(s) \/ \E c : Begin(s, c) PROVE RouterServesAt(a)'
  <2>1. router' = router
    BY <1>3 DEF SenderStep, Begin, Connected, Connect, SAL_Connect,
       Send, SendFails, Replied, WaitFails, Invalidate, receiver
  <2> QED
    BY <1>1, <2>1
<1>4. ASSUME NEW b \in Receivers, RouterStep(b) PROVE RouterServesAt(a)'
  <2>1. CASE Reply(b)
    <3>1. router'[a] = router[a] \/ router'[a] = Idle
      BY <2>1 DEF Reply, TypeOK
    <3> QED
      BY <1>1, <3>1
  <2>2. ASSUME NEW i, Process_Send(b, i) \/ Process_Publish(b, i) PROVE RouterServesAt(a)'
    <3>1. a # b => router'[a] = router[a]
      BY <2>2, ProcessIs
    <3>2. CASE a = b
      BY <2>2, <3>2, ProcessServes
    <3> QED
      BY <1>1, <3>1, <3>2
  <2>3. CASE PostCopy(b) \/ PostLast(b)
    <3>1. a # b => router'[a] = router[a]
      BY <2>3, PostIs
    <3>2. CASE a = b
      BY <1>0, <2>3, <3>2, PostServes
    <3> QED
      BY <1>1, <3>1, <3>2
  <2> QED
    BY <1>4, <2>1, <2>2, <2>3 DEF RouterStep
<1>5. ASSUME NEW b \in Receivers,
             Leave(b) \/ LeaveUnbind(b) \/ LeaveClose(b) \/ Crash(b) \/ CleanUp(b)
               \/ Restart(b) \/ Subscribe(b)
      PROVE  RouterServesAt(a)'
  <2>1. router'[a] = router[a] \/ router'[a] = Idle
    BY <1>5 DEF Leave, LeaveUnbind, LeaveClose, Crash, CleanUp, Restart, Subscribe, Close, TypeOK
  <2> QED
    BY <1>1, <2>1
<1>6. CASE UNCHANGED vars \/ \E i \in Inboxes : Receive(i)
  <2>1. router' = router
    BY <1>6 DEF vars, receiver, Receive
  <2> QED
    BY <1>1, <2>1
<1> QED
  BY <1>2, <1>3, <1>4, <1>5, <1>6 DEF Next, SAL_Publish, SAL_Send

\* A call loses one trial at most with a receiver that is steady: the first, on
\* a stale connection.  It goes on only when the receiver is served.
TrialServes(s, a) ==
  /\ call[s].trial >= 1 => connection[a] \in {None, life[a]}
  /\ call[s].trial >= 1 /\ pc[s] = "send" => call[s].over = life[a]
  /\ pc[s] = "fail" => call[s].trial = 0
  /\ pc[s] = "wait" =>
       /\ answer[s] # "closed"
       /\ answer[s] \in {"true", "false"} =>
            IF call[s].tid = 0 THEN Served(a, s, calls[s]) ELSE answer[s] = "true"

CallServesAt(s, a) ==
  a \in steady[s] /\ pc[s] # "idle" =>
    /\ a = call[s].to => TrialServes(s, a)
    /\ a < call[s].to /\ call[s].tid = 0 => Served(a, s, calls[s])

CallServes == \A s \in Senders, a \in Receivers : CallServesAt(s, a)

\* What a receiver that stays steady is.
LEMMA SteadyLife ==
  ASSUME TypeOK, UpInv, [Next]_vars, NEW s \in Senders, NEW a \in Receivers,
         a \in steady[s], a \in steady'[s]
  PROVE  /\ alive[a] = "up" /\ bound[<<a, 0>>] = life[a] /\ life[a] # None
         /\ life'[a] = life[a] /\ alive'[a] = "up"
         /\ Subscribed[a] # {} => a \in routing
         /\ a \in routing' <=> a \in routing
<1>1. /\ alive[a] = "up" /\ bound[<<a, 0>>] = life[a]
      /\ Subscribed[a] # {} => a \in routing
  BY DEF UpInv, UpAt
<1>2. life[a] # None
  BY DeliveryAssumption DEF TypeOK, None
<1>3. ~(Leave(a) \/ Crash(a))
  BY DEF Leave, Crash, Unsteady
<1>4. ~(LeaveUnbind(a) \/ LeaveClose(a) \/ CleanUp(a) \/ Restart(a) \/ Subscribe(a))
  BY <1>1 DEF LeaveUnbind, LeaveClose, CleanUp, Restart, Subscribe
<1> QED
  BY <1>1, <1>2, <1>3, <1>4, LifeAside

\* A call that stays where it is, while others make and end the connection.
LEMMA CallServesAside ==
  ASSUME TypeOK, OrderInv, UpInv, [Next]_vars, NEW s \in Senders, NEW a \in Receivers,
         CallServesAt(s, a), steady'[s] \subseteq steady[s],
         pc'[s] = pc[s], call'[s] = call[s], calls'[s] = calls[s],
         \/ connection'[a] = connection[a] \/ connection'[a] = bound[<<a, 0>>]
         \/ connection'[a] = None,
         a \in steady'[s] /\ pc[s] = "wait" /\ a = call[s].to =>
           \/ answer'[s] = answer[s]
           \/ /\ answer'[s] \in {"true", "false"}
              /\ IF call[s].tid = 0 THEN Served(a, s, calls[s]) ELSE answer'[s] = "true"
  PROVE  CallServesAt(s, a)'
<1> SUFFICES ASSUME a \in steady'[s], pc[s] # "idle"
             PROVE  /\ a = call[s].to => TrialServes(s, a)'
                    /\ a < call[s].to /\ call[s].tid = 0 => Served(a, s, calls[s])'
  BY DEF CallServesAt
<1>1. a \in steady[s] /\ life'[a] = life[a] /\ bound[<<a, 0>>] = life[a] /\ calls[s] \in Nat
  BY SteadyLife DEF TypeOK
<1>2. PICK k \in Nat : k = calls[s] /\ k = calls'[s]
  BY <1>1
<1>3. Served(a, s, k) => Served(a, s, k)'
  BY ServedGrows
<1>4. /\ a = call[s].to => TrialServes(s, a)
      /\ a < call[s].to /\ call[s].tid = 0 => Served(a, s, k)
  BY <1>1, <1>2 DEF CallServesAt
<1>5. Served(a, s, calls[s])' <=> Served(a, s, k)'
  BY <1>2 DEF Served
<1>6. ASSUME a = call[s].to PROVE TrialServes(s, a)'
  BY <1>1, <1>2, <1>3, <1>4, <1>5, <1>6 DEF TrialServes
<1> QED
  BY <1>3, <1>4, <1>5, <1>6

\* The steps of the call itself.
LEMMA OwnServes ==
  ASSUME TypeOK, CallInv, UpInv, [Next]_vars, NEW s \in Senders, NEW a \in Receivers,
         CallServesAt(s, a), SenderStep(s)
  PROVE  CallServesAt(s, a)'
<1>1. UNCHANGED <<steady, got, bound, routing, life, calls>>
  BY DEF SenderStep, Connected, Connect, SAL_Connect, Send, SendFails, Replied, WaitFails,
     Invalidate, directory, receiver
<1> SUFFICES ASSUME a \in steady[s], pc'[s] # "idle"
             PROVE  /\ a = call'[s].to => TrialServes(s, a)'
                    /\ a < call'[s].to /\ call'[s].tid = 0 => Served(a, s, calls[s])
  BY <1>1 DEF CallServesAt, Served
<1>2. /\ alive[a] = "up" /\ bound[<<a, 0>>] = life[a] /\ life[a] # None
      /\ Subscribed[a] # {} => a \in routing
  BY <1>1, SteadyLife
<1>3. /\ call[s] \in Calls /\ call[s].trial \in Nat /\ call[s].to \in Nat /\ a \in Nat
      /\ max_number_of_trials \in Nat /\ max_number_of_trials >= 2
      /\ call'[s].tid \in Nat
      /\ \A b \in Receivers : b \in Nat
  <2>1. call[s] \in Calls /\ call'[s] \in Calls
    <3>1. TypeOK'
      BY StepType
    <3> QED
      BY <3>1 DEF TypeOK
  <2>2. \A b \in Receivers : b \in Nat
    BY DeliveryAssumption
  <2>3. max_number_of_trials \in Nat /\ max_number_of_trials >= 2 /\ MaxThreads \in Nat
    BY DeliveryAssumption
  <2>4. call'[s].tid \in 0..MaxThreads
    BY <2>1, CallsFields
  <2> QED
    BY <2>1, <2>2, <2>3, <2>4, CallsFields
<1>4. pc[s] # "idle"
  BY DEF SenderStep, Connected, Connect, SAL_Connect, Send, SendFails, Replied, WaitFails,
     Invalidate, Goto
<1>5. /\ a = call[s].to => TrialServes(s, a)
      /\ a < call[s].to /\ call[s].tid = 0 => Served(a, s, calls[s])
  BY <1>4 DEF CallServesAt
<1> DEFINE Goal == /\ a = call'[s].to => TrialServes(s, a)'
                   /\ a < call'[s].to /\ call'[s].tid = 0 => Served(a, s, calls[s])
<1>6. ASSUME call'[s].to = call[s].to, call'[s].tid = call[s].tid, a = call[s].to => TrialServes(s, a)'
      PROVE  Goal
  BY <1>5, <1>6
<1>7. ASSUME NEW st \in BOOLEAN, Done(s, st), a <= call[s].to /\ call[s].tid = 0 => Served(a, s, calls[s])
      PROVE  Goal
  <2>1. /\ call[s].tid = 0 /\ call'[s].to \in Receivers /\ call'[s].to > call[s].to
        /\ \A b \in routing : b > call[s].to => call'[s].to <= b
        /\ pc'[s] = "trial" /\ call'[s].trial = 0
    <3>1. pc' = [pc EXCEPT ![s] = "idle"] => pc'[s] = "idle"
      BY DEF TypeOK
    <3>2. pc' = [pc EXCEPT ![s] = "trial"] => pc'[s] = "trial"
      BY DEF TypeOK
    <3> QED
      BY <1>4, <1>7, <3>1, <3>2, DoneIs
  <2>2. a = call'[s].to => TrialServes(s, a)'
    BY <2>1 DEF TrialServes
  <2>3. ASSUME a < call'[s].to PROVE Served(a, s, calls[s])
    <3>1. CASE Subscribed[a] = {}
      BY <3>1 DEF Served
    <3>2. CASE Subscribed[a] # {}
      <4>1. a \in routing /\ call'[s].to \in Nat
        BY <1>2, <1>3, <2>1, <3>2
      <4>2. ~(a > call[s].to)
        <5>1. a > call[s].to => call'[s].to <= a
          BY <2>1, <4>1
        <5> QED
          BY <1>3, <2>3, <4>1, <5>1
      <4> QED
        BY <1>3, <1>7, <2>1, <4>2
    <3> QED
      BY <3>1, <3>2
  <2> QED
    BY <2>2, <2>3
<1> HIDE DEF Goal
<1>8. CASE Connected(s)
  <2>1. /\ pc[s] = "trial" /\ pc'[s] = "send" /\ UNCHANGED <<connection, life>>
        /\ call' = [call EXCEPT ![s].over = connection[call[s].to]] /\ connection[call[s].to] # None
    BY <1>8 DEF Connected, Goto, receiver, TypeOK
  <2>2. /\ call'[s].to = call[s].to /\ call'[s].trial = call[s].trial /\ call'[s].tid = call[s].tid
        /\ call'[s].over = connection[call[s].to]
    BY <1>3, <2>1 DEF Calls, TypeOK
  <2>3. a = call[s].to => TrialServes(s, a)'
    BY <1>5, <2>1, <2>2 DEF TrialServes
  <2> QED
    BY <1>6, <2>2, <2>3 DEF Goal
<1>9. CASE Connect(s)
  <2>1. UNCHANGED <<connection, life, call>> /\ pc'[s] = "resolve"
    BY <1>9 DEF Connect, Goto, receiver, TypeOK
  <2>2. a = call[s].to => TrialServes(s, a)'
    BY <1>5, <2>1 DEF TrialServes
  <2> QED
    BY <1>6, <2>1, <2>2 DEF Goal
<1>10. CASE SAL_Connect(s)
  <2>1. /\ pc'[s] = IF bound[<<call[s].to, 0>>] = None THEN "fail" ELSE "send"
        /\ call' = [call EXCEPT ![s].over = bound[<<call[s].to, 0>>]]
        /\ connection' = [connection EXCEPT ![call[s].to] = bound[<<call[s].to, 0>>]]
    BY <1>10 DEF SAL_Connect, Goto, TypeOK
  <2>2. /\ call'[s].to = call[s].to /\ call'[s].trial = call[s].trial /\ call'[s].tid = call[s].tid
        /\ call'[s].over = bound[<<call[s].to, 0>>]
    BY <1>3, <2>1 DEF Calls, TypeOK
  <2>3. ASSUME a = call[s].to PROVE TrialServes(s, a)'
    <3>1. pc'[s] = "send" /\ connection'[a] = life'[a] /\ call'[s].over = life'[a]
      BY <1>1, <1>2, <2>1, <2>2, <2>3 DEF TypeOK
    <3> QED
      BY <3>1 DEF TrialServes
  <2> QED
    BY <1>6, <2>2, <2>3 DEF Goal
<1>11. CASE Send(s)
  <2>1. pc'[s] = "wait" /\ answer'[s] = "none" /\ UNCHANGED <<connection, call>>
    BY <1>11 DEF Send, Goto, CallInv, TypeOK
  <2>2. a = call[s].to => TrialServes(s, a)'
    BY <1>1, <1>5, <2>1 DEF TrialServes
  <2> QED
    BY <1>6, <2>1, <2>2 DEF Goal
<1>12. CASE SendFails(s)
  <2>1. pc[s] = "send" /\ pc'[s] = "fail" /\ UNCHANGED <<connection, call>> /\ ~Reachable(s)
    BY <1>12 DEF SendFails, Goto, receiver, TypeOK
  <2>2. ASSUME a = call[s].to PROVE TrialServes(s, a)'
    <3>1. call[s].over # life[a]
      BY <1>2, <2>1, <2>2 DEF Reachable
    <3>2. call[s].trial = 0
      BY <1>3, <1>5, <2>1, <2>2, <3>1 DEF TrialServes
    <3> QED
      BY <2>1, <3>2 DEF TrialServes
  <2> QED
    BY <1>6, <2>1, <2>2 DEF Goal
<1>13. CASE Replied(s)
  <2>1. Done(s, answer[s] = "true") /\ pc[s] = "wait" /\ answer[s] \in {"true", "false"}
    BY <1>13 DEF Replied
  <2>2. a <= call[s].to /\ call[s].tid = 0 => Served(a, s, calls[s])
    BY <1>3, <1>5, <2>1 DEF TrialServes
  <2>3. (answer[s] = "true") \in BOOLEAN
    OBVIOUS
  <2> QED
    BY <1>7, <2>1, <2>2, <2>3 DEF Goal
<1>14. CASE WaitFails(s)
  <2>1. pc[s] = "wait" /\ answer[s] = "closed" /\ call' = call
    BY <1>14 DEF WaitFails, Goto
  <2>2. a # call[s].to
    BY <1>5, <2>1 DEF TrialServes
  <2> QED
    BY <1>6, <2>1, <2>2 DEF Goal
<1>15. CASE Invalidate(s)
  <2>1. /\ pc[s] = "fail" /\ call[s].to \in Receivers
        /\ \/ /\ pc' = [pc EXCEPT ![s] = "trial"]
              /\ call' = [call EXCEPT ![s].trial = @ + 1]
              /\ call[s].trial + 1 < max_number_of_trials
           \/ ~(call[s].trial + 1 < max_number_of_trials) /\ Done(s, FALSE)
    BY <1>15, InvalidateIs
  <2>2. connection' = [connection EXCEPT ![call[s].to] = None]
    BY <1>15 DEF Invalidate
  <2>3. CASE pc' = [pc EXCEPT ![s] = "trial"] /\ call' = [call EXCEPT ![s].trial = @ + 1]
    <3>1. /\ call'[s].to = call[s].to /\ call'[s].tid = call[s].tid /\ pc'[s] = "trial"
      BY <1>3, <2>3 DEF Calls, TypeOK
    <3>2. a = call[s].to => connection'[a] = None
      BY <2>2 DEF TypeOK
    <3>3. a = call[s].to => TrialServes(s, a)'
      BY <3>1, <3>2 DEF TrialServes
    <3> QED
      BY <1>6, <3>1, <3>3 DEF Goal
  <2>4. CASE ~(call[s].trial + 1 < max_number_of_trials) /\ Done(s, FALSE)
    <3>1. call[s].trial >= 1
      BY <1>3, <2>4
    <3>2. a # call[s].to
      BY <1>5, <2>1, <3>1 DEF TrialServes
    <3>3. a <= call[s].to /\ call[s].tid = 0 => Served(a, s, calls[s])
      BY <1>3, <1>5, <3>2
    <3> QED
      BY <1>7, <2>4, <3>3 DEF Goal
  <2> QED
    BY <2>1, <2>3, <2>4
<1> QED
  BY <1>8, <1>9, <1>10, <1>11, <1>12, <1>13, <1>14, <1>15 DEF SenderStep, Goal

\* A call begins with the first application that the routing table names.
LEMMA BeginServes ==
  ASSUME TypeOK, CallInv, UpInv, [Next]_vars, NEW s \in Senders, NEW a \in Receivers,
         SAL_Publish(s) \/ \E b \in Receivers, tid \in SendTids[s] : SAL_Send(s, b, tid)
  PROVE  CallServesAt(s, a)'
<1> SUFFICES ASSUME a \in steady'[s], pc'[s] # "idle"
             PROVE  /\ a = call'[s].to => TrialServes(s, a)'
                    /\ a < call'[s].to /\ call'[s].tid = 0 => Served(a, s, calls[s])'
  BY DEF CallServesAt
<1>1. ASSUME NEW c \in Calls, Begin(s, c)
      PROVE  call'[s] = c /\ pc'[s] = "trial" /\ alive[a] = "up"
  BY <1>1 DEF Begin, Goto, Up, TypeOK
<1>2. CASE \E b \in Receivers, tid \in SendTids[s] : SAL_Send(s, b, tid)
  <2>1. PICK b \in Receivers, tid \in SendTids[s] : SAL_Send(s, b, tid)
    BY <1>2
  <2>2. [NoCall EXCEPT !.to = b, !.tid = tid] \in Calls
    BY SendCallType
  <2>3. call'[s] = [NoCall EXCEPT !.to = b, !.tid = tid] /\ pc'[s] = "trial"
    BY <1>1, <2>1, <2>2 DEF SAL_Send
  <2>4. call'[s].trial = 0 /\ call'[s].tid # 0
    BY <2>3, DeliveryAssumption DEF NoCall
  <2> QED
    BY <2>3, <2>4 DEF TrialServes
<1>3. CASE SAL_Publish(s)
  <2>1. [NoCall EXCEPT !.to = NextApp(None)] \in Calls
    BY CallsType DEF Calls, None
  <2>2. call'[s] = [NoCall EXCEPT !.to = NextApp(None)] /\ pc'[s] = "trial" /\ alive[a] = "up"
    BY <1>1, <1>3, <2>1 DEF SAL_Publish
  <2>3. call'[s].trial = 0 /\ call'[s].to = NextApp(None)
    BY <2>2 DEF NoCall
  <2>4. ASSUME a < NextApp(None) PROVE Subscribed[a] = {}
    <3>1. Subscribed[a] # {} => a \in routing
      BY <2>2 DEF UpInv, UpAt
    <3>2. a \in Nat \ {0}
      BY DeliveryAssumption
    <3>3. NextApp(0) = 0 \/ (NextApp(0) \in Nat /\ \A b \in routing : b > 0 => NextApp(0) <= b)
      BY NextAppIs, DeliveryAssumption DEF None
    <3> QED
      BY <2>4, <3>1, <3>2, <3>3 DEF None
  <2>5. a < NextApp(None) => Served(a, s, calls[s])'
    BY <2>4 DEF Served
  <2> QED
    BY <2>2, <2>3, <2>5 DEF TrialServes
<1> QED
  BY <1>2, <1>3

LEMMA CallServesStep ==
  /\ TypeOK /\ CallInv /\ OpenInv /\ OrderInv /\ UpInv /\ RouterServes /\ CallServes /\ [Next]_vars
  => CallServes'
<1> SUFFICES ASSUME TypeOK, CallInv, OpenInv, OrderInv, UpInv, RouterServes, CallServes,
                    [Next]_vars, NEW s \in Senders, NEW a \in Receivers
             PROVE  CallServesAt(s, a)'
  BY DEF CallServes
<1>0. CallServesAt(s, a)
  BY DEF CallServes
<1>1. ASSUME pc'[s] = pc[s], call'[s] = call[s], calls'[s] = calls[s],
             steady'[s] \subseteq steady[s],
             \/ connection'[a] = connection[a] \/ connection'[a] = bound[<<a, 0>>]
             \/ connection'[a] = None,
             answer'[s] = answer[s]
      PROVE  CallServesAt(s, a)'
  BY <1>0, <1>1, CallServesAside
<1>2. ASSUME NEW z \in Senders, z # s, SenderStep(z) \/ ReplyLost(z) \/ \E c : Begin(z, c)
      PROVE  CallServesAt(s, a)'
  <2>1. /\ pc'[s] = pc[s] /\ call'[s] = call[s] /\ calls'[s] = calls[s]
        /\ answer'[s] = answer[s]
    BY <1>2, OthersCall
  <2>2. \/ connection' = connection
        \/ connection' = [connection EXCEPT ![call[z].to] = bound[<<call[z].to, 0>>]]
        \/ connection' = [connection EXCEPT ![call[z].to] = None]
    BY <1>2 DEF SenderStep, ReplyLost, Begin, Connected, Connect, SAL_Connect, Send, SendFails,
       Replied, WaitFails, Invalidate, receiver
  <2>3. \/ connection'[a] = connection[a] \/ connection'[a] = bound[<<a, 0>>]
        \/ connection'[a] = None
    BY <2>2, ZenonT(40) DEF TypeOK
  <2>4. steady'[s] \subseteq steady[s]
    BY <1>2 DEF SenderStep, ReplyLost, Begin, Connected, Connect, SAL_Connect, Send, SendFails,
       Replied, WaitFails, Invalidate, TypeOK
  <2> QED
    BY <1>1, <2>1, <2>3, <2>4
<1>3. CASE ReplyLost(s)
  BY <1>3 DEF ReplyLost, CallServesAt, TypeOK
<1>4. ASSUME NEW b \in Receivers,
             \/ RouterStep(b) \/ Leave(b) \/ LeaveUnbind(b) \/ LeaveClose(b) \/ Crash(b)
             \/ CleanUp(b) \/ Restart(b) \/ Subscribe(b)
      PROVE  CallServesAt(s, a)'
  <2>1. UNCHANGED <<pc, call, calls, connection>>
    BY <1>4 DEF RouterStep, Process_Send, Process_Publish, PostCopy, PostLast, Reply, Received,
       Leave, LeaveUnbind, LeaveClose, Crash, CleanUp, Restart, Subscribe, Outside, sender
  <2>2. steady'[s] \subseteq steady[s]
    <3>1. calls[s] \in Nat /\ ~ \E c : Begin(s, c)
      BY <2>1 DEF Begin, TypeOK
    <3> QED
      BY <3>1, SteadyShrinks
  <2>3. ASSUME a \in steady'[s], pc[s] = "wait", a = call[s].to
        PROVE  \/ answer'[s] = answer[s]
               \/ /\ answer'[s] \in {"true", "false"}
                  /\ IF call[s].tid = 0 THEN Served(a, s, calls[s]) ELSE answer'[s] = "true"
    <3>1. CASE Reply(b) /\ router[b].msg.from = s /\ router[b].msg.open
      <4> DEFINE m == router[b].msg
      <4>1. router[b] # Idle /\ m \in Messages /\ router[b].at = "reply" /\ OpenAt(b, m)
        BY <3>1, RouterType DEF Reply, OpenAt
      <4>2. /\ call[s].to = b /\ call[s].tid = m.tid /\ calls[s] = m.n /\ m.from = s
        BY <3>1, <4>1 DEF OpenInv, WaitsFor
      <4>3. RouterServesAt(b) /\ a \in steady[s] /\ a = b
        BY <2>2, <2>3, <4>2 DEF RouterServes
      <4>4. IF m.tid = 0 THEN Served(a, s, calls[s]) ELSE router[b].status
        BY <4>1, <4>2, <4>3 DEF RouterServesAt
      <4>5. answer'[s] = IF router[b].status THEN "true" ELSE "false"
        BY <3>1 DEF Reply, TypeOK
      <4> QED
        BY <4>2, <4>4, <4>5
    <3>2. CASE Reply(b) /\ ~(router[b].msg.from = s /\ router[b].msg.open)
      BY <3>2 DEF Reply, TypeOK
    <3>3. CASE LeaveClose(b) \/ Crash(b)
      <4>1. b # a
        <5>1. alive'[a] = "up"
          BY <2>2, <2>3, SteadyLife
        <5> QED
          BY <3>3, <5>1 DEF LeaveClose, Crash, TypeOK
      <4>2. ASSUME NEW m \in Messages, OpenAt(b, m), m.from = s PROVE FALSE
        BY <2>3, <4>1, <4>2 DEF OpenInv, WaitsFor
      <4>3. \/ \E i \in DOMAIN backlog[b] : backlog[b][i].from = s /\ backlog[b][i].open
            \/ router[b] # Idle /\ router[b].msg.from = s /\ router[b].msg.open
            => \E m \in Messages : OpenAt(b, m) /\ m.from = s
        BY Messaged DEF OpenAt
      <4> QED
        BY <3>3, <4>2, <4>3 DEF LeaveClose, Crash, Close
    <3>4. CASE ~Reply(b) /\ ~LeaveClose(b) /\ ~Crash(b)
      BY <1>4, <3>4 DEF RouterStep, Process_Send, Process_Publish, PostCopy, PostLast, Received,
         Leave, LeaveUnbind, CleanUp, Restart, Subscribe
    <3> QED
      BY <3>1, <3>2, <3>3, <3>4
  <2> QED
    BY <1>0, <2>1, <2>2, <2>3, CallServesAside
<1>5. CASE UNCHANGED vars \/ \E i \in Inboxes : Receive(i)
  BY <1>1, <1>5 DEF vars, sender, Receive
<1>6. ASSUME NEW z \in Senders, SenderStep(z) PROVE CallServesAt(s, a)'
  BY <1>0, <1>2, <1>6, OwnServes
<1>7. ASSUME NEW z \in Senders,
             SAL_Publish(z) \/ \E b \in Receivers, tid \in SendTids[z] : SAL_Send(z, b, tid)
      PROVE  CallServesAt(s, a)'
  <2>1. CASE z = s
    BY <1>7, <2>1, BeginServes
  <2>2. CASE z # s
    <3>1. \E c : Begin(z, c)
      BY <1>7 DEF SAL_Publish, SAL_Send
    <3> QED
      BY <1>2, <2>2, <3>1
  <2> QED
    BY <2>1, <2>2
<1> QED
  BY <1>2, <1>3, <1>4, <1>5, <1>6, <1>7 DEF Next

\* What SteadyReceiverServed says of one sender and one receiver.
EndServesAt(s, a) ==
  pc[s] = "idle" /\ calls[s] > 0 /\ a \in steady[s] =>
    IF call[s].tid = 0
    THEN a \in routing => \A t \in Subscribed[a] : got[<<a, t>>][s][1] = calls[s]
    ELSE a = call[s].to => call[s].status

LEMMA EndServesStep ==
  /\ TypeOK /\ CallInv /\ OrderInv /\ UpInv /\ CallServes /\ SteadyReceiverServed /\ [Next]_vars
  /\ OrderInv' /\ TypeOK'
  => SteadyReceiverServed'
<1> SUFFICES ASSUME TypeOK, CallInv, OrderInv, UpInv, CallServes, SteadyReceiverServed,
                    [Next]_vars, OrderInv', TypeOK', NEW s \in Senders, NEW a \in Receivers,
                    pc'[s] = "idle", calls'[s] > 0, a \in steady'[s]
             PROVE  EndServesAt(s, a)'
  BY DEF SteadyReceiverServed, EndServesAt
<1>0. EndServesAt(s, a) /\ CallServesAt(s, a) /\ a \in Nat \ {0} /\ calls[s] \in Nat
  BY DeliveryAssumption DEF SteadyReceiverServed, EndServesAt, CallServes, TypeOK
<1>1. ASSUME calls'[s] = calls[s], NEW t \in Subscribed[a], got[<<a, t>>][s][1] >= calls[s]
      PROVE  got'[<<a, t>>][s][1] = calls'[s]
  <2>1. t \in Tids
    BY DeliveryAssumption DEF Tids
  <2>2. /\ got'[<<a, t>>][s][1] \in Nat /\ got[<<a, t>>][s][1] \in Nat
        /\ got'[<<a, t>>][s][1] >= got[<<a, t>>][s][1]
    BY <2>1, LastGrows, GotType
  <2>3. got'[<<a, t>>][s][1] <= calls'[s]
    BY <2>1 DEF OrderInv, OrderAt
  <2> QED
    BY <1>0, <1>1, <2>2, <2>3
<1>2. ASSUME pc[s] = "idle", call'[s] = call[s], calls'[s] = calls[s], ~ \E c : Begin(s, c)
      PROVE  EndServesAt(s, a)'
  <2>1. a \in steady[s]
    BY <1>2, SteadyShrinks
  <2>2. a \in routing' <=> a \in routing
    BY <2>1, SteadyLife
  <2>3. \A t \in Subscribed[a] : got[<<a, t>>][s][1] = calls[s] => got'[<<a, t>>][s][1] = calls'[s]
    BY <1>0, <1>1, <1>2
  <2> QED
    BY <1>0, <1>2, <2>1, <2>2, <2>3 DEF EndServesAt
<1>3. ASSUME NEW z \in Senders, z # s, SenderStep(z) \/ ReplyLost(z) \/ \E c : Begin(z, c)
      PROVE  EndServesAt(s, a)'
  <2>1. pc'[s] = pc[s] /\ call'[s] = call[s] /\ calls'[s] = calls[s]
    BY <1>3, OthersCall
  <2>2. ~ \E c : Begin(s, c)
    BY <1>0, <2>1 DEF Begin, TypeOK
  <2> QED
    BY <1>2, <2>1, <2>2
<1>4. ASSUME NEW b \in Receivers,
             \/ RouterStep(b) \/ Leave(b) \/ LeaveUnbind(b) \/ LeaveClose(b) \/ Crash(b)
             \/ CleanUp(b) \/ Restart(b) \/ Subscribe(b)
      PROVE  EndServesAt(s, a)'
  <2>1. UNCHANGED <<pc, call, calls>>
    BY <1>4 DEF RouterStep, Process_Send, Process_Publish, PostCopy, PostLast, Reply, Received,
       Leave, LeaveUnbind, LeaveClose, Crash, CleanUp, Restart, Subscribe, Outside, sender
  <2>2. ~ \E c : Begin(s, c)
    BY <1>0, <2>1 DEF Begin, TypeOK
  <2> QED
    BY <1>2, <2>1, <2>2
<1>5. CASE UNCHANGED vars \/ \E i \in Inboxes : Receive(i)
  <2>1. UNCHANGED <<pc, call, calls>>
    BY <1>5 DEF vars, sender, Receive
  <2>2. ~ \E c : Begin(s, c)
    BY <1>0, <2>1 DEF Begin, TypeOK
  <2> QED
    BY <1>2, <2>1, <2>2
<1>6. ASSUME NEW st \in BOOLEAN, Done(s, st), pc[s] # "idle", calls'[s] = calls[s],
             a \in steady[s], routing' = routing,
             IF call[s].tid = 0 THEN a <= call[s].to => Served(a, s, calls[s])
                                ELSE a = call[s].to => st
      PROVE  EndServesAt(s, a)'
  <2>1. /\ call[s].tid = 0 => \A b \in routing : b <= call[s].to
        /\ call'[s].to = call[s].to /\ call'[s].tid = call[s].tid /\ call'[s].status = st
    <3>1. pc' = [pc EXCEPT ![s] = "trial"] => pc'[s] = "trial"
      BY DEF TypeOK
    <3> QED
      BY <1>6, <3>1, DoneIs
  <2>2. CASE call[s].tid = 0
    <3>1. a \in routing => Served(a, s, calls[s])
      BY <1>6, <2>1, <2>2
    <3>2. a \in routing => \A t \in Subscribed[a] : got'[<<a, t>>][s][1] = calls'[s]
      BY <1>1, <1>6, <3>1 DEF Served
    <3> QED
      BY <1>6, <2>1, <2>2, <3>2 DEF EndServesAt
  <2>3. CASE call[s].tid # 0
    BY <1>6, <2>1, <2>3 DEF EndServesAt
  <2> QED
    BY <2>2, <2>3
<1>7. CASE Replied(s)
  <2>1. /\ Done(s, answer[s] = "true") /\ pc[s] = "wait" /\ answer[s] \in {"true", "false"}
        /\ calls' = calls /\ routing' = routing /\ steady' = steady
    BY <1>7 DEF Replied, directory
  <2>2. call[s].to \in Nat
    BY CallsType
  <2>3. IF call[s].tid = 0 THEN a <= call[s].to => Served(a, s, calls[s])
                           ELSE a = call[s].to => answer[s] = "true"
    BY <1>0, <2>1, <2>2 DEF CallServesAt, TrialServes
  <2>4. (answer[s] = "true") \in BOOLEAN
    OBVIOUS
  <2> QED
    BY <1>6, <2>1, <2>3, <2>4
<1>8. CASE Invalidate(s)
  <2>1. ~(call[s].trial + 1 < max_number_of_trials) /\ Done(s, FALSE) /\ pc[s] = "fail"
    <3>1. pc' = [pc EXCEPT ![s] = "trial"] => pc'[s] = "trial"
      BY DEF TypeOK
    <3> QED
      BY <1>8, <3>1, InvalidateIs
  <2>2. calls' = calls /\ routing' = routing /\ steady' = steady
    BY <1>8 DEF Invalidate, directory
  <2>3. call[s].to \in Nat /\ call[s].trial \in Nat /\ max_number_of_trials \in Nat
        /\ max_number_of_trials >= 2
    <3>1. call[s] \in Calls /\ max_number_of_trials \in Nat /\ max_number_of_trials >= 2
      BY CallsType, DeliveryAssumption
    <3> QED
      BY <3>1, CallsFields
  <2>4. call[s].trial # 0
    BY <2>1, <2>3
  <2>5. a # call[s].to
    BY <1>0, <2>1, <2>2, <2>4 DEF CallServesAt, TrialServes
  <2>6. call[s].tid = 0 /\ a <= call[s].to => Served(a, s, calls[s])
    BY <1>0, <2>1, <2>2, <2>3, <2>5 DEF CallServesAt
  <2> QED
    BY <1>6, <2>1, <2>2, <2>5, <2>6
<1>9. CASE SenderStep(s) /\ ~Replied(s) /\ ~Invalidate(s)
  <2>1. pc'[s] # "idle"
    BY <1>9 DEF SenderStep, Connected, Connect, SAL_Connect, Send, SendFails, WaitFails, Goto, TypeOK
  <2> QED
    BY <2>1
<1>10. CASE ReplyLost(s)
  BY <1>10 DEF ReplyLost, TypeOK
<1>11. CASE \E b \in Receivers, tid \in SendTids[s] : SAL_Send(s, b, tid)
  <2>1. PICK b \in Receivers, tid \in SendTids[s] : SAL_Send(s, b, tid)
    BY <1>11
  <2>2. b # None
    BY DeliveryAssumption DEF None
  <2>3. [NoCall EXCEPT !.to = b, !.tid = tid].to = b
    BY DEF NoCall
  <2>4. pc'[s] = "trial"
    BY <2>1, <2>2, <2>3 DEF SAL_Send, Begin, Goto, TypeOK
  <2> QED
    BY <2>4
<1>12. CASE SAL_Publish(s)
  <2>1. [NoCall EXCEPT !.to = NextApp(None)].to = NextApp(None)
    BY DEF NoCall
  <2>2. NextApp(None) = None /\ routing' = routing
    BY <1>12, <2>1 DEF SAL_Publish, Begin, Goto, TypeOK, directory
  <2>3. a \notin routing
    <3>1. NextApp(0) = 0 /\ 0 \in Nat
      BY <2>2 DEF None
    <3>2. \A b \in routing : b <= 0
      BY <3>1, NextAppIs DEF None
    <3> QED
      BY <1>0, <3>2
  <2>4. call'[s].tid = 0
    <3>1. call'[s] = [NoCall EXCEPT !.to = NextApp(None)]
      BY <1>12 DEF SAL_Publish, Begin, TypeOK
    <3> QED
      BY <3>1 DEF NoCall
  <2> QED
    BY <2>2, <2>3, <2>4 DEF EndServesAt
<1>13. ASSUME NEW z \in Senders,
             \/ SAL_Publish(z) \/ SenderStep(z) \/ ReplyLost(z)
             \/ \E b \in Receivers, tid \in SendTids[z] : SAL_Send(z, b, tid)
       PROVE EndServesAt(s, a)'
  <2>1. CASE z = s
    BY <1>7, <1>8, <1>9, <1>10, <1>11, <1>12, <1>13, <2>1
  <2>2. CASE z # s
    <3>1. SenderStep(z) \/ ReplyLost(z) \/ \E c : Begin(z, c)
      BY <1>13 DEF SAL_Publish, SAL_Send
    <3> QED
      BY <1>3, <2>2, <3>1
  <2> QED
    BY <2>1, <2>2
<1> QED
  BY <1>4, <1>5, <1>13 DEF Next

-----------------------------------------------------------------------------
(* Who stays up is served *)

\* SteadyReceiverServed with what makes it inductive.
SteadyInv == IInv /\ UpInv /\ RouterServes /\ CallServes /\ SteadyReceiverServed

LEMMA InitSteady == Init => SteadyInv
<1> SUFFICES ASSUME Init PROVE SteadyInv
  OBVIOUS
<1>1. IInv
  BY InitIInv
<1>2. UpInv
  <2> SUFFICES ASSUME NEW a \in Receivers PROVE UpAt(a)
    BY DEF UpInv
  <2>1. bound[<<a, 0>>] = 1 /\ life[a] = 1
    BY DEF Init, Directory!Keys
  <2>2. Subscribed[a] # {} => a \in routing
    BY DEF Init
  <2>3. \A s \in Senders : steady[s] = {}
    BY DEF Init
  <2> QED
    BY <2>1, <2>2, <2>3 DEF UpAt
<1>3. RouterServes
  BY DEF Init, RouterServes, RouterServesAt
<1>4. CallServes
  BY DEF Init, CallServes, CallServesAt
<1>5. SteadyReceiverServed
  BY DEF Init, SteadyReceiverServed
<1> QED
  BY <1>1, <1>2, <1>3, <1>4, <1>5 DEF SteadyInv

LEMMA SteadyStep == SteadyInv /\ [Next]_vars => SteadyInv'
<1> SUFFICES ASSUME SteadyInv, [Next]_vars PROVE SteadyInv'
  OBVIOUS
<1>1. IInv' /\ IInv
  BY IInvStep DEF SteadyInv
<1>2. UpInv' /\ RouterServes'
  BY <1>1, UpStep, ServesStep DEF SteadyInv, IInv
<1>3. CallServes'
  BY <1>1, CallServesStep DEF SteadyInv, IInv
<1>4. SteadyReceiverServed'
  BY <1>1, EndServesStep DEF SteadyInv, IInv
<1> QED
  BY <1>1, <1>2, <1>3, <1>4 DEF SteadyInv

\* A publication that begins while a receiver is up reaches all its subscribed
\* threads, and a message that is sent to it is told to be there, if the receiver
\* stays up and nothing is lost: for any senders that share stale connections.
THEOREM SteadyServed == Spec => []SteadyReceiverServed
<1>1. SteadyInv => SteadyReceiverServed
  BY DEF SteadyInv
<1> QED
  BY <1>1, InitSteady, SteadyStep, PTL DEF Spec

-----------------------------------------------------------------------------
(* Synchronous messages *)

CONSTANTS Platforms, Clients, Thread, Free, Descriptors, NoId
VARIABLE rpc

RP == INSTANCE Rpc

\* What the names of the instance have to be told apart by.
RpcDistinct ==
  /\ Thread \notin Clients /\ Free \notin Clients
  /\ NoId \notin Descriptors \cup Clients \cup BOOLEAN
  /\ NoId \notin [client : Clients, kind : RP!Kinds, part : RP!Parts]

Rpcs ==
          [platform : Platforms,
           client   : [Clients -> {"idle", "waiting", "left", "replied", "refused"}],
           kind     : [Clients -> RP!Kinds],
           wrote    : [Clients -> RP!Parts],
           told     : [Clients -> BOOLEAN \cup {NoId}],
           decided  : [Clients -> BOOLEAN \cup {NoId}],
           backlog  : Seq(Clients),
           fd       : [Descriptors -> Clients \cup {Thread, Free}],
           router   : {"receive", "serve", "reply", "exit", "gone"},
           id       : Descriptors \cup Clients \cup {NoId},
           now      : [client : Clients, kind : RP!Kinds, part : RP!Parts] \cup {NoId},
           status   : BOOLEAN]

RpcTypeOK == rpc \in Rpcs

InBacklog == ToSet(rpc.backlog)

\* A client is in the backlog once, for the request it has under way.
Backlogged ==
  /\ IsInjective(rpc.backlog)
  /\ \A c \in InBacklog :
       /\ rpc.client[c] \in {"waiting", "left"}
       /\ RP!Qnx => RP!Whole(rpc.kind[c], rpc.wrote[c])

\* The connection of a client is that of the request that is worked on.
IsConnected ==
  \A d \in Descriptors : rpc.fd[d] \in Clients =>
    /\ rpc.platform # "qnx" /\ rpc.router \in {"serve", "reply"} /\ d = rpc.id
    /\ rpc.fd[d] \notin InBacklog /\ rpc.client[rpc.fd[d]] # "idle"

WaitsWhole ==
  \A c \in Clients : rpc.client[c] = "waiting" =>
    /\ RP!Whole(rpc.kind[c], rpc.wrote[c])
    /\ RP!Win32 \/ rpc.kind[c] \in RP!Messages

\* A client that waits and is not in the backlog waits for this request, and
\* the id leads to it.
IsServed(c) ==
  /\ rpc.router \in {"serve", "reply"}
  /\ rpc.now = [client |-> c, kind |-> rpc.kind[c], part |-> rpc.wrote[c]]
  /\ rpc.kind[c] \in RP!Messages
  /\ RP!Qnx => rpc.id = c
  /\ ~ RP!Qnx => rpc.id \in Descriptors /\ rpc.fd[rpc.id] = c
  /\ rpc.router = "reply" => rpc.decided[c] = rpc.status

WaitsServed ==
  \A c \in Clients : rpc.client[c] = "waiting" /\ c \notin InBacklog => IsServed(c)

ToldTruly ==
  \A c \in Clients : rpc.client[c] = "replied" =>
    /\ rpc.told[c] # NoId /\ rpc.told[c] = rpc.decided[c]
    /\ rpc.wrote[c] = "all" \/ rpc.kind[c] \notin RP!Messages
    /\ rpc.router = "serve" => rpc.now.client # c

ServesMessage ==
  rpc.router = "serve" =>
    /\ rpc.now # NoId /\ rpc.now.kind \in RP!Messages /\ rpc.id # NoId
    /\ rpc.now.part \in {"part", "message", "all"}
    /\ rpc.now.part # "all" => RP!Linux \/ (RP!Win32 /\ rpc.now.part = "message")

\* What the id names: a connection, on QNX a client.
IdIsOf ==
  IF rpc.platform = "qnx" THEN rpc.id \in Clients \cup {NoId}
  ELSE rpc.id \in Descriptors \cup {NoId}

PostsWhole ==
  rpc.router = "reply" /\ rpc.status /\ rpc.now # NoId =>
    \/ rpc.now.part = "all" \/ rpc.now.kind # "send"
    \/ RP!Linux /\ rpc.now.part = "part"

RpcInv ==
  /\ RpcTypeOK /\ Backlogged /\ IsConnected /\ WaitsWhole /\ WaitsServed /\ ToldTruly
  /\ ServesMessage /\ IdIsOf /\ PostsWhole

LEMMA RpcInit ==
  ASSUME RpcDistinct, RP!Init
  PROVE  RpcInv
<1>1. PICK p \in Platforms :
        rpc = [platform |-> p,
           client |-> [c \in Clients |-> "idle"], kind |-> [c \in Clients |-> "send"],
           wrote |-> [c \in Clients |-> "nothing"], told |-> [c \in Clients |-> NoId],
           decided |-> [c \in Clients |-> NoId],
           backlog |-> << >>, fd |-> [d \in Descriptors |-> Free],
           router |-> "receive", id |-> NoId, now |-> NoId, status |-> TRUE]
  BY DEF RP!Init
<1>2. InBacklog = {} /\ IsInjective(rpc.backlog)
  BY <1>1 DEF InBacklog, ToSet, IsInjective
<1>3. RpcTypeOK
  BY <1>1 DEF RpcTypeOK, Rpcs, RP!Kinds, RP!Parts, RP!Messages
<1> QED
  BY <1>1, <1>2, <1>3 DEF RpcDistinct, RpcInv, Backlogged, IsConnected, WaitsWhole, WaitsServed,
     ToldTruly, ServesMessage, IdIsOf, PostsWhole

LEMMA QueuedIs == ASSUME NEW c PROVE RP!Queued(c) <=> c \in InBacklog
BY DEF RP!Queued, InBacklog, ToSet

LEMMA RpcSend ==
  ASSUME RpcDistinct, RpcInv, NEW c \in Clients, NEW k \in RP!Kinds, NEW p \in RP!Parts,
         RP!Send(c, k, p)
  PROVE  RpcInv'
<1> DEFINE waits == \/ RP!Linux /\ RP!WaitsLinux(k, p)
                    \/ RP!Win32 /\ (RP!WaitsWin32(k, p) \/ RP!PulseWaitsWin32(k, p))
                    \/ RP!Qnx /\ RP!WaitsQnx(k, p)
<1>1. /\ rpc.client[c] = "idle" /\ (RP!Qnx => RP!Whole(k, p))
      /\ rpc' = [rpc EXCEPT !.client[c] = IF waits THEN "waiting" ELSE "left",
                            !.kind[c] = k, !.wrote[c] = p, !.backlog = Append(@, c)]
  BY DEF RP!Send
<1>2. waits => RP!Whole(k, p) /\ (RP!Win32 \/ k \in RP!Messages)
  BY <1>1 DEF RP!WaitsLinux, RP!WaitsWin32, RP!PulseWaitsWin32, RP!WaitsQnx
<1> HIDE DEF waits
<1>3. c \notin InBacklog /\ rpc.backlog \in Seq(Clients) /\ IsInjective(rpc.backlog)
  BY <1>1 DEF RpcInv, Backlogged, RpcTypeOK, Rpcs
<1>4. /\ rpc'.backlog = Append(rpc.backlog, c) /\ rpc'.fd = rpc.fd /\ rpc'.router = rpc.router
      /\ rpc'.id = rpc.id /\ rpc'.now = rpc.now /\ rpc'.status = rpc.status
      /\ rpc'.told = rpc.told /\ rpc'.decided = rpc.decided /\ rpc'.platform = rpc.platform
      /\ rpc'.client = [rpc.client EXCEPT ![c] = IF waits THEN "waiting" ELSE "left"]
      /\ rpc'.kind = [rpc.kind EXCEPT ![c] = k] /\ rpc'.wrote = [rpc.wrote EXCEPT ![c] = p]
  BY <1>1 DEF RpcInv, RpcTypeOK, Rpcs
<1>5. /\ rpc'.backlog \in Seq(Clients) /\ IsInjective(rpc'.backlog)
      /\ InBacklog' = InBacklog \cup {c}
  BY <1>3, <1>4, AppendTo DEF InBacklog
<1>6. RpcTypeOK'
  BY <1>1, <1>4, <1>5 DEF RpcInv, RpcTypeOK, Rpcs
<1>7. \A d \in Clients \ {c} : /\ rpc'.client[d] = rpc.client[d] /\ rpc'.kind[d] = rpc.kind[d]
                                /\ rpc'.wrote[d] = rpc.wrote[d]
  BY <1>4 DEF RpcInv, RpcTypeOK, Rpcs
<1>8. /\ rpc'.client[c] = IF waits THEN "waiting" ELSE "left"
      /\ rpc'.kind[c] = k /\ rpc'.wrote[c] = p
  BY <1>4 DEF RpcInv, RpcTypeOK, Rpcs
<1>9. RpcInv
  OBVIOUS
<1>10. Backlogged'
  BY <1>1, <1>2, <1>4, <1>5, <1>7, <1>8, <1>9
     DEF RpcInv, Backlogged, RP!Qnx, InBacklog, RpcTypeOK, Rpcs
<1>11. IsConnected'
  BY <1>1, <1>4, <1>5, <1>7, <1>8, <1>9
     DEF RpcInv, IsConnected
<1>12. WaitsWhole'
  BY <1>1, <1>2, <1>4, <1>7, <1>8, <1>9 DEF RpcInv, WaitsWhole, RP!Win32
<1>13. WaitsServed'
  BY <1>1, <1>4, <1>5, <1>7, <1>8, <1>9 DEF RpcInv, WaitsServed, IsServed, RP!Qnx
<1>14. ToldTruly'
  BY <1>1, <1>4, <1>7, <1>8, <1>9 DEF RpcInv, ToldTruly
<1>15. ServesMessage' /\ IdIsOf' /\ PostsWhole'
  BY <1>4, <1>9 DEF RpcInv, ServesMessage, IdIsOf, PostsWhole, RP!Linux, RP!Win32
<1> QED
  BY <1>6, <1>10, <1>11, <1>12, <1>13, <1>14, <1>15 DEF RpcInv

LEMMA SameRemove == ASSUME NEW q, NEW e PROVE RP!RemoveFirst(q, e) = RemoveFirst(q, e)
BY DEF RP!RemoveFirst, RemoveFirst, RP!RemoveAt, RemoveAt, RP!SelectInSeq, SelectInSeq,
       RP!Min, Min

LEMMA RpcKilled ==
  ASSUME RpcDistinct, RpcInv, NEW c \in Clients, RP!Killed(c)
  PROVE  RpcInv'
<1>1. /\ rpc.client[c] = "waiting"
      /\ rpc' = [rpc EXCEPT !.client[c] = "left",
                            !.backlog = IF RP!Qnx THEN RemoveFirst(@, c) ELSE @]
  BY SameRemove DEF RP!Killed, RP!Waits
<1>2. RpcInv
  OBVIOUS
<1>3. /\ rpc'.fd = rpc.fd /\ rpc'.router = rpc.router /\ rpc'.id = rpc.id
      /\ rpc'.now = rpc.now /\ rpc'.status = rpc.status /\ rpc'.told = rpc.told
      /\ rpc'.decided = rpc.decided /\ rpc'.platform = rpc.platform
      /\ rpc'.kind = rpc.kind /\ rpc'.wrote = rpc.wrote
      /\ rpc'.client = [rpc.client EXCEPT ![c] = "left"]
      /\ rpc'.backlog = IF RP!Qnx THEN RemoveFirst(rpc.backlog, c) ELSE rpc.backlog
  BY <1>1, <1>2 DEF RpcInv, RpcTypeOK, Rpcs
<1>4. rpc.backlog \in Seq(Clients) /\ IsInjective(rpc.backlog)
  BY <1>2 DEF RpcInv, Backlogged, RpcTypeOK, Rpcs
<1>5. /\ rpc'.backlog \in Seq(Clients) /\ IsInjective(rpc'.backlog)
      /\ InBacklog' \subseteq InBacklog /\ InBacklog \subseteq InBacklog' \cup {c}
  <2>1. CASE RP!Qnx /\ c \in InBacklog
    BY <1>3, <1>4, <2>1, RemoveFirstProperties DEF InBacklog
  <2>2. CASE RP!Qnx /\ c \notin InBacklog
    <3>1. RemoveFirst(rpc.backlog, c) = rpc.backlog
      BY <2>2, <1>4 DEF RemoveFirst, InBacklog, ToSet
    <3> QED BY <1>3, <1>4, <2>2, <3>1 DEF InBacklog
  <2>3. CASE ~ RP!Qnx
    BY <1>3, <1>4, <2>3 DEF InBacklog
  <2> QED BY <2>1, <2>2, <2>3
<1>6. /\ \A d \in Clients \ {c} : rpc'.client[d] = rpc.client[d]
      /\ rpc'.client[c] = "left"
  BY <1>2, <1>3 DEF RpcInv, RpcTypeOK, Rpcs
<1>7. RpcTypeOK'
  <2>1. rpc'.client \in [Clients -> {"idle", "waiting", "left", "replied", "refused"}]
    BY <1>2, <1>3 DEF RpcInv, RpcTypeOK, Rpcs
  <2> QED BY <1>1, <1>2, <1>5, <2>1 DEF RpcInv, RpcTypeOK, Rpcs
<1>8. Backlogged'
  BY <1>2, <1>3, <1>5, <1>6, <1>7 DEF RpcInv, Backlogged, RP!Qnx, InBacklog, RpcTypeOK, Rpcs
<1>9. IsConnected'
  BY <1>2, <1>3, <1>5, <1>6 DEF RpcInv, IsConnected
<1>10. WaitsWhole' /\ WaitsServed'
  BY <1>2, <1>3, <1>5, <1>6
     DEF RpcInv, WaitsWhole, WaitsServed, IsServed, RP!Qnx, RP!Win32
<1>11. ToldTruly' /\ ServesMessage' /\ IdIsOf' /\ PostsWhole'
  BY <1>2, <1>3, <1>6
     DEF RpcInv, ToldTruly, ServesMessage, IdIsOf, PostsWhole, RP!Linux, RP!Win32
<1> QED
  BY <1>7, <1>8, <1>9, <1>10, <1>11 DEF RpcInv

LEMMA RpcReturn ==
  ASSUME RpcDistinct, RpcInv, NEW c \in Clients, RP!Return(c)
  PROVE  RpcInv'
<1>1. /\ c \notin InBacklog /\ \A d \in Descriptors : rpc.fd[d] # c
      /\ rpc.client[c] \in {"left", "replied", "refused"}
      /\ rpc' = [rpc EXCEPT !.client[c] = "idle", !.kind[c] = "send", !.wrote[c] = "nothing",
                            !.told[c] = NoId, !.decided[c] = NoId]
  BY QueuedIs DEF RP!Return
<1>2. RpcInv
  OBVIOUS
<1>3. /\ rpc'.fd = rpc.fd /\ rpc'.router = rpc.router /\ rpc'.id = rpc.id
      /\ rpc'.now = rpc.now /\ rpc'.status = rpc.status /\ rpc'.platform = rpc.platform
      /\ rpc'.backlog = rpc.backlog /\ InBacklog' = InBacklog
  BY <1>1, <1>2 DEF RpcInv, RpcTypeOK, Rpcs, InBacklog
<1>4. \A d \in Clients \ {c} :
        /\ rpc'.client[d] = rpc.client[d] /\ rpc'.kind[d] = rpc.kind[d]
        /\ rpc'.wrote[d] = rpc.wrote[d] /\ rpc'.told[d] = rpc.told[d]
        /\ rpc'.decided[d] = rpc.decided[d]
  BY <1>1, <1>2 DEF RpcInv, RpcTypeOK, Rpcs
<1>5. rpc'.client[c] = "idle"
  BY <1>1, <1>2 DEF RpcInv, RpcTypeOK, Rpcs
<1>6. RpcTypeOK'
  BY <1>1, <1>2 DEF RpcInv, RpcTypeOK, Rpcs, RP!Kinds, RP!Messages, RP!Parts
<1>7. Backlogged'
  <2>1. \A d \in InBacklog : d \in Clients \ {c}
    BY <1>1, <1>2 DEF RpcInv, RpcTypeOK, Rpcs, InBacklog, ToSet
  <2> QED BY <1>2, <1>3, <1>4, <2>1 DEF RpcInv, Backlogged, RP!Qnx
<1>8. IsConnected'
  BY <1>1, <1>2, <1>3, <1>4 DEF RpcInv, IsConnected
<1>9. WaitsWhole' /\ WaitsServed'
  BY <1>2, <1>3, <1>4, <1>5
     DEF RpcInv, WaitsWhole, WaitsServed, IsServed, RP!Qnx, RP!Win32
<1>10. ToldTruly' /\ ServesMessage' /\ IdIsOf' /\ PostsWhole'
  BY <1>2, <1>3, <1>4, <1>5
     DEF RpcInv, ToldTruly, ServesMessage, IdIsOf, PostsWhole, RP!Linux, RP!Win32
<1> QED
  BY <1>6, <1>7, <1>8, <1>9, <1>10 DEF RpcInv

LEMMA RpcOpenFile ==
  ASSUME RpcDistinct, RpcInv, RP!OpenFile \/ RP!CloseFile
  PROVE  RpcInv'
<1>1. PICK d \in Descriptors, f \in {Thread, Free} :
        rpc.fd[d] \in {Thread, Free} /\ rpc' = [rpc EXCEPT !.fd[d] = f]
  BY DEF RP!OpenFile, RP!CloseFile, RP!NextFree
<1>2. RpcInv
  OBVIOUS
<1>3. /\ rpc'.router = rpc.router /\ rpc'.id = rpc.id /\ rpc'.told = rpc.told
      /\ rpc'.now = rpc.now /\ rpc'.status = rpc.status /\ rpc'.platform = rpc.platform
      /\ rpc'.backlog = rpc.backlog /\ InBacklog' = InBacklog
      /\ rpc'.client = rpc.client /\ rpc'.kind = rpc.kind /\ rpc'.wrote = rpc.wrote
      /\ rpc'.decided = rpc.decided /\ rpc'.fd = [rpc.fd EXCEPT ![d] = f]
  BY <1>1, <1>2 DEF RpcInv, RpcTypeOK, Rpcs, InBacklog
<1>4. RpcTypeOK'
  BY <1>1, <1>2 DEF RpcInv, RpcTypeOK, Rpcs
<1>5. /\ \A e \in Descriptors \ {d} : rpc'.fd[e] = rpc.fd[e]
      /\ rpc'.fd[d] \notin Clients /\ rpc.fd[d] \notin Clients
  BY <1>1, <1>2, <1>3 DEF RpcInv, RpcTypeOK, Rpcs, RpcDistinct
<1>6. IsConnected'
  BY <1>2, <1>3, <1>5 DEF RpcInv, IsConnected
<1>7. WaitsServed'
  BY <1>2, <1>3, <1>5 DEF RpcInv, WaitsServed, IsServed, RP!Qnx
<1> QED
  BY <1>2, <1>3, <1>4, <1>6, <1>7
     DEF RpcInv, Backlogged, WaitsWhole, ToldTruly, ServesMessage, IdIsOf, PostsWhole,
         RP!Qnx, RP!Linux, RP!Win32

\* Between two requests there is no connection, and who waits is in the backlog.
LEMMA RpcBetween ==
  ASSUME RpcInv, rpc.router \notin {"serve", "reply"}
  PROVE  /\ \A d \in Descriptors : rpc.fd[d] \notin Clients
         /\ \A c \in Clients : rpc.client[c] = "waiting" => c \in InBacklog
BY DEF RpcInv, IsConnected, WaitsServed, IsServed

LEMMA RpcAcceptFails ==
  ASSUME RpcDistinct, RpcInv, RP!AcceptFails
  PROVE  RpcInv'
<1> DEFINE gone == RP!Win32 /\ rpc.client[Head(rpc.backlog)] = "left"
<1>1. /\ ~ RP!Qnx /\ rpc.router = "receive" /\ rpc.backlog # << >>
      /\ rpc' = [rpc EXCEPT !.router = "reply", !.id = NoId, !.status = FALSE,
                            !.backlog = IF gone THEN Tail(@) ELSE @]
  BY DEF RP!AcceptFails
<1>2. gone => rpc.client[rpc.backlog[1]] = "left"
  OBVIOUS
<1> HIDE DEF gone
<1>3. RpcInv
  OBVIOUS
<1>4. /\ rpc'.fd = rpc.fd /\ rpc'.told = rpc.told /\ rpc'.decided = rpc.decided
      /\ rpc'.now = rpc.now /\ rpc'.platform = rpc.platform /\ rpc'.client = rpc.client
      /\ rpc'.kind = rpc.kind /\ rpc'.wrote = rpc.wrote
      /\ rpc'.router = "reply" /\ rpc'.id = NoId /\ rpc'.status = FALSE
      /\ rpc'.backlog = IF gone THEN Tail(rpc.backlog) ELSE rpc.backlog
  BY <1>1, <1>3 DEF RpcInv, RpcTypeOK, Rpcs
<1>5. rpc.backlog \in Seq(Clients) /\ IsInjective(rpc.backlog)
  BY <1>3 DEF RpcInv, Backlogged, RpcTypeOK, Rpcs
<1>6. /\ rpc'.backlog \in Seq(Clients) /\ IsInjective(rpc'.backlog)
      /\ InBacklog' \subseteq InBacklog
      /\ \A c \in InBacklog : rpc.client[c] = "waiting" => c \in InBacklog'
  BY <1>1, <1>2, <1>4, <1>5, TailOf DEF InBacklog
<1>7. RpcTypeOK'
  BY <1>1, <1>3, <1>6 DEF RpcInv, RpcTypeOK, Rpcs
<1>8. Backlogged'
  BY <1>3, <1>4, <1>6 DEF RpcInv, Backlogged, RP!Qnx
<1>9. IsConnected' /\ WaitsWhole' /\ WaitsServed'
  BY <1>1, <1>3, <1>4, <1>6, RpcBetween
     DEF RpcInv, IsConnected, WaitsWhole, WaitsServed, RP!Win32
<1>10. ToldTruly' /\ ServesMessage' /\ IdIsOf' /\ PostsWhole'
  BY <1>3, <1>4 DEF RpcInv, ToldTruly, ServesMessage, IdIsOf, PostsWhole
<1> QED
  BY <1>7, <1>8, <1>9, <1>10 DEF RpcInv

\* The request of c, the first one, is taken over: all that is common to its outcomes.
TakenOver(c) ==
  /\ rpc.router = "receive" /\ rpc.backlog # << >> /\ c = Head(rpc.backlog)
  /\ RpcTypeOK' /\ rpc'.platform = rpc.platform /\ rpc'.backlog = Tail(rpc.backlog)
  /\ IdIsOf'
  /\ rpc'.kind = rpc.kind /\ rpc'.wrote = rpc.wrote
  /\ rpc'.now = [client |-> c, kind |-> rpc.kind[c], part |-> rpc.wrote[c]]
  /\ \A o \in Clients \ {c} :
       /\ rpc'.client[o] = rpc.client[o] /\ rpc'.told[o] = rpc.told[o]
       /\ rpc'.decided[o] = rpc.decided[o]

\* No connection is left, and the client does not wait any more.
Dismissed(c) ==
  /\ \A d \in Descriptors : rpc'.fd[d] \notin Clients
  /\ rpc'.router \in {"reply", "exit", "receive"}
  /\ rpc'.status => rpc.kind[c] \notin RP!Messages
  /\ \/ rpc'.client[c] \in {"left", "refused"}
     \/ /\ rpc'.client[c] = "replied" /\ rpc.kind[c] \notin RP!Messages
        /\ rpc'.told[c] = TRUE /\ rpc'.decided[c] = TRUE

\* The router goes on with the message.
GoesOn(c) ==
  /\ rpc'.router = "serve" /\ rpc.kind[c] \in RP!Messages
  /\ rpc.wrote[c] \in {"part", "message", "all"}
  /\ rpc.wrote[c] # "all" => RP!Linux \/ (RP!Win32 /\ rpc.wrote[c] = "message")
  /\ rpc'.client[c] = rpc.client[c]
  /\ IF RP!Qnx THEN rpc'.id = c /\ rpc'.fd = rpc.fd
     ELSE rpc'.id \in Descriptors /\ rpc'.fd = [rpc.fd EXCEPT ![rpc'.id] = c]

LEMMA RpcTakenOver ==
  ASSUME RpcDistinct, RpcInv, NEW c, TakenOver(c), Dismissed(c) \/ GoesOn(c)
  PROVE  RpcInv'
<1>1. RpcInv
  OBVIOUS
<1>2. /\ c \in Clients /\ c \in InBacklog /\ c = rpc.backlog[1]
      /\ rpc'.backlog \in Seq(Clients) /\ IsInjective(rpc'.backlog)
      /\ InBacklog' = InBacklog \ {c} /\ InBacklog \subseteq Clients
  <2>1. rpc.backlog \in Seq(Clients) /\ IsInjective(rpc.backlog) /\ rpc.backlog # << >>
    BY <1>1 DEF RpcInv, Backlogged, RpcTypeOK, Rpcs, TakenOver
  <2>2. InBacklog \subseteq Clients
    BY <2>1 DEF InBacklog, ToSet
  <2> QED BY <2>1, <2>2, TailOf DEF TakenOver, InBacklog
<1>3. rpc.client[c] \in {"waiting", "left"} /\ (RP!Qnx => RP!Whole(rpc.kind[c], rpc.wrote[c]))
  BY <1>1, <1>2 DEF RpcInv, Backlogged
<1>4. /\ \A d \in Descriptors : rpc.fd[d] \notin Clients
      /\ \A o \in Clients : rpc.client[o] = "waiting" => o \in InBacklog
  BY RpcBetween DEF TakenOver
<1>5. RpcTypeOK' /\ rpc'.router # "gone" /\ rpc'.now # NoId /\ rpc'.now.client = c
  BY <1>2 DEF TakenOver, Dismissed, GoesOn, RpcTypeOK, Rpcs, RpcDistinct, RpcInv
<1>6. Backlogged'
  BY <1>1, <1>2 DEF RpcInv, Backlogged, TakenOver, RP!Qnx
<1>7. WaitsWhole'
  BY <1>1, <1>2 DEF RpcInv, WaitsWhole, TakenOver, Dismissed, GoesOn, RP!Win32
<1>8. CASE Dismissed(c)
  <2>1. IsConnected' /\ WaitsServed'
    BY <1>2, <1>4, <1>8 DEF IsConnected, WaitsServed, TakenOver, Dismissed
  <2>2. ToldTruly'
    <3>1. TRUE # NoId
      BY Zenon DEF RpcDistinct
    <3>2. ASSUME NEW o \in Clients \ {c}, rpc'.client[o] = "replied"
          PROVE  /\ rpc'.told[o] # NoId /\ rpc'.told[o] = rpc'.decided[o]
                 /\ rpc'.wrote[o] = "all" \/ rpc'.kind[o] \notin RP!Messages
      BY <1>1, <3>2 DEF RpcInv, ToldTruly, TakenOver
    <3>3. rpc'.client[c] = "replied" =>
            /\ rpc'.told[c] # NoId /\ rpc'.told[c] = rpc'.decided[c]
            /\ rpc'.kind[c] \notin RP!Messages
      BY <1>8, <3>1 DEF Dismissed, TakenOver
    <3> QED BY <1>8, <3>2, <3>3 DEF ToldTruly, Dismissed
  <2>3. ServesMessage' /\ IdIsOf' /\ PostsWhole'
    BY <1>8, RpcDistinct DEF ServesMessage, IdIsOf, PostsWhole, TakenOver, Dismissed, RP!Messages
  <2> QED BY <1>5, <1>6, <1>7, <2>1, <2>2, <2>3 DEF RpcInv
<1>9. CASE GoesOn(c)
  <2>1. \A d \in Descriptors : rpc'.fd[d] \in Clients => d = rpc'.id /\ rpc'.fd[d] = c
    BY <1>1, <1>4, <1>9 DEF GoesOn, RpcInv, RpcTypeOK, Rpcs
  <2>2. IsConnected'
    <3>1. \A d \in Descriptors : rpc'.fd[d] \in Clients => rpc'.platform # "qnx"
      BY <1>4, <1>9 DEF TakenOver, GoesOn, RP!Qnx
    <3> QED BY <1>2, <1>3, <1>9, <2>1, <3>1 DEF IsConnected, TakenOver, GoesOn
  <2>3. ~ RP!Qnx => rpc'.fd[rpc'.id] = c
    BY <1>1, <1>9 DEF GoesOn, RpcInv, RpcTypeOK, Rpcs
  <2>4. WaitsServed'
    BY <1>2, <1>4, <1>9, <2>3 DEF WaitsServed, IsServed, TakenOver, GoesOn, RP!Qnx
  <2>5. ToldTruly'
    BY <1>1, <1>2, <1>3, <1>9, RpcDistinct DEF RpcInv, ToldTruly, TakenOver, GoesOn
  <2>6. ServesMessage' /\ IdIsOf' /\ PostsWhole'
    <3>1. IdIsOf' /\ rpc'.id # NoId
      BY <1>2, <1>9 DEF TakenOver, GoesOn, RpcDistinct
    <3> QED
      BY <1>5, <1>9, <3>1
         DEF ServesMessage, PostsWhole, TakenOver, GoesOn, RP!Linux, RP!Win32
  <2> QED BY <1>5, <1>6, <1>7, <2>2, <2>4, <2>5, <2>6 DEF RpcInv
<1> QED
  BY <1>8, <1>9

\* The fields of r that most steps leave alone.
SameRest(r, s) ==
  r.platform = s.platform /\ r.kind = s.kind /\ r.wrote = s.wrote

LEMMA TakenIs ==
  ASSUME rpc \in Rpcs, NEW c \in Clients, rpc.backlog # << >>, NEW t, t = RP!Taken(rpc, c)
  PROVE  /\ t \in Rpcs /\ SameRest(t, rpc) /\ t.client = rpc.client /\ t.fd = rpc.fd
         /\ t.told = rpc.told /\ t.decided = [rpc.decided EXCEPT ![c] = NoId]
         /\ t.id = rpc.id /\ t.backlog = Tail(rpc.backlog)
         /\ t.now = [client |-> c, kind |-> rpc.kind[c], part |-> rpc.wrote[c]]
<1> DEFINE now == [client |-> c, kind |-> rpc.kind[c], part |-> rpc.wrote[c]]
<1>1. now \in [client : Clients, kind : RP!Kinds, part : RP!Parts]
  BY DEF Rpcs
<1>2. t = [rpc EXCEPT !.backlog = Tail(@), !.decided[c] = NoId, !.now = now]
  BY DEF RP!Taken
<1>3. Tail(rpc.backlog) \in Seq(Clients)
  BY DEF Rpcs
<1> HIDE DEF now
<1>4. [rpc EXCEPT !.backlog = Tail(@), !.decided[c] = NoId, !.now = now] \in Rpcs
  BY <1>1, <1>3 DEF Rpcs
<1>5. /\ SameRest(t, rpc) /\ t.client = rpc.client /\ t.fd = rpc.fd
      /\ t.told = rpc.told /\ t.decided = [rpc.decided EXCEPT ![c] = NoId]
      /\ t.id = rpc.id /\ t.backlog = Tail(rpc.backlog) /\ t.now = now
  BY <1>2 DEF Rpcs, SameRest
<1> QED
  BY <1>2, <1>4, <1>5 DEF now

LEMMA AcceptedIs ==
  ASSUME rpc \in Rpcs, NEW c \in Clients, NEW d \in Descriptors, rpc.backlog # << >>,
         NEW t, t = RP!Accepted(c, d)
  PROVE  /\ t \in Rpcs /\ SameRest(t, rpc) /\ t.client = rpc.client
         /\ t.fd = [rpc.fd EXCEPT ![d] = c]
         /\ t.told = rpc.told /\ t.decided = [rpc.decided EXCEPT ![c] = NoId]
         /\ t.id = d /\ t.backlog = Tail(rpc.backlog)
         /\ t.now = [client |-> c, kind |-> rpc.kind[c], part |-> rpc.wrote[c]]
<1> DEFINE r == RP!Taken(rpc, c)
<1>1. /\ r \in Rpcs /\ SameRest(r, rpc) /\ r.client = rpc.client /\ r.fd = rpc.fd
      /\ r.told = rpc.told /\ r.decided = [rpc.decided EXCEPT ![c] = NoId]
      /\ r.backlog = Tail(rpc.backlog)
      /\ r.now = [client |-> c, kind |-> rpc.kind[c], part |-> rpc.wrote[c]]
  BY TakenIs
<1>2. t = [r EXCEPT !.fd[d] = c, !.id = d]
  BY DEF RP!Accepted
<1> HIDE DEF r
<1>3. r \in Rpcs
  BY <1>1
<1>4. [r EXCEPT !.fd[d] = c, !.id = d] \in Rpcs
  BY <1>3 DEF Rpcs
<1>5. /\ SameRest(t, r) /\ t.client = r.client /\ t.fd = [r.fd EXCEPT ![d] = c]
      /\ t.told = r.told /\ t.decided = r.decided /\ t.id = d /\ t.backlog = r.backlog
      /\ t.now = r.now
  BY <1>2, <1>3 DEF Rpcs, SameRest
<1> QED
  BY <1>1, <1>2, <1>4, <1>5 DEF SameRest

\* What close() leaves.
LEMMA ClosedIs ==
  ASSUME NEW r \in Rpcs, NEW d \in Descriptors, NEW t, t = RP!Close(r, d)
  PROVE  /\ t \in Rpcs /\ SameRest(t, r) /\ t.fd = [r.fd EXCEPT ![d] = Free]
         /\ t.told = r.told /\ t.decided = r.decided /\ t.id = r.id
         /\ t.backlog = r.backlog /\ t.now = r.now /\ t.router = r.router
         /\ t.status = r.status
         /\ t.client = [c \in Clients |-> IF c = r.fd[d] /\ r.client[c] = "waiting"
                                          THEN "refused" ELSE r.client[c]]
<1> DEFINE left == [c \in Clients |-> IF c = r.fd[d] /\ r.client[c] = "waiting"
                                      THEN "refused" ELSE r.client[c]]
<1>1. t = [r EXCEPT !.fd[d] = Free, !.client = left]
  BY DEF RP!Close, RP!Waits
<1>2. left \in [Clients -> {"idle", "waiting", "left", "replied", "refused"}]
  BY DEF Rpcs
<1> HIDE DEF left
<1>3. [r EXCEPT !.fd[d] = Free, !.client = left] \in Rpcs
  BY <1>2 DEF Rpcs
<1>4. /\ SameRest(t, r) /\ t.fd = [r.fd EXCEPT ![d] = Free]
      /\ t.told = r.told /\ t.decided = r.decided /\ t.id = r.id
      /\ t.backlog = r.backlog /\ t.now = r.now /\ t.router = r.router
      /\ t.status = r.status /\ t.client = left
  BY <1>1 DEF Rpcs, SameRest
<1> QED
  BY <1>1, <1>3, <1>4 DEF left

\* What the answer changes.
LEMMA AnsweredIs ==
  ASSUME NEW r \in Rpcs, NEW c \in Clients, NEW st \in BOOLEAN, NEW t,
         t = RP!Answered(r, c, st)
  PROVE  /\ t \in Rpcs /\ SameRest(t, r) /\ t.fd = r.fd /\ t.decided = r.decided
         /\ t.id = r.id /\ t.backlog = r.backlog /\ t.now = r.now /\ t.router = r.router
         /\ t.status = r.status
         /\ t.client = IF r.client[c] = "waiting" THEN [r.client EXCEPT ![c] = "replied"]
                       ELSE r.client
         /\ t.told = IF r.client[c] = "waiting" THEN [r.told EXCEPT ![c] = st] ELSE r.told
<1>1. CASE r.client[c] = "waiting"
  <2>1. t = [r EXCEPT !.client[c] = "replied", !.told[c] = st]
    BY <1>1 DEF RP!Answered, RP!Waits
  <2>2. [r EXCEPT !.client[c] = "replied", !.told[c] = st] \in Rpcs
    BY DEF Rpcs
  <2> QED BY <1>1, <2>1, <2>2 DEF Rpcs, SameRest
<1>2. CASE r.client[c] # "waiting"
  BY <1>2 DEF RP!Answered, RP!Waits, SameRest
<1> QED
  BY <1>1, <1>2

LEMMA FirstIs ==
  ASSUME RpcInv, rpc.router = "receive", rpc.backlog # << >>, NEW c, c = Head(rpc.backlog)
  PROVE  /\ rpc \in Rpcs /\ c \in Clients /\ c \in InBacklog
         /\ rpc.client[c] \in {"waiting", "left"}
         /\ rpc.client[c] = "waiting" => RP!Win32 \/ rpc.kind[c] \in RP!Messages
         /\ RP!Qnx => RP!Whole(rpc.kind[c], rpc.wrote[c])
         /\ \A d \in Descriptors : rpc.fd[d] \notin Clients
<1>1. RpcInv
  OBVIOUS
<1>2. c \in Clients /\ c \in InBacklog
  BY <1>1, TailOf DEF RpcInv, Backlogged, RpcTypeOK, Rpcs, InBacklog
<1>3. rpc.client[c] = "waiting" => RP!Win32 \/ rpc.kind[c] \in RP!Messages
  BY <1>1, <1>2 DEF RpcInv, WaitsWhole
<1> QED
  BY <1>1, <1>2, <1>3, RpcBetween DEF RpcInv, RpcTypeOK, Backlogged

\* Accepted and closed at once.
LEMMA RpcFailed ==
  ASSUME RpcDistinct, RpcInv, NEW c, NEW d \in Descriptors, ~ RP!Qnx,
         rpc.router = "receive", rpc.backlog # << >>, c = Head(rpc.backlog),
         NEW out \in {"reply", "exit"}, NEW st \in BOOLEAN,
         st => rpc.kind[c] \notin RP!Messages,
         rpc' = [RP!Close(RP!Accepted(c, d), d) EXCEPT !.router = out, !.status = st]
  PROVE  RpcInv'
<1> DEFINE acc == RP!Accepted(c, d)
           mid == RP!Close(acc, d)
<1>1. /\ rpc \in Rpcs /\ c \in Clients /\ rpc.client[c] \in {"waiting", "left"}
      /\ \A e \in Descriptors : rpc.fd[e] \notin Clients
  BY FirstIs
<1>2. /\ acc \in Rpcs /\ SameRest(acc, rpc) /\ acc.client = rpc.client
      /\ acc.fd = [rpc.fd EXCEPT ![d] = c] /\ acc.id = d
      /\ acc.told = rpc.told /\ acc.decided = [rpc.decided EXCEPT ![c] = NoId]
      /\ acc.backlog = Tail(rpc.backlog)
      /\ acc.now = [client |-> c, kind |-> rpc.kind[c], part |-> rpc.wrote[c]]
  BY <1>1, AcceptedIs, SMTT(40)
<1> HIDE DEF acc
<1>3. /\ mid \in Rpcs /\ SameRest(mid, acc) /\ mid.fd = [acc.fd EXCEPT ![d] = Free]
      /\ mid.told = acc.told /\ mid.decided = acc.decided /\ mid.id = acc.id
      /\ mid.backlog = acc.backlog /\ mid.now = acc.now
      /\ mid.client = [o \in Clients |-> IF o = acc.fd[d] /\ acc.client[o] = "waiting"
                                         THEN "refused" ELSE acc.client[o]]
  <2>1. acc \in Rpcs
    BY <1>2
  <2> QED BY ONLY <2>1, d \in Descriptors, ClosedIs
<1>4. rpc' = [mid EXCEPT !.router = out, !.status = st]
  BY DEF acc
<1> HIDE DEF mid
<1>5. [mid EXCEPT !.router = out, !.status = st] \in Rpcs
  BY <1>3 DEF Rpcs
<1>6. /\ rpc' \in Rpcs /\ SameRest(rpc', mid) /\ rpc'.fd = mid.fd /\ rpc'.told = mid.told
      /\ rpc'.decided = mid.decided /\ rpc'.backlog = mid.backlog /\ rpc'.now = mid.now
      /\ rpc'.client = mid.client /\ rpc'.router = out /\ rpc'.status = st
      /\ rpc'.id = mid.id
  BY <1>3, <1>4, <1>5 DEF Rpcs, SameRest
<1>7. acc.fd[d] = c /\ \A e \in Descriptors : rpc'.fd[e] \in {Free, rpc.fd[e]}
  BY <1>1, <1>2, <1>3, <1>6, SMTT(40) DEF Rpcs
<1>8. /\ rpc'.client[c] \in {"left", "refused"}
      /\ \A o \in Clients \ {c} : /\ rpc'.client[o] = rpc.client[o] /\ rpc'.told[o] = rpc.told[o]
                                  /\ rpc'.decided[o] = rpc.decided[o]
  BY <1>1, <1>2, <1>3, <1>6, <1>7, SMTT(40) DEF Rpcs
<1>11. IdIsOf'
  <2>1. rpc'.platform # "qnx"
    <3>1. rpc'.platform = mid.platform /\ mid.platform = acc.platform
          /\ acc.platform = rpc.platform
      BY <1>2, <1>3, <1>6 DEF SameRest
    <3>2. rpc.platform # "qnx"
      BY DEF RP!Qnx
    <3> QED BY ONLY <3>1, <3>2
  <2>2. rpc'.id = d
    BY <1>2, <1>3, <1>6
  <2> QED BY <2>1, <2>2 DEF IdIsOf
<1>9. TakenOver(c)
  BY <1>2, <1>3, <1>6, <1>8, <1>11 DEF TakenOver, SameRest, RpcTypeOK
<1>10. Dismissed(c)
  BY <1>1, <1>6, <1>7, <1>8 DEF Dismissed, RpcDistinct
<1> QED
  BY <1>9, <1>10, RpcTakenOver

\* Accepted and read.
LEMMA RpcGoesOn ==
  ASSUME RpcDistinct, RpcInv, NEW c, ~ RP!Qnx, NEW d \in Descriptors,
         rpc.router = "receive", rpc.backlog # << >>, c = Head(rpc.backlog),
         rpc.kind[c] \in RP!Messages, rpc.wrote[c] \in {"part", "message", "all"},
         rpc.wrote[c] # "all" => RP!Linux \/ (RP!Win32 /\ rpc.wrote[c] = "message"),
         rpc' = [RP!Accepted(c, d) EXCEPT !.router = "serve"]
  PROVE  RpcInv'
<1> DEFINE acc == RP!Accepted(c, d)
<1>1. rpc \in Rpcs /\ c \in Clients
  BY FirstIs
<1>2. /\ acc \in Rpcs /\ SameRest(acc, rpc) /\ acc.client = rpc.client
      /\ acc.fd = [rpc.fd EXCEPT ![d] = c] /\ acc.id = d
      /\ acc.told = rpc.told /\ acc.decided = [rpc.decided EXCEPT ![c] = NoId]
      /\ acc.backlog = Tail(rpc.backlog)
      /\ acc.now = [client |-> c, kind |-> rpc.kind[c], part |-> rpc.wrote[c]]
  BY <1>1, AcceptedIs, SMTT(40)
<1> HIDE DEF acc
<1>3. acc \in Rpcs /\ rpc' = [acc EXCEPT !.router = "serve"]
  BY <1>2 DEF acc
<1>4. [acc EXCEPT !.router = "serve"] \in Rpcs
  BY <1>3 DEF Rpcs
<1>5. /\ rpc' \in Rpcs /\ SameRest(rpc', acc) /\ rpc'.fd = acc.fd /\ rpc'.told = acc.told
      /\ rpc'.decided = acc.decided /\ rpc'.backlog = acc.backlog /\ rpc'.now = acc.now
      /\ rpc'.client = acc.client /\ rpc'.router = "serve" /\ rpc'.id = acc.id
  BY <1>3, <1>4 DEF Rpcs, SameRest
<1>6. \A o \in Clients \ {c} : rpc'.decided[o] = rpc.decided[o]
  BY <1>1, <1>2, <1>5 DEF Rpcs
<1>7. TakenOver(c)
  BY <1>2, <1>5, <1>6 DEF TakenOver, SameRest, RpcTypeOK, IdIsOf, RP!Qnx
<1>8. GoesOn(c)
  BY <1>2, <1>5 DEF GoesOn
<1> QED
  BY <1>7, <1>8, RpcTakenOver

\* A pulse on Windows is answered and its connection closed.
LEMMA RpcPulseWin32 ==
  ASSUME RpcDistinct, RpcInv, NEW c, NEW d \in Descriptors, ~ RP!Qnx,
         rpc.router = "receive", rpc.backlog # << >>, c = Head(rpc.backlog),
         rpc.kind[c] \notin RP!Messages,
         rpc' = [RP!AfterPulse(RP!Close(RP!Answered([RP!Accepted(c, d) EXCEPT !.decided[c] = TRUE],
                                                    c, TRUE), d), c) EXCEPT !.id = NoId]
  PROVE  RpcInv'
<1> DEFINE acc == RP!Accepted(c, d)
           dec == [acc EXCEPT !.decided[c] = TRUE]
           ans == RP!Answered(dec, c, TRUE)
           mid == RP!Close(ans, d)
           out == IF rpc.kind[c] = "exit" THEN "exit" ELSE "reply"
<1>1. /\ rpc \in Rpcs /\ c \in Clients /\ rpc.client[c] \in {"waiting", "left"}
      /\ \A e \in Descriptors : rpc.fd[e] \notin Clients
  BY FirstIs
<1>2. /\ acc \in Rpcs /\ SameRest(acc, rpc) /\ acc.client = rpc.client
      /\ acc.fd = [rpc.fd EXCEPT ![d] = c]
      /\ acc.told = rpc.told /\ acc.decided = [rpc.decided EXCEPT ![c] = NoId]
      /\ acc.backlog = Tail(rpc.backlog)
      /\ acc.now = [client |-> c, kind |-> rpc.kind[c], part |-> rpc.wrote[c]]
  BY ONLY <1>1, d \in Descriptors, rpc.backlog # << >>, AcceptedIs
<1> HIDE DEF acc
<1>3. /\ dec \in Rpcs /\ SameRest(dec, acc) /\ dec.client = acc.client /\ dec.fd = acc.fd
      /\ dec.told = acc.told /\ dec.decided = [acc.decided EXCEPT ![c] = TRUE]
      /\ dec.backlog = acc.backlog /\ dec.now = acc.now
  <2>1. acc \in Rpcs
    BY <1>2
  <2>2. dec \in Rpcs
    BY <1>1, <2>1 DEF Rpcs
  <2> QED BY <2>1, <2>2 DEF Rpcs, SameRest
<1> HIDE DEF dec
<1>4. /\ ans \in Rpcs /\ SameRest(ans, dec) /\ ans.fd = dec.fd /\ ans.decided = dec.decided
      /\ ans.backlog = dec.backlog /\ ans.now = dec.now
      /\ ans.client = IF dec.client[c] = "waiting" THEN [dec.client EXCEPT ![c] = "replied"]
                      ELSE dec.client
      /\ ans.told = IF dec.client[c] = "waiting" THEN [dec.told EXCEPT ![c] = TRUE]
                    ELSE dec.told
  <2>1. dec \in Rpcs /\ c \in Clients
    BY <1>1, <1>3
  <2>2. CASE dec.client[c] = "waiting"
    <3>1. ans = [dec EXCEPT !.client[c] = "replied", !.told[c] = TRUE]
      BY <2>2 DEF RP!Answered, RP!Waits
    <3>2. [dec EXCEPT !.client[c] = "replied", !.told[c] = TRUE] \in Rpcs
      BY ONLY <2>1 DEF Rpcs
    <3> QED BY ONLY <2>1, <2>2, <3>1, <3>2 DEF Rpcs, SameRest
  <2>3. CASE dec.client[c] # "waiting"
    <3>1. ans = dec
      BY <2>3 DEF RP!Answered, RP!Waits
    <3> QED BY ONLY <2>1, <2>3, <3>1 DEF SameRest
  <2> QED BY <2>2, <2>3
<1> HIDE DEF ans
<1>5. /\ mid \in Rpcs /\ SameRest(mid, ans) /\ mid.fd = [ans.fd EXCEPT ![d] = Free]
      /\ mid.told = ans.told /\ mid.decided = ans.decided
      /\ mid.backlog = ans.backlog /\ mid.now = ans.now
      /\ mid.client = [o \in Clients |-> IF o = ans.fd[d] /\ ans.client[o] = "waiting"
                                         THEN "refused" ELSE ans.client[o]]
  <2>1. ans \in Rpcs
    BY <1>4
  <2> QED BY ONLY <2>1, d \in Descriptors, ClosedIs
<1> HIDE DEF mid
<1>6. mid \in Rpcs /\ out \in {"exit", "reply"}
      /\ rpc' = [[mid EXCEPT !.router = out, !.status = TRUE] EXCEPT !.id = NoId]
  BY <1>5 DEF mid, ans, dec, acc, RP!AfterPulse
<1> HIDE DEF out
<1>7. /\ rpc' \in Rpcs /\ SameRest(rpc', mid) /\ rpc'.fd = mid.fd /\ rpc'.told = mid.told
      /\ rpc'.decided = mid.decided /\ rpc'.backlog = mid.backlog /\ rpc'.now = mid.now
      /\ rpc'.client = mid.client /\ rpc'.router = out /\ rpc'.status = TRUE
      /\ rpc'.id = NoId
  <2>1. [[mid EXCEPT !.router = out, !.status = TRUE] EXCEPT !.id = NoId] \in Rpcs
    BY <1>6 DEF Rpcs
  <2> QED BY <1>6, <2>1 DEF Rpcs, SameRest
<1>8. \A e \in Descriptors : rpc'.fd[e] \in {Free, rpc.fd[e]}
  <2>1. rpc'.fd = [[rpc.fd EXCEPT ![d] = c] EXCEPT ![d] = Free]
    <3>1. acc.fd = [rpc.fd EXCEPT ![d] = c] /\ dec.fd = acc.fd /\ ans.fd = dec.fd
      BY <1>2, <1>3, <1>4
    <3>2. rpc'.fd = mid.fd /\ mid.fd = [ans.fd EXCEPT ![d] = Free]
      BY <1>5, <1>7
    <3> QED BY ONLY <3>1, <3>2
  <2>2. rpc.fd \in [Descriptors -> Clients \cup {Thread, Free}]
    BY <1>1 DEF Rpcs
  <2> QED BY <2>1, <2>2
<1>9. /\ acc.client[c] \in {"waiting", "left"} /\ acc.fd[d] = c
      /\ dec.decided[c] = TRUE
      /\ \A o \in Clients \ {c} : dec.decided[o] = rpc.decided[o]
  <2>1. rpc.fd \in [Descriptors -> Clients \cup {Thread, Free}]
        /\ rpc.decided \in [Clients -> BOOLEAN \cup {NoId}]
    BY <1>1 DEF Rpcs
  <2>2. dec.decided = [[rpc.decided EXCEPT ![c] = NoId] EXCEPT ![c] = TRUE]
    BY <1>2, <1>3
  <2>3. dec.decided[c] = TRUE /\ \A o \in Clients \ {c} : dec.decided[o] = rpc.decided[o]
    BY <1>1, <2>1, <2>2
  <2> QED BY <1>1, <1>2, <2>1, <2>3
<1>10. /\ ans.client[c] \in {"replied", "left"} /\ ans.decided[c] = TRUE
       /\ ans.client[c] = "replied" => ans.told[c] = TRUE
       /\ \A o \in Clients \ {c} : /\ ans.client[o] = rpc.client[o] /\ ans.told[o] = rpc.told[o]
                                   /\ ans.decided[o] = rpc.decided[o]
  <2>1. rpc.client \in [Clients -> {"idle", "waiting", "left", "replied", "refused"}]
        /\ rpc.told \in [Clients -> BOOLEAN \cup {NoId}]
    BY <1>1 DEF Rpcs
  <2>2. /\ ans.client = IF rpc.client[c] = "waiting" THEN [rpc.client EXCEPT ![c] = "replied"]
                        ELSE rpc.client
        /\ ans.told = IF rpc.client[c] = "waiting" THEN [rpc.told EXCEPT ![c] = TRUE]
                      ELSE rpc.told
        /\ ans.decided = dec.decided
    BY <1>2, <1>3, <1>4
  <2>3. TRUE \in BOOLEAN /\ c \in Clients /\ rpc.client[c] \in {"waiting", "left"}
    BY <1>1
  <2>4. /\ ans.client[c] \in {"replied", "left"}
        /\ \A o \in Clients \ {c} : ans.client[o] = rpc.client[o]
    BY ONLY <2>1, <2>2, <2>3
  <2>5. /\ ans.client[c] = "replied" => ans.told[c] = TRUE
        /\ \A o \in Clients \ {c} : ans.told[o] = rpc.told[o]
    BY ONLY <2>1, <2>2, <2>3
  <2> QED BY <1>9, <2>2, <2>4, <2>5
<1>11. rpc'.client[c] = ans.client[c]
       /\ \A o \in Clients \ {c} : rpc'.client[o] = ans.client[o]
  <2>1. ans.fd[d] = c
    BY ONLY <1>3, <1>4, <1>9
  <2>2. rpc'.client = [o \in Clients |-> IF o = c /\ ans.client[o] = "waiting"
                                        THEN "refused" ELSE ans.client[o]]
    BY ONLY <1>5, <1>7, <2>1
  <2>3. c \in Clients /\ ans.client[c] # "waiting"
    BY <1>1, <1>10
  <2> QED BY ONLY <2>2, <2>3
<1>12. TakenOver(c)
  <2>1. SameRest(rpc', rpc)
    BY ONLY <1>2, <1>3, <1>4, <1>5, <1>7 DEF SameRest
  <2>2. /\ rpc'.backlog = Tail(rpc.backlog) /\ rpc' \in Rpcs /\ rpc'.id = NoId
        /\ rpc'.now = [client |-> c, kind |-> rpc.kind[c], part |-> rpc.wrote[c]]
    BY ONLY <1>2, <1>3, <1>4, <1>5, <1>7
  <2>3. \A o \in Clients \ {c} :
          /\ rpc'.client[o] = rpc.client[o] /\ rpc'.told[o] = rpc.told[o]
          /\ rpc'.decided[o] = rpc.decided[o]
    BY ONLY <1>5, <1>7, <1>10, <1>11
  <2> QED
    BY <2>1, <2>2, <2>3 DEF TakenOver, SameRest, RpcTypeOK, IdIsOf
<1>13. Dismissed(c)
  <2>1. \A e \in Descriptors : rpc'.fd[e] \notin Clients
    BY <1>1, <1>8 DEF RpcDistinct
  <2>2. /\ rpc'.client[c] = ans.client[c] /\ rpc'.told[c] = ans.told[c]
        /\ rpc'.decided[c] = ans.decided[c]
    BY ONLY <1>5, <1>7, <1>11
  <2> QED
    BY <1>6, <1>7, <1>10, <2>1, <2>2 DEF Dismissed
<1> QED
  BY <1>12, <1>13, RpcTakenOver

\* QNX passes the message itself.
LEMMA RpcReceiveQnx ==
  ASSUME RpcDistinct, RpcInv, NEW c, RP!Qnx,
         rpc.router = "receive", rpc.backlog # << >>, c = Head(rpc.backlog),
         rpc' \in RP!ReceiveQnx(c)
  PROVE  RpcInv'
<1> DEFINE t == RP!Taken(rpc, c)
<1>1. /\ rpc \in Rpcs /\ c \in Clients /\ rpc.client[c] \in {"waiting", "left"}
      /\ rpc.client[c] = "waiting" => rpc.kind[c] \in RP!Messages
      /\ RP!Whole(rpc.kind[c], rpc.wrote[c])
      /\ \A e \in Descriptors : rpc.fd[e] \notin Clients
  BY FirstIs DEF RP!Win32, RP!Qnx
<1>2. /\ t \in Rpcs /\ SameRest(t, rpc) /\ t.client = rpc.client /\ t.fd = rpc.fd
      /\ t.told = rpc.told /\ t.decided = [rpc.decided EXCEPT ![c] = NoId]
      /\ t.id = rpc.id /\ t.backlog = Tail(rpc.backlog)
      /\ t.now = [client |-> c, kind |-> rpc.kind[c], part |-> rpc.wrote[c]]
  BY <1>1, TakenIs
<1>3. PICK id \in {rpc.id, c, NoId}, out \in {"serve", "reply", "exit", "receive"},
           st \in BOOLEAN :
        /\ rpc' = [t EXCEPT !.id = id, !.router = out, !.status = st]
        /\ IF rpc.kind[c] \in RP!Messages THEN id = c /\ out = "serve"
           ELSE id \in {rpc.id, NoId} /\ out # "serve"
  <2>1. CASE rpc.kind[c] \in RP!Messages
    <3>1. rpc' = [t EXCEPT !.id = c, !.router = "serve"]
      BY <2>1 DEF RP!ReceiveQnx
    <3> HIDE DEF t
    <3>2. t.status \in BOOLEAN
      BY <1>2 DEF Rpcs
    <3>3. rpc' = [t EXCEPT !.id = c, !.router = "serve", !.status = t.status]
      BY <1>2, <3>1 DEF Rpcs
    <3> QED BY <2>1, <3>2, <3>3
  <2>2. CASE rpc.kind[c] \notin RP!Messages
    <3> DEFINE out == IF rpc.kind[c] = "exit" THEN "exit" ELSE "reply"
               r == [t EXCEPT !.router = out, !.status = TRUE]
    <3>1. \/ rpc' = r \/ rpc' = [r EXCEPT !.id = NoId] \/ rpc' = [r EXCEPT !.router = "receive"]
      BY <2>2 DEF RP!ReceiveQnx, RP!AfterPulse
    <3> HIDE DEF t
    <3>2. out \in {"reply", "exit"} /\ TRUE \in BOOLEAN
      OBVIOUS
    <3> HIDE DEF out
    <3>3. \/ rpc' = [t EXCEPT !.id = t.id, !.router = out, !.status = TRUE]
          \/ rpc' = [t EXCEPT !.id = NoId, !.router = out, !.status = TRUE]
          \/ rpc' = [t EXCEPT !.id = t.id, !.router = "receive", !.status = TRUE]
      <4>1. t \in Rpcs
        BY <1>2
      <4>2. CASE rpc' = r
        BY ONLY <4>1, <4>2 DEF Rpcs
      <4>3. CASE rpc' = [r EXCEPT !.id = NoId]
        BY ONLY <4>1, <4>3 DEF Rpcs
      <4>4. CASE rpc' = [r EXCEPT !.router = "receive"]
        BY ONLY <4>1, <4>4 DEF Rpcs
      <4> QED BY <3>1, <4>2, <4>3, <4>4
    <3>4. t.id = rpc.id
      BY <1>2
    <3> QED BY <2>2, <3>2, <3>3, <3>4, Zenon
  <2> QED BY <2>1, <2>2
<1> HIDE DEF t
<1>4. rpc.id \in Clients \cup {NoId}
  BY DEF RpcInv, IdIsOf, RP!Qnx
<1>5. /\ rpc' \in Rpcs /\ SameRest(rpc', t) /\ rpc'.fd = t.fd /\ rpc'.told = t.told
      /\ rpc'.decided = t.decided /\ rpc'.backlog = t.backlog /\ rpc'.now = t.now
      /\ rpc'.client = t.client /\ rpc'.router = out /\ rpc'.id = id
  <2>1. t \in Rpcs /\ id \in Clients \cup {NoId}
    BY <1>1, <1>2, <1>4
  <2>2. [t EXCEPT !.id = id, !.router = out, !.status = st] \in Rpcs
    BY ONLY <2>1, out \in {"serve", "reply", "exit", "receive"}, st \in BOOLEAN DEF Rpcs
  <2>3. rpc' = [t EXCEPT !.id = id, !.router = out, !.status = st]
    BY <1>3
  <2> QED BY ONLY <2>1, <2>2, <2>3 DEF Rpcs, SameRest
<1>6. TakenOver(c)
  <2>1. SameRest(rpc', rpc)
    BY ONLY <1>2, <1>5 DEF SameRest
  <2>2. /\ rpc'.backlog = Tail(rpc.backlog) /\ rpc' \in Rpcs
        /\ rpc'.id \in Clients \cup {NoId}
        /\ rpc'.now = [client |-> c, kind |-> rpc.kind[c], part |-> rpc.wrote[c]]
    BY <1>1, <1>2, <1>4, <1>5
  <2>3. \A o \in Clients \ {c} :
          /\ rpc'.client[o] = rpc.client[o] /\ rpc'.told[o] = rpc.told[o]
          /\ rpc'.decided[o] = rpc.decided[o]
    BY <1>1, <1>2, <1>5 DEF Rpcs
  <2> QED
    BY <2>1, <2>2, <2>3 DEF TakenOver, SameRest, RpcTypeOK, IdIsOf, RP!Qnx
<1>7. rpc'.fd = rpc.fd /\ rpc'.client[c] = rpc.client[c]
  BY ONLY <1>2, <1>5
<1>8. CASE rpc.kind[c] \in RP!Messages
  <2>1. rpc.wrote[c] = "all"
    BY <1>1, <1>8 DEF RP!Whole
  <2> QED BY <1>3, <1>5, <1>6, <1>7, <1>8, <2>1, RpcTakenOver DEF GoesOn
<1>9. CASE rpc.kind[c] \notin RP!Messages
  <2>1. Dismissed(c)
    BY <1>1, <1>3, <1>5, <1>7, <1>9 DEF Dismissed
  <2> QED BY <1>6, <2>1, RpcTakenOver
<1> QED
  BY <1>8, <1>9

LEMMA RpcReceive ==
  ASSUME RpcDistinct, RpcInv, RP!Receive
  PROVE  RpcInv'
<1> DEFINE c == Head(rpc.backlog)
<1>1. /\ rpc.router = "receive" /\ rpc.backlog # << >>
      /\ \/ RP!Qnx /\ rpc' \in RP!ReceiveQnx(c)
         \/ \E d \in Descriptors : RP!Linux /\ rpc' \in RP!ReceiveLinux(c, d)
         \/ \E d \in Descriptors : RP!Win32 /\ rpc' \in RP!ReceiveWin32(c, d)
  BY DEF RP!Receive, RP!NextFree
<1>2. rpc.wrote[c] \in RP!Parts
  <2>1. rpc \in Rpcs /\ c \in Clients
    BY <1>1, FirstIs
  <2> QED BY <2>1 DEF Rpcs
<1>3. CASE RP!Qnx /\ rpc' \in RP!ReceiveQnx(c)
  BY <1>1, <1>3, RpcReceiveQnx
<1>4. ASSUME NEW d \in Descriptors, RP!Linux, rpc' \in RP!ReceiveLinux(c, d)
      PROVE  RpcInv'
  <2>1. ~ RP!Qnx
    BY <1>4 DEF RP!Qnx, RP!Linux
  <2>2. CASE rpc.wrote[c] = "nothing"
    <3>1. rpc' = [RP!Close(RP!Accepted(c, d), d) EXCEPT !.router = "reply", !.status = FALSE]
      BY <1>4, <2>2 DEF RP!ReceiveLinux, RP!Failed
    <3> QED BY <1>1, <2>1, <3>1, RpcFailed
  <2>3. CASE rpc.wrote[c] # "nothing" /\ rpc.kind[c] \notin RP!Messages
    <3> DEFINE out == IF rpc.kind[c] = "exit" THEN "exit" ELSE "reply"
               st == rpc.kind[c] \notin RP!Messages
    <3>1. rpc' = [RP!Close(RP!Accepted(c, d), d) EXCEPT !.router = out, !.status = TRUE]
      BY <1>4, <2>3 DEF RP!ReceiveLinux, RP!AfterPulse
    <3>2. st = TRUE /\ st \in BOOLEAN /\ out \in {"reply", "exit"}
      BY <2>3
    <3>3. st => rpc.kind[c] \notin RP!Messages
      OBVIOUS
    <3> HIDE DEF st, out
    <3>4. rpc' = [RP!Close(RP!Accepted(c, d), d) EXCEPT !.router = out, !.status = st]
      BY <3>1, <3>2
    <3> QED BY <1>1, <2>1, <3>2, <3>3, <3>4, RpcFailed
  <2>4. CASE rpc.wrote[c] # "nothing" /\ rpc.kind[c] \in RP!Messages
    <3>1. rpc' = [RP!Accepted(c, d) EXCEPT !.router = "serve"]
      BY <1>4, <2>4 DEF RP!ReceiveLinux
    <3>2. rpc.wrote[c] \in {"part", "message", "all"}
      BY <1>2, <2>4 DEF RP!Parts
    <3> QED BY <1>1, <1>4, <2>1, <2>4, <3>1, <3>2, RpcGoesOn
  <2> QED BY <2>2, <2>3, <2>4
<1>5. ASSUME NEW d \in Descriptors, RP!Win32, rpc' \in RP!ReceiveWin32(c, d)
      PROVE  RpcInv'
  <2>1. ~ RP!Qnx
    BY <1>5 DEF RP!Qnx, RP!Win32
  <2> DEFINE pulse == RP!Close(RP!Answered([RP!Accepted(c, d) EXCEPT !.decided[c] = TRUE],
                                           c, TRUE), d)
  <2>2. \/ rpc' = RP!Failed(c, d)
        \/ /\ rpc.wrote[c] \notin {"nothing", "part"} /\ rpc.kind[c] \in RP!Messages
           /\ rpc' = [RP!Accepted(c, d) EXCEPT !.router = "serve"]
        \/ /\ rpc.wrote[c] \notin {"nothing", "part"} /\ rpc.kind[c] \notin RP!Messages
           /\ rpc' = [RP!AfterPulse(pulse, c) EXCEPT !.id = NoId]
    BY <1>5 DEF RP!ReceiveWin32
  <2>3. CASE rpc' = RP!Failed(c, d)
    <3>1. rpc' = [RP!Close(RP!Accepted(c, d), d) EXCEPT !.router = "reply", !.status = FALSE]
      BY <2>3 DEF RP!Failed
    <3> QED BY <1>1, <2>1, <3>1, RpcFailed
  <2>4. CASE /\ rpc.wrote[c] \notin {"nothing", "part"} /\ rpc.kind[c] \in RP!Messages
             /\ rpc' = [RP!Accepted(c, d) EXCEPT !.router = "serve"]
    <3>1. rpc.wrote[c] \in {"message", "all"}
      BY <1>2, <2>4 DEF RP!Parts
    <3> QED BY <1>1, <1>5, <2>1, <2>4, <3>1, RpcGoesOn
  <2>5. CASE /\ rpc.kind[c] \notin RP!Messages
             /\ rpc' = [RP!AfterPulse(pulse, c) EXCEPT !.id = NoId]
    BY <1>1, <2>1, <2>5, RpcPulseWin32
  <2> QED BY <2>2, <2>3, <2>4, <2>5
<1> QED
  BY <1>1, <1>3, <1>4, <1>5

LEMMA RpcServe ==
  ASSUME RpcDistinct, RpcInv, RP!Serve
  PROVE  RpcInv'
<1>1. PICK s \in BOOLEAN, read \in BOOLEAN :
        /\ rpc.now.part = "message" => read
        /\ rpc.now.kind = "send" /\ read /\ RP!ReadFails /\ rpc.now.part # "part" => ~ s
        /\ rpc' = [(IF RP!Win32 /\ read /\ RP!ReadFails THEN RP!Close(rpc, rpc.id) ELSE rpc)
                   EXCEPT !.router = "reply", !.status = s, !.decided[rpc.now.client] = s]
  BY DEF RP!Serve
<1> DEFINE n == rpc.now.client
           cut == RP!Win32 /\ read /\ RP!ReadFails
           mid == IF cut THEN RP!Close(rpc, rpc.id) ELSE rpc
<1>2. RpcInv /\ rpc \in Rpcs /\ rpc.router = "serve"
  BY DEF RpcInv, RpcTypeOK, RP!Serve
<1>3. /\ rpc.now # NoId /\ n \in Clients /\ rpc.id # NoId
      /\ cut => rpc.id \in Descriptors
      /\ rpc.now.part \in {"part", "message", "all"}
      /\ rpc.now.part # "all" => RP!Linux \/ (RP!Win32 /\ rpc.now.part = "message")
  BY <1>2 DEF RpcInv, ServesMessage, IdIsOf, RP!Win32, Rpcs
<1>4. /\ mid \in Rpcs /\ SameRest(mid, rpc) /\ mid.told = rpc.told
      /\ mid.decided = rpc.decided /\ mid.id = rpc.id /\ mid.backlog = rpc.backlog
      /\ mid.now = rpc.now
      /\ mid.fd = IF cut THEN [rpc.fd EXCEPT ![rpc.id] = Free] ELSE rpc.fd
      /\ mid.client = [o \in Clients |-> IF cut /\ o = rpc.fd[rpc.id] /\ rpc.client[o] = "waiting"
                                         THEN "refused" ELSE rpc.client[o]]
  <2>1. CASE cut
    <3>1. rpc \in Rpcs /\ rpc.id \in Descriptors /\ mid = RP!Close(rpc, rpc.id)
      BY <1>2, <1>3, <2>1
    <3> HIDE DEF mid
    <3>2. /\ mid \in Rpcs /\ SameRest(mid, rpc) /\ mid.fd = [rpc.fd EXCEPT ![rpc.id] = Free]
          /\ mid.told = rpc.told /\ mid.decided = rpc.decided /\ mid.id = rpc.id
          /\ mid.backlog = rpc.backlog /\ mid.now = rpc.now
          /\ mid.client = [o \in Clients |-> IF o = rpc.fd[rpc.id] /\ rpc.client[o] = "waiting"
                                             THEN "refused" ELSE rpc.client[o]]
      BY ONLY <3>1, ClosedIs
    <3> QED BY <2>1, <3>2
  <2>2. CASE ~ cut
    <3>1. mid = rpc
      BY <2>2
    <3>2. rpc.client = [o \in Clients |-> rpc.client[o]]
      BY <1>2 DEF Rpcs
    <3> HIDE DEF mid, cut
    <3> QED BY <1>2, <2>2, <3>1, <3>2 DEF SameRest
  <2> QED BY <2>1, <2>2
<1>5. rpc' = [mid EXCEPT !.router = "reply", !.status = s, !.decided[n] = s]
  BY <1>1
<1> HIDE DEF mid, n
<1>6. /\ rpc' \in Rpcs /\ SameRest(rpc', mid) /\ rpc'.fd = mid.fd /\ rpc'.told = mid.told
      /\ rpc'.decided = [mid.decided EXCEPT ![n] = s] /\ rpc'.backlog = mid.backlog
      /\ rpc'.now = mid.now /\ rpc'.client = mid.client /\ rpc'.router = "reply"
      /\ rpc'.id = mid.id /\ rpc'.status = s
  <2>1. mid \in Rpcs /\ n \in Clients
    BY <1>3, <1>4
  <2>2. [mid EXCEPT !.router = "reply", !.status = s, !.decided[n] = s] \in Rpcs
    BY ONLY <2>1, s \in BOOLEAN DEF Rpcs
  <2> QED BY ONLY <1>5, <2>1, <2>2 DEF Rpcs, SameRest
<1> DEFINE owner == rpc.fd[rpc.id]
<1>7. /\ rpc'.platform = rpc.platform /\ rpc'.kind = rpc.kind /\ rpc'.wrote = rpc.wrote
      /\ rpc'.told = rpc.told /\ rpc'.id = rpc.id /\ rpc'.backlog = rpc.backlog
      /\ rpc'.now = rpc.now
  BY ONLY <1>4, <1>6 DEF SameRest
<1>8. /\ rpc'.fd = IF cut THEN [rpc.fd EXCEPT ![rpc.id] = Free] ELSE rpc.fd
      /\ \A o \in Clients : rpc'.client[o] = IF cut /\ o = owner /\ rpc.client[o] = "waiting"
                                             THEN "refused" ELSE rpc.client[o]
  BY ONLY <1>4, <1>6
<1>9. rpc'.decided[n] = s /\ \A o \in Clients \ {n} : rpc'.decided[o] = rpc.decided[o]
  <2>1. rpc.decided \in [Clients -> BOOLEAN \cup {NoId}]
    BY <1>2 DEF Rpcs
  <2>2. rpc'.decided = [rpc.decided EXCEPT ![n] = s]
    BY ONLY <1>4, <1>6
  <2> QED BY ONLY <1>3, <2>1, <2>2
<1>10. InBacklog' = InBacklog
  BY ONLY <1>7 DEF InBacklog
<1>11. cut => rpc.id \in Descriptors /\ (owner \in Clients => owner \notin InBacklog)
  BY <1>2, <1>3 DEF RpcInv, IsConnected
<1> HIDE DEF cut
<1>12. RpcTypeOK'
  BY <1>6 DEF RpcTypeOK
<1>13. Backlogged'
  <2>1. InBacklog \subseteq Clients
    BY <1>2 DEF Rpcs, InBacklog, ToSet
  <2>2. \A o \in InBacklog : rpc'.client[o] = rpc.client[o]
    BY <1>8, <1>11, <2>1
  <2> QED BY <1>2, <1>7, <1>10, <2>2 DEF RpcInv, Backlogged, RP!Qnx
<1>14. IsConnected'
  <2>1. \A d \in Descriptors : rpc'.fd[d] \in Clients => rpc'.fd[d] = rpc.fd[d]
    BY <1>2, <1>8, <1>11 DEF Rpcs, RpcDistinct
  <2>2. \A o \in Clients : rpc.client[o] # "idle" => rpc'.client[o] # "idle"
    BY <1>8
  <2> QED BY <1>2, <1>6, <1>7, <1>10, <2>1, <2>2 DEF RpcInv, IsConnected
<1>15. WaitsWhole'
  BY <1>2, <1>7, <1>8 DEF RpcInv, WaitsWhole, RP!Win32
<1>16. WaitsServed'
  <2> SUFFICES ASSUME NEW o \in Clients, rpc'.client[o] = "waiting", o \notin InBacklog
               PROVE  IsServed(o)'
    BY <1>10 DEF WaitsServed
  <2>1. rpc.client[o] = "waiting" /\ ~ (cut /\ o = owner)
    BY <1>8
  <2>2. IsServed(o)
    BY <1>2, <2>1 DEF RpcInv, WaitsServed
  <2>3. n = o
    BY <2>2 DEF IsServed, n
  <2>4. cut => ~ RP!Qnx
    BY DEF cut, RP!Qnx, RP!Win32
  <2>5. rpc'.fd = rpc.fd
    BY <1>8, <2>1, <2>2, <2>4 DEF IsServed
  <2> QED
    BY <1>6, <1>7, <1>9, <2>2, <2>3, <2>5 DEF IsServed, RP!Qnx
<1>17. ToldTruly'
  <2> SUFFICES ASSUME NEW o \in Clients, rpc'.client[o] = "replied"
               PROVE  /\ rpc'.told[o] # NoId /\ rpc'.told[o] = rpc'.decided[o]
                      /\ rpc'.wrote[o] = "all" \/ rpc'.kind[o] \notin RP!Messages
    BY <1>6 DEF ToldTruly
  <2>1. rpc.client[o] = "replied"
    BY <1>8
  <2>2. o # n
    BY <1>2, <2>1 DEF RpcInv, ToldTruly, n
  <2> QED BY <1>2, <1>7, <1>9, <2>1, <2>2 DEF RpcInv, ToldTruly
<1>18. ServesMessage' /\ IdIsOf'
  BY <1>2, <1>6, <1>7 DEF RpcInv, ServesMessage, IdIsOf
<1>19. PostsWhole'
  <2>1. rpc.now.part = "message" /\ rpc.now.kind = "send" => ~ s
    BY <1>1 DEF RP!ReadFails
  <2> QED
    BY <1>3, <1>6, <1>7, <2>1 DEF PostsWhole, RP!Linux
<1> QED
  BY <1>12, <1>13, <1>14, <1>15, <1>16, <1>17, <1>18, <1>19 DEF RpcInv

\* The router is gone.
LEMMA RpcEnds ==
  ASSUME RpcDistinct, RpcInv, rpc' \in Rpcs, SameRest(rpc', rpc),
         rpc'.told = rpc.told, rpc'.decided = rpc.decided, rpc'.router = "gone",
         rpc'.backlog = << >>, rpc'.id = NoId,
         \A d \in Descriptors : rpc'.fd[d] \notin Clients,
         \A o \in Clients : /\ rpc'.client[o] # "waiting"
                            /\ rpc'.client[o] = "replied" => rpc.client[o] = "replied"
  PROVE  RpcInv'
<1>1. InBacklog' = {} /\ IsInjective(rpc'.backlog)
  BY DEF InBacklog, ToSet, IsInjective
<1>2. RpcTypeOK' /\ Backlogged' /\ IsConnected' /\ WaitsWhole' /\ WaitsServed'
  BY <1>1 DEF RpcTypeOK, Backlogged, IsConnected, WaitsWhole, WaitsServed
<1>3. ToldTruly'
  BY DEF RpcInv, ToldTruly, SameRest
<1>4. ServesMessage' /\ IdIsOf' /\ PostsWhole'
  BY DEF ServesMessage, IdIsOf, PostsWhole
<1> QED
  BY <1>2, <1>3, <1>4 DEF RpcInv

LEMMA AllRefusedIs ==
  ASSUME NEW r \in Rpcs, NEW t, t = RP!AllRefused(r)
  PROVE  /\ t \in Rpcs /\ SameRest(t, r) /\ t.told = r.told /\ t.decided = r.decided
         /\ t.router = "gone" /\ t.backlog = << >> /\ t.id = NoId /\ t.fd = r.fd
         /\ \A o \in Clients : /\ t.client[o] # "waiting"
                               /\ t.client[o] = "replied" => r.client[o] = "replied"
<1> DEFINE left == [c \in Clients |-> IF r.client[c] = "waiting" THEN "refused" ELSE r.client[c]]
<1>1. t = [r EXCEPT !.router = "gone", !.backlog = << >>, !.now = NoId, !.id = NoId,
                    !.client = left]
  BY DEF RP!AllRefused
<1>2. left \in [Clients -> {"idle", "waiting", "left", "replied", "refused"}]
      /\ << >> \in Seq(Clients)
      /\ \A o \in Clients : left[o] # "waiting" /\ (left[o] = "replied" => r.client[o] = "replied")
  BY DEF Rpcs
<1> HIDE DEF left
<1>3. [r EXCEPT !.router = "gone", !.backlog = << >>, !.now = NoId, !.id = NoId,
                !.client = left] \in Rpcs
  BY <1>2 DEF Rpcs
<1> QED
  BY <1>1, <1>2, <1>3 DEF Rpcs, SameRest

LEMMA RpcCrash ==
  ASSUME RpcDistinct, RpcInv, RP!Crash
  PROVE  RpcInv'
<1> DEFINE r == RP!AllRefused(rpc)
           free == [d \in Descriptors |-> Free]
<1>1. rpc \in Rpcs /\ rpc' = [r EXCEPT !.fd = free]
  BY DEF RP!Crash, RpcInv, RpcTypeOK
<1>2. /\ r \in Rpcs /\ SameRest(r, rpc) /\ r.told = rpc.told /\ r.decided = rpc.decided
      /\ r.router = "gone" /\ r.backlog = << >> /\ r.id = NoId
      /\ \A o \in Clients : /\ r.client[o] # "waiting"
                            /\ r.client[o] = "replied" => rpc.client[o] = "replied"
  BY <1>1, AllRefusedIs
<1> HIDE DEF r
<1>3. free \in [Descriptors -> {Free}]
  OBVIOUS
<1> HIDE DEF free
<1>4. rpc' \in Rpcs /\ rpc'.fd = free
  BY <1>1, <1>2, <1>3, ZenonT(40) DEF Rpcs
<1>5. /\ SameRest(rpc', r) /\ rpc'.told = r.told /\ rpc'.decided = r.decided
      /\ rpc'.router = r.router /\ rpc'.backlog = r.backlog /\ rpc'.id = r.id
      /\ rpc'.client = r.client
  BY <1>1, <1>2 DEF Rpcs, SameRest
<1>6. SameRest(rpc', rpc)
  BY <1>2, <1>5 DEF SameRest
<1>7. \A d \in Descriptors : rpc'.fd[d] \notin Clients
  BY <1>3, <1>4 DEF RpcDistinct
<1> QED
  BY <1>2, <1>4, <1>5, <1>6, <1>7, RpcEnds

LEMMA RpcExit ==
  ASSUME RpcDistinct, RpcInv, RP!Exit
  PROVE  RpcInv'
<1> DEFINE mid == IF RP!Linux /\ rpc.id # NoId THEN RP!Close(rpc, rpc.id) ELSE rpc
<1>1. rpc \in Rpcs /\ rpc' = RP!AllRefused(mid) /\ rpc.router = "exit"
  BY DEF RP!Exit, RpcInv, RpcTypeOK
<1>2. RP!Linux /\ rpc.id # NoId => rpc.id \in Descriptors
  BY DEF RpcInv, IdIsOf, RP!Linux
<1>3. \A d \in Descriptors : rpc.fd[d] \notin Clients
  BY <1>1, RpcBetween
<1>4. /\ mid \in Rpcs /\ SameRest(mid, rpc) /\ mid.told = rpc.told
      /\ mid.decided = rpc.decided
      /\ \A d \in Descriptors : mid.fd[d] \notin Clients
      /\ \A o \in Clients : mid.client[o] = "replied" => rpc.client[o] = "replied"
  <2>1. CASE RP!Linux /\ rpc.id # NoId
    <3>1. mid = RP!Close(rpc, rpc.id) /\ rpc.id \in Descriptors
      BY <1>2, <2>1
    <3> HIDE DEF mid
    <3>2. /\ mid \in Rpcs /\ SameRest(mid, rpc) /\ mid.fd = [rpc.fd EXCEPT ![rpc.id] = Free]
          /\ mid.told = rpc.told /\ mid.decided = rpc.decided
          /\ mid.client = [o \in Clients |-> IF o = rpc.fd[rpc.id] /\ rpc.client[o] = "waiting"
                                             THEN "refused" ELSE rpc.client[o]]
      BY ONLY <1>1, <3>1, ClosedIs
    <3>3. \A d \in Descriptors : mid.fd[d] \notin Clients
      BY <1>1, <1>3, <3>2 DEF Rpcs, RpcDistinct
    <3> QED BY <3>2, <3>3
  <2>2. CASE ~ (RP!Linux /\ rpc.id # NoId)
    BY <1>1, <1>3, <2>2 DEF SameRest
  <2> QED BY <2>1, <2>2
<1> HIDE DEF mid
<1>5. /\ rpc' \in Rpcs /\ SameRest(rpc', mid) /\ rpc'.told = mid.told
      /\ rpc'.decided = mid.decided
      /\ rpc'.router = "gone" /\ rpc'.backlog = << >> /\ rpc'.id = NoId /\ rpc'.fd = mid.fd
      /\ \A o \in Clients : /\ rpc'.client[o] # "waiting"
                            /\ rpc'.client[o] = "replied" => mid.client[o] = "replied"
  BY <1>1, <1>4, AllRefusedIs
<1>6. SameRest(rpc', rpc)
  BY <1>4, <1>5 DEF SameRest
<1> QED
  BY <1>4, <1>5, <1>6, RpcEnds

\* The reply has been sent: to the client that waits for it, if there is one.
LEMMA RpcReplied ==
  ASSUME RpcDistinct, RpcInv, rpc' \in Rpcs, SameRest(rpc', rpc), IdIsOf',
         rpc.router = "reply", rpc'.router = "receive", rpc'.now = NoId,
         rpc'.decided = rpc.decided, rpc'.backlog = rpc.backlog,
         \A d \in Descriptors : rpc'.fd[d] \notin Clients,
         \A o \in Clients :
           \/ /\ rpc'.client[o] = rpc.client[o] /\ rpc'.told[o] = rpc.told[o]
              /\ rpc.client[o] = "waiting" => o \in InBacklog
           \/ /\ rpc.client[o] = "waiting" /\ o \notin InBacklog
              /\ rpc'.client[o] = "replied" /\ rpc'.told[o] = rpc.status
  PROVE  RpcInv'
<1>1. RpcInv /\ InBacklog' = InBacklog /\ InBacklog \subseteq Clients
  BY DEF RpcInv, RpcTypeOK, Rpcs, InBacklog, ToSet
<1>2. rpc'.platform = rpc.platform /\ rpc'.kind = rpc.kind /\ rpc'.wrote = rpc.wrote
  BY DEF SameRest
<1>3. Backlogged'
  BY <1>1, <1>2 DEF RpcInv, Backlogged, RP!Qnx
<1>4. IsConnected' /\ WaitsWhole' /\ WaitsServed'
  BY <1>1, <1>2 DEF RpcInv, IsConnected, WaitsWhole, WaitsServed, RP!Win32
<1>5. ToldTruly'
  <2> SUFFICES ASSUME NEW o \in Clients, rpc'.client[o] = "replied"
               PROVE  /\ rpc'.told[o] # NoId /\ rpc'.told[o] = rpc'.decided[o]
                      /\ rpc'.wrote[o] = "all" \/ rpc'.kind[o] \notin RP!Messages
    BY DEF ToldTruly
  <2>1. CASE rpc.client[o] = "replied"
    BY <1>1, <1>2, <2>1 DEF RpcInv, ToldTruly
  <2>2. CASE /\ rpc.client[o] = "waiting" /\ o \notin InBacklog
             /\ rpc'.client[o] = "replied" /\ rpc'.told[o] = rpc.status
    <3>1. IsServed(o) /\ RP!Whole(rpc.kind[o], rpc.wrote[o])
      BY <1>1, <2>2 DEF RpcInv, WaitsServed, WaitsWhole
    <3>2. rpc.status \in BOOLEAN
      BY <1>1 DEF RpcInv, RpcTypeOK, Rpcs
    <3>3. rpc.status # NoId
      BY <3>2 DEF RpcDistinct
    <3> QED BY <1>2, <2>2, <3>1, <3>3 DEF IsServed, RP!Whole
  <2> QED BY <2>1, <2>2
<1>6. ServesMessage' /\ PostsWhole'
  BY DEF ServesMessage, PostsWhole
<1> QED
  BY <1>3, <1>4, <1>5, <1>6 DEF RpcInv, RpcTypeOK

LEMMA RpcReply ==
  ASSUME RpcDistinct, RpcInv, RP!Reply
  PROVE  RpcInv'
<1> DEFINE next == [rpc EXCEPT !.router = "receive", !.now = NoId, !.status = TRUE]
<1>1. /\ RpcInv /\ rpc \in Rpcs /\ rpc.router = "reply" /\ rpc.status \in BOOLEAN
      /\ rpc' = IF RP!Qnx THEN RP!ReplyQnx(next) ELSE [RP!ReplySocket(next) EXCEPT !.id = NoId]
  BY DEF RP!Reply, RpcInv, RpcTypeOK, Rpcs
<1>2. /\ next \in Rpcs /\ SameRest(next, rpc) /\ next.fd = rpc.fd /\ next.told = rpc.told
      /\ next.decided = rpc.decided /\ next.id = rpc.id /\ next.backlog = rpc.backlog
      /\ next.now = NoId /\ next.router = "receive" /\ next.client = rpc.client
  <2>1. next \in Rpcs
    BY <1>1 DEF Rpcs
  <2> QED BY <1>1, <2>1 DEF Rpcs, SameRest
<1> HIDE DEF next
<1>3. \A o \in Clients : rpc.client[o] = "waiting" /\ o \notin InBacklog => IsServed(o)
  BY <1>1 DEF RpcInv, WaitsServed
<1>4. CASE RP!Qnx
  <2>1. rpc.id \in Clients \cup {NoId} /\ \A d \in Descriptors : rpc.fd[d] \notin Clients
    <3>1. rpc.id \in Clients \cup {NoId}
      BY <1>1, <1>4 DEF RpcInv, IdIsOf, RP!Qnx
    <3>2. \A d \in Descriptors : rpc.fd[d] \notin Clients
      BY <1>1, <1>4 DEF RpcInv, IsConnected, RP!Qnx
    <3> QED BY <3>1, <3>2
  <2>2. CASE rpc.id = NoId \/ RP!Queued(rpc.id)
    <3>1. rpc' = next
      BY <1>1, <1>4, <2>2 DEF RP!ReplyQnx
    <3>2. rpc.id = NoId \/ rpc.id \in InBacklog
      BY <2>2, QueuedIs
    <3>3. \A o \in Clients : rpc.client[o] = "waiting" => o \in InBacklog
      BY <1>3, <1>4, <3>2 DEF IsServed, RpcDistinct
    <3>4. /\ rpc' \in Rpcs /\ SameRest(rpc', rpc) /\ rpc'.fd = rpc.fd /\ rpc'.told = rpc.told
          /\ rpc'.decided = rpc.decided /\ rpc'.id = rpc.id /\ rpc'.backlog = rpc.backlog
          /\ rpc'.now = NoId /\ rpc'.router = "receive" /\ rpc'.client = rpc.client
      BY ONLY <1>2, <3>1
    <3>5. IdIsOf'
      BY <1>4, <2>1, <3>4 DEF IdIsOf, SameRest, RP!Qnx
    <3> QED BY <1>1, <2>1, <3>3, <3>4, <3>5, RpcReplied
  <2>3. CASE rpc.id # NoId /\ ~ RP!Queued(rpc.id)
    <3>1. rpc' = RP!Answered(next, rpc.id, rpc.status)
      BY <1>1, <1>4, <2>3 DEF RP!ReplyQnx
    <3>2. rpc.id \in Clients /\ rpc.id \notin InBacklog
      BY <2>1, <2>3, QueuedIs
    <3>3. /\ rpc' \in Rpcs /\ SameRest(rpc', next) /\ rpc'.fd = next.fd
          /\ rpc'.decided = next.decided /\ rpc'.id = next.id /\ rpc'.backlog = next.backlog
          /\ rpc'.now = next.now /\ rpc'.router = next.router
          /\ rpc'.client = IF next.client[rpc.id] = "waiting"
                           THEN [next.client EXCEPT ![rpc.id] = "replied"] ELSE next.client
          /\ rpc'.told = IF next.client[rpc.id] = "waiting"
                         THEN [next.told EXCEPT ![rpc.id] = rpc.status] ELSE next.told
      <4>1. next \in Rpcs /\ rpc.id \in Clients /\ rpc.status \in BOOLEAN
        BY <1>1, <1>2, <3>2
      <4> QED BY ONLY <3>1, <4>1, AnsweredIs
    <3>4. /\ SameRest(rpc', rpc) /\ rpc'.fd = rpc.fd /\ rpc'.decided = rpc.decided
          /\ rpc'.id = rpc.id /\ rpc'.backlog = rpc.backlog /\ rpc'.now = NoId
          /\ rpc'.router = "receive"
      BY ONLY <1>2, <3>3 DEF SameRest
    <3>5. IdIsOf'
      BY <1>4, <2>1, <3>4 DEF IdIsOf, SameRest, RP!Qnx
    <3>6. \A o \in Clients :
            \/ /\ rpc'.client[o] = rpc.client[o] /\ rpc'.told[o] = rpc.told[o]
               /\ rpc.client[o] = "waiting" => o \in InBacklog
            \/ /\ rpc.client[o] = "waiting" /\ o \notin InBacklog
               /\ rpc'.client[o] = "replied" /\ rpc'.told[o] = rpc.status
      <4>1. \A o \in Clients : rpc.client[o] = "waiting" /\ o \notin InBacklog => o = rpc.id
        BY <1>3, <1>4 DEF IsServed
      <4>2. /\ rpc.client \in [Clients -> {"idle", "waiting", "left", "replied", "refused"}]
            /\ rpc.told \in [Clients -> BOOLEAN \cup {NoId}]
        BY <1>1 DEF Rpcs
      <4>3. /\ rpc'.client = IF rpc.client[rpc.id] = "waiting"
                             THEN [rpc.client EXCEPT ![rpc.id] = "replied"] ELSE rpc.client
            /\ rpc'.told = IF rpc.client[rpc.id] = "waiting"
                           THEN [rpc.told EXCEPT ![rpc.id] = rpc.status] ELSE rpc.told
        BY ONLY <1>2, <3>3
      <4> QED BY ONLY <3>2, <4>1, <4>2, <4>3
    <3> QED BY <1>1, <2>1, <3>3, <3>4, <3>5, <3>6, RpcReplied
  <2> QED BY <2>2, <2>3
<1>5. CASE ~ RP!Qnx
  <2> DEFINE sent == RP!ReplySocket(next)
  <2>1. rpc.id \in Descriptors \cup {NoId}
    BY <1>1, <1>5 DEF RpcInv, IdIsOf, RP!Qnx
  <2>2. \A d \in Descriptors : rpc.fd[d] \in Clients => d = rpc.id /\ rpc.fd[d] \notin InBacklog
    BY <1>1 DEF RpcInv, IsConnected
  <2>3. \A o \in Clients : rpc.client[o] = "waiting" /\ o \notin InBacklog =>
          rpc.id \in Descriptors /\ rpc.fd[rpc.id] = o
    BY <1>3, <1>5 DEF IsServed
  <2>4. /\ rpc.client \in [Clients -> {"idle", "waiting", "left", "replied", "refused"}]
        /\ rpc.told \in [Clients -> BOOLEAN \cup {NoId}]
        /\ rpc.fd \in [Descriptors -> Clients \cup {Thread, Free}]
    BY <1>1 DEF Rpcs
  <2>5. /\ sent \in Rpcs /\ SameRest(sent, rpc) /\ sent.decided = rpc.decided
        /\ sent.backlog = rpc.backlog /\ sent.now = NoId /\ sent.router = "receive"
        /\ \A d \in Descriptors : sent.fd[d] \notin Clients
        /\ \A o \in Clients :
             \/ /\ sent.client[o] = rpc.client[o] /\ sent.told[o] = rpc.told[o]
                /\ rpc.client[o] = "waiting" => o \in InBacklog
             \/ /\ rpc.client[o] = "waiting" /\ o \notin InBacklog
                /\ sent.client[o] = "replied" /\ sent.told[o] = rpc.status
    <3>1. CASE rpc.id = NoId
      <4>1. sent = next
        BY <3>1 DEF RP!ReplySocket
      <4>2. \A d \in Descriptors : rpc.fd[d] \notin Clients
        BY <2>2, <3>1 DEF RpcDistinct
      <4>3. \A o \in Clients : rpc.client[o] = "waiting" => o \in InBacklog
        BY <2>3, <3>1 DEF RpcDistinct
      <4> HIDE DEF sent
      <4> QED BY ONLY <1>2, <4>1, <4>2, <4>3 DEF SameRest
    <3>2. CASE rpc.id # NoId /\ rpc.fd[rpc.id] \in Clients
      <4> DEFINE o == rpc.fd[rpc.id]
                 ans == RP!Answered(next, o, rpc.status)
      <4>1. sent = RP!Close(ans, rpc.id)
        BY <3>2 DEF RP!ReplySocket
      <4>2. rpc.id \in Descriptors /\ o \in Clients /\ o \notin InBacklog
            /\ next \in Rpcs /\ rpc.status \in BOOLEAN
        BY <1>1, <1>2, <2>1, <2>2, <3>2
      <4> HIDE DEF sent
      <4>3. /\ ans \in Rpcs /\ SameRest(ans, next) /\ ans.fd = next.fd
            /\ ans.decided = next.decided /\ ans.backlog = next.backlog
            /\ ans.now = next.now /\ ans.router = next.router
            /\ ans.client = IF next.client[o] = "waiting"
                            THEN [next.client EXCEPT ![o] = "replied"] ELSE next.client
            /\ ans.told = IF next.client[o] = "waiting"
                          THEN [next.told EXCEPT ![o] = rpc.status] ELSE next.told
        <5>1. /\ next \in Rpcs /\ o \in Clients /\ rpc.status \in BOOLEAN
              /\ ans = RP!Answered(next, o, rpc.status)
          BY <4>2
        <5> HIDE DEF ans, o
        <5> QED BY ONLY <5>1, AnsweredIs
      <4>4. ans \in Rpcs /\ rpc.id \in Descriptors /\ sent = RP!Close(ans, rpc.id)
        BY <4>1, <4>2, <4>3
      <4> HIDE DEF ans
      <4>5. /\ sent \in Rpcs /\ SameRest(sent, ans) /\ sent.fd = [ans.fd EXCEPT ![rpc.id] = Free]
            /\ sent.told = ans.told /\ sent.decided = ans.decided
            /\ sent.backlog = ans.backlog /\ sent.now = ans.now /\ sent.router = ans.router
            /\ sent.client = [c \in Clients |-> IF c = ans.fd[rpc.id] /\ ans.client[c] = "waiting"
                                                THEN "refused" ELSE ans.client[c]]
        BY ONLY <4>4, ClosedIs
      <4>6. /\ SameRest(sent, rpc) /\ sent.decided = rpc.decided
            /\ sent.backlog = rpc.backlog /\ sent.now = NoId /\ sent.router = "receive"
            /\ sent.fd = [rpc.fd EXCEPT ![rpc.id] = Free] /\ ans.fd = rpc.fd
        BY ONLY <1>2, <4>3, <4>5 DEF SameRest
      <4>7. \A d \in Descriptors : sent.fd[d] \notin Clients
        BY <2>2, <2>4, <4>2, <4>6 DEF RpcDistinct
      <4>8. /\ sent.told = IF rpc.client[o] = "waiting" THEN [rpc.told EXCEPT ![o] = rpc.status]
                           ELSE rpc.told
            /\ ans.client = IF rpc.client[o] = "waiting" THEN [rpc.client EXCEPT ![o] = "replied"]
                            ELSE rpc.client
        BY ONLY <1>2, <4>3, <4>5
      <4>9. ans.client[o] # "waiting"
        BY ONLY <2>4, <4>2, <4>8
      <4>10. \A c \in Clients : sent.client[c] = ans.client[c]
        BY <4>5, <4>6, <4>9
      <4>11. \A c \in Clients : rpc.client[c] = "waiting" /\ c \notin InBacklog => c = o
        BY <2>3
      <4>12. o \in Clients /\ o \notin InBacklog
        BY <4>2
      <4> HIDE DEF o
      <4>13. \A c \in Clients :
             \/ /\ sent.client[c] = rpc.client[c] /\ sent.told[c] = rpc.told[c]
                /\ rpc.client[c] = "waiting" => c \in InBacklog
             \/ /\ rpc.client[c] = "waiting" /\ c \notin InBacklog
                /\ sent.client[c] = "replied" /\ sent.told[c] = rpc.status
        BY ONLY <2>4, <4>8, <4>10, <4>11, <4>12
      <4> QED BY <4>5, <4>6, <4>7, <4>13
    <3>3. CASE rpc.id # NoId /\ rpc.fd[rpc.id] \notin Clients
      <4>1. sent = RP!Close(next, rpc.id)
        BY <3>3 DEF RP!ReplySocket
      <4>2. rpc.id \in Descriptors /\ next \in Rpcs
        BY <1>2, <2>1, <3>3
      <4> HIDE DEF sent
      <4>3. /\ sent \in Rpcs /\ SameRest(sent, next) /\ sent.fd = [next.fd EXCEPT ![rpc.id] = Free]
            /\ sent.told = next.told /\ sent.decided = next.decided
            /\ sent.backlog = next.backlog /\ sent.now = next.now /\ sent.router = next.router
            /\ sent.client = [c \in Clients |-> IF c = next.fd[rpc.id] /\ next.client[c] = "waiting"
                                                THEN "refused" ELSE next.client[c]]
        BY ONLY <4>1, <4>2, ClosedIs
      <4>4. /\ SameRest(sent, rpc) /\ sent.told = rpc.told /\ sent.decided = rpc.decided
            /\ sent.backlog = rpc.backlog /\ sent.now = NoId /\ sent.router = "receive"
            /\ sent.fd = [rpc.fd EXCEPT ![rpc.id] = Free]
        BY ONLY <1>2, <4>3 DEF SameRest
      <4>5. \A d \in Descriptors : sent.fd[d] \notin Clients
        BY <2>2, <2>4, <4>2, <4>4 DEF RpcDistinct
      <4>6. \A c \in Clients : sent.client[c] = rpc.client[c]
        BY <1>2, <3>3, <4>3
      <4>7. \A c \in Clients : rpc.client[c] = "waiting" => c \in InBacklog
        BY <2>3, <3>3
      <4> QED BY <4>3, <4>4, <4>5, <4>6, <4>7
    <3> QED BY <3>1, <3>2, <3>3
  <2>6. rpc' = [sent EXCEPT !.id = NoId]
    BY <1>1, <1>5
  <2> HIDE DEF sent
  <2>7. /\ rpc' \in Rpcs /\ SameRest(rpc', sent) /\ rpc'.fd = sent.fd
        /\ rpc'.decided = sent.decided /\ rpc'.id = NoId /\ rpc'.backlog = sent.backlog
        /\ rpc'.now = sent.now /\ rpc'.router = sent.router /\ rpc'.client = sent.client
        /\ rpc'.told = sent.told
    <3>1. sent \in Rpcs
      BY <2>5
    <3>2. [sent EXCEPT !.id = NoId] \in Rpcs
      BY ONLY <3>1 DEF Rpcs
    <3> QED BY ONLY <2>6, <3>1, <3>2 DEF Rpcs, SameRest
  <2>8. SameRest(rpc', rpc) /\ IdIsOf'
    BY <2>5, <2>7 DEF SameRest, IdIsOf
  <2> QED BY <1>1, <2>5, <2>7, <2>8, RpcReplied
<1> QED
  BY <1>4, <1>5

LEMMA RpcNext ==
  ASSUME RpcDistinct, RpcInv, [RP!Next]_rpc
  PROVE  RpcInv'
<1>1. CASE rpc' = rpc
  BY <1>1 DEF RpcInv, RpcTypeOK, Rpcs, Backlogged, IsConnected, WaitsWhole, WaitsServed, IsServed,
     ToldTruly, ServesMessage, IdIsOf, PostsWhole, InBacklog, RP!Linux, RP!Win32, RP!Qnx
<1>2. CASE RP!Next
  BY <1>2, RpcSend, RpcKilled, RpcReturn, RpcAcceptFails, RpcReceive, RpcServe, RpcReply,
     RpcCrash, RpcExit, RpcOpenFile DEF RP!Next
<1> QED
  BY <1>1, <1>2

LEMMA RpcSafe ==
  ASSUME RpcDistinct, RpcInv
  PROVE  RP!NothingLeaks /\ RP!ReplyIsTrue
<1>1. RpcInv
  OBVIOUS
<1>2. \A d \in Descriptors :
        rpc.fd[d] \in Clients => rpc.router \in {"serve", "reply"} /\ d = rpc.id
  BY <1>1 DEF RpcInv, IsConnected
<1>3. \A c \in Clients : RP!Waits(rpc, c) /\ ~ RP!Queued(c) =>
        rpc.router \in {"serve", "reply"} /\ rpc.now # NoId /\ rpc.now.client = c
  <2> SUFFICES ASSUME NEW c \in Clients, rpc.client[c] = "waiting", c \notin InBacklog
               PROVE  rpc.router \in {"serve", "reply"} /\ rpc.now # NoId /\ rpc.now.client = c
    BY QueuedIs DEF RP!Waits
  <2>1. IsServed(c)
    BY <1>1 DEF RpcInv, WaitsServed
  <2>2. rpc.now \in [client : Clients, kind : RP!Kinds, part : RP!Parts]
    BY <1>1, <2>1 DEF RpcInv, RpcTypeOK, Rpcs, IsServed
  <2> QED BY <2>1, <2>2 DEF IsServed, RpcDistinct
<1>4. RP!NothingLeaks
  BY <1>2, <1>3 DEF RP!NothingLeaks
<1>5. RP!ReplyIsTrue
  BY <1>1 DEF RpcInv, ToldTruly, PostsWhole, RP!ReplyIsTrue
<1> QED
  BY <1>4, <1>5

(* For any number of clients and descriptors, on each of the systems: no    *)
(* connection of an earlier request stays open, nobody waits for a reply    *)
(* but the client that is served and those in the listen queue, and the     *)
(* status a client is told is that of its own request (SAL_Run).            *)
THEOREM RequestsAreSettled ==
  ASSUME RpcDistinct
  PROVE  RP!Spec => [](RP!NothingLeaks /\ RP!ReplyIsTrue)
<1>1. RP!Init => RpcInv
  BY RpcInit
<1>2. RpcInv /\ [RP!Next]_rpc => RpcInv'
  BY RpcNext
<1>3. RpcInv => RP!NothingLeaks /\ RP!ReplyIsTrue
  BY RpcSafe
<1>4. RP!vars = rpc
  BY DEF RP!vars
<1> QED
  BY <1>1, <1>2, <1>3, <1>4, PTL DEF RP!Spec, RP!vars
================================================================================
