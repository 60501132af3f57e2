------------------------- MODULE ProcessManagerProofs -------------------------
(***************************************************************************)
(* The process manager, for any number of processes, configurations,       *)
(* timeouts, requests and failures: no process is forgotten by the queue   *)
(* or by a timer, nor by a spawn thread unless its report was dropped.     *)
(*                                                                         *)
(* What a message changes is a function of the record G, composed of many  *)
(* small ones.  The invariant is therefore one of the record: RoundInv     *)
(* holds of G when the handler of a message is done, and again when the    *)
(* round is done; the handlers, and the loops that call them again and     *)
(* again, keep its parts.                                                  *)
(***************************************************************************)
EXTENDS ProcessManager, SequenceLemmas

-----------------------------------------------------------------------------
(* The invariant *)

States == {"Uninitialized", "Spawning", "Loading", "Running", "Terminating"}
Deferrable == {"EV_APP_INITIALIZED", "EV_APP_EXIT", "EV_SHUTDOWN_APP"}
Reports == {"EV_APP_SPAWN_SUCCESS", "EV_APP_SPAWN_FAIL"}

ProcessType == [state : States, timer : Nat, pid : Pids \cup {EMPTY},
                ret_code : {0, 1}, deferred : Seq(Deferrable)]

RecordType ==
  [proc : [Apps -> ProcessType], queue : [Slots -> Apps \cup {EMPTY}],
   idx : Apps \cup {EMPTY}, conf : Configs,
   run : {"Startup", "Terminating", "Idle"},
   state : {"Running", "Shutdown", "Ended"},
   spawn : [Apps -> Nat], kills : SUBSET (Pids \cup {EMPTY}), wanted : SUBSET Apps]

Messages ==
  [event : Reports \cup {"EV_APP_INITIALIZED"}, app : Apps]
    \cup [event : {"EV_PROCESS_EXIT"}, pid : Pids, code : {0, 1}]

\* A process that loads or terminates is timed, and only those with a timeout load.
Armed(p) == p.state \in {"Loading", "Terminating"} => p.timer > 0
Timed(p, a) ==
  /\ p.timer <= load_timeout[a] + terminate_timeout[a]
  /\ p.state \in {"Spawning", "Loading"} => load_timeout[a] > 0
  /\ Len(p.deferred) <= PM_DEFERRED_QUEUE_SIZE

Sound(G) ==
  /\ G \in RecordType
  /\ \A a \in Apps : Timed(G.proc[a], a) /\ Armed(G.proc[a])
  /\ \A a \in G.wanted : G.proc[a].state = "Uninitialized"

\* R: the processes whose report is on its way, or was lost.
Reported(G, R) ==
  \A a \in Apps : G.proc[a].state = "Spawning" => G.spawn[a] > 0 \/ a \in R

Dense(q) ==
  \A i \in Slots : q[i] # EMPTY =>
    /\ i > 1 => q[i - 1] # EMPTY
    /\ \A j \in Slots \ {i} : q[j] # q[i]

InQueue(a, q) == \E i \in Slots : q[i] = a

Queued(G) == Dense(G.queue) /\ \A a \in G.wanted : InQueue(a, G.queue)

RoundInv(G, R) ==
  /\ Sound(G) /\ Reported(G, R) /\ Queued(G)
  /\ G.run = "Startup" /\ G.state = "Running" => G.idx \in Apps
  /\ G.run = "Idle" => G.wanted = {}

\* The process at current_idx keeps the manager waiting, as none else does.
Awaits(G, states) == G.idx \in Apps /\ G.proc[G.idx].state \in states
Waits(G) ==
  /\ G.state = "Running" /\ G.run = "Startup" =>
       Awaits(G, {"Spawning", "Loading", "Terminating"})
  /\ G.state = "Shutdown" \/ (G.state = "Running" /\ G.run = "Terminating") =>
       Awaits(G, {"Spawning", "Terminating"})

Reporting(sp, o, box, lost) ==
  {a \in Apps :
     \/ a \in lost
     \/ \E p \in sp : o[p].app = a
     \/ \E i \in DOMAIN box : box[i].event \in Reports /\ box[i].app = a}

WorldType ==
  /\ inbox \in Seq(Messages) /\ unreported \in SUBSET Apps
  /\ os \in [Pids -> [app : Apps \cup {EMPTY}, ready : BOOLEAN, code : {0, 1},
                      status : {"unused", "alive", "zombie", "reaped"}]]
  /\ \A p \in Pids : os[p].status # "unused" => os[p].app \in Apps
  /\ spawned \in SUBSET Pids /\ \A p \in spawned : os[p].status # "unused"

IInv == WorldType /\ RoundInv(G0, Reporting(spawned, os, inbox, unreported)) /\ Waits(G0)

LEMMA AppsAre ==
  /\ Cardinality(Apps) \in Nat /\ Apps = 0..(Cardinality(Apps) - 1)
  /\ Apps \in SUBSET Nat /\ EMPTY \notin Apps /\ EMPTY = -1 /\ EMPTY \notin Pids
<1>1. Cardinality(Apps) \in Nat
  BY ProcessManagerAssumption, FS_CardinalityType
<1> QED BY <1>1, ProcessManagerAssumption DEF EMPTY, Pids

-----------------------------------------------------------------------------
(* What an event changes: the process it is for, nothing else *)

\* H is G with another process a.
Frame(G, H, a) ==
  /\ H \in RecordType
  /\ H.queue = G.queue /\ H.idx = G.idx /\ H.conf = G.conf
  /\ H.run = G.run /\ H.state = G.state
  /\ \A b \in Apps \ {a} : H.proc[b] = G.proc[b] /\ H.spawn[b] = G.spawn[b]

LEMMA FrameOfFrames ==
  ASSUME NEW G, NEW H, NEW K, NEW a, Frame(G, H, a), Frame(H, K, a)
  PROVE  Frame(G, K, a)
BY DEF Frame

\* A process in another state, and nothing else.
Moved(G, H, a, s, timer) ==
  /\ Frame(G, H, a)
  /\ H.spawn = G.spawn /\ H.wanted = G.wanted
  /\ H.proc[a].state = s /\ H.proc[a].timer = timer
  /\ H.proc[a].deferred = G.proc[a].deferred

LEMMA BecomeIs ==
  ASSUME NEW G \in RecordType, NEW a \in Apps, NEW s \in States, NEW timer \in Nat
  PROVE  Moved(G, Become(G, a, s, timer), a, s, timer)
<1> DEFINE p == [G.proc[a] EXCEPT !.state = s, !.timer = timer]
           H == [G EXCEPT !.proc = [G.proc EXCEPT ![a] = p]]
<1>1. G.proc \in [Apps -> ProcessType] /\ G.proc[a] \in ProcessType
  BY DEF RecordType
<1>2. p \in ProcessType /\ p.state = s /\ p.timer = timer /\ p.deferred = G.proc[a].deferred
  BY <1>1 DEF ProcessType
<1>3. Become(G, a, s, timer) = H
  BY <1>1 DEF Become, RecordType, ProcessType
<1> HIDE DEF p
<1>4. Moved(G, H, a, s, timer)
  BY <1>1, <1>2 DEF RecordType, Moved, Frame
<1> HIDE DEF H
<1> QED BY <1>3, <1>4

LEMMA EnterIs ==
  ASSUME NEW G \in RecordType, NEW a \in Apps, NEW s \in States
  PROVE  Moved(G, [G EXCEPT !.proc[a].state = s], a, s, G.proc[a].timer)
<1> DEFINE p == [G.proc[a] EXCEPT !.state = s]
           H == [G EXCEPT !.proc = [G.proc EXCEPT ![a] = p]]
<1>1. G.proc \in [Apps -> ProcessType] /\ G.proc[a] \in ProcessType
  BY DEF RecordType
<1>2. p \in ProcessType /\ p.state = s /\ p.timer = G.proc[a].timer /\ p.deferred = G.proc[a].deferred
  BY <1>1 DEF ProcessType
<1>3. [G EXCEPT !.proc[a].state = s] = H
  OBVIOUS
<1> HIDE DEF p
<1>4. Moved(G, H, a, s, G.proc[a].timer)
  BY <1>1, <1>2 DEF RecordType, Moved, Frame
<1> HIDE DEF H
<1> QED BY <1>3, <1>4

\* Spawn threads are created and processes killed before the state changes.
Prepared(G, K, a) ==
  /\ Frame(G, K, a) /\ K.proc = G.proc /\ K.wanted = G.wanted
  /\ K.spawn[a] >= G.spawn[a]

LEMMA SpawnIs ==
  ASSUME NEW G \in RecordType, NEW a \in Apps
  PROVE  Prepared(G, startProcess(G, a), a) /\ startProcess(G, a).spawn[a] > 0
BY DEF RecordType, startProcess, Prepared, Frame

LEMMA KillIs ==
  ASSUME NEW G \in RecordType, NEW a \in Apps
  PROVE  Prepared(G, PM_Kill_Process(G, a), a) /\ PM_Kill_Process(G, a).spawn = G.spawn
<1>1. G.proc[a].pid \in Pids \cup {EMPTY}
  BY DEF RecordType, ProcessType
<1> QED BY <1>1 DEF RecordType, PM_Kill_Process, Prepared, Frame

\* What a process is after an event.
Stepped(G, H, a, event) ==
  /\ Frame(G, H, a)
  /\ Timed(H.proc[a], a) /\ Armed(H.proc[a])
  /\ H.spawn[a] >= G.spawn[a]
  /\ H.wanted \subseteq G.wanted
  /\ a \in H.wanted => H.proc[a].state = "Uninitialized"
  /\ G.proc[a].state = "Uninitialized" /\ event = "EV_START_APP" => a \notin H.wanted
  /\ H.proc[a].state = "Spawning" =>
       H.spawn[a] > 0 \/ (G.proc[a].state = "Spawning" /\ event \notin Reports)

LEMMA PreparedStep ==
  ASSUME NEW G \in RecordType, NEW K, NEW H, NEW a \in Apps, NEW event,
         Prepared(G, K, a), Stepped(K, H, a, event)
  PROVE  Stepped(G, H, a, event)
<1>1. Frame(G, H, a)
  BY FrameOfFrames DEF Prepared, Stepped
<1>2. G.spawn[a] \in Nat /\ K.spawn[a] \in Nat /\ H.spawn[a] \in Nat
  BY DEF Prepared, Stepped, Frame, RecordType
<1> QED BY <1>1, <1>2 DEF Prepared, Stepped

LEMMA MovedStep ==
  ASSUME NEW G \in RecordType, NEW H, NEW a \in Apps, NEW s \in States \ {"Spawning"},
         NEW timer \in Nat, NEW event, Moved(G, H, a, s, timer),
         Timed(G.proc[a], a), G.proc[a].state # "Uninitialized", a \notin G.wanted,
         timer <= load_timeout[a] + terminate_timeout[a],
         s = "Loading" => load_timeout[a] > 0,
         s \in {"Loading", "Terminating"} => timer > 0
  PROVE  Stepped(G, H, a, event)
<1>1. G.spawn[a] \in Nat
  BY DEF RecordType
<1> QED BY <1>1 DEF Moved, Stepped, Timed, Armed, States

LEMMA NoStep ==
  ASSUME NEW G \in RecordType, NEW a \in Apps, NEW event,
         Timed(G.proc[a], a), Armed(G.proc[a]),
         a \in G.wanted => G.proc[a].state = "Uninitialized",
         G.proc[a].state = "Uninitialized" => event # "EV_START_APP",
         G.proc[a].state = "Spawning" => event \notin Reports
  PROVE  Stepped(G, G, a, event)
<1>1. G.spawn[a] \in Nat
  BY DEF RecordType
<1> QED BY <1>1 DEF Stepped, Frame

LEMMA TimeoutsAre ==
  ASSUME NEW a \in Apps
  PROVE  /\ load_timeout[a] \in Nat /\ terminate_timeout[a] \in Nat
         /\ load_timeout[a] <= load_timeout[a] + terminate_timeout[a]
         /\ terminate_timeout[a] <= load_timeout[a] + terminate_timeout[a]
<1>1. load_timeout[a] \in Nat /\ terminate_timeout[a] \in Nat
  BY ProcessManagerAssumption
<1> QED BY <1>1

\* The hypotheses of an event for a process that is not Uninitialized.
Eventful(G, a) ==
  /\ G \in RecordType /\ Timed(G.proc[a], a) /\ a \notin G.wanted
  /\ G.proc[a].state # "Uninitialized"

LEMMA StartStep ==
  ASSUME NEW G \in RecordType, NEW a \in Apps, Timed(G.proc[a], a),
         G.proc[a].state = "Uninitialized"
  PROVE  Stepped(G, Start(G, a), a, "EV_START_APP")
<1> DEFINE p == [G.proc[a] EXCEPT !.ret_code = 0]
           X == [G EXCEPT !.proc[a].ret_code = 0, !.wanted = @ \ {a}]
           S == startProcess(X, a)
           s == IF load_timeout[a] > 0 THEN "Spawning" ELSE "Running"
           H == Become(S, a, s, load_timeout[a])
<1>1. G.proc \in [Apps -> ProcessType] /\ G.proc[a] \in ProcessType /\ G.spawn[a] \in Nat
  BY DEF RecordType
<1>2. p \in ProcessType /\ p.deferred = G.proc[a].deferred
  BY <1>1 DEF ProcessType
<1>3. /\ Frame(G, X, a) /\ X.spawn = G.spawn /\ X.wanted = G.wanted \ {a}
      /\ X.proc[a].deferred = G.proc[a].deferred
  <2>1. X = [[G EXCEPT !.proc = [G.proc EXCEPT ![a] = p]] EXCEPT !.wanted = G.wanted \ {a}]
    BY <1>1 DEF RecordType
  <2> HIDE DEF p, X
  <2> QED BY <1>1, <1>2, <2>1 DEF RecordType, Frame
<1> HIDE DEF X
<1>4. Prepared(X, S, a) /\ S.spawn[a] > 0
  BY <1>3, SpawnIs DEF Frame
<1> HIDE DEF S
<1>5. s \in States /\ load_timeout[a] \in Nat
  BY TimeoutsAre DEF States
<1>6. Moved(S, H, a, s, load_timeout[a])
  <2> HIDE DEF s
  <2> QED BY <1>4, <1>5, BecomeIs DEF Prepared, Frame
<1>7. Start(G, a) = H
  BY DEF Start, X, S
<1> HIDE DEF H
<1>8. Frame(G, H, a)
  BY <1>3, <1>4, <1>6, FrameOfFrames DEF Prepared, Moved
<1>9. /\ H.proc[a].state = s /\ H.proc[a].timer = load_timeout[a]
      /\ H.proc[a].deferred = G.proc[a].deferred
      /\ H.spawn[a] > 0 /\ H.wanted = G.wanted \ {a} /\ H.spawn[a] >= G.spawn[a]
  <2> HIDE DEF s
  <2> QED BY <1>3, <1>4, <1>6 DEF Prepared, Moved
<1>10. Timed(H.proc[a], a) /\ Armed(H.proc[a])
  BY <1>9, TimeoutsAre DEF Timed, Armed
<1> QED BY <1>7, <1>8, <1>9, <1>10 DEF Stepped

LEMMA SpawningStep ==
  ASSUME NEW G, NEW a \in Apps, NEW event, Eventful(G, a), G.proc[a].state = "Spawning"
  PROVE  Stepped(G, Spawning(G, a, event), a, event)
<1>1. G \in RecordType /\ G.proc[a] \in ProcessType /\ G.spawn[a] \in Nat
  BY DEF Eventful, RecordType
<1>2. CASE event = "EV_APP_SPAWN_SUCCESS"
  <2> DEFINE s == IF load_timeout[a] > 0 THEN "Loading" ELSE "Running"
  <2>1. s \in States \ {"Spawning"}
    BY DEF States
  <2>2. Moved(G, Become(G, a, s, load_timeout[a]), a, s, load_timeout[a])
    BY <1>1, <2>1, TimeoutsAre, BecomeIs
  <2>3. Spawning(G, a, event) = Become(G, a, s, load_timeout[a])
    BY <1>2 DEF Spawning
  <2>4. s = "Loading" => load_timeout[a] > 0
    OBVIOUS
  <2>5. s \in {"Loading", "Terminating"} => load_timeout[a] > 0
    OBVIOUS
  <2> HIDE DEF s
  <2> QED BY <1>1, <2>1, <2>2, <2>3, <2>4, <2>5, TimeoutsAre, MovedStep DEF Eventful
<1>3. CASE event = "EV_APP_SPAWN_FAIL"
  <2> DEFINE p == [[G.proc[a] EXCEPT !.state = "Uninitialized"] EXCEPT !.deferred = << >>]
             H == [G EXCEPT !.proc = [G.proc EXCEPT ![a] = p]]
  <2>1. p \in ProcessType /\ p.state = "Uninitialized" /\ p.timer = G.proc[a].timer /\ p.deferred = << >>
    <3>1. << >> \in Seq(Deferrable)
      OBVIOUS
    <3> QED BY <1>1, <3>1 DEF ProcessType, States
  <2>2. Spawning(G, a, event) = H
    BY <1>1, <1>3 DEF Spawning, RecordType
  <2> HIDE DEF p
  <2>3. Frame(G, H, a) /\ H.proc[a] = p /\ H.spawn = G.spawn /\ H.wanted = G.wanted
    BY <1>1, <2>1 DEF RecordType, Frame
  <2> HIDE DEF H
  <2>4. Len(<< >>) <= PM_DEFERRED_QUEUE_SIZE
    <3>1. G.proc[a].deferred \in Seq(Deferrable) /\ Len(G.proc[a].deferred) <= PM_DEFERRED_QUEUE_SIZE
      BY <1>1 DEF ProcessType, Eventful, Timed
    <3> QED BY <3>1, ProcessManagerAssumption
  <2>5. Timed(p, a) /\ Armed(p)
    BY <2>1, <2>4 DEF Eventful, Timed, Armed
  <2> QED BY <1>1, <2>1, <2>2, <2>3, <2>5 DEF Stepped, Eventful
<1>4. CASE event \in Deferrable
  <2>1. event \notin Reports /\ Spawning(G, a, event) = defer_event(G, a, event)
    BY <1>4 DEF Deferrable, Reports, Spawning
  <2>2. CASE Len(G.proc[a].deferred) < PM_DEFERRED_QUEUE_SIZE
    <3> DEFINE p == [G.proc[a] EXCEPT !.deferred = Append(G.proc[a].deferred, event)]
               H == [G EXCEPT !.proc = [G.proc EXCEPT ![a] = p]]
    <3>1. /\ Append(G.proc[a].deferred, event) \in Seq(Deferrable)
          /\ Len(Append(G.proc[a].deferred, event)) = Len(G.proc[a].deferred) + 1
          /\ Len(G.proc[a].deferred) \in Nat
      BY <1>1, <1>4 DEF ProcessType
    <3>2. p \in ProcessType /\ p.state = "Spawning" /\ p.timer = G.proc[a].timer
          /\ Len(p.deferred) = Len(G.proc[a].deferred) + 1
      BY <1>1, <3>1 DEF ProcessType, Eventful
    <3>3. defer_event(G, a, event) = H
      BY <1>1, <2>2 DEF defer_event, RecordType
    <3> HIDE DEF p
    <3>4. Frame(G, H, a) /\ H.proc[a] = p /\ H.spawn = G.spawn /\ H.wanted = G.wanted
      BY <1>1, <3>2 DEF RecordType, Frame
    <3> HIDE DEF H
    <3>5. Timed(p, a) /\ Armed(p)
      <4>1. Len(p.deferred) <= PM_DEFERRED_QUEUE_SIZE
        <5>1. PM_DEFERRED_QUEUE_SIZE \in Nat
          BY ProcessManagerAssumption
        <5> HIDE DEF p
        <5> QED BY <2>2, <3>1, <3>2, <5>1
      <4>2. /\ G.proc[a].timer <= load_timeout[a] + terminate_timeout[a]
            /\ load_timeout[a] > 0
        BY <1>1 DEF Eventful, Timed
      <4> QED BY <3>2, <4>1, <4>2 DEF Timed, Armed
    <3> QED BY <1>1, <2>1, <3>2, <3>3, <3>4, <3>5 DEF Stepped, Eventful
  <2>3. CASE ~(Len(G.proc[a].deferred) < PM_DEFERRED_QUEUE_SIZE)
    <3>1. defer_event(G, a, event) = G
      BY <2>3 DEF defer_event
    <3>2. Armed(G.proc[a])
      BY DEF Armed
    <3> QED BY <1>1, <2>1, <3>1, <3>2, NoStep DEF Eventful
  <2> QED BY <2>2, <2>3
<1>5. CASE event \notin Reports \cup Deferrable
  <2>1. Spawning(G, a, event) = G
    BY <1>5 DEF Spawning, Reports, Deferrable
  <2>2. Armed(G.proc[a])
    BY DEF Armed
  <2> QED BY <1>1, <1>5, <2>1, <2>2, NoStep DEF Eventful
<1> QED BY <1>2, <1>3, <1>4, <1>5 DEF Reports

\* A process moves on, after threads were created or a signal was sent.
LEMMA MovesOn ==
  ASSUME NEW G, NEW K, NEW a \in Apps, NEW event, Eventful(G, a), Prepared(G, K, a),
         NEW s \in States \ {"Spawning"}, NEW timer \in Nat, NEW H,
         Moved(K, H, a, s, timer),
         timer <= load_timeout[a] + terminate_timeout[a],
         s = "Loading" => load_timeout[a] > 0,
         s \in {"Loading", "Terminating"} => timer > 0
  PROVE  Stepped(G, H, a, event)
<1>1. Eventful(K, a) /\ G \in RecordType
  BY DEF Eventful, Prepared, Frame
<1>2. Stepped(K, H, a, event)
  BY <1>1, MovedStep DEF Eventful
<1> QED BY <1>1, <1>2, PreparedStep

LEMMA PreparedNothing ==
  ASSUME NEW G \in RecordType, NEW a \in Apps
  PROVE  Prepared(G, G, a)
<1>1. G.spawn[a] \in Nat
  BY DEF RecordType
<1> QED BY <1>1 DEF Prepared, Frame

LEMMA PreparedTwice ==
  ASSUME NEW G \in RecordType, NEW K, NEW L, NEW a \in Apps,
         Prepared(G, K, a), Prepared(K, L, a)
  PROVE  Prepared(G, L, a)
<1>1. Frame(G, L, a)
  BY FrameOfFrames DEF Prepared
<1>2. G.spawn[a] \in Nat /\ K.spawn[a] \in Nat /\ L.spawn[a] \in Nat
  BY DEF Prepared, Frame, RecordType
<1> QED BY <1>1, <1>2 DEF Prepared

\* The ends of a process: its timer stays as it is, or is cleared.
LEMMA Uninitializes ==
  ASSUME NEW G, NEW K, NEW a \in Apps, NEW event, Eventful(G, a), Prepared(G, K, a), NEW H,
         \/ H = [K EXCEPT !.proc[a].state = "Uninitialized"]
         \/ H = Become(K, a, "Uninitialized", 0)
  PROVE  Stepped(G, H, a, event)
<1>1. /\ "Uninitialized" \in States \ {"Spawning"} /\ K \in RecordType
      /\ "Uninitialized" \notin {"Loading", "Terminating"} /\ "Uninitialized" # "Loading"
      /\ K.proc[a].timer = G.proc[a].timer
  BY DEF States, Prepared, Frame
<1>2. /\ G.proc[a].timer \in Nat
      /\ G.proc[a].timer <= load_timeout[a] + terminate_timeout[a]
  BY DEF Eventful, Timed, RecordType, ProcessType
<1>3. 0 \in Nat /\ 0 <= load_timeout[a] + terminate_timeout[a]
  BY TimeoutsAre
<1>4. CASE H = [K EXCEPT !.proc[a].state = "Uninitialized"]
  <2>1. Moved(K, [K EXCEPT !.proc[a].state = "Uninitialized"], a, "Uninitialized", K.proc[a].timer)
    BY <1>1, EnterIs
  <2>2. Moved(K, H, a, "Uninitialized", G.proc[a].timer)
    BY <1>1, <1>4, <2>1
  <2> QED BY <1>1, <1>2, <2>2, MovesOn
<1>5. CASE H = Become(K, a, "Uninitialized", 0)
  <2>1. Moved(K, H, a, "Uninitialized", 0)
    BY <1>1, <1>3, <1>5, BecomeIs
  <2> QED BY <1>1, <1>3, <2>1, MovesOn
<1> QED BY <1>4, <1>5

\* A process that loads: its timeout is not 0.
LEMMA Loads ==
  ASSUME NEW G, NEW K, NEW a \in Apps, NEW event, Eventful(G, a), Prepared(G, K, a),
         load_timeout[a] > 0
  PROVE  Stepped(G, Become(K, a, "Loading", load_timeout[a]), a, event)
<1>1. "Loading" \in States \ {"Spawning"} /\ K \in RecordType
  BY DEF States, Prepared, Frame
<1>2. Moved(K, Become(K, a, "Loading", load_timeout[a]), a, "Loading", load_timeout[a])
  BY <1>1, TimeoutsAre, BecomeIs
<1> QED BY <1>1, <1>2, TimeoutsAre, MovesOn

LEMMA LoadingStep ==
  ASSUME NEW G, NEW a \in Apps, NEW event, Eventful(G, a), G.proc[a].state = "Loading",
         Armed(G.proc[a]) \/ event = "EV_APP_TIMEOUT"
  PROVE  Stepped(G, Loading(G, a, event), a, event)
<1>1. /\ G \in RecordType /\ load_timeout[a] > 0 /\ Prepared(G, G, a)
      /\ Prepared(G, PM_Kill_Process(G, a), a)
  BY KillIs, PreparedNothing DEF Eventful, Timed
<1>2. CASE event = "EV_APP_INITIALIZED"
  <2>1. "Running" \in States \ {"Spawning"} /\ "Running" \notin {"Loading", "Terminating"}
        /\ "Running" # "Loading" /\ 0 \in Nat /\ 0 <= load_timeout[a] + terminate_timeout[a]
    BY TimeoutsAre DEF States
  <2>2. Moved(G, Become(G, a, "Running", 0), a, "Running", 0)
    BY <1>1, <2>1, BecomeIs
  <2>3. Loading(G, a, event) = Become(G, a, "Running", 0)
    BY <1>2 DEF Loading
  <2> QED BY <1>1, <2>1, <2>2, <2>3, MovesOn
<1>3. CASE event = "EV_APP_TIMEOUT"
  <2> DEFINE K == PM_Kill_Process(G, a)
  <2>1. Loading(G, a, event) = LoadTimeout(G, a)
    BY <1>3 DEF Loading
  <2>2. CASE auto_restart[a]
    <3>1. Prepared(K, startProcess(K, a), a)
      BY <1>1, SpawnIs DEF Prepared, Frame
    <3>2. Prepared(G, startProcess(K, a), a)
      BY <1>1, <3>1, PreparedTwice
    <3>3. LoadTimeout(G, a) = Become(startProcess(K, a), a, "Loading", load_timeout[a])
      BY <2>2 DEF LoadTimeout
    <3> HIDE DEF K
    <3> QED BY <1>1, <2>1, <3>2, <3>3, Loads
  <2>3. CASE ~auto_restart[a]
    <3>1. LoadTimeout(G, a) = [K EXCEPT !.proc[a].state = "Uninitialized"]
      BY <2>3 DEF LoadTimeout
    <3> QED BY <1>1, <2>1, <3>1, Uninitializes
  <2> QED BY <2>2, <2>3
<1>4. CASE event = "EV_SHUTDOWN_APP"
  <2>1. Loading(G, a, event) = Become(PM_Kill_Process(G, a), a, "Uninitialized", 0)
    BY <1>4 DEF Loading
  <2> QED BY <1>1, <2>1, Uninitializes
<1>5. CASE event = "EV_APP_EXIT"
  <2>1. Loading(G, a, event) = Become(G, a, "Uninitialized", 0)
    BY <1>5 DEF Loading
  <2> QED BY <1>1, <2>1, Uninitializes
<1>6. CASE event \notin {"EV_APP_INITIALIZED", "EV_APP_TIMEOUT", "EV_SHUTDOWN_APP", "EV_APP_EXIT"}
  <2>1. Loading(G, a, event) = G
    BY <1>6 DEF Loading
  <2> QED BY <1>1, <1>6, <2>1, NoStep DEF Eventful
<1> QED BY <1>2, <1>3, <1>4, <1>5, <1>6

LEMMA RunningStep ==
  ASSUME NEW G, NEW a \in Apps, NEW event, Eventful(G, a), G.proc[a].state = "Running"
  PROVE  Stepped(G, Running(G, a, event), a, event)
<1>1. /\ G \in RecordType /\ Prepared(G, G, a)
      /\ Prepared(G, PM_Kill_Process(G, a), a) /\ Prepared(G, startProcess(G, a), a)
  BY KillIs, SpawnIs, PreparedNothing DEF Eventful
<1>2. CASE event = "EV_SHUTDOWN_APP" /\ terminate_timeout[a] > 0
  <2>1. "Terminating" \in States \ {"Spawning"} /\ "Terminating" # "Loading"
    BY DEF States
  <2>2. Moved(G, Become(G, a, "Terminating", terminate_timeout[a]), a, "Terminating",
              terminate_timeout[a])
    BY <1>1, <2>1, TimeoutsAre, BecomeIs
  <2>3. Running(G, a, event) = Become(G, a, "Terminating", terminate_timeout[a])
    BY <1>2 DEF Running
  <2> QED BY <1>1, <1>2, <2>1, <2>2, <2>3, TimeoutsAre, MovesOn
<1>3. CASE event = "EV_SHUTDOWN_APP" /\ ~(terminate_timeout[a] > 0)
  <2>1. Running(G, a, event) = [PM_Kill_Process(G, a) EXCEPT !.proc[a].state = "Uninitialized"]
    BY <1>3 DEF Running
  <2> QED BY <1>1, <2>1, Uninitializes
<1> DEFINE restarts == auto_restart[a] /\ G.proc[a].ret_code # 0 /\ G.state = "Running"
<1>4. CASE event = "EV_APP_EXIT" /\ restarts
  <2>1. Running(G, a, event) = Restart(G, a)
    BY <1>4 DEF Running
  <2>2. CASE load_timeout[a] > 0
    <3>1. Restart(G, a) = Become(startProcess(G, a), a, "Loading", load_timeout[a])
      BY <2>2 DEF Restart
    <3> QED BY <1>1, <2>1, <2>2, <3>1, Loads
  <2>3. CASE ~(load_timeout[a] > 0)
    <3>1. Restart(G, a) = startProcess(G, a)
      BY <2>3 DEF Restart
    <3>2. Stepped(startProcess(G, a), startProcess(G, a), a, event)
      BY <1>1, <1>4, NoStep DEF Prepared, Frame, Eventful, Armed
    <3> QED BY <1>1, <2>1, <3>1, <3>2, PreparedStep
  <2> QED BY <2>2, <2>3
<1>5. CASE event = "EV_APP_EXIT" /\ ~restarts
  <2>1. Running(G, a, event) = [G EXCEPT !.proc[a].state = "Uninitialized"]
    BY <1>5 DEF Running
  <2> QED BY <1>1, <2>1, Uninitializes
<1>6. CASE event \notin {"EV_SHUTDOWN_APP", "EV_APP_EXIT"}
  <2>1. Running(G, a, event) = G
    BY <1>6 DEF Running
  <2>2. Armed(G.proc[a])
    BY DEF Armed
  <2> QED BY <1>1, <2>1, <2>2, NoStep DEF Eventful
<1> QED BY <1>2, <1>3, <1>4, <1>5, <1>6

LEMMA TerminatingStep ==
  ASSUME NEW G, NEW a \in Apps, NEW event, Eventful(G, a), G.proc[a].state = "Terminating",
         Armed(G.proc[a]) \/ event = "EV_APP_TIMEOUT"
  PROVE  Stepped(G, Terminating(G, a, event), a, event)
<1>1. G \in RecordType /\ Prepared(G, G, a) /\ Prepared(G, PM_Kill_Process(G, a), a)
  BY KillIs, PreparedNothing DEF Eventful
<1>2. CASE event = "EV_APP_EXIT"
  <2>1. Terminating(G, a, event) = [G EXCEPT !.proc[a].state = "Uninitialized"]
    BY <1>2 DEF Terminating
  <2> QED BY <1>1, <2>1, Uninitializes
<1>3. CASE event = "EV_APP_TIMEOUT"
  <2>1. Terminating(G, a, event) = [PM_Kill_Process(G, a) EXCEPT !.proc[a].state = "Uninitialized"]
    BY <1>3 DEF Terminating
  <2> QED BY <1>1, <2>1, Uninitializes
<1>4. CASE event \notin {"EV_APP_EXIT", "EV_APP_TIMEOUT"}
  <2>1. Terminating(G, a, event) = G
    BY <1>4 DEF Terminating
  <2> QED BY <1>1, <1>4, <2>1, NoStep DEF Eventful
<1> QED BY <1>2, <1>3, <1>4

\* Whatever comes in whatever state: afterwards the process is timed again, a
\* thread reports it when it is being spawned, and a start is a start.
LEMMA EventStep ==
  ASSUME NEW G \in RecordType, NEW a \in Apps, NEW event, Timed(G.proc[a], a),
         Armed(G.proc[a]) \/ event = "EV_APP_TIMEOUT",
         a \in G.wanted => G.proc[a].state = "Uninitialized"
  PROVE  Stepped(G, PM_Process_Event(G, a, event), a, event)
<1>1. G.proc[a].state \in States
  BY DEF RecordType, ProcessType
<1> DEFINE s == G.proc[a].state
<1>2. CASE s = "Uninitialized" /\ event = "EV_START_APP"
  <2>1. PM_Process_Event(G, a, event) = Start(G, a)
    BY <1>2 DEF PM_Process_Event, In
  <2> QED BY <1>2, <2>1, StartStep
<1>3. CASE s = "Uninitialized" /\ event # "EV_START_APP"
  <2>1. PM_Process_Event(G, a, event) = G
    BY <1>3 DEF PM_Process_Event, In
  <2>2. Armed(G.proc[a])
    BY <1>3 DEF Armed
  <2> QED BY <1>3, <2>1, <2>2, NoStep
<1>4. CASE s # "Uninitialized"
  <2>1. Eventful(G, a)
    BY <1>4 DEF Eventful
  <2>2. CASE s = "Spawning"
    <3>1. PM_Process_Event(G, a, event) = Spawning(G, a, event)
      BY <2>2 DEF PM_Process_Event, In
    <3> QED BY <2>1, <2>2, <3>1, SpawningStep
  <2>3. CASE s = "Loading"
    <3>1. PM_Process_Event(G, a, event) = Loading(G, a, event)
      BY <2>3 DEF PM_Process_Event, In
    <3> QED BY <2>1, <2>3, <3>1, LoadingStep
  <2>4. CASE s = "Running"
    <3>1. PM_Process_Event(G, a, event) = Running(G, a, event)
      BY <2>4 DEF PM_Process_Event, In
    <3> QED BY <2>1, <2>4, <3>1, RunningStep
  <2>5. CASE s = "Terminating"
    <3>1. PM_Process_Event(G, a, event) = Terminating(G, a, event)
      BY <2>5 DEF PM_Process_Event, In
    <3> QED BY <2>1, <2>5, <3>1, TerminatingStep
  <2> QED BY <1>1, <1>4, <2>2, <2>3, <2>4, <2>5 DEF States
<1> QED BY <1>2, <1>3, <1>4

-----------------------------------------------------------------------------
(* Loops *)

\* A function that is applied once in each of n turns.
Repeats(n, V, start, step) ==
  \E f \in [0..n -> V] :
    f[0] = start /\ \A i \in 1..n : f[i] = step[i][f[i - 1]]

LEMMA TurnsExist ==
  ASSUME NEW n \in Nat, NEW V, NEW start \in V, NEW step \in [1..n -> [V -> V]]
  PROVE  Repeats(n, V, start, step)
<1> DEFINE
      Upto(m, f) == f[0] = start /\ \A i \in 1..m : f[i] = step[i][f[i - 1]]
      Missing == {m \in 0..n : ~\E f \in [0..m -> V] : Upto(m, f)}
<1>1. Missing = {}
  <2> SUFFICES ASSUME Missing # {} PROVE FALSE
    OBVIOUS
  <2>1. Missing \in SUBSET Nat
    OBVIOUS
  <2>2. PICK m \in Missing : \A k \in Missing : m <= k
    <3> HIDE DEF Missing
    <3> QED BY <2>1, LeastExists
  <2>3. CASE m = 0
    <3> DEFINE f == [i \in 0..0 |-> start]
    <3>1. f \in [0..0 -> V] /\ Upto(0, f)
      OBVIOUS
    <3> HIDE DEF f
    <3> QED BY <2>2, <2>3, <3>1
  <2>4. CASE m # 0
    <3>1. m \in 1..n /\ m <= n /\ m - 1 \in 0..n /\ ~(m <= m - 1) /\ m \in Nat
      BY <2>4
    <3>2. m - 1 \notin Missing
      <4> HIDE DEF Missing
      <4> QED BY <2>2, <3>1
    <3>3. PICK g \in [0..m - 1 -> V] : Upto(m - 1, g)
      BY <3>1, <3>2
    <3> DEFINE f == [i \in 0..m |-> IF i = m THEN step[m][g[m - 1]] ELSE g[i]]
    <3>4. f \in [0..m -> V]
      <4>1. \A i \in 0..m : i # m => i \in 0..m - 1
        BY <3>1
      <4>2. m - 1 \in 0..m - 1
        BY <3>1
      <4>3. step[m][g[m - 1]] \in V
        BY <3>1, <4>2
      <4> QED BY <4>1, <4>3
    <3>5. Upto(m, f)
      <4>1. 0 \in 0..m /\ 0 # m
        BY <3>1
      <4>2. f[0] = start
        BY <3>3, <4>1
      <4>3. ASSUME NEW i \in 1..m PROVE f[i] = step[i][f[i - 1]]
        <5>1. i - 1 \in 0..m /\ i - 1 # m /\ i \in 0..m
          BY <3>1
        <5>2. f[i - 1] = g[i - 1]
          BY <5>1
        <5>3. CASE i = m
          BY <5>1, <5>2, <5>3
        <5>4. CASE i # m
          <6>1. i \in 1..m - 1
            BY <3>1, <5>4
          <6>2. g[i] = step[i][g[i - 1]]
            BY <3>3, <6>1
          <6> QED BY <5>1, <5>2, <5>4, <6>2
        <5> QED BY <5>3, <5>4
      <4> QED BY <4>2, <4>3
    <3> HIDE DEF f
    <3> QED BY <2>2, <3>4, <3>5
  <2> QED BY <2>3, <2>4
<1>2. \E f \in [0..n -> V] : Upto(n, f)
  <2>1. n \in 0..n
    OBVIOUS
  <2> QED BY <1>1, <2>1
<1> QED BY <1>2 DEF Repeats

LEMMA StaysAlong ==
  ASSUME NEW n \in Nat, NEW W, NEW f, f[0] \in W[0],
         \A i \in 1..n : f[i - 1] \in W[i - 1] => f[i] \in W[i]
  PROVE  f[n] \in W[n]
<1> DEFINE Out == {i \in 0..n : f[i] \notin W[i]}
<1>1. Out = {}
  <2> SUFFICES ASSUME Out # {} PROVE FALSE
    OBVIOUS
  <2>1. Out \in SUBSET Nat
    OBVIOUS
  <2>2. PICK m \in Out : \A k \in Out : m <= k
    <3> HIDE DEF Out
    <3> QED BY <2>1, LeastExists
  <2>3. m # 0
    BY <2>2
  <2>4. m \in 1..n /\ m - 1 \in 0..n /\ ~(m <= m - 1)
    BY <2>2, <2>3
  <2>5. m - 1 \notin Out
    <3> HIDE DEF Out
    <3> QED BY <2>2, <2>4
  <2> QED BY <2>2, <2>4, <2>5
<1>2. n \in 0..n
  OBVIOUS
<1> QED BY <1>1, <1>2

LEMMA StaysIn ==
  ASSUME NEW n \in Nat, NEW V, NEW f, f[0] \in V,
         \A i \in 1..n : f[i - 1] \in V => f[i] \in V
  PROVE  f[n] \in V
<1> DEFINE W == [i \in 0..n |-> V]
<1>1. /\ W[0] = V /\ W[n] = V
      /\ \A i \in 1..n : W[i - 1] = V /\ W[i] = V
  OBVIOUS
<1> HIDE DEF W
<1> QED BY <1>1, StaysAlong

-----------------------------------------------------------------------------
(* Events and the loops that send them keep the records sound *)

\* H is G after events: processes in other states.
Kept(G, H, R) ==
  /\ Sound(H) /\ Reported(H, R)
  /\ H.queue = G.queue /\ H.idx = G.idx /\ H.conf = G.conf
  /\ H.run = G.run /\ H.state = G.state
  /\ H.wanted \subseteq G.wanted

\* All but the timer of the process that is about to get EV_APP_TIMEOUT.
SoundBut(G, a) ==
  /\ G \in RecordType
  /\ \A b \in Apps : Timed(G.proc[b], b)
  /\ \A b \in Apps \ {a} : Armed(G.proc[b])
  /\ \A b \in G.wanted : G.proc[b].state = "Uninitialized"

LEMMA EventKeeps ==
  ASSUME NEW G, NEW R, NEW a \in Apps, NEW event, SoundBut(G, a), Reported(G, R),
         Armed(G.proc[a]) \/ event = "EV_APP_TIMEOUT"
  PROVE  /\ Kept(G, PM_Process_Event(G, a, event), R)
         /\ event \in Reports => Reported(PM_Process_Event(G, a, event), R \ {a})
         /\ event = "EV_START_APP" => a \notin PM_Process_Event(G, a, event).wanted
<1> DEFINE H == PM_Process_Event(G, a, event)
<1>1. Stepped(G, H, a, event)
  BY EventStep DEF SoundBut
<1> HIDE DEF H
<1>2. H \in RecordType /\ H.wanted \subseteq G.wanted /\ H.wanted \subseteq Apps
  BY <1>1 DEF Stepped, Frame, RecordType
<1>3. \A b \in Apps : Timed(H.proc[b], b) /\ Armed(H.proc[b])
  BY <1>1 DEF Stepped, Frame, SoundBut
<1>4. \A b \in H.wanted : H.proc[b].state = "Uninitialized"
  <2> SUFFICES ASSUME NEW b \in H.wanted PROVE H.proc[b].state = "Uninitialized"
    OBVIOUS
  <2>1. b \in G.wanted /\ b \in Apps
    BY <1>2
  <2> QED BY <1>1, <2>1 DEF Stepped, Frame, SoundBut
<1>5. Reported(H, R) /\ (event \in Reports => Reported(H, R \ {a}))
  <2>1. G.spawn[a] \in Nat /\ H.spawn[a] \in Nat
    BY <1>2 DEF SoundBut, RecordType
  <2>2. H.proc[a].state = "Spawning" =>
          H.spawn[a] > 0 \/ (a \in R /\ event \notin Reports)
    BY <1>1, <2>1 DEF Reported, Stepped
  <2>3. \A b \in Apps \ {a} : H.proc[b] = G.proc[b] /\ H.spawn[b] = G.spawn[b]
    BY <1>1 DEF Stepped, Frame
  <2> QED BY <2>2, <2>3 DEF Reported
<1>6. event = "EV_START_APP" => a \notin H.wanted
  BY <1>1 DEF Stepped, SoundBut
<1>7. Kept(G, H, R)
  BY <1>1, <1>2, <1>3, <1>4, <1>5 DEF Kept, Sound, Stepped, Frame
<1> QED BY <1>5, <1>6, <1>7 DEF H

LEMMA KeptTwice ==
  ASSUME NEW G, NEW H, NEW K, NEW R, NEW S, Kept(G, H, S), Kept(H, K, R)
  PROVE  Kept(G, K, R)
BY DEF Kept

LEMMA SoundIsSoundBut ==
  ASSUME NEW G, NEW a, Sound(G)
  PROVE  SoundBut(G, a) /\ G \in RecordType /\ \A b \in Apps : Armed(G.proc[b])
BY DEF Sound, SoundBut

\* The events that were deferred while the process was being spawned.
LEMMA RecallKeeps ==
  ASSUME NEW G, NEW R, NEW a \in Apps, Sound(G), Reported(G, R)
  PROVE  Kept(G, PM_Recall_Deferred_Events(G, a), R)
<1> DEFINE events == G.proc[a].deferred
           n == Len(events)
           V == {H \in RecordType : Kept(G, H, R)}
           next(H, i) == PM_Process_Event(H, a, events[i])
           step == [i \in 1..n |-> [H \in V |-> next(H, i)]]
           Turn(f) == f = [i \in 0..n |-> IF i = 0 THEN G
                             ELSE CHOOSE r \in {next(H, i) : H \in {f[i - 1]}} : TRUE]
           turn == CHOOSE f : Turn(f)
           H1 == turn[n]
<1>1. n \in Nat /\ G \in V
  <2>1. events \in Seq(Deferrable)
    BY DEF Sound, RecordType, ProcessType
  <2>2. Kept(G, G, R) /\ G \in RecordType
    BY DEF Kept, Sound
  <2> QED BY <2>1, <2>2
<1>2. ASSUME NEW H \in V, NEW i \in 1..n PROVE next(H, i) \in V
  <2>1. SoundBut(H, a) /\ Armed(H.proc[a]) /\ Reported(H, R)
    BY SoundIsSoundBut DEF Kept
  <2>2. Kept(H, next(H, i), R)
    BY <2>1, EventKeeps
  <2>3. Kept(G, next(H, i), R)
    <3> HIDE DEF next
    <3> QED BY <2>2, KeptTwice
  <2> HIDE DEF next
  <2> QED BY <2>3 DEF Kept, Sound
<1> HIDE DEF next
<1>3. step \in [1..n -> [V -> V]]
  BY <1>2
<1>4. PICK f \in [0..n -> V] : f[0] = G /\ \A i \in 1..n : f[i] = step[i][f[i - 1]]
  <2> HIDE DEF V, step, n
  <2>1. Repeats(n, V, G, step)
    BY <1>1, <1>3, TurnsExist
  <2> QED BY <2>1 DEF Repeats
<1>5. Turn(f)
  <2>1. ASSUME NEW i \in 0..n, i # 0
        PROVE  f[i] = CHOOSE r \in {next(H, i) : H \in {f[i - 1]}} : TRUE
    <3>1. i \in 1..n /\ i - 1 \in 0..n
      BY <1>1, <2>1
    <3>2. f[i] = next(f[i - 1], i)
      BY <1>4, <3>1
    <3> HIDE DEF n, V
    <3> QED BY <3>2
  <2> HIDE DEF V, step
  <2> QED BY <1>4, <2>1
<1>6. Turn(turn)
  <2> HIDE DEF Turn
  <2> QED BY <1>5
<1>7. \A i \in 1..n : turn[i - 1] \in V => turn[i] \in V
  <2> SUFFICES ASSUME NEW i \in 1..n, turn[i - 1] \in V PROVE turn[i] \in V
    OBVIOUS
  <2>1. i \in 0..n /\ i # 0
    BY <1>1
  <2>2. turn[i] = CHOOSE r \in {next(H, i) : H \in {turn[i - 1]}} : TRUE
    <3> HIDE DEF turn
    <3> QED BY <1>6, <2>1
  <2>3. turn[i] = next(turn[i - 1], i)
    <3> HIDE DEF turn
    <3> QED BY <2>2
  <2> HIDE DEF turn, V
  <2> QED BY <1>2, <2>3
<1>8. turn[0] \in V
  <2> HIDE DEF turn
  <2>1. 0 \in 0..n
    BY <1>1
  <2>2. turn[0] = G
    BY <1>6, <2>1
  <2> QED BY <1>1, <2>2
<1>9. H1 \in V
  <2> HIDE DEF turn, V, n
  <2> QED BY <1>1, <1>7, <1>8, StaysIn
<1>10. PM_Recall_Deferred_Events(G, a) = [H1 EXCEPT !.proc[a].deferred = << >>]
  BY DEF PM_Recall_Deferred_Events, Times, Then, next
<1> HIDE DEF H1
<1> DEFINE p == [H1.proc[a] EXCEPT !.deferred = << >>]
           K == [H1 EXCEPT !.proc = [H1.proc EXCEPT ![a] = p]]
<1>11. Kept(G, H1, R) /\ H1 \in RecordType
  BY <1>9
<1>12. H1.proc[a] \in ProcessType /\ Timed(H1.proc[a], a) /\ Armed(H1.proc[a])
  BY <1>11 DEF Kept, Sound, RecordType
<1>13. /\ p \in ProcessType /\ p.state = H1.proc[a].state /\ p.timer = H1.proc[a].timer
       /\ p.deferred = << >>
  <2>1. << >> \in Seq(Deferrable)
    OBVIOUS
  <2> QED BY <1>12, <2>1 DEF ProcessType
<1>14. Timed(p, a) /\ Armed(p)
  <2>1. Len(<< >>) = 0 /\ 0 <= PM_DEFERRED_QUEUE_SIZE
    BY ProcessManagerAssumption
  <2> QED BY <1>12, <1>13, <2>1 DEF Timed, Armed
<1>15. PM_Recall_Deferred_Events(G, a) = K
  BY <1>10, <1>11 DEF RecordType
<1> HIDE DEF p
<1>16. /\ K \in RecordType /\ K.proc[a] = p /\ \A b \in Apps \ {a} : K.proc[b] = H1.proc[b]
       /\ K.queue = H1.queue /\ K.idx = H1.idx /\ K.conf = H1.conf /\ K.run = H1.run
       /\ K.state = H1.state /\ K.spawn = H1.spawn /\ K.wanted = H1.wanted
  BY <1>11, <1>13 DEF RecordType
<1> HIDE DEF K
<1>17. Sound(K)
  BY <1>11, <1>13, <1>14, <1>16 DEF Kept, Sound
<1>18. Reported(K, R)
  BY <1>11, <1>13, <1>16 DEF Kept, Reported
<1> QED BY <1>11, <1>15, <1>16, <1>17, <1>18 DEF Kept

LEMMA TickKeeps ==
  ASSUME NEW G, NEW R, NEW a \in Apps, Sound(G), Reported(G, R)
  PROVE  Kept(G, PM_Timer_Tick(G, a), R)
<1> DEFINE t == IF G.proc[a].timer > 0 THEN G.proc[a].timer - 1 ELSE 0
           p == [G.proc[a] EXCEPT !.timer = t]
           T == [G EXCEPT !.proc = [G.proc EXCEPT ![a] = p]]
           T1 == [G EXCEPT !.proc[a].timer = IF @ > 0 THEN @ - 1 ELSE 0]
<1>1. /\ G \in RecordType /\ G.proc[a] \in ProcessType /\ G.proc[a].timer \in Nat
      /\ Timed(G.proc[a], a) /\ Armed(G.proc[a])
  BY DEF Sound, RecordType, ProcessType
<1>2. t \in Nat /\ t <= G.proc[a].timer /\ (G.proc[a].timer > 0 /\ t = 0 => G.proc[a].timer = 1)
  BY <1>1
<1>3. T1 = T
  BY <1>1 DEF RecordType, ProcessType
<1>4. /\ p \in ProcessType /\ p.state = G.proc[a].state /\ p.timer = t
      /\ p.deferred = G.proc[a].deferred
  <2> HIDE DEF t
  <2> QED BY <1>1, <1>2 DEF ProcessType
<1>5. Timed(p, a) /\ (G.proc[a].timer # 1 => Armed(p))
  <2> HIDE DEF t, p
  <2> QED BY <1>1, <1>2, <1>4, TimeoutsAre DEF Timed, Armed
<1> HIDE DEF p, t
<1>6. /\ T \in RecordType /\ T.proc[a] = p /\ \A b \in Apps \ {a} : T.proc[b] = G.proc[b]
      /\ T.queue = G.queue /\ T.idx = G.idx /\ T.conf = G.conf /\ T.run = G.run
      /\ T.state = G.state /\ T.spawn = G.spawn /\ T.wanted = G.wanted
  BY <1>1, <1>4 DEF RecordType
<1>7. PM_Timer_Tick(G, a) =
        IF G.proc[a].timer = 1 THEN PM_Process_Event(T1, a, "EV_APP_TIMEOUT") ELSE T1
  <2> HIDE DEF T
  <2> QED BY DEF PM_Timer_Tick, Then
<1> HIDE DEF T1, T
<1>8. SoundBut(T, a) /\ Reported(T, R)
  <2>1. \A b \in Apps : T.proc[b].state = G.proc[b].state
    BY <1>4, <1>6
  <2>2. \A b \in Apps : Timed(T.proc[b], b)
    BY <1>5, <1>6 DEF Sound
  <2>3. \A b \in Apps \ {a} : Armed(T.proc[b])
    BY <1>6 DEF Sound
  <2>4. \A b \in T.wanted : b \in Apps /\ G.proc[b].state = "Uninitialized"
    BY <1>1, <1>6 DEF Sound, RecordType
  <2>5. SoundBut(T, a)
    BY <1>6, <2>1, <2>2, <2>3, <2>4 DEF SoundBut
  <2> QED BY <1>6, <2>1, <2>5 DEF Reported
<1>9. CASE G.proc[a].timer = 1
  <2>1. Kept(T, PM_Process_Event(T, a, "EV_APP_TIMEOUT"), R)
    BY <1>8, EventKeeps
  <2> DEFINE H == PM_Process_Event(T, a, "EV_APP_TIMEOUT")
  <2> HIDE DEF H
  <2>2. Kept(G, H, R)
    BY <1>6, <2>1 DEF Kept, H
  <2> QED BY <1>3, <1>7, <1>9, <2>2 DEF H
<1>10. CASE G.proc[a].timer # 1
  <2>1. Sound(T)
    BY <1>5, <1>6, <1>8, <1>10 DEF Sound, SoundBut
  <2> QED BY <1>3, <1>6, <1>7, <1>8, <1>10, <2>1 DEF Kept
<1> QED BY <1>9, <1>10

\* One tick for every process.
LEMMA TicksKeep ==
  ASSUME NEW G, NEW R, Sound(G), Reported(G, R)
  PROVE  Kept(G, ForEach(G, PM_Timer_Tick), R)
<1> DEFINE n == Cardinality(Apps)
           V == {H \in RecordType : Kept(G, H, R)}
           next(H, i) == PM_Timer_Tick(H, i - 1)
           step == [i \in 1..n |-> [H \in V |-> next(H, i)]]
           Turn(f) == f = [i \in 0..n |-> IF i = 0 THEN G
                             ELSE CHOOSE r \in {next(H, i) : H \in {f[i - 1]}} : TRUE]
           turn == CHOOSE f : Turn(f)
           H1 == turn[n]
<1>1. n \in Nat /\ G \in V
  BY AppsAre DEF Kept, Sound
<1>2. ASSUME NEW H \in V, NEW i \in 1..n PROVE next(H, i) \in V
  <2>1. Sound(H) /\ Reported(H, R) /\ i - 1 \in Apps
    BY <1>1, AppsAre DEF Kept
  <2>2. Kept(H, next(H, i), R)
    BY <2>1, TickKeeps
  <2>3. Kept(G, next(H, i), R)
    <3> HIDE DEF next
    <3> QED BY <2>2, KeptTwice
  <2> HIDE DEF next
  <2> QED BY <2>3 DEF Kept, Sound
<1> HIDE DEF next
<1>3. step \in [1..n -> [V -> V]]
  BY <1>2
<1>4. PICK f \in [0..n -> V] : f[0] = G /\ \A i \in 1..n : f[i] = step[i][f[i - 1]]
  <2> HIDE DEF V, step, n
  <2>1. Repeats(n, V, G, step)
    BY <1>1, <1>3, TurnsExist
  <2> QED BY <2>1 DEF Repeats
<1>5. Turn(f)
  <2>1. ASSUME NEW i \in 0..n, i # 0
        PROVE  f[i] = CHOOSE r \in {next(H, i) : H \in {f[i - 1]}} : TRUE
    <3>1. i \in 1..n /\ i - 1 \in 0..n
      BY <1>1, <2>1
    <3>2. f[i] = next(f[i - 1], i)
      BY <1>4, <3>1
    <3> HIDE DEF n, V
    <3> QED BY <3>2
  <2> HIDE DEF V, step
  <2> QED BY <1>4, <2>1
<1>6. Turn(turn)
  <2> HIDE DEF Turn
  <2> QED BY <1>5
<1>7. \A i \in 1..n : turn[i - 1] \in V => turn[i] \in V
  <2> SUFFICES ASSUME NEW i \in 1..n, turn[i - 1] \in V PROVE turn[i] \in V
    OBVIOUS
  <2>1. i \in 0..n /\ i # 0
    BY <1>1
  <2>2. turn[i] = CHOOSE r \in {next(H, i) : H \in {turn[i - 1]}} : TRUE
    <3> HIDE DEF turn
    <3> QED BY <1>6, <2>1
  <2>3. turn[i] = next(turn[i - 1], i)
    <3> HIDE DEF turn
    <3> QED BY <2>2
  <2> HIDE DEF turn, V
  <2> QED BY <1>2, <2>3
<1>8. turn[0] \in V
  <2> HIDE DEF turn
  <2>1. 0 \in 0..n
    BY <1>1
  <2>2. turn[0] = G
    BY <1>6, <2>1
  <2> QED BY <1>1, <2>2
<1>9. H1 \in V
  <2> HIDE DEF turn, V, n
  <2> QED BY <1>1, <1>7, <1>8, StaysIn
<1>10. ForEach(G, PM_Timer_Tick) = H1
  BY DEF ForEach, Times, Then, next
<1> HIDE DEF H1
<1> QED BY <1>9, <1>10

-----------------------------------------------------------------------------
(* The queue of processes *)

QueueType == [Slots -> Apps \cup {EMPTY}]

\* The process manager has one of the SAL_MAX_APPS ids itself.
Room == Cardinality(Apps) < SAL_MAX_APPS

LEMMA SlotsAre ==
  /\ SAL_MAX_APPS \in Nat /\ Slots = 1..SAL_MAX_APPS
  /\ Slots \in SUBSET Nat /\ IsFiniteSet(Slots) /\ Cardinality(Slots) = SAL_MAX_APPS
  /\ Room => 1 \in Slots
<1>1. SAL_MAX_APPS \in Nat
  BY ProcessManagerAssumption
<1>2. IsFiniteSet(1..SAL_MAX_APPS) /\ Cardinality(1..SAL_MAX_APPS) = SAL_MAX_APPS
  BY <1>1, FS_Interval
<1> QED BY <1>1, <1>2, AppsAre DEF Slots, Room

\* What is in the queue has no hole before it.
LEMMA DenseDown ==
  ASSUME NEW q, Dense(q), NEW j \in Slots, q[j] # EMPTY, NEW i \in Slots, i <= j
  PROVE  q[i] # EMPTY
<1> DEFINE Full == {k \in Slots : i <= k /\ \A l \in k..j : q[l] # EMPTY}
<1>1. Full \in SUBSET Nat /\ Full # {}
  <2>1. j \in Full
    BY SlotsAre
  <2> QED BY <2>1, SlotsAre
<1>2. PICK m \in Full : \A k \in Full : m <= k
  <2> HIDE DEF Full
  <2> QED BY <1>1, LeastExists
<1>3. m \in Nat /\ i \in Nat /\ j \in Nat /\ i >= 1
  BY <1>2, SlotsAre
<1>4. m <= j
  <2>1. j \in Full
    BY SlotsAre
  <2> QED BY <1>2, <2>1
<1>5. CASE m = i
  BY <1>2, <1>3, <1>4, <1>5
<1>6. CASE m # i
  <2>1. m > i /\ m - 1 \in Slots /\ i <= m - 1 /\ ~(m <= m - 1) /\ m > 1
    BY <1>2, <1>3, <1>6, SlotsAre
  <2>2. q[m] # EMPTY
    BY <1>2, <1>3, <1>4
  <2>3. q[m - 1] # EMPTY
    BY <1>2, <2>1, <2>2 DEF Dense
  <2>4. \A l \in (m - 1)..j : l = m - 1 \/ l \in m..j
    BY <1>3
  <2>5. m - 1 \in Full
    BY <1>2, <2>1, <2>3, <2>4
  <2> HIDE DEF Full
  <2> QED BY <1>2, <2>1, <2>5
<1> QED BY <1>5, <1>6

\* A process is there once: there are more slots than processes.
LEMMA NeverFull ==
  ASSUME Room, NEW q \in QueueType, Dense(q)
  PROVE  q[SAL_MAX_APPS] = EMPTY /\ SAL_MAX_APPS \in Slots
<1>1. SAL_MAX_APPS \in Slots
  BY SlotsAre
<1>2. SUFFICES ASSUME q[SAL_MAX_APPS] # EMPTY PROVE FALSE
  BY <1>1
<1>3. \A i \in Slots : q[i] # EMPTY
  BY <1>1, <1>2, SlotsAre, DenseDown
<1>4. q \in [Slots -> Apps]
  BY <1>3 DEF QueueType
<1>5. \A i, j \in Slots : i # j => q[i] # q[j]
  BY <1>3 DEF Dense
<1>6. q \in Injection(Slots, Apps)
  BY <1>4, <1>5 DEF Injection, IsInjective
<1>7. Cardinality(Slots) <= Cardinality(Apps)
  BY <1>6, SlotsAre, ProcessManagerAssumption, FS_Injection
<1> QED BY <1>7, SlotsAre, AppsAre DEF Room

LEMMA PushIs ==
  ASSUME Room, NEW q \in QueueType, Dense(q), NEW a \in Apps
  PROVE  /\ PM_Queue_Push(q, a) \in QueueType /\ Dense(PM_Queue_Push(q, a))
         /\ InQueue(a, PM_Queue_Push(q, a))
         /\ \A b \in Apps : InQueue(b, q) => InQueue(b, PM_Queue_Push(q, a))
<1> DEFINE free == {i \in Slots : q[i] = EMPTY}
           first == CHOOSE i \in free : \A j \in free : i <= j
           H == [q EXCEPT ![first] = a]
<1>1. DOMAIN q = Slots
  BY DEF QueueType
<1>2. CASE a \in ToSet(q)
  <2>1. PM_Queue_Push(q, a) = q
    BY <1>2 DEF PM_Queue_Push
  <2>2. InQueue(a, q)
    BY <1>1, <1>2 DEF ToSet, InQueue
  <2> QED BY <2>1, <2>2
<1>3. CASE a \notin ToSet(q)
  <2>1. free # {} /\ free \in SUBSET Nat
    BY NeverFull, SlotsAre
  <2>2. first \in free /\ \A j \in free : first <= j
    <3> HIDE DEF free
    <3> QED BY <2>1, LeastExists
  <2> HIDE DEF first
  <2>3. PM_Queue_Push(q, a) = H
    BY <1>3, <2>1 DEF PM_Queue_Push, first
  <2>4. H \in QueueType /\ H[first] = a /\ \A i \in Slots \ {first} : H[i] = q[i]
    BY <2>2 DEF QueueType
  <2> HIDE DEF H
  <2>5. \A j \in Slots : q[j] # a
    BY <1>1, <1>3 DEF ToSet
  <2>6. InQueue(a, H) /\ \A b \in Apps : InQueue(b, q) => InQueue(b, H)
    <3>1. \A b \in Apps : b # EMPTY
      BY AppsAre
    <3> QED BY <2>2, <2>4, <3>1 DEF InQueue
  <2>7. Dense(H)
    <3>1. ASSUME NEW i \in Slots, H[i] # EMPTY, i > 1 PROVE H[i - 1] # EMPTY
      <4>1. i - 1 \in Slots /\ i \in Nat /\ i - 1 < i /\ a # EMPTY
        BY <3>1, SlotsAre, AppsAre
      <4>2. CASE i = first
        <5>1. i - 1 \notin free
          BY <2>2, <4>1, <4>2, SlotsAre
        <5> QED BY <2>4, <4>1, <4>2, <5>1
      <4>3. CASE i # first
        <5>1. q[i] # EMPTY
          BY <2>4, <3>1, <4>3
        <5>2. q[i - 1] # EMPTY
          BY <3>1, <5>1 DEF Dense
        <5> QED BY <2>4, <4>1, <5>2
      <4> QED BY <4>2, <4>3
    <3>2. ASSUME NEW i \in Slots, H[i] # EMPTY, NEW j \in Slots \ {i} PROVE H[j] # H[i]
      BY <2>4, <2>5, <3>2 DEF Dense
    <3> QED BY <3>1, <3>2 DEF Dense
  <2> QED BY <2>3, <2>4, <2>6, <2>7
<1> QED BY <1>2, <1>3

\* The queue has at most k elements.
Short(q, k) == \A j \in Slots : j > k => q[j] = EMPTY

LEMMA PopIs ==
  ASSUME Room, NEW q \in QueueType, Dense(q)
  PROVE  /\ PM_Queue_Pop(q) \in QueueType /\ Dense(PM_Queue_Pop(q))
         /\ q[1] \in Apps \cup {EMPTY}
         /\ \A b \in Apps \ {q[1]} : InQueue(b, q) => InQueue(b, PM_Queue_Pop(q))
         /\ q[1] = EMPTY => \A b \in Apps : ~InQueue(b, q)
         /\ \A k \in Nat : Short(q, k + 1) => Short(PM_Queue_Pop(q), k)
<1> DEFINE ends == {i \in Slots : i < SAL_MAX_APPS /\ q[i + 1] = EMPTY}
           end == IF ends = {} THEN SAL_MAX_APPS
                  ELSE CHOOSE i \in ends : \A j \in ends : i <= j
           H == [i \in Slots |-> IF i < end THEN q[i + 1]
                       ELSE IF i = end /\ ends # {} THEN EMPTY ELSE q[i]]
<1>1. PM_Queue_Pop(q) = H
  BY DEF PM_Queue_Pop
<1>2. 1 \in Slots /\ SAL_MAX_APPS \in Slots /\ q[SAL_MAX_APPS] = EMPTY /\ SAL_MAX_APPS \in Nat
  BY SlotsAre, NeverFull
<1>3. /\ end \in Slots /\ end \in Nat
      /\ \A i \in Slots : i < end => i + 1 \in Slots /\ q[i + 1] # EMPTY
      /\ \A i \in Slots : i > end => q[i] = EMPTY
      /\ ends = {} => end = SAL_MAX_APPS
  <2>1. CASE ends = {}
    <3>1. end = SAL_MAX_APPS
      BY <2>1
    <3>2. \A i \in Slots : i < SAL_MAX_APPS => q[i + 1] # EMPTY
      BY <2>1
    <3> HIDE DEF end, ends
    <3>3. \A i \in Slots : i < end => i + 1 \in Slots /\ q[i + 1] # EMPTY
      BY <1>2, <3>1, <3>2, SlotsAre
    <3>4. \A i \in Slots : ~(i > end)
      BY <1>2, <3>1, SlotsAre
    <3> QED BY <1>2, <3>1, <3>3, <3>4
  <2>2. CASE ends # {}
    <3>1. ends \in SUBSET Nat
      BY SlotsAre
    <3>2. end \in ends /\ \A j \in ends : end <= j
      <4> HIDE DEF ends
      <4> QED BY <2>2, <3>1, LeastExists
    <3> HIDE DEF end
    <3>3. end \in Slots /\ end \in Nat /\ end < SAL_MAX_APPS /\ q[end + 1] = EMPTY /\ end + 1 \in Slots
      BY <3>2, SlotsAre
    <3>4. ASSUME NEW i \in Slots, i < end PROVE i + 1 \in Slots /\ q[i + 1] # EMPTY
      <4>1. i \in Nat /\ i < SAL_MAX_APPS /\ i + 1 \in Slots /\ ~(end <= i)
        BY <3>3, <3>4, SlotsAre
      <4>2. i \notin ends
        BY <3>2, <4>1
      <4> QED BY <4>1, <4>2
    <3>5. ASSUME NEW i \in Slots, i > end PROVE q[i] = EMPTY
      <4>1. end + 1 <= i
        BY <3>3, <3>5, SlotsAre
      <4> QED BY <3>3, <4>1, DenseDown
    <3> QED BY <2>2, <3>3, <3>4, <3>5
  <2> QED BY <2>1, <2>2
<1> HIDE DEF end
<1>4. /\ \A i \in Slots : i < end => H[i] = q[i + 1]
      /\ \A i \in Slots : ~(i < end) => H[i] = EMPTY
  <2>1. \A i \in Slots : i \in Nat /\ (~(i < end) => i = end \/ i > end)
    BY <1>3, SlotsAre
  <2> QED BY <1>2, <1>3, <2>1
<1>5. H \in QueueType
  <2>1. \A i \in Slots : H[i] \in Apps \cup {EMPTY}
    BY <1>3, <1>4 DEF QueueType
  <2> QED BY <2>1 DEF QueueType
<1> HIDE DEF H, ends
<1>6. Dense(H)
  <2>1. ASSUME NEW i \in Slots, H[i] # EMPTY, i > 1 PROVE H[i - 1] # EMPTY
    <3>1. i < end /\ i - 1 \in Slots /\ i - 1 < end /\ (i - 1) + 1 = i
      BY <1>3, <1>4, <2>1, SlotsAre
    <3>2. q[(i - 1) + 1] # EMPTY
      BY <1>3, <3>1
    <3> QED BY <1>4, <3>1, <3>2
  <2>2. ASSUME NEW i \in Slots, H[i] # EMPTY, NEW j \in Slots \ {i} PROVE H[j] # H[i]
    <3>1. i < end /\ H[i] = q[i + 1] /\ i + 1 \in Slots /\ q[i + 1] # EMPTY
      BY <1>3, <1>4, <2>2
    <3>2. CASE j < end
      <4>1. j + 1 \in Slots /\ j + 1 # i + 1 /\ H[j] = q[j + 1]
        BY <1>3, <1>4, <3>2, SlotsAre
      <4> QED BY <3>1, <4>1 DEF Dense
    <3>3. CASE ~(j < end)
      BY <1>4, <2>2, <3>3
    <3> QED BY <3>2, <3>3
  <2> QED BY <2>1, <2>2 DEF Dense
<1>7. ASSUME NEW b \in Apps \ {q[1]}, InQueue(b, q) PROVE InQueue(b, H)
  <2>1. PICK k \in Slots : q[k] = b
    BY <1>7 DEF InQueue
  <2>2. k # 1 /\ b # EMPTY
    BY <2>1, AppsAre
  <2>3. k \in Nat /\ k - 1 \in Slots /\ (k - 1) + 1 = k
    BY <2>2, SlotsAre
  <2>4. k - 1 < end
    <3>1. ~(k > end)
      BY <1>3, <2>1, <2>2
    <3> QED BY <1>3, <2>3, <3>1
  <2>5. H[k - 1] = b
    BY <1>4, <2>1, <2>3, <2>4
  <2> QED BY <2>3, <2>5 DEF InQueue
<1>8. ASSUME q[1] = EMPTY, NEW b \in Apps PROVE ~InQueue(b, q)
  <2> SUFFICES ASSUME NEW k \in Slots, q[k] = b PROVE FALSE
    BY DEF InQueue
  <2>1. b # EMPTY /\ 1 <= k
    BY AppsAre, SlotsAre
  <2> QED BY <1>2, <1>8, <2>1, DenseDown
<1>9. q[1] \in Apps \cup {EMPTY}
  BY <1>2 DEF QueueType
<1>10. ASSUME NEW k \in Nat, Short(q, k + 1) PROVE Short(H, k)
  <2> SUFFICES ASSUME NEW j \in Slots, j > k PROVE H[j] = EMPTY
    BY DEF Short
  <2>1. CASE j < end
    <3>1. j + 1 \in Slots /\ j + 1 > k + 1 /\ H[j] = q[j + 1]
      BY <1>3, <1>4, <2>1, SlotsAre
    <3> QED BY <1>10, <3>1 DEF Short
  <2>2. CASE ~(j < end)
    BY <1>4, <2>2
  <2> QED BY <2>1, <2>2
<1> QED BY <1>1, <1>5, <1>6, <1>7, <1>8, <1>9, <1>10

LEMMA ClearIs ==
  PM_Queue_Clear \in QueueType /\ Dense(PM_Queue_Clear)
BY DEF PM_Queue_Clear, QueueType, Dense

-----------------------------------------------------------------------------
(* What adds to the queue, and what is started from it *)

\* H is G with other processes and another queue.
Held(G, H, R) ==
  /\ Sound(H) /\ Reported(H, R) /\ Queued(H)
  /\ H.conf = G.conf /\ H.run = G.run /\ H.state = G.state

LEMMA HeldTwice ==
  ASSUME NEW G, NEW H, NEW K, NEW R, NEW S, Held(G, H, S), Held(H, K, R)
  PROVE  Held(G, K, R)
BY DEF Held

LEMMA KeptIsHeld ==
  ASSUME NEW G, NEW H, NEW R, Queued(G), Kept(G, H, R)
  PROVE  Held(G, H, R) /\ H.wanted \subseteq G.wanted /\ H.idx = G.idx
BY DEF Kept, Held, Queued

AddOne(H, a, c) ==
  IF c \in config[a] /\ In(H, a) \notin {"Running", "Loading", "Spawning"}
  THEN [H EXCEPT !.queue = PM_Queue_Push(@, a),
                 !.wanted = IF In(H, a) = "Terminating" THEN @ ELSE @ \cup {a}]
  ELSE H

LEMMA AddOneKeeps ==
  ASSUME Room, NEW G, NEW R, NEW a \in Apps, NEW c,
         Sound(G), Reported(G, R), Queued(G)
  PROVE  Held(G, AddOne(G, a, c), R) /\ AddOne(G, a, c).idx = G.idx
<1>1. CASE ~(c \in config[a] /\ In(G, a) \notin {"Running", "Loading", "Spawning"})
  BY <1>1 DEF AddOne, Held
<1>2. CASE c \in config[a] /\ In(G, a) \notin {"Running", "Loading", "Spawning"}
  <2> DEFINE q == PM_Queue_Push(G.queue, a)
             w == IF In(G, a) = "Terminating" THEN G.wanted ELSE G.wanted \cup {a}
             H == [G EXCEPT !.queue = q, !.wanted = w]
  <2>1. G \in RecordType /\ G.queue \in QueueType /\ Dense(G.queue)
    BY DEF Sound, RecordType, QueueType, Queued
  <2>2. /\ q \in QueueType /\ Dense(q) /\ InQueue(a, q)
        /\ \A b \in Apps : InQueue(b, G.queue) => InQueue(b, q)
    BY <2>1, PushIs
  <2>3. AddOne(G, a, c) = H
    BY <1>2, <2>1 DEF AddOne, RecordType
  <2>4. /\ w \in SUBSET Apps /\ w \subseteq G.wanted \cup {a}
        /\ a \in w => G.proc[a].state = "Uninitialized"
    <3>1. G.proc[a].state \in States /\ G.wanted \in SUBSET Apps
      BY <2>1 DEF RecordType, ProcessType
    <3> QED BY <1>2, <3>1 DEF In, States, Sound
  <2> HIDE DEF q, w
  <2>5. /\ H \in RecordType /\ H.queue = q /\ H.wanted = w /\ H.proc = G.proc
        /\ H.spawn = G.spawn /\ H.idx = G.idx /\ H.conf = G.conf /\ H.run = G.run
        /\ H.state = G.state
    BY <2>1, <2>2, <2>4 DEF RecordType, QueueType
  <2> HIDE DEF H
  <2>6. Sound(H)
    BY <2>4, <2>5 DEF Sound
  <2>7. Reported(H, R)
    BY <2>5 DEF Reported
  <2>8. Queued(H)
    BY <2>2, <2>4, <2>5 DEF Queued
  <2> QED BY <2>3, <2>5, <2>6, <2>7, <2>8 DEF Held
<1> QED BY <1>1, <1>2

LEMMA AddKeeps ==
  ASSUME Room, NEW G, NEW R, NEW c, Sound(G), Reported(G, R), Queued(G)
  PROVE  /\ Held(G, Add_Processes_To_Queue(G, c), R)
         /\ Add_Processes_To_Queue(G, c).idx = G.idx
<1> DEFINE n == Cardinality(Apps)
           V == {H \in RecordType : Held(G, H, R) /\ H.idx = G.idx}
           next(H, i) == AddOne(H, i - 1, c)
           step == [i \in 1..n |-> [H \in V |-> next(H, i)]]
           Turn(f) == f = [i \in 0..n |-> IF i = 0 THEN G
                             ELSE CHOOSE r \in {next(H, i) : H \in {f[i - 1]}} : TRUE]
           turn == CHOOSE f : Turn(f)
           H1 == turn[n]
<1>1. n \in Nat /\ G \in V
  BY AppsAre DEF Held, Sound
<1>2. ASSUME NEW H \in V, NEW i \in 1..n PROVE next(H, i) \in V
  <2>1. Sound(H) /\ Reported(H, R) /\ Queued(H) /\ i - 1 \in Apps
    BY <1>1, AppsAre DEF Held
  <2>2. Held(H, next(H, i), R) /\ next(H, i).idx = H.idx
    BY <2>1, AddOneKeeps
  <2>3. Held(G, next(H, i), R)
    <3> HIDE DEF next
    <3> QED BY <2>2, HeldTwice
  <2> HIDE DEF next
  <2> QED BY <2>2, <2>3 DEF Held, Sound
<1> HIDE DEF next
<1>3. step \in [1..n -> [V -> V]]
  BY <1>2
<1>4. PICK f \in [0..n -> V] : f[0] = G /\ \A i \in 1..n : f[i] = step[i][f[i - 1]]
  <2> HIDE DEF V, step, n
  <2>1. Repeats(n, V, G, step)
    BY <1>1, <1>3, TurnsExist
  <2> QED BY <2>1 DEF Repeats
<1>5. Turn(f)
  <2>1. ASSUME NEW i \in 0..n, i # 0
        PROVE  f[i] = CHOOSE r \in {next(H, i) : H \in {f[i - 1]}} : TRUE
    <3>1. i \in 1..n /\ i - 1 \in 0..n
      BY <1>1, <2>1
    <3>2. f[i] = next(f[i - 1], i)
      BY <1>4, <3>1
    <3> HIDE DEF n, V
    <3> QED BY <3>2
  <2> HIDE DEF V, step
  <2> QED BY <1>4, <2>1
<1>6. Turn(turn)
  <2> HIDE DEF Turn
  <2> QED BY <1>5
<1>7. \A i \in 1..n : turn[i - 1] \in V => turn[i] \in V
  <2> SUFFICES ASSUME NEW i \in 1..n, turn[i - 1] \in V PROVE turn[i] \in V
    OBVIOUS
  <2>1. i \in 0..n /\ i # 0
    BY <1>1
  <2>2. turn[i] = CHOOSE r \in {next(H, i) : H \in {turn[i - 1]}} : TRUE
    <3> HIDE DEF turn
    <3> QED BY <1>6, <2>1
  <2>3. turn[i] = next(turn[i - 1], i)
    <3> HIDE DEF turn
    <3> QED BY <2>2
  <2> HIDE DEF turn, V
  <2> QED BY <1>2, <2>3
<1>8. turn[0] \in V
  <2> HIDE DEF turn
  <2>1. 0 \in 0..n
    BY <1>1
  <2>2. turn[0] = G
    BY <1>6, <2>1
  <2> QED BY <1>1, <2>2
<1>9. H1 \in V
  <2> HIDE DEF turn, V, n
  <2> QED BY <1>1, <1>7, <1>8, StaysIn
<1>10. Add_Processes_To_Queue(G, c) = H1
  BY DEF Add_Processes_To_Queue, ForEach, Times, Then, next, AddOne
<1> HIDE DEF H1
<1> QED BY <1>9, <1>10

\* The end of the queue is reached when nothing is wanted any more.
Advanced(G, H, R) ==
  /\ Held(G, H, R) /\ H.wanted \subseteq G.wanted
  /\ H.idx = EMPTY => H.wanted = {}

LEMMA FromQueueKeeps ==
  ASSUME Room, NEW G, NEW R, Sound(G), Reported(G, R), Queued(G)
  PROVE  /\ Advanced(G, StartFromQueue(G), R)
         /\ StartFromQueue(G).queue = PM_Queue_Pop(G.queue)
         /\ StartFromQueue(G).idx = G.queue[1]
<1> DEFINE i == G.queue[1]
           q == PM_Queue_Pop(G.queue)
           P == [G EXCEPT !.idx = i, !.queue = q]
           H == IF i = EMPTY THEN P ELSE PM_Process_Event(P, i, "EV_START_APP")
<1>1. G \in RecordType /\ G.queue \in QueueType /\ Dense(G.queue)
  BY DEF Sound, RecordType, QueueType, Queued
<1>2. /\ q \in QueueType /\ Dense(q) /\ i \in Apps \cup {EMPTY}
      /\ \A b \in Apps \ {i} : InQueue(b, G.queue) => InQueue(b, q)
      /\ i = EMPTY => \A b \in Apps : ~InQueue(b, G.queue)
  BY <1>1, PopIs
<1>3. P = [G EXCEPT !.idx = G.queue[1], !.queue = PM_Queue_Pop(@)]
  BY <1>1 DEF RecordType
<1>4. /\ P \in RecordType /\ P.queue = q /\ P.idx = i /\ P.wanted = G.wanted
      /\ P.proc = G.proc /\ P.spawn = G.spawn /\ P.conf = G.conf /\ P.run = G.run
      /\ P.state = G.state
  <2> HIDE DEF q, i
  <2> QED BY <1>1, <1>2 DEF RecordType, QueueType
<1>5. StartFromQueue(G) = H
  <2>1. StartFromQueue(G) =
          Then(P, LAMBDA K : IF K.idx = EMPTY THEN K
                             ELSE PM_Process_Event(K, K.idx, "EV_START_APP"))
    BY <1>3 DEF StartFromQueue
  <2> HIDE DEF P, i
  <2> QED BY <1>4, <2>1 DEF Then
<1> HIDE DEF P, i, q
<1>6. Sound(P) /\ Reported(P, R) /\ G.wanted \in SUBSET Apps
  BY <1>1, <1>4 DEF Sound, Reported, RecordType
<1>7. \A b \in G.wanted : b # i => InQueue(b, q)
  BY <1>2, <1>6 DEF Queued
<1>8. CASE i = EMPTY
  <2>1. G.wanted = {}
    BY <1>2, <1>6, <1>8 DEF Queued
  <2>2. Queued(P)
    BY <1>2, <1>4, <2>1 DEF Queued
  <2> QED BY <1>4, <1>5, <1>6, <1>8, <2>1, <2>2 DEF Advanced, Held, i, q
<1>9. CASE i # EMPTY
  <2> DEFINE K == PM_Process_Event(P, i, "EV_START_APP")
  <2>1. i \in Apps
    BY <1>2, <1>9
  <2>2. SoundBut(P, i) /\ Armed(P.proc[i])
    BY <1>6, <2>1, SoundIsSoundBut
  <2>3. Kept(P, K, R) /\ i \notin K.wanted
    BY <1>6, <2>1, <2>2, EventKeeps
  <2>4. H = K
    BY <1>9
  <2> HIDE DEF K, H
  <2>5. Queued(K)
    BY <1>2, <1>4, <1>7, <2>3 DEF Kept, Queued
  <2>6. K.queue = q /\ K.idx = i
    BY <1>4, <2>3 DEF Kept
  <2>7. Advanced(G, K, R)
    BY <1>4, <1>9, <2>3, <2>5 DEF Kept, Advanced, Held
  <2> QED BY <1>5, <2>4, <2>6, <2>7 DEF i, q
<1> QED BY <1>8, <1>9

StartOne(H) ==
  IF H.idx # EMPTY /\ In(H, H.idx) \in {"Running", "Uninitialized"}
  THEN StartFromQueue(H) ELSE H

\* The start has come to a process that has to be waited for, or to the end.
Begun(G) == G.idx = EMPTY \/ In(G, G.idx) \notin {"Running", "Uninitialized"}
Beginning(G, i) ==
  Begun(G) \/ (i < SAL_MAX_APPS /\ Short(G.queue, SAL_MAX_APPS - 1 - i))

LEMMA StartNextKeeps ==
  ASSUME Room, NEW G, NEW R, Sound(G), Reported(G, R), Queued(G),
         G.idx = EMPTY => G.wanted = {}
  PROVE  Advanced(G, Start_Next_Process(G), R) /\ Begun(Start_Next_Process(G))
<1> DEFINE n == SAL_MAX_APPS + 1
           V == {H \in RecordType : Advanced(G, H, R)}
           W == [i \in 0..n |-> {H \in V : Beginning(H, i)}]
           next(H, i) == StartOne(H)
           step == [i \in 1..n |-> [H \in V |-> next(H, i)]]
           Turn(f) == f = [i \in 0..n |-> IF i = 0 THEN G
                             ELSE CHOOSE r \in {next(H, i) : H \in {f[i - 1]}} : TRUE]
           turn == CHOOSE f : Turn(f)
           H1 == turn[n]
<1>1. n \in Nat /\ G \in V
  BY SlotsAre DEF Held, Sound, Advanced
<1>2. ASSUME NEW H \in V, NEW i \in 1..n PROVE next(H, i) \in V
  <2>1. Sound(H) /\ Reported(H, R) /\ Queued(H) /\ Advanced(G, H, R)
    BY DEF Held, Advanced
  <2>2. CASE next(H, i) = H
    BY <2>2
  <2>3. CASE next(H, i) = StartFromQueue(H)
    <3>1. Advanced(H, next(H, i), R)
      BY <2>1, <2>3, FromQueueKeeps
    <3> HIDE DEF next
    <3>2. Held(G, next(H, i), R)
      BY <2>1, <3>1, HeldTwice DEF Advanced
    <3> QED BY <2>1, <3>1, <3>2 DEF Advanced, Held, Sound
  <2> QED BY <2>2, <2>3 DEF StartOne
<1>11. ASSUME NEW i \in 1..n, NEW H \in W[i - 1] PROVE next(H, i) \in W[i]
  <2>1. H \in V /\ Beginning(H, i - 1) /\ next(H, i) \in V /\ i \in 0..n
    BY <1>1, <1>2, <1>11
  <2>2. CASE Begun(H)
    <3>1. next(H, i) = H
      BY <2>2 DEF Begun, StartOne
    <3> QED BY <2>1, <2>2, <3>1 DEF Beginning
  <2>3. CASE ~Begun(H)
    <3>1. next(H, i) = StartFromQueue(H)
      BY <2>3 DEF Begun, StartOne
    <3>2. i - 1 < SAL_MAX_APPS /\ Short(H.queue, SAL_MAX_APPS - 1 - (i - 1))
      BY <2>1, <2>3 DEF Beginning
    <3>3. Sound(H) /\ Reported(H, R) /\ Queued(H)
      BY <2>1 DEF Held, Advanced
    <3>4. next(H, i).queue = PM_Queue_Pop(H.queue) /\ next(H, i).idx = H.queue[1]
      BY <3>1, <3>3, FromQueueKeeps
    <3>5. i \in Nat \ {0} /\ SAL_MAX_APPS \in Nat /\ 1 \in Slots
      BY <1>1, SlotsAre
    <3> HIDE DEF next, V
    <3>6. CASE i < SAL_MAX_APPS
      <4> DEFINE k == SAL_MAX_APPS - 1 - i
      <4>1. k \in Nat /\ SAL_MAX_APPS - 1 - (i - 1) = k + 1
        BY <3>5, <3>6
      <4> HIDE DEF k
      <4>2. Short(H.queue, k + 1)
        BY <3>2, <4>1
      <4>3. H.queue \in QueueType /\ Dense(H.queue)
        BY <3>3 DEF Sound, Queued, RecordType, QueueType
      <4>4. Short(PM_Queue_Pop(H.queue), k)
        BY <4>1, <4>2, <4>3, PopIs
      <4> QED BY <2>1, <3>4, <3>6, <4>4 DEF Beginning, k
    <3>7. CASE ~(i < SAL_MAX_APPS)
      <4>1. SAL_MAX_APPS - 1 - (i - 1) = 0
        BY <3>2, <3>5, <3>7
      <4>2. H.queue[1] = EMPTY
        BY <3>2, <3>5, <4>1 DEF Short
      <4> QED BY <2>1, <3>4, <4>2 DEF Beginning, Begun
    <3> QED BY <3>6, <3>7
  <2> QED BY <2>2, <2>3
<1>12. G \in W[0]
  <2>1. G.queue \in QueueType /\ Dense(G.queue)
    BY DEF Sound, Queued, RecordType, QueueType
  <2>2. SAL_MAX_APPS \in Nat /\ 0 < SAL_MAX_APPS /\ G.queue[SAL_MAX_APPS] = EMPTY
    BY <2>1, NeverFull, SlotsAre
  <2>3. Short(G.queue, SAL_MAX_APPS - 1 - 0)
    BY <2>2, SlotsAre DEF Short
  <2>4. 0 \in 0..n
    BY <1>1
  <2> HIDE DEF V, n
  <2> QED BY <1>1, <2>2, <2>3, <2>4 DEF Beginning
<1> HIDE DEF next
<1>3. step \in [1..n -> [V -> V]]
  BY <1>2
<1>4. PICK f \in [0..n -> V] : f[0] = G /\ \A i \in 1..n : f[i] = step[i][f[i - 1]]
  <2> HIDE DEF V, step, n
  <2>1. Repeats(n, V, G, step)
    BY <1>1, <1>3, TurnsExist
  <2> QED BY <2>1 DEF Repeats
<1>5. Turn(f)
  <2>1. ASSUME NEW i \in 0..n, i # 0
        PROVE  f[i] = CHOOSE r \in {next(H, i) : H \in {f[i - 1]}} : TRUE
    <3>1. i \in 1..n /\ i - 1 \in 0..n
      BY <1>1, <2>1
    <3>2. f[i] = next(f[i - 1], i)
      BY <1>4, <3>1
    <3> HIDE DEF n, V
    <3> QED BY <3>2
  <2> HIDE DEF V, step
  <2> QED BY <1>4, <2>1
<1>6. Turn(turn)
  <2> HIDE DEF Turn
  <2> QED BY <1>5
<1>7. \A i \in 1..n : turn[i - 1] \in W[i - 1] => turn[i] \in W[i]
  <2> SUFFICES ASSUME NEW i \in 1..n, turn[i - 1] \in W[i - 1] PROVE turn[i] \in W[i]
    OBVIOUS
  <2>1. i \in 0..n /\ i # 0
    BY <1>1
  <2>2. turn[i] = CHOOSE r \in {next(H, i) : H \in {turn[i - 1]}} : TRUE
    <3> HIDE DEF turn
    <3> QED BY <1>6, <2>1
  <2>3. turn[i] = next(turn[i - 1], i)
    <3> HIDE DEF turn
    <3> QED BY <2>2
  <2> HIDE DEF turn, V, W
  <2> QED BY <1>11, <2>3
<1>8. turn[0] \in W[0]
  <2> HIDE DEF turn
  <2>1. 0 \in 0..n
    BY <1>1
  <2>2. turn[0] = G
    BY <1>6, <2>1
  <2> HIDE DEF V, W
  <2> QED BY <1>12, <2>2
<1>9. H1 \in W[n]
  <2> HIDE DEF turn, W, n
  <2> QED BY <1>1, <1>7, <1>8, StaysAlong
<1>10. Start_Next_Process(G) = H1
  BY DEF Start_Next_Process, Times, Then, next, StartOne
<1> HIDE DEF H1
<1>13. H1 \in V /\ Beginning(H1, n)
  <2>1. n \in 0..n
    BY <1>1
  <2> HIDE DEF V, n
  <2> QED BY <1>9, <2>1
<1>14. Begun(H1)
  <2>1. ~(n < SAL_MAX_APPS)
    BY SlotsAre
  <2> QED BY <1>13, <2>1 DEF Beginning
<1> QED BY <1>10, <1>13, <1>14

-----------------------------------------------------------------------------
(* The round *)

StopOne(H, spared) ==
  IF H.idx = EMPTY THEN H
  ELSE IF In(H, H.idx) = "Uninitialized" \/ H.idx \in spared
  THEN [H EXCEPT !.idx = @ - 1]
  ELSE IF In(H, H.idx) \in {"Terminating", "Spawning"} THEN H
  ELSE PM_Process_Event(H, H.idx, "EV_SHUTDOWN_APP")

\* The end of the processes has come to one that has to be waited for, or to the first.
Halted(G, spared) ==
  G.idx = EMPTY \/ (In(G, G.idx) \in {"Terminating", "Spawning"} /\ G.idx \notin spared)

\* A process is stopped in at most two turns.
Turns(G, spared) ==
  2 * (G.idx + 1) - (IF In(G, G.idx) = "Uninitialized" \/ G.idx \in spared THEN 1 ELSE 0)
Halting(G, spared, i) ==
  Halted(G, spared) \/ (G.idx \in Apps /\ Turns(G, spared) <= 2 * Cardinality(Apps) - i)

LEMMA ShutdownMoves ==
  ASSUME NEW G \in RecordType, NEW a \in Apps, In(G, a) \in {"Loading", "Running"}
  PROVE  In(PM_Process_Event(G, a, "EV_SHUTDOWN_APP"), a) \in {"Uninitialized", "Terminating"}
<1> DEFINE H == PM_Process_Event(G, a, "EV_SHUTDOWN_APP")
           K == PM_Kill_Process(G, a)
<1>1. K \in RecordType
  BY KillIs DEF Prepared, Frame
<1>2. "Uninitialized" \in States /\ "Terminating" \in States /\ 0 \in Nat
  BY DEF States
<1>3. CASE In(G, a) = "Loading"
  <2>1. H = Become(K, a, "Uninitialized", 0)
    BY <1>3 DEF PM_Process_Event, Loading
  <2> QED BY <1>1, <1>2, <2>1, BecomeIs DEF Moved, In
<1>4. CASE In(G, a) = "Running" /\ terminate_timeout[a] > 0
  <2>1. H = Become(G, a, "Terminating", terminate_timeout[a])
    BY <1>4 DEF PM_Process_Event, Running
  <2> QED BY <1>2, <2>1, BecomeIs, TimeoutsAre DEF Moved, In
<1>5. CASE In(G, a) = "Running" /\ ~(terminate_timeout[a] > 0)
  <2>1. H = [K EXCEPT !.proc[a].state = "Uninitialized"]
    BY <1>5 DEF PM_Process_Event, Running
  <2> HIDE DEF H, K
  <2>2. Moved(K, [K EXCEPT !.proc[a].state = "Uninitialized"], a, "Uninitialized", K.proc[a].timer)
    BY <1>1, <1>2, EnterIs
  <2>3. In(H, a) = "Uninitialized"
    BY <2>1, <2>2 DEF Moved, In
  <2> QED BY <2>3 DEF H
<1> QED BY <1>3, <1>4, <1>5

LEMMA StopTurn ==
  ASSUME NEW G, NEW spared, Sound(G), NEW i \in Nat \ {0}, Halting(G, spared, i - 1)
  PROVE  Halting(StopOne(G, spared), spared, i)
<1> DEFINE H == StopOne(G, spared)
           n == Cardinality(Apps)
<1>1. G \in RecordType /\ G.idx \in Apps \cup {EMPTY} /\ n \in Nat
  BY AppsAre DEF Sound, RecordType
<1>2. CASE Halted(G, spared)
  <2>1. H = G
    BY <1>2 DEF Halted, StopOne
  <2> QED BY <1>2, <2>1 DEF Halting
<1>3. CASE ~Halted(G, spared)
  <2>1. G.idx \in Apps /\ G.idx # EMPTY /\ Turns(G, spared) <= 2 * n - (i - 1) /\ G.idx \in Nat
    BY <1>3, AppsAre DEF Halting, Halted
  <2>2. CASE In(G, G.idx) = "Uninitialized" \/ G.idx \in spared
    <3>1. H = [G EXCEPT !.idx = G.idx - 1]
      BY <2>1, <2>2 DEF StopOne
    <3>2. H.idx = G.idx - 1 /\ H.idx \in Apps \cup {EMPTY}
      BY <1>1, <2>1, <3>1, AppsAre DEF RecordType
    <3>3. 2 * (G.idx + 1) - 1 <= 2 * n - (i - 1)
      BY <2>1, <2>2 DEF Turns
    <3> HIDE DEF H
    <3>4. 2 * (H.idx + 1) <= 2 * n - i
      BY <1>1, <2>1, <3>2, <3>3
    <3>5. CASE H.idx = EMPTY
      BY <3>5 DEF Halting, Halted, H
    <3>6. CASE H.idx # EMPTY
      <4>1. H.idx \in Apps /\ H.idx \in Nat
        BY <3>2, <3>6, AppsAre
      <4>2. Turns(H, spared) <= 2 * (H.idx + 1)
        BY <4>1 DEF Turns
      <4>3. Turns(H, spared) \in Int
        BY <4>1 DEF Turns
      <4>4. Turns(H, spared) <= 2 * n - i
        BY <1>1, <3>4, <4>1, <4>2, <4>3
      <4> QED BY <4>1, <4>4 DEF Halting, H
    <3> QED BY <3>5, <3>6 DEF H
  <2>3. CASE ~(In(G, G.idx) = "Uninitialized" \/ G.idx \in spared)
    <3>1. In(G, G.idx) \in {"Loading", "Running"}
      BY <1>1, <1>3, <2>1, <2>3 DEF Halted, In, RecordType, ProcessType, States
    <3>2. H = PM_Process_Event(G, G.idx, "EV_SHUTDOWN_APP")
      BY <2>1, <2>3, <3>1 DEF StopOne
    <3>3. H.idx = G.idx
      <4>1. SoundBut(G, G.idx) /\ Reported(G, Apps) /\ Armed(G.proc[G.idx])
        BY <2>1, SoundIsSoundBut DEF Reported
      <4>2. Kept(G, PM_Process_Event(G, G.idx, "EV_SHUTDOWN_APP"), Apps)
        BY <2>1, <4>1, EventKeeps
      <4> HIDE DEF H
      <4> QED BY <3>2, <4>2 DEF Kept
    <3>4. In(H, H.idx) \in {"Uninitialized", "Terminating"}
      BY <1>1, <2>1, <3>1, <3>2, <3>3, ShutdownMoves
    <3>5. 2 * (G.idx + 1) <= 2 * n - (i - 1)
      BY <2>1, <2>3 DEF Turns
    <3> HIDE DEF H
    <3>6. CASE In(H, H.idx) = "Uninitialized"
      <4>1. Turns(H, spared) = 2 * (G.idx + 1) - 1
        BY <3>3, <3>6 DEF Turns
      <4>2. Turns(H, spared) <= 2 * n - i
        BY <1>1, <2>1, <3>5, <4>1
      <4> QED BY <2>1, <3>3, <4>2 DEF Halting, H
    <3>7. CASE In(H, H.idx) = "Terminating"
      BY <2>3, <3>3, <3>7 DEF Halting, Halted, H
    <3> QED BY <3>4, <3>6, <3>7
  <2> QED BY <2>2, <2>3
<1> QED BY <1>2, <1>3

\* What is stopped is not started; the queue waits.
Stopped(G, H, R) == Held(G, H, R) /\ H.wanted \subseteq G.wanted

LEMMA StopOneKeeps ==
  ASSUME NEW G, NEW R, NEW spared, Sound(G), Reported(G, R), Queued(G)
  PROVE  Stopped(G, StopOne(G, spared), R)
<1>1. G \in RecordType /\ G.idx \in Apps \cup {EMPTY}
  BY DEF Sound, RecordType
<1>2. CASE StopOne(G, spared) = G
  BY <1>2 DEF Stopped, Held
<1>3. CASE G.idx \in Apps /\ StopOne(G, spared) = [G EXCEPT !.idx = @ - 1]
  <2> DEFINE H == [G EXCEPT !.idx = G.idx - 1]
  <2>1. G.idx - 1 \in Apps \cup {EMPTY}
    BY <1>3, AppsAre
  <2>2. /\ H \in RecordType /\ H.proc = G.proc /\ H.queue = G.queue /\ H.conf = G.conf
        /\ H.run = G.run /\ H.state = G.state /\ H.spawn = G.spawn /\ H.wanted = G.wanted
    BY <1>1, <2>1 DEF RecordType
  <2>3. StopOne(G, spared) = H
    BY <1>3
  <2> HIDE DEF H
  <2>4. Sound(H) /\ Reported(H, R) /\ Queued(H)
    BY <2>2 DEF Sound, Reported, Queued
  <2> QED BY <2>2, <2>3, <2>4 DEF Stopped, Held
<1>4. CASE G.idx \in Apps /\ StopOne(G, spared) = PM_Process_Event(G, G.idx, "EV_SHUTDOWN_APP")
  <2> DEFINE H == PM_Process_Event(G, G.idx, "EV_SHUTDOWN_APP")
  <2>1. Kept(G, H, R)
    BY <1>4, EventKeeps, SoundIsSoundBut
  <2> HIDE DEF H
  <2>2. Held(G, H, R) /\ H.wanted \subseteq G.wanted
    BY <2>1, KeptIsHeld
  <2> QED BY <1>4, <2>2 DEF H, Stopped
<1>5. CASE G.idx = EMPTY
  BY <1>2, <1>5 DEF StopOne
<1>6. CASE G.idx # EMPTY
  <2>1. G.idx \in Apps
    BY <1>1, <1>6
  <2> QED BY <1>2, <1>3, <1>4, <1>6, <2>1 DEF StopOne
<1> QED BY <1>5, <1>6

LEMMA StopKeeps ==
  ASSUME NEW G, NEW R, NEW spared, Sound(G), Reported(G, R), Queued(G)
  PROVE  Stopped(G, StopFrom(G, spared), R) /\ Halted(StopFrom(G, spared), spared)
<1> DEFINE n == 2 * Cardinality(Apps) + 1
           V == {H \in RecordType : Stopped(G, H, R)}
           W == [i \in 0..n |-> {H \in V : Halting(H, spared, i)}]
           next(H, i) == StopOne(H, spared)
           step == [i \in 1..n |-> [H \in V |-> next(H, i)]]
           Turn(f) == f = [i \in 0..n |-> IF i = 0 THEN G
                             ELSE CHOOSE r \in {next(H, i) : H \in {f[i - 1]}} : TRUE]
           turn == CHOOSE f : Turn(f)
           H1 == turn[n]
<1>1. n \in Nat /\ G \in V
  BY AppsAre DEF Held, Sound, Stopped
<1>2. ASSUME NEW H \in V, NEW i \in 1..n PROVE next(H, i) \in V
  <2>1. Sound(H) /\ Reported(H, R) /\ Queued(H) /\ Stopped(G, H, R)
    BY DEF Held, Stopped
  <2>2. Stopped(H, next(H, i), R)
    BY <2>1, StopOneKeeps
  <2> HIDE DEF next
  <2>3. Held(G, next(H, i), R)
    BY <2>1, <2>2, HeldTwice DEF Stopped
  <2> QED BY <2>1, <2>2, <2>3 DEF Stopped, Held, Sound
<1> HIDE DEF next
<1>11. ASSUME NEW i \in 1..n, NEW H \in W[i - 1] PROVE next(H, i) \in W[i]
  <2>1. H \in V /\ Halting(H, spared, i - 1) /\ next(H, i) \in V /\ i \in 0..n
    BY <1>1, <1>2, <1>11
  <2>2. Sound(H) /\ i \in Nat \ {0}
    BY <1>1, <2>1 DEF Stopped, Held
  <2>3. Halting(next(H, i), spared, i)
    BY <2>1, <2>2, StopTurn DEF next
  <2> HIDE DEF V, n
  <2> QED BY <2>1, <2>3
<1>12. G \in W[0]
  <2>1. Halting(G, spared, 0)
    <3>1. G.idx \in Apps \cup {EMPTY}
      BY DEF Sound, RecordType
    <3>2. CASE G.idx = EMPTY
      BY <3>2 DEF Halting, Halted
    <3>3. CASE G.idx # EMPTY
      <4>1. G.idx \in Apps /\ G.idx \in Nat /\ G.idx + 1 <= Cardinality(Apps)
            /\ Cardinality(Apps) \in Nat
        BY <3>1, <3>3, AppsAre
      <4> QED BY <4>1 DEF Halting, Turns
    <3> QED BY <3>2, <3>3
  <2>2. 0 \in 0..n
    BY <1>1
  <2> HIDE DEF V, n
  <2> QED BY <1>1, <2>1, <2>2
<1> HIDE DEF next
<1>3. step \in [1..n -> [V -> V]]
  BY <1>2
<1>4. PICK f \in [0..n -> V] : f[0] = G /\ \A i \in 1..n : f[i] = step[i][f[i - 1]]
  <2> HIDE DEF V, step, n
  <2>1. Repeats(n, V, G, step)
    BY <1>1, <1>3, TurnsExist
  <2> QED BY <2>1 DEF Repeats
<1>5. Turn(f)
  <2>1. ASSUME NEW i \in 0..n, i # 0
        PROVE  f[i] = CHOOSE r \in {next(H, i) : H \in {f[i - 1]}} : TRUE
    <3>1. i \in 1..n /\ i - 1 \in 0..n
      BY <1>1, <2>1
    <3>2. f[i] = next(f[i - 1], i)
      BY <1>4, <3>1
    <3> HIDE DEF n, V
    <3> QED BY <3>2
  <2> HIDE DEF V, step
  <2> QED BY <1>4, <2>1
<1>6. Turn(turn)
  <2> HIDE DEF Turn
  <2> QED BY <1>5
<1>7. \A i \in 1..n : turn[i - 1] \in W[i - 1] => turn[i] \in W[i]
  <2> SUFFICES ASSUME NEW i \in 1..n, turn[i - 1] \in W[i - 1] PROVE turn[i] \in W[i]
    OBVIOUS
  <2>1. i \in 0..n /\ i # 0
    BY <1>1
  <2>2. turn[i] = CHOOSE r \in {next(H, i) : H \in {turn[i - 1]}} : TRUE
    <3> HIDE DEF turn
    <3> QED BY <1>6, <2>1
  <2>3. turn[i] = next(turn[i - 1], i)
    <3> HIDE DEF turn
    <3> QED BY <2>2
  <2> HIDE DEF turn, V, W
  <2> QED BY <1>11, <2>3
<1>8. turn[0] \in W[0]
  <2> HIDE DEF turn
  <2>1. 0 \in 0..n
    BY <1>1
  <2>2. turn[0] = G
    BY <1>6, <2>1
  <2> HIDE DEF V, W
  <2> QED BY <1>12, <2>2
<1>9. H1 \in W[n]
  <2> HIDE DEF turn, W, n
  <2> QED BY <1>1, <1>7, <1>8, StaysAlong
<1>10. StopFrom(G, spared) = H1
  BY DEF StopFrom, Times, Then, next, StopOne
<1> HIDE DEF H1
<1>13. H1 \in V /\ Halting(H1, spared, n)
  <2>1. n \in 0..n
    BY <1>1
  <2> HIDE DEF V, n
  <2> QED BY <1>9, <2>1
<1>14. Halted(H1, spared)
  <2>1. ASSUME H1.idx \in Apps PROVE ~(Turns(H1, spared) <= 2 * Cardinality(Apps) - n)
    <3>1. H1.idx \in Nat /\ Cardinality(Apps) \in Nat
      BY <2>1, AppsAre
    <3> QED BY <3>1 DEF Turns
  <2> QED BY <1>13, <2>1 DEF Halting
<1> QED BY <1>10, <1>13, <1>14

\* A configuration that is reached is Idle.
LEMMA ReachedIs ==
  ASSUME NEW G, NEW R, Sound(G), Reported(G, R), Queued(G), G.run = "Startup",
         G.state = "Running", Begun(G),
         G.idx = EMPTY => G.wanted = {}
  PROVE  RoundInv(Reached(G), R) /\ Waits(Reached(G)) /\ Reached(G).state = G.state
<1> DEFINE H == [G EXCEPT !.run = "Idle"]
<1>1. G \in RecordType
  BY DEF Sound
<1>2. Reached(G) = IF G.idx = EMPTY THEN H ELSE G
  BY DEF Reached, Then
<1>3. CASE G.idx = EMPTY
  <2>1. /\ H \in RecordType /\ H.proc = G.proc /\ H.queue = G.queue
        /\ H.run = "Idle" /\ H.state = G.state /\ H.spawn = G.spawn /\ H.wanted = G.wanted
    BY <1>1 DEF RecordType
  <2>2. Reached(G) = H
    BY <1>2, <1>3
  <2> HIDE DEF H
  <2>3. Sound(H) /\ Reported(H, R) /\ Queued(H)
    BY <2>1 DEF Sound, Reported, Queued
  <2> QED BY <1>3, <2>1, <2>2, <2>3 DEF RoundInv, Waits
<1>4. CASE G.idx # EMPTY
  <2>1. G.idx \in Apps
    BY <1>1, <1>4 DEF RecordType
  <2>2. G.proc[G.idx].state \in {"Spawning", "Loading", "Terminating"}
    BY <1>1, <1>4, <2>1 DEF Begun, In, RecordType, ProcessType, States
  <2>3. Waits(G)
    BY <2>1, <2>2 DEF Waits, Awaits
  <2> QED BY <1>2, <1>4, <2>1, <2>3 DEF RoundInv
<1> QED BY <1>3, <1>4

LEMMA StartupKeeps ==
  ASSUME Room, NEW G, NEW R, Sound(G), Reported(G, R), Queued(G), G.run = "Startup",
         G.state = "Running",
         G.idx = EMPTY => G.wanted = {}
  PROVE  /\ RoundInv(Reached(Start_Next_Process(G)), R)
         /\ Waits(Reached(Start_Next_Process(G)))
         /\ Reached(Start_Next_Process(G)).state = G.state
<1> DEFINE N == Start_Next_Process(G)
<1>1. Advanced(G, N, R) /\ Begun(N)
  BY StartNextKeeps
<1> HIDE DEF N
<1>2. RoundInv(Reached(N), R) /\ Waits(Reached(N)) /\ Reached(N).state = G.state
  BY <1>1, ReachedIs DEF Advanced, Held
<1> QED BY <1>2 DEF N

LEMMA ShutdownKeeps ==
  ASSUME NEW G, NEW R, RoundInv(G, R), G.state = "Shutdown"
  PROVE  RoundInv(Round(G), R) /\ Waits(Round(G))
<1> DEFINE S == StopFrom(G, {})
           H == [S EXCEPT !.state = "Ended"]
<1>1. Stopped(G, S, R) /\ Halted(S, {})
  BY StopKeeps DEF RoundInv
<1>2. Round(G) = IF S.idx = EMPTY THEN H ELSE S
  BY DEF Round, Then
<1> HIDE DEF S
<1>3. S \in RecordType /\ S.run = G.run /\ S.state = "Shutdown" /\ S.wanted \subseteq G.wanted
  BY <1>1 DEF Stopped, Held, Sound
<1>4. RoundInv(S, R)
  BY <1>1, <1>3 DEF Stopped, Held, RoundInv
<1>5. /\ H \in RecordType /\ H.proc = S.proc /\ H.queue = S.queue /\ H.idx = S.idx
      /\ H.run = S.run /\ H.state = "Ended" /\ H.spawn = S.spawn /\ H.wanted = S.wanted
  BY <1>3 DEF RecordType
<1> HIDE DEF H
<1>6. Sound(H) /\ Reported(H, R) /\ Queued(H)
  BY <1>4, <1>5 DEF RoundInv, Sound, Reported, Queued
<1>7. RoundInv(H, R) /\ Waits(H)
  BY <1>4, <1>5, <1>6 DEF RoundInv, Waits
<1>8. S.idx # EMPTY => Waits(S)
  BY <1>1, <1>3 DEF Halted, Waits, Awaits, In, RecordType
<1> QED BY <1>2, <1>4, <1>7, <1>8

LEMMA TerminatingKeeps ==
  ASSUME Room, NEW G, NEW R, RoundInv(G, R), G.state = "Running", G.run = "Terminating"
  PROVE  RoundInv(Round(G), R) /\ Waits(Round(G))
<1> DEFINE T == StopFrom(G, {a \in Apps : G.conf \in config[a]})
           U == [T EXCEPT !.run = "Startup"]
           F == StartFromQueue(U)
           N == Reached(Start_Next_Process(F))
<1>1. Stopped(G, T, R) /\ (T.idx # EMPTY => In(T, T.idx) \in {"Terminating", "Spawning"})
  BY StopKeeps DEF RoundInv, Halted
<1>2. Round(G) = IF T.idx # EMPTY THEN T ELSE N
  BY DEF Round, Then
<1> HIDE DEF T
<1>3. T \in RecordType /\ T.run = "Terminating"
  BY <1>1 DEF Stopped, Held, Sound
<1>4. RoundInv(T, R)
  BY <1>1, <1>3 DEF Stopped, Held, RoundInv
<1>5. /\ U \in RecordType /\ U.proc = T.proc /\ U.queue = T.queue /\ U.idx = T.idx
      /\ U.run = "Startup" /\ U.state = T.state /\ U.spawn = T.spawn /\ U.wanted = T.wanted
  BY <1>3 DEF RecordType
<1> HIDE DEF U
<1>6. Sound(U) /\ Reported(U, R) /\ Queued(U)
  BY <1>4, <1>5 DEF RoundInv, Sound, Reported, Queued
<1>7. Advanced(U, F, R)
  BY <1>6, FromQueueKeeps
<1> HIDE DEF F
<1>8. RoundInv(N, R) /\ Waits(N)
  BY <1>1, <1>5, <1>7, StartupKeeps DEF Advanced, Held, Stopped
<1> HIDE DEF N
<1>9. T.idx # EMPTY => Waits(T)
  BY <1>1, <1>3 DEF Stopped, Held, Waits, Awaits, In, RecordType
<1> QED BY <1>2, <1>4, <1>8, <1>9

LEMMA RoundKeeps ==
  ASSUME Room, NEW G, NEW R, RoundInv(G, R), G.state \in {"Running", "Shutdown"}
  PROVE  RoundInv(Round(G), R) /\ Waits(Round(G))
<1>1. G.run \in {"Startup", "Terminating", "Idle"}
  BY DEF RoundInv, Sound, RecordType
<1>2. CASE G.state = "Shutdown"
  BY <1>2, ShutdownKeeps
<1>3. CASE G.state = "Running" /\ G.run = "Startup"
  <2>1. Round(G) = Reached(Start_Next_Process(G))
    BY <1>3 DEF Round
  <2>2. G.idx # EMPTY
    BY <1>3, AppsAre DEF RoundInv
  <2> QED BY <1>3, <2>1, <2>2, StartupKeeps DEF RoundInv
<1>4. CASE G.state = "Running" /\ G.run = "Terminating"
  BY <1>4, TerminatingKeeps
<1>5. CASE G.state = "Running" /\ G.run = "Idle"
  <2>1. Round(G) = G
    BY <1>5 DEF Round
  <2> QED BY <1>5, <2>1 DEF Waits
<1> QED BY <1>1, <1>2, <1>3, <1>4, <1>5

-----------------------------------------------------------------------------
(* The messages *)

LEMMA FewerReports ==
  ASSUME NEW G, NEW R, NEW S, Reported(G, R), R \subseteq S
  PROVE  Reported(G, S)
BY DEF Reported

LEMMA KeptRound ==
  ASSUME NEW G, NEW H, NEW R, NEW S, RoundInv(G, R), Kept(G, H, S)
  PROVE  RoundInv(H, S) /\ H.state = G.state
BY DEF Kept, RoundInv, Queued

\* A signal ends a process, and changes nothing that is on its way.
LEMMA SignalKeeps ==
  ASSUME WorldType, inbox' \in Seq(Messages), spawned' = spawned,
         unreported' \in SUBSET Apps, NEW kills, Signalled(kills)
  PROVE  /\ WorldType'
         /\ Reporting(spawned', os', inbox', unreported')
              = Reporting(spawned, os, inbox', unreported')
<1> DEFINE hit(p) == os[p].status = "alive" /\ (p \in kills \/ EMPTY \in kills)
           Process == [app : Apps \cup {EMPTY}, ready : BOOLEAN, code : {0, 1},
                       status : {"unused", "alive", "zombie", "reaped"}]
<1>1. os \in [Pids -> Process]
  BY DEF WorldType
<1>2. ASSUME NEW p \in Pids
      PROVE  /\ os'[p] \in Process /\ os'[p].app = os[p].app
             /\ os'[p].status = "unused" <=> os[p].status = "unused"
  <2>1. os'[p] = IF hit(p) THEN [os[p] EXCEPT !.status = "zombie", !.code = 1,
                                              !.ready = FALSE] ELSE os[p]
    BY DEF Signalled
  <2> QED BY <1>1, <2>1
<1>3. os' \in [Pids -> Process]
  <2> HIDE DEF Process
  <2> QED BY <1>2 DEF Signalled
<1>4. WorldType'
  BY <1>2, <1>3 DEF WorldType
<1>5. \A p \in spawned : os'[p].app = os[p].app
  BY <1>2 DEF WorldType
<1>6. Reporting(spawned', os', inbox', unreported')
              = Reporting(spawned, os, inbox', unreported')
  BY <1>5 DEF Reporting
<1> QED BY <1>4, <1>6

\* What a handler leaves is rounded off and stored.
LEMMA FinishKeeps ==
  ASSUME Room, WorldType, inbox' \in Seq(Messages), NEW G,
         RoundInv(G, Reporting(spawned, os, inbox', unreported)), G.state # "Ended",
         Finish(G)
  PROVE  IInv'
<1> DEFINE K == Round(G)
           Q == Reporting(spawned, os, inbox', unreported)
           R == Reporting(spawned, os, inbox', unreported')
<1>1. Store(K)
  BY DEF Finish
<1>2. G.state \in {"Running", "Shutdown"}
  BY DEF RoundInv, Sound, RecordType
<1>3. RoundInv(K, Q) /\ Waits(K)
  BY <1>2, RoundKeeps
<1> HIDE DEF K
<1>4. /\ unreported' = {a \in unreported : K.proc[a].state = "Spawning"}
      /\ unreported' \in SUBSET Apps
  BY <1>1 DEF Store, In, WorldType
<1>5. RoundInv(K, R)
  <2>1. \A a \in Apps : a \in Q /\ K.proc[a].state = "Spawning" => a \in R
    BY <1>4 DEF Reporting
  <2>2. Reported(K, R)
    BY <1>3, <2>1 DEF RoundInv, Reported
  <2> QED BY <1>3, <2>2 DEF RoundInv
<1>6. /\ WorldType' /\ Reporting(spawned', os', inbox', unreported') = R
  <2>1. spawned' = spawned /\ Signalled(K.kills)
    BY <1>1 DEF Store
  <2> QED BY <1>4, <2>1, SignalKeeps
<1> HIDE DEF R
<1>7. RoundInv(G0', R) /\ Waits(G0')
  <2> DEFINE H == [proc |-> K.proc, queue |-> K.queue, idx |-> K.idx,
                   conf |-> K.conf, run |-> K.run, state |-> K.state,
                   spawn |-> K.spawn, kills |-> {}, wanted |-> K.wanted]
  <2>1. G0' = H
    BY <1>1 DEF Store, G0
  <2>2. K \in RecordType
    BY <1>3 DEF RoundInv, Sound
  <2>3. /\ H \in RecordType /\ H.proc = K.proc /\ H.queue = K.queue /\ H.idx = K.idx
        /\ H.run = K.run /\ H.state = K.state /\ H.spawn = K.spawn /\ H.wanted = K.wanted
    BY <2>2 DEF RecordType
  <2> HIDE DEF H
  <2>4. Sound(H) /\ Reported(H, R) /\ Queued(H)
    BY <1>5, <2>3 DEF RoundInv, Sound, Reported, Queued
  <2>5. RoundInv(H, R) /\ Waits(H)
    BY <1>3, <1>5, <2>3, <2>4 DEF RoundInv, Waits, Awaits
  <2> QED BY <2>1, <2>5
<1> QED BY <1>6, <1>7 DEF IInv

LEMMA G0Is ==
  /\ G0.proc = proc /\ G0.queue = pm_queue /\ G0.idx = current_idx
  /\ G0.conf = current_config /\ G0.run = running_state /\ G0.state = state
  /\ G0.spawn = starting /\ G0.wanted = wanted /\ G0.kills = {}
BY DEF G0

\* The process is found, or there is none with the pid.
LEMMA FindIs ==
  ASSUME NEW pid
  PROVE  Find_Process_By_Pid(pid) \in Apps \cup {EMPTY}
<1> DEFINE with == {a \in Apps : proc[a].pid = pid}
<1>1. with \in SUBSET Nat
  BY AppsAre
<1>2. CASE with # {}
  <2>1. \E a \in with : \A b \in with : a <= b
    <3> HIDE DEF with
    <3> QED BY <1>1, <1>2, LeastExists
  <2> QED BY <1>2, <2>1 DEF Find_Process_By_Pid
<1>3. CASE with = {}
  BY <1>3 DEF Find_Process_By_Pid
<1> QED BY <1>2, <1>3

LEMMA ExitKeeps ==
  ASSUME NEW G, NEW R, NEW a \in Apps, NEW code \in {0, 1}, Sound(G), Reported(G, R)
  PROVE  Kept(G, Process_App_Exit(G, a, code), R)
<1> DEFINE p == [G.proc[a] EXCEPT !.ret_code = code]
           X == [G EXCEPT !.proc = [G.proc EXCEPT ![a] = p]]
<1>1. G \in RecordType /\ G.proc[a] \in ProcessType
  BY DEF Sound, RecordType
<1>2. /\ p \in ProcessType /\ p.state = G.proc[a].state /\ p.timer = G.proc[a].timer
      /\ p.deferred = G.proc[a].deferred
  BY <1>1 DEF ProcessType
<1>3. Process_App_Exit(G, a, code) = PM_Process_Event(X, a, "EV_APP_EXIT")
  BY DEF Process_App_Exit
<1> HIDE DEF p
<1>4. /\ X \in RecordType /\ X.proc[a] = p /\ \A b \in Apps \ {a} : X.proc[b] = G.proc[b]
      /\ X.queue = G.queue /\ X.idx = G.idx /\ X.conf = G.conf /\ X.run = G.run
      /\ X.state = G.state /\ X.spawn = G.spawn /\ X.wanted = G.wanted
  BY <1>1, <1>2 DEF RecordType
<1> HIDE DEF X
<1>5. \A b \in Apps : /\ X.proc[b].state = G.proc[b].state
                      /\ X.proc[b].timer = G.proc[b].timer
                      /\ X.proc[b].deferred = G.proc[b].deferred
  BY <1>2, <1>4
<1>6. G.wanted \in SUBSET Apps
  BY <1>1 DEF RecordType
<1>7. Sound(X) /\ Reported(X, R)
  BY <1>4, <1>5, <1>6 DEF Sound, Reported, Timed, Armed
<1>8. Kept(X, PM_Process_Event(X, a, "EV_APP_EXIT"), R)
  BY <1>7, EventKeeps, SoundIsSoundBut
<1> DEFINE H == PM_Process_Event(X, a, "EV_APP_EXIT")
<1> HIDE DEF H
<1>9. Kept(G, H, R)
  BY <1>4, <1>8 DEF Kept, H
<1> QED BY <1>3, <1>9 DEF H

\* The report that was received is not on its way any more.
LEMMA HeadIs ==
  ASSUME WorldType, inbox # << >>
  PROVE  /\ Head(inbox) \in Messages /\ Tail(inbox) \in Seq(Messages)
         /\ \A a \in Reporting(spawned, os, inbox, unreported) :
              \/ a \in Reporting(spawned, os, Tail(inbox), unreported)
              \/ Head(inbox).event \in Reports /\ Head(inbox).app = a
<1>1. /\ inbox \in Seq(Messages) /\ Len(inbox) \in Nat \ {0} /\ DOMAIN inbox = 1..Len(inbox)
      /\ Head(inbox) = inbox[1] /\ inbox[1] \in Messages
      /\ Tail(inbox) \in Seq(Messages) /\ DOMAIN Tail(inbox) = 1..Len(inbox) - 1
      /\ \A i \in 1..Len(inbox) - 1 : Tail(inbox)[i] = inbox[i + 1]
  <2>1. inbox \in Seq(Messages)
    BY DEF WorldType
  <2> HIDE DEF Messages
  <2> QED BY <2>1
<1>2. ASSUME NEW i \in DOMAIN inbox, i # 1
      PROVE  i - 1 \in DOMAIN Tail(inbox) /\ Tail(inbox)[i - 1] = inbox[i]
  <2>1. i - 1 \in 1..Len(inbox) - 1 /\ (i - 1) + 1 = i
    BY <1>1, <1>2
  <2> QED BY <1>1, <2>1
<1>3. \A a \in Reporting(spawned, os, inbox, unreported) :
        \/ a \in Reporting(spawned, os, Tail(inbox), unreported)
        \/ Head(inbox).event \in Reports /\ Head(inbox).app = a
  BY <1>1, <1>2 DEF Reporting
<1> QED BY <1>1, <1>3

LEMMA ReceiveKeeps ==
  ASSUME Room, IInv, Receive
  PROVE  IInv'
<1> DEFINE R == Reporting(spawned, os, inbox, unreported)
           S == Reporting(spawned, os, Tail(inbox), unreported)
           msg == Head(inbox)
<1>1. /\ msg \in Messages /\ inbox' = Tail(inbox) /\ inbox' \in Seq(Messages)
      /\ \A a \in R : a \in S \/ (msg.event \in Reports /\ msg.app = a)
  BY HeadIs DEF IInv, Receive
<1>2. RoundInv(G0, R) /\ Sound(G0) /\ Reported(G0, R) /\ WorldType
  BY DEF IInv, RoundInv
<1>3. Finish(After(msg)) /\ state # "Ended"
  BY DEF Receive, Finish, Active
<1> HIDE DEF R, msg
<1>4. Kept(G0, After(msg), S)
  <2>1. CASE msg.event = "EV_PROCESS_EXIT"
    <3>1. R \subseteq S
      BY <1>1, <2>1 DEF Reports, Reporting, R
    <3>2. Reported(G0, S)
      BY <1>2, <3>1, FewerReports
    <3>3. msg.code \in {0, 1}
      BY <1>1, <2>1 DEF Messages, Reports
    <3>4. CASE Find_Process_By_Pid(msg.pid) = EMPTY
      <4>1. After(msg) = G0
        BY <2>1, <3>4 DEF After
      <4> QED BY <1>2, <3>2, <4>1 DEF Kept
    <3>5. CASE Find_Process_By_Pid(msg.pid) # EMPTY
      <4>1. After(msg) = Process_App_Exit(G0, Find_Process_By_Pid(msg.pid), msg.code)
        BY <2>1, <3>5 DEF After
      <4>2. Find_Process_By_Pid(msg.pid) \in Apps
        BY <3>5, FindIs
      <4> QED BY <1>2, <3>2, <3>3, <4>1, <4>2, ExitKeeps
    <3> QED BY <3>4, <3>5
  <2>2. CASE msg.event \in Reports
    <3> DEFINE H == PM_Process_Event(G0, msg.app, msg.event)
    <3>1. msg.app \in Apps
      BY <1>1, <2>2 DEF Messages, Reports
    <3>2. Kept(G0, H, R) /\ Reported(H, R \ {msg.app})
      BY <1>2, <2>2, <3>1, EventKeeps, SoundIsSoundBut
    <3>3. R \ {msg.app} \subseteq S
      BY <1>1
    <3>4. After(msg) = IF msg.event = "EV_APP_SPAWN_SUCCESS"
                       THEN PM_Recall_Deferred_Events(H, msg.app) ELSE H
      BY <2>2 DEF After, Then, Reports
    <3> HIDE DEF H
    <3>5. Kept(G0, H, S)
      BY <3>2, <3>3, FewerReports DEF Kept
    <3>6. Kept(H, PM_Recall_Deferred_Events(H, msg.app), S)
      BY <3>1, <3>5, RecallKeeps DEF Kept
    <3>7. Kept(G0, PM_Recall_Deferred_Events(H, msg.app), S)
      BY <3>5, <3>6, KeptTwice
    <3> QED BY <3>4, <3>5, <3>7
  <2>3. CASE msg.event = "EV_APP_INITIALIZED"
    <3>1. R \subseteq S
      BY <1>1, <2>3 DEF Reports
    <3>2. Reported(G0, S)
      BY <1>2, <3>1, FewerReports
    <3>3. msg.app \in Apps
      BY <1>1, <2>3 DEF Messages
    <3>4. After(msg) = PM_Process_Event(G0, msg.app, msg.event)
      BY <2>3 DEF After
    <3> QED BY <1>2, <3>2, <3>3, <3>4, EventKeeps, SoundIsSoundBut
  <2> QED BY <1>1, <2>1, <2>2, <2>3 DEF Messages
<1>5. RoundInv(After(msg), S) /\ After(msg).state = state
  BY <1>2, <1>4, KeptRound, G0Is
<1> QED BY <1>1, <1>2, <1>3, <1>5, FinishKeeps

LEMMA TimerKeeps ==
  ASSUME Room, IInv, Timer
  PROVE  IInv'
<1> DEFINE H == ForEach(G0, PM_Timer_Tick)
           R == Reporting(spawned, os, inbox, unreported)
<1>1. RoundInv(G0, R) /\ Sound(G0) /\ Reported(G0, R) /\ WorldType
  BY DEF IInv, RoundInv
<1>2. Finish(H) /\ inbox' = inbox /\ state # "Ended"
  BY DEF Timer, Finish, Active
<1>3. Kept(G0, H, R)
  BY <1>1, TicksKeep
<1> HIDE DEF H
<1>4. RoundInv(H, R) /\ H.state = state
  BY <1>1, <1>3, KeptRound, G0Is
<1> QED BY <1>1, <1>2, <1>4, FinishKeeps DEF WorldType

LEMMA StartAppKeeps ==
  ASSUME Room, IInv, NEW a \in Apps, Start_App(a)
  PROVE  IInv'
<1> DEFINE H == PM_Process_Event(G0, a, "EV_START_APP")
           R == Reporting(spawned, os, inbox, unreported)
<1>1. RoundInv(G0, R) /\ Sound(G0) /\ Reported(G0, R) /\ WorldType
  BY DEF IInv, RoundInv
<1>2. Finish(H) /\ inbox' = inbox /\ state # "Ended"
  BY DEF Start_App, Request, Finish, Active
<1>3. Kept(G0, H, R)
  BY <1>1, EventKeeps, SoundIsSoundBut
<1> HIDE DEF H
<1>4. RoundInv(H, R) /\ H.state = state
  BY <1>1, <1>3, KeptRound, G0Is
<1> QED BY <1>1, <1>2, <1>4, FinishKeeps DEF WorldType

\* A request that leaves the records of the processes alone.
LEMMA RequestKeeps ==
  ASSUME Room, IInv, NEW G, G.state # "Ended",
         RoundInv(G, Reporting(spawned, os, inbox, unreported)), Request(G)
  PROVE  IInv'
<1>1. Finish(G) /\ inbox' = inbox /\ WorldType /\ inbox \in Seq(Messages)
  BY DEF Request, IInv, WorldType
<1> QED BY <1>1, FinishKeeps

LEMMA LastApp == Cardinality(Apps) - 1 \in Apps \cup {EMPTY}
BY AppsAre

LEMMA ShutdownRequestKeeps ==
  ASSUME Room, IInv, System_Shutdown
  PROVE  IInv'
<1> DEFINE H == [G0 EXCEPT !.state = "Shutdown", !.idx = Cardinality(Apps) - 1]
           R == Reporting(spawned, os, inbox, unreported)
<1>1. RoundInv(G0, R) /\ G0 \in RecordType
  BY DEF IInv, RoundInv, Sound
<1>2. Request(IF state = "Shutdown" THEN G0 ELSE H)
  BY DEF System_Shutdown
<1>3. /\ H \in RecordType /\ H.proc = G0.proc /\ H.queue = G0.queue
      /\ H.run = G0.run /\ H.state = "Shutdown" /\ H.spawn = G0.spawn
      /\ H.wanted = G0.wanted
  BY <1>1, LastApp DEF RecordType
<1> HIDE DEF H
<1>4. Sound(H) /\ Reported(H, R) /\ Queued(H)
  BY <1>1, <1>3 DEF RoundInv, Sound, Reported, Queued
<1>5. RoundInv(H, R)
  BY <1>1, <1>3, <1>4 DEF RoundInv
<1>6. CASE state = "Shutdown"
  BY <1>1, <1>2, <1>6, G0Is, RequestKeeps
<1>7. CASE state # "Shutdown"
  BY <1>2, <1>3, <1>5, <1>7, RequestKeeps
<1> QED BY <1>6, <1>7

LEMMA SetConfigKeeps ==
  ASSUME Room, IInv, NEW c \in Configs, Set_System_Config(c)
  PROVE  IInv'
<1> DEFINE X == [G0 EXCEPT !.conf = c, !.queue = PM_Queue_Clear, !.wanted = {}]
           A == Add_Processes_To_Queue(X, c)
           H == [A EXCEPT !.run = "Terminating", !.idx = Cardinality(Apps) - 1]
           R == Reporting(spawned, os, inbox, unreported)
<1>1. RoundInv(G0, R) /\ G0 \in RecordType /\ state # "Ended"
  BY DEF IInv, RoundInv, Sound, Set_System_Config, Request, Finish, Active
<1>2. Request(IF state = "Shutdown" THEN G0 ELSE H)
  BY DEF Set_System_Config
<1>3. /\ X \in RecordType /\ X.proc = G0.proc /\ X.queue = PM_Queue_Clear
      /\ X.run = G0.run /\ X.state = G0.state /\ X.spawn = G0.spawn /\ X.wanted = {}
  BY <1>1, ClearIs DEF RecordType, QueueType
<1> HIDE DEF X
<1>4. Sound(X) /\ Reported(X, R) /\ Queued(X)
  BY <1>1, <1>3, ClearIs DEF RoundInv, Sound, Reported, Queued
<1>5. Held(X, A, R)
  BY <1>4, AddKeeps
<1> HIDE DEF A
<1>6. A \in RecordType
  BY <1>5 DEF Held, Sound
<1>7. /\ H \in RecordType /\ H.proc = A.proc /\ H.queue = A.queue
      /\ H.run = "Terminating" /\ H.state = A.state /\ H.spawn = A.spawn
      /\ H.wanted = A.wanted
  BY <1>6, LastApp DEF RecordType
<1> HIDE DEF H
<1>8. Sound(H) /\ Reported(H, R) /\ Queued(H)
  BY <1>5, <1>7 DEF Held, Sound, Reported, Queued
<1>9. RoundInv(H, R) /\ H.state = state
  BY <1>3, <1>5, <1>7, <1>8, G0Is DEF Held, RoundInv
<1>10. CASE state = "Shutdown"
  BY <1>1, <1>2, <1>10, G0Is, RequestKeeps
<1>11. CASE state # "Shutdown"
  BY <1>1, <1>2, <1>9, <1>11, RequestKeeps
<1> QED BY <1>10, <1>11

LEMMA AddConfigKeeps ==
  ASSUME Room, IInv, NEW c \in Configs, Add_System_Config(c)
  PROVE  IInv'
<1> DEFINE A == Add_Processes_To_Queue(G0, c)
           H == [A EXCEPT !.run = "Terminating", !.idx = EMPTY]
           R == Reporting(spawned, os, inbox, unreported)
<1>1. RoundInv(G0, R) /\ state # "Ended"
  BY DEF IInv, Add_System_Config, Request, Finish, Active
<1>2. Request(IF state = "Shutdown" THEN G0 ELSE IF A.run # "Terminating" THEN H ELSE A)
  BY DEF Add_System_Config
<1>3. Held(G0, A, R)
  BY <1>1, AddKeeps DEF RoundInv
<1> HIDE DEF A
<1>4. A \in RecordType
  BY <1>3 DEF Held, Sound
<1>5. /\ H \in RecordType /\ H.proc = A.proc /\ H.queue = A.queue
      /\ H.run = "Terminating" /\ H.state = A.state /\ H.spawn = A.spawn
      /\ H.wanted = A.wanted
  BY <1>4 DEF RecordType
<1> HIDE DEF H
<1>6. Sound(H) /\ Reported(H, R) /\ Queued(H)
  BY <1>3, <1>5 DEF Held, Sound, Reported, Queued
<1>7. RoundInv(H, R) /\ H.state = state
  BY <1>3, <1>5, <1>6, G0Is DEF Held, RoundInv
<1>8. CASE state = "Shutdown"
  BY <1>1, <1>2, <1>8, G0Is, RequestKeeps
<1>9. CASE state # "Shutdown" /\ A.run # "Terminating"
  BY <1>1, <1>2, <1>7, <1>9, RequestKeeps
<1>10. CASE state # "Shutdown" /\ A.run = "Terminating"
  <2>1. RoundInv(A, R) /\ A.state = state
    BY <1>3, <1>10, G0Is DEF Held, RoundInv
  <2> QED BY <1>1, <1>2, <1>10, <2>1, RequestKeeps
<1> QED BY <1>8, <1>9, <1>10

-----------------------------------------------------------------------------
(* Spawn threads, processes, the exit monitor and signals *)

\* What they do to the records: a pid is stored, nothing else.
LEMMA WorldKeeps ==
  ASSUME IInv, Others, WorldType', starting' \in [Apps -> Nat],
         proc' \in [Apps -> ProcessType],
         \A a \in Apps : /\ proc'[a].state = proc[a].state
                         /\ proc'[a].timer = proc[a].timer
                         /\ proc'[a].deferred = proc[a].deferred,
         \A a \in Apps : starting[a] > 0 \/ a \in Reporting(spawned, os, inbox, unreported) =>
                           \/ starting'[a] > 0 \/ a \in Reporting(spawned, os, inbox, unreported)'
                           \/ proc[a].state # "Spawning"
  PROVE  IInv'
<1> DEFINE R == Reporting(spawned, os, inbox, unreported)
           H == G0'
<1>1. RoundInv(G0, R) /\ G0 \in RecordType /\ G0.wanted \in SUBSET Apps
  BY DEF IInv, RoundInv, Sound, RecordType
<1>2. /\ G0' = [proc |-> proc', queue |-> pm_queue, idx |-> current_idx,
                conf |-> current_config, run |-> running_state, state |-> state,
                spawn |-> starting', kills |-> {}, wanted |-> wanted]
  BY DEF G0, Others
<1>3. H \in RecordType
  <2>1. /\ pm_queue \in [Slots -> Apps \cup {EMPTY}] /\ current_idx \in Apps \cup {EMPTY}
        /\ current_config \in Configs /\ running_state \in {"Startup", "Terminating", "Idle"}
        /\ state \in {"Running", "Shutdown", "Ended"} /\ wanted \in SUBSET Apps
    BY <1>1, G0Is DEF RecordType
  <2> QED BY <1>2, <2>1 DEF RecordType
<1>4. /\ H.proc = proc' /\ H.queue = G0.queue /\ H.idx = G0.idx /\ H.run = G0.run
      /\ H.state = G0.state /\ H.spawn = starting' /\ H.wanted = G0.wanted
  BY <1>2, G0Is
<1>5. \A a \in Apps : /\ H.proc[a].state = G0.proc[a].state
                      /\ H.proc[a].timer = G0.proc[a].timer
                      /\ H.proc[a].deferred = G0.proc[a].deferred
  BY <1>4, G0Is
<1> HIDE DEF H
<1>6. Sound(H) /\ Queued(H)
  BY <1>1, <1>3, <1>4, <1>5 DEF RoundInv, Sound, Queued, Timed, Armed
<1>7. Reported(H, Reporting(spawned, os, inbox, unreported)')
  BY <1>1, <1>4, <1>5, G0Is DEF RoundInv, Reported
<1>8. RoundInv(H, Reporting(spawned, os, inbox, unreported)')
  BY <1>1, <1>4, <1>6, <1>7 DEF RoundInv
<1>9. Waits(H)
  <2>1. Waits(G0)
    BY DEF IInv
  <2> QED BY <1>4, <1>5, <2>1 DEF Waits, Awaits
<1> QED BY <1>8, <1>9 DEF H, IInv

\* A message at the end of the queue adds to the reports; so does one that is lost,
\* for a process that waits for it.
LEMMA PostIs ==
  ASSUME WorldType, NEW msg \in Messages, Post(msg)
  PROVE  /\ inbox' \in Seq(Messages) /\ unreported' \in SUBSET Apps
         /\ \A sp, o : Reporting(sp, o, inbox, unreported)
                        \subseteq Reporting(sp, o, inbox', unreported')
         /\ msg.event \in Reports /\ proc[msg.app].state = "Spawning" =>
              \A sp, o : msg.app \in Reporting(sp, o, inbox', unreported')
<1>1. /\ inbox \in Seq(Messages) /\ unreported \in SUBSET Apps
      /\ msg.event \in Reports => msg.app \in Apps
  BY DEF WorldType, Messages, Reports
<1>2. CASE inbox' = Append(inbox, msg) /\ unreported' = unreported
  <2>1. /\ inbox' \in Seq(Messages) /\ Len(inbox) \in Nat /\ DOMAIN inbox = 1..Len(inbox)
        /\ DOMAIN inbox' = 1..(Len(inbox) + 1) /\ inbox'[Len(inbox) + 1] = msg
        /\ \A i \in 1..Len(inbox) : inbox'[i] = inbox[i]
    <3> HIDE DEF Messages
    <3> QED BY <1>1, <1>2
  <2>2. \A i \in DOMAIN inbox : i \in DOMAIN inbox' /\ inbox'[i] = inbox[i]
    BY <2>1
  <2>3. \A sp, o : Reporting(sp, o, inbox, unreported)
                   \subseteq Reporting(sp, o, inbox', unreported')
    BY <1>2, <2>2 DEF Reporting
  <2>4. ASSUME NEW sp, NEW o, msg.event \in Reports
        PROVE  msg.app \in Reporting(sp, o, inbox', unreported')
    <3>1. Len(inbox) + 1 \in DOMAIN inbox'
      BY <2>1
    <3> QED BY <1>1, <2>1, <2>4, <3>1 DEF Reporting
  <2> QED BY <1>1, <1>2, <2>1, <2>3, <2>4
<1>3. CASE inbox' = inbox /\ msg.event \in Reports /\ Lost(msg.app)
  <2>1. unreported' = unreported \cup {a \in {msg.app} : proc[a].state = "Spawning"}
    BY <1>3 DEF Lost
  <2> QED BY <1>1, <1>3, <2>1 DEF Reporting
<1>4. CASE inbox' = inbox /\ msg.event \notin Reports /\ unreported' = unreported
  BY <1>1, <1>4
<1> QED BY <1>2, <1>3, <1>4 DEF Post, Reports

LEMMA ProcIs ==
  ASSUME IInv
  PROVE  /\ proc \in [Apps -> ProcessType] /\ starting \in [Apps -> Nat] /\ WorldType
         /\ os \in [Pids -> [app : Apps \cup {EMPTY}, ready : BOOLEAN, code : {0, 1},
                             status : {"unused", "alive", "zombie", "reaped"}]]
BY G0Is DEF IInv, RoundInv, Sound, RecordType, WorldType

\* A pid that is stored changes nothing else.
LEMMA PidIs ==
  ASSUME IInv, NEW a \in Apps, NEW p \in Pids \cup {EMPTY},
         proc' = [proc EXCEPT ![a].pid = p]
  PROVE  /\ proc' \in [Apps -> ProcessType]
         /\ \A b \in Apps : /\ proc'[b].state = proc[b].state
                            /\ proc'[b].timer = proc[b].timer
                            /\ proc'[b].deferred = proc[b].deferred
<1> DEFINE x == [proc[a] EXCEPT !.pid = p]
<1>1. proc \in [Apps -> ProcessType] /\ proc[a] \in ProcessType
  BY ProcIs
<1>2. /\ x \in ProcessType /\ x.state = proc[a].state /\ x.timer = proc[a].timer
      /\ x.deferred = proc[a].deferred
  BY <1>1 DEF ProcessType
<1>3. proc' = [proc EXCEPT ![a] = x]
  OBVIOUS
<1> HIDE DEF x
<1> QED BY <1>1, <1>2, <1>3

LEMMA ForkKeeps ==
  ASSUME IInv, NEW a \in Apps, Fork(a)
  PROVE  IInv'
<1>1. PICK p \in Pids : /\ os[p] = Unused
                        /\ os' = [os EXCEPT ![p] = [Unused EXCEPT !.app = a, !.status = "alive"]]
                        /\ spawned' = spawned \cup {p}
  BY DEF Fork
<1>2. /\ starting[a] > 0 /\ starting' = [starting EXCEPT ![a] = @ - 1]
      /\ proc' = proc /\ inbox' = inbox /\ unreported' = unreported /\ Others
  BY DEF Fork
<1> DEFINE Process == [app : Apps \cup {EMPTY}, ready : BOOLEAN, code : {0, 1},
                       status : {"unused", "alive", "zombie", "reaped"}]
<1>3. /\ proc \in [Apps -> ProcessType] /\ starting \in [Apps -> Nat] /\ WorldType
      /\ os \in [Pids -> Process]
  BY ProcIs
<1>4. /\ os'[p] \in Process /\ os'[p].app = a /\ os'[p].status = "alive"
      /\ \A q \in Pids \ {p} : os'[q] = os[q]
  BY <1>1, <1>3 DEF Unused
<1>5. os' \in [Pids -> Process]
  <2> HIDE DEF Process
  <2> QED BY <1>1, <1>3, <1>4
<1>6. p \notin spawned
  BY <1>1, <1>3 DEF WorldType, Unused
<1>7. WorldType'
  BY <1>1, <1>2, <1>3, <1>4, <1>5, <1>6 DEF WorldType
<1>8. starting' \in [Apps -> Nat]
  BY <1>2, <1>3
<1>9. \A q \in spawned : q \in spawned' /\ os'[q].app = os[q].app
  BY <1>1, <1>3, <1>4, <1>6 DEF WorldType
<1>10. Reporting(spawned, os, inbox, unreported) \subseteq Reporting(spawned, os, inbox, unreported)'
  BY <1>2, <1>9 DEF Reporting
<1>11. a \in Reporting(spawned, os, inbox, unreported)'
  BY <1>1, <1>4 DEF Reporting
<1>12. \A b \in Apps : starting[b] > 0 => starting'[b] > 0 \/ b = a
  BY <1>2, <1>3
<1> QED BY <1>2, <1>3, <1>7, <1>8, <1>10, <1>11, <1>12, WorldKeeps

LEMMA SpawnSuccessKeeps ==
  ASSUME IInv, NEW p \in Pids, SpawnSuccess(p)
  PROVE  IInv'
<1> DEFINE a == os[p].app
           msg == [event |-> "EV_APP_SPAWN_SUCCESS", app |-> a]
           R == Reporting(spawned, os, inbox, unreported)
<1>1. /\ p \in spawned /\ spawned' = spawned \ {p} /\ proc' = [proc EXCEPT ![a].pid = p]
      /\ Post(msg) /\ starting' = starting /\ os' = os /\ Others
  BY DEF SpawnSuccess
<1>2. starting \in [Apps -> Nat] /\ WorldType
  BY ProcIs
<1>3. a \in Apps
  BY <1>1, <1>2 DEF WorldType
<1>4. msg \in Messages /\ msg.event \in Reports /\ msg.app = a
  BY <1>3 DEF Messages, Reports
<1> HIDE DEF msg, a
<1>5. /\ inbox' \in Seq(Messages) /\ unreported' \in SUBSET Apps
      /\ proc[a].state = "Spawning" => a \in Reporting(spawned', os', inbox', unreported')
      /\ Reporting(spawned, os, inbox, unreported) \subseteq Reporting(spawned, os, inbox', unreported')
  BY <1>1, <1>2, <1>4, PostIs
<1>6. WorldType'
  BY <1>1, <1>2, <1>5 DEF WorldType
<1>7. \A b \in Reporting(spawned, os, inbox', unreported') \ {a} :
        b \in Reporting(spawned', os', inbox', unreported')
  BY <1>1 DEF Reporting, a
<1>8. /\ proc' \in [Apps -> ProcessType]
      /\ \A b \in Apps : /\ proc'[b].state = proc[b].state
                         /\ proc'[b].timer = proc[b].timer
                         /\ proc'[b].deferred = proc[b].deferred
  BY <1>1, <1>3, PidIs
<1>9. \A b \in Apps : starting[b] > 0 \/ b \in Reporting(spawned, os, inbox, unreported) =>
                        \/ starting'[b] > 0 \/ b \in Reporting(spawned, os, inbox, unreported)'
                        \/ proc[b].state # "Spawning"
  BY <1>1, <1>5, <1>7
<1> QED BY <1>1, <1>2, <1>6, <1>8, <1>9, WorldKeeps

LEMMA SpawnFailKeeps ==
  ASSUME IInv, NEW a \in Apps, SpawnFail(a)
  PROVE  IInv'
<1> DEFINE msg == [event |-> "EV_APP_SPAWN_FAIL", app |-> a]
<1>1. /\ starting[a] > 0 /\ starting' = [starting EXCEPT ![a] = @ - 1]
      /\ proc' = [proc EXCEPT ![a].pid = EMPTY] \/ proc' = proc
      /\ Post(msg) /\ spawned' = spawned /\ os' = os /\ Others
  BY DEF SpawnFail
<1>2. starting \in [Apps -> Nat] /\ WorldType /\ proc \in [Apps -> ProcessType]
  BY ProcIs
<1>3. msg \in Messages /\ msg.event \in Reports /\ msg.app = a
  BY DEF Messages, Reports
<1> HIDE DEF msg
<1>4. /\ inbox' \in Seq(Messages) /\ unreported' \in SUBSET Apps
      /\ proc[a].state = "Spawning" => a \in Reporting(spawned, os, inbox', unreported')
      /\ Reporting(spawned, os, inbox, unreported) \subseteq Reporting(spawned, os, inbox', unreported')
  BY <1>1, <1>2, <1>3, PostIs
<1>5. WorldType'
  BY <1>1, <1>2, <1>4 DEF WorldType
<1>6. /\ proc' \in [Apps -> ProcessType]
      /\ \A b \in Apps : /\ proc'[b].state = proc[b].state
                         /\ proc'[b].timer = proc[b].timer
                         /\ proc'[b].deferred = proc[b].deferred
  <2>1. CASE proc' = proc
    BY <1>2, <2>1
  <2>2. CASE proc' = [proc EXCEPT ![a].pid = EMPTY]
    BY <2>2, PidIs
  <2> QED BY <1>1, <2>1, <2>2
<1>7. starting' \in [Apps -> Nat] /\ \A b \in Apps \ {a} : starting'[b] = starting[b]
  BY <1>1, <1>2
<1>8. Reporting(spawned, os, inbox, unreported)' = Reporting(spawned, os, inbox', unreported')
  BY <1>1
<1>9. \A b \in Apps : starting[b] > 0 \/ b \in Reporting(spawned, os, inbox, unreported) =>
                        \/ starting'[b] > 0 \/ b \in Reporting(spawned, os, inbox, unreported)'
                        \/ proc[b].state # "Spawning"
  BY <1>4, <1>7, <1>8
<1> QED BY <1>1, <1>5, <1>6, <1>7, <1>9, WorldKeeps

\* A process that gets on, in another status of those that are used.
LEMMA ProcessKeeps ==
  ASSUME IInv, Others, NEW p \in Pids, NEW x, os' = [os EXCEPT ![p] = x],
         x \in [app : Apps \cup {EMPTY}, ready : BOOLEAN, code : {0, 1},
                status : {"alive", "zombie", "reaped"}],
         x.app = os[p].app, os[p].status # "unused",
         proc' = proc, starting' = starting, spawned' = spawned,
         inbox' \in Seq(Messages), unreported' \in SUBSET Apps,
         Reporting(spawned, os, inbox, unreported) \subseteq Reporting(spawned, os, inbox', unreported')
  PROVE  IInv'
<1> DEFINE Process == [app : Apps \cup {EMPTY}, ready : BOOLEAN, code : {0, 1},
                       status : {"unused", "alive", "zombie", "reaped"}]
<1>1. /\ proc \in [Apps -> ProcessType] /\ starting \in [Apps -> Nat] /\ WorldType
      /\ os \in [Pids -> Process]
  BY ProcIs
<1>2. x \in Process /\ x.status # "unused"
  OBVIOUS
<1> HIDE DEF Process
<1>3. os' \in [Pids -> Process] /\ os'[p] = x /\ \A q \in Pids \ {p} : os'[q] = os[q]
  BY <1>1, <1>2
<1>4. \A q \in Pids : /\ os'[q].app = os[q].app
                      /\ os'[q].status # "unused" <=> os[q].status # "unused"
  BY <1>2, <1>3
<1>5. WorldType'
  <2>1. \A q \in Pids : os'[q].status # "unused" => os'[q].app \in Apps
    BY <1>1, <1>4 DEF WorldType
  <2>2. spawned' \in SUBSET Pids /\ \A q \in spawned' : os'[q].status # "unused"
    BY <1>1, <1>4 DEF WorldType
  <2> QED BY <1>3, <2>1, <2>2 DEF WorldType, Process
<1>6. Reporting(spawned, os, inbox, unreported)' = Reporting(spawned, os, inbox', unreported')
  <2>1. \A q \in spawned : os'[q].app = os[q].app
    BY <1>1, <1>4 DEF WorldType
  <2> QED BY <2>1 DEF Reporting
<1> QED BY <1>1, <1>5, <1>6, WorldKeeps

LEMMA InitializedKeeps ==
  ASSUME IInv, NEW p \in Pids, Initialized(p)
  PROVE  IInv'
<1> DEFINE x == [os[p] EXCEPT !.ready = TRUE]
           msg == [event |-> "EV_APP_INITIALIZED", app |-> os[p].app]
<1>1. /\ os[p].status = "alive" /\ os' = [os EXCEPT ![p].ready = TRUE] /\ Post(msg)
      /\ proc' = proc /\ starting' = starting /\ spawned' = spawned /\ Others
  BY DEF Initialized
<1>2. WorldType /\ os[p].app \in Apps
  BY <1>1, ProcIs DEF WorldType
<1>3. msg \in Messages
  BY <1>2 DEF Messages
<1> HIDE DEF msg
<1>4. /\ inbox' \in Seq(Messages) /\ unreported' \in SUBSET Apps
      /\ Reporting(spawned, os, inbox, unreported) \subseteq Reporting(spawned, os, inbox', unreported')
  BY <1>1, <1>2, <1>3, PostIs
<1>5. /\ x \in [app : Apps \cup {EMPTY}, ready : BOOLEAN, code : {0, 1},
                status : {"alive", "zombie", "reaped"}]
      /\ x.app = os[p].app
  BY <1>1, ProcIs
<1>6. os' = [os EXCEPT ![p] = x]
  BY <1>1
<1> HIDE DEF x
<1> QED BY <1>1, <1>4, <1>5, <1>6, ProcessKeeps

LEMMA ExitOfProcessKeeps ==
  ASSUME IInv, NEW p \in Pids, NEW code \in {0, 1}, Exit(p, code)
  PROVE  IInv'
<1> DEFINE x == [os[p] EXCEPT !.status = "zombie", !.code = code, !.ready = FALSE]
<1>1. /\ os[p].status = "alive"
      /\ os' = [os EXCEPT ![p].status = "zombie", ![p].code = code, ![p].ready = FALSE]
      /\ inbox' = inbox /\ unreported' = unreported
      /\ proc' = proc /\ starting' = starting /\ spawned' = spawned /\ Others
  BY DEF Exit
<1>2. /\ x \in [app : Apps \cup {EMPTY}, ready : BOOLEAN, code : {0, 1},
                status : {"alive", "zombie", "reaped"}]
      /\ x.app = os[p].app
  BY <1>1, ProcIs
<1>3. os' = [os EXCEPT ![p] = x]
  BY <1>1, ProcIs
<1>4. /\ inbox' \in Seq(Messages) /\ unreported' \in SUBSET Apps
      /\ os[p].status # "unused"
  BY <1>1, ProcIs DEF WorldType
<1> HIDE DEF x
<1> QED BY <1>1, <1>2, <1>3, <1>4, ProcessKeeps

LEMMA MonitorKeeps ==
  ASSUME IInv, NEW p \in Pids, PM_Exit_Monitor_Thread(p)
  PROVE  IInv'
<1> DEFINE x == [os[p] EXCEPT !.status = "reaped", !.code = 0]
           msg == [event |-> "EV_PROCESS_EXIT", pid |-> p, code |-> os[p].code]
<1>1. /\ os[p].status = "zombie" /\ Post(msg)
      /\ os' = [os EXCEPT ![p].status = "reaped", ![p].code = 0]
      /\ proc' = proc /\ starting' = starting /\ spawned' = spawned /\ Others
  BY DEF PM_Exit_Monitor_Thread
<1>2. WorldType /\ os[p].code \in {0, 1}
  BY ProcIs
<1>3. msg \in Messages
  BY <1>2 DEF Messages
<1> HIDE DEF msg
<1>4. /\ inbox' \in Seq(Messages) /\ unreported' \in SUBSET Apps
      /\ Reporting(spawned, os, inbox, unreported) \subseteq Reporting(spawned, os, inbox', unreported')
  BY <1>1, <1>2, <1>3, PostIs
<1>5. /\ x \in [app : Apps \cup {EMPTY}, ready : BOOLEAN, code : {0, 1},
                status : {"alive", "zombie", "reaped"}]
      /\ x.app = os[p].app
  BY <1>1, ProcIs
<1>6. os' = [os EXCEPT ![p] = x]
  BY <1>1, ProcIs
<1>7. os[p].status # "unused"
  BY <1>1
<1> HIDE DEF x
<1> QED BY <1>1, <1>4, <1>5, <1>6, <1>7, ProcessKeeps

\* SIGINT is only noted.
LEMMA SignalIsNoted ==
  ASSUME IInv, UNCHANGED <<pm, world, wanted>>
  PROVE  IInv'
<1>1. /\ proc' = proc /\ pm_queue' = pm_queue /\ current_idx' = current_idx
      /\ current_config' = current_config /\ running_state' = running_state
      /\ state' = state /\ inbox' = inbox /\ starting' = starting
      /\ spawned' = spawned /\ os' = os /\ wanted' = wanted
      /\ unreported' = unreported
  BY DEF pm, world
<1>2. G0' = G0
  BY <1>1 DEF G0
<1> QED BY <1>1, <1>2 DEF IInv, WorldType

LEMMA KillAllKeeps ==
  ASSUME IInv, KillAll
  PROVE  IInv'
<1> DEFINE R == Reporting(spawned, os, inbox, unreported)
           H == G0'
           dead(a) == [proc[a] EXCEPT !.state = "Uninitialized"]
<1>1. /\ proc' = [a \in Apps |-> dead(a)] /\ state' = "Ended"
      /\ pm_queue' = pm_queue /\ current_idx' = current_idx /\ starting' = starting
      /\ current_config' = current_config /\ running_state' = running_state
      /\ wanted' = wanted /\ inbox' = inbox /\ spawned' = spawned
      /\ unreported' = unreported
      /\ Signalled({proc[a].pid : a \in Apps})
  BY DEF KillAll
<1>2. /\ WorldType /\ inbox' \in Seq(Messages) /\ unreported' \in SUBSET Apps
      /\ proc \in [Apps -> ProcessType]
  BY <1>1, ProcIs DEF WorldType
<1>3. WorldType' /\ Reporting(spawned', os', inbox', unreported') = R
  <2>1. Reporting(spawned', os', inbox', unreported') = Reporting(spawned, os, inbox', unreported')
    BY <1>1, <1>2, SignalKeeps
  <2> QED BY <1>1, <1>2, <2>1, SignalKeeps
<1>4. \A a \in Apps : /\ dead(a) \in ProcessType /\ dead(a).state = "Uninitialized"
                      /\ dead(a).timer = proc[a].timer
                      /\ dead(a).deferred = proc[a].deferred
  BY <1>2 DEF ProcessType, States
<1> HIDE DEF dead
<1>5. G0' = [proc |-> proc', queue |-> pm_queue, idx |-> current_idx,
             conf |-> current_config, run |-> running_state, state |-> "Ended",
             spawn |-> starting, kills |-> {}, wanted |-> wanted]
  BY <1>1 DEF G0
<1>6. RoundInv(G0, R) /\ G0 \in RecordType
  BY DEF IInv, RoundInv, Sound
<1>7. H \in RecordType
  <2>1. /\ pm_queue \in [Slots -> Apps \cup {EMPTY}] /\ current_idx \in Apps \cup {EMPTY}
        /\ current_config \in Configs /\ running_state \in {"Startup", "Terminating", "Idle"}
        /\ starting \in [Apps -> Nat] /\ wanted \in SUBSET Apps
    BY <1>6, G0Is DEF RecordType
  <2>2. proc' \in [Apps -> ProcessType]
    BY <1>1, <1>4
  <2> QED BY <1>5, <2>1, <2>2 DEF RecordType
<1>8. /\ H.proc = proc' /\ H.queue = G0.queue /\ H.run = G0.run
      /\ H.state = "Ended" /\ H.spawn = G0.spawn /\ H.wanted = G0.wanted
  BY <1>5, G0Is
<1>9. \A a \in Apps : /\ H.proc[a].state = "Uninitialized"
                      /\ H.proc[a].timer = G0.proc[a].timer
                      /\ H.proc[a].deferred = G0.proc[a].deferred
  BY <1>1, <1>4, <1>8, G0Is
<1> HIDE DEF H
<1>10. H.wanted \in SUBSET Apps
  BY <1>7 DEF RecordType
<1>11. Sound(H) /\ Reported(H, R) /\ Queued(H)
  BY <1>6, <1>7, <1>8, <1>9, <1>10 DEF RoundInv, Sound, Reported, Queued, Timed, Armed
<1>12. RoundInv(H, R) /\ Waits(H)
  BY <1>6, <1>8, <1>11 DEF RoundInv, Waits
<1> QED BY <1>3, <1>12 DEF IInv, H

-----------------------------------------------------------------------------
(* The theorem *)

LEMMA InitIsSound ==
  ASSUME Room, Init
  PROVE  IInv
<1> DEFINE X == [proc |-> [a \in Apps |-> NewProcess], queue |-> PM_Queue_Clear,
                 idx |-> EMPTY, conf |-> 0, run |-> "Startup", state |-> "Running",
                 spawn |-> [a \in Apps |-> 0], kills |-> {}, wanted |-> {}]
           A == Add_Processes_To_Queue(X, 0)
           F == StartFromQueue(A)
           H == Reached(Start_Next_Process(F))
           R == Reporting(spawned, os, inbox, unreported)
<1>1. /\ proc = H.proc /\ pm_queue = H.queue /\ current_idx = H.idx
      /\ current_config = 0 /\ running_state = H.run /\ state = "Running"
      /\ starting = H.spawn /\ wanted = H.wanted
      /\ inbox = << >> /\ spawned = {} /\ unreported = {}
      /\ os = [p \in Pids |-> Unused]
  BY DEF Init
<1>2. NewProcess \in ProcessType /\ NewProcess.state = "Uninitialized"
      /\ NewProcess.timer = 0 /\ NewProcess.deferred = << >>
  <2>1. << >> \in Seq(Deferrable) /\ "Uninitialized" \in States
    BY DEF States
  <2> QED BY <2>1 DEF NewProcess, ProcessType
<1>3. X \in RecordType
  BY <1>2, ClearIs, ProcessManagerAssumption DEF RecordType, QueueType
<1>4. /\ \A a \in Apps : X.proc[a] = NewProcess
      /\ X.queue = PM_Queue_Clear /\ X.run = "Startup" /\ X.state = "Running"
      /\ X.wanted = {}
  OBVIOUS
<1> HIDE DEF X
<1>5. Sound(X)
  <2>1. \A a \in Apps : Timed(NewProcess, a) /\ Armed(NewProcess)
    <3>1. Len(<< >>) = 0 /\ 0 <= PM_DEFERRED_QUEUE_SIZE
      BY ProcessManagerAssumption
    <3>2. \A a \in Apps : 0 <= load_timeout[a] + terminate_timeout[a]
      BY TimeoutsAre
    <3> QED BY <1>2, <3>1, <3>2 DEF Timed, Armed
  <2> QED BY <1>3, <1>4, <2>1 DEF Sound
<1>6. Reported(X, R) /\ Queued(X)
  BY <1>2, <1>4, ClearIs DEF Reported, Queued
<1>7. Held(X, A, R)
  BY <1>5, <1>6, AddKeeps
<1> HIDE DEF A
<1>8. Advanced(A, F, R)
  BY <1>7, FromQueueKeeps DEF Held
<1> HIDE DEF F
<1>9. RoundInv(H, R) /\ Waits(H) /\ H.state = "Running"
  BY <1>4, <1>7, <1>8, StartupKeeps DEF Advanced, Held
<1> HIDE DEF H
<1>10. RoundInv(G0, R) /\ Waits(G0)
  <2>1. /\ G0.proc = H.proc /\ G0.queue = H.queue /\ G0.idx = H.idx /\ G0.conf = 0
        /\ G0.run = H.run /\ G0.state = H.state /\ G0.spawn = H.spawn
        /\ G0.wanted = H.wanted
    BY <1>1, <1>9, G0Is
  <2>2. H \in RecordType
    BY <1>9 DEF RoundInv, Sound
  <2>3. G0 \in RecordType
    BY <2>1, <2>2, ProcessManagerAssumption DEF RecordType, G0
  <2>4. Sound(G0) /\ Reported(G0, R) /\ Queued(G0)
    BY <1>9, <2>1, <2>3 DEF RoundInv, Sound, Reported, Queued
  <2> QED BY <1>9, <2>1, <2>4 DEF RoundInv, Waits, Awaits
<1>11. WorldType
  <2>1. inbox \in Seq(Messages)
    <3> HIDE DEF Messages
    <3> QED BY <1>1
  <2>2. os \in [Pids -> [app : Apps \cup {EMPTY}, ready : BOOLEAN, code : {0, 1},
                         status : {"unused", "alive", "zombie", "reaped"}]]
    BY <1>1 DEF Unused
  <2>3. \A p \in Pids : os[p].status = "unused"
    BY <1>1 DEF Unused
  <2> QED BY <1>1, <2>1, <2>2, <2>3 DEF WorldType
<1> QED BY <1>10, <1>11 DEF IInv

LEMMA NextKeeps ==
  ASSUME Room, IInv, [Next]_vars
  PROVE  IInv'
<1>1. CASE Receive
  BY <1>1, ReceiveKeeps
<1>2. CASE Timer
  BY <1>2, TimerKeeps
<1>3. CASE System_Shutdown
  BY <1>3, ShutdownRequestKeeps
<1>4. CASE Int_Signal
  BY <1>4, SignalIsNoted DEF Int_Signal
<1>5. CASE KillAll
  BY <1>5, KillAllKeeps
<1>6. CASE \E a \in Apps : Start_App(a)
  BY <1>6, StartAppKeeps
<1>7. CASE \E c \in Configs : Set_System_Config(c) \/ Add_System_Config(c)
  BY <1>7, SetConfigKeeps, AddConfigKeeps
<1>8. CASE SpawnThreads
  BY <1>8, ForkKeeps, SpawnFailKeeps, SpawnSuccessKeeps DEF SpawnThreads
<1>9. CASE \E p \in Pids :
             \/ Initialized(p) \/ PM_Exit_Monitor_Thread(p)
             \/ \E code \in {0, 1} : Exit(p, code)
  BY <1>9, InitializedKeeps, MonitorKeeps, ExitOfProcessKeeps
<1>10. CASE UNCHANGED vars
  BY <1>10, SignalIsNoted DEF vars
<1> QED BY <1>1, <1>2, <1>3, <1>4, <1>5, <1>6, <1>7, <1>8, <1>9, <1>10 DEF Next

LEMMA SoundIsManaged ==
  ASSUME IInv
  PROVE  ManagerInv
<1> DEFINE R == Reporting(spawned, os, inbox, unreported)
<1>1. /\ Sound(G0) /\ Reported(G0, R) /\ Queued(G0) /\ WorldType /\ G0 \in RecordType
      /\ running_state = "Startup" /\ state = "Running" => current_idx \in Apps
      /\ running_state = "Idle" => wanted = {}
  BY G0Is DEF IInv, RoundInv, Sound
<1>2. /\ proc \in [Apps -> ProcessType] /\ pm_queue \in [Slots -> Apps \cup {EMPTY}]
      /\ current_idx \in Apps \cup {EMPTY} /\ current_config \in Configs
      /\ running_state \in {"Startup", "Terminating", "Idle"}
      /\ state \in {"Running", "Shutdown", "Ended"} /\ wanted \in SUBSET Apps
  BY <1>1, G0Is DEF RecordType
<1>3. \A a \in Apps : Timed(proc[a], a) /\ Armed(proc[a])
  BY <1>1, G0Is DEF Sound
<1>4. TypeOK
  <2>1. ASSUME NEW a \in Apps
        PROVE  /\ proc[a].state \in States /\ proc[a].pid \in Pids \cup {EMPTY}
               /\ proc[a].timer \in 0..(load_timeout[a] + terminate_timeout[a])
               /\ Len(proc[a].deferred) <= PM_DEFERRED_QUEUE_SIZE
    <3>1. proc[a] \in ProcessType
      BY <1>2
    <3>2. proc[a].state \in States /\ proc[a].pid \in Pids \cup {EMPTY} /\ proc[a].timer \in Nat
      BY <3>1 DEF ProcessType
    <3>3. load_timeout[a] + terminate_timeout[a] \in Nat
      BY TimeoutsAre
    <3>4. proc[a].timer \in 0..(load_timeout[a] + terminate_timeout[a])
      BY <1>3, <3>2, <3>3 DEF Timed
    <3> QED BY <1>3, <3>2, <3>4 DEF Timed
  <2>2. spawned \subseteq Pids /\ unreported \subseteq Apps
    BY <1>1 DEF WorldType
  <2> QED BY <1>2, <2>1, <2>2 DEF TypeOK, States
<1>5. IndexIsValid /\ IdleMeansStarted
  BY <1>1 DEF IndexIsValid, IdleMeansStarted
<1>6. WaitingIsTimed
  BY <1>3 DEF WaitingIsTimed, Armed
<1>7. SpawningIsReported
  BY <1>1, G0Is DEF SpawningIsReported, ReportComes, Reported, Reporting, Reports
<1>8. QueueIsDense
  BY <1>1, G0Is DEF QueueIsDense, Queued, Dense
<1>9. WaitsForProcess
  <2>1. Waits(G0)
    BY DEF IInv
  <2> QED BY <2>1, G0Is DEF WaitsForProcess, Waits, Awaits, In
<1> QED BY <1>4, <1>5, <1>6, <1>7, <1>8, <1>9 DEF ManagerInv

\* No process is forgotten: not by the queue, which has no hole; not by a timer,
\* which runs while a process loads or terminates; not by a spawn thread, whose
\* report is on its way while a process is being spawned, unless it was dropped
\* before a full queue (xsal_local_publish.c:31); and when a configuration
\* is said to be reached, all that it asked for was started.  Whenever the manager
\* waits, it waits for a process that is being spawned, loads or terminates: its
\* loops stop nowhere else.
THEOREM ManagerCorrect ==
  ASSUME Room
  PROVE  Spec => []ManagerInv
<1>1. Init => IInv
  BY InitIsSound
<1>2. IInv /\ [Next]_vars => IInv'
  BY NextKeeps
<1>3. IInv => ManagerInv
  BY SoundIsManaged
<1> QED BY <1>1, <1>2, <1>3, PTL DEF Spec
===============================================================================
