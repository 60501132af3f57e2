--------------------------- MODULE ChannelDirectory ---------------------------
(***************************************************************************)
(* What the name server promises about channels: a directory that gives at *)
(* most one channel to each port of an application, has room for Capacity  *)
(* of them, and does with each request what it asks for.  The order of its *)
(* entries, and how the array that holds them is kept dense, do not show.  *)
(***************************************************************************)
EXTENDS Integers, FiniteSets

CONSTANTS
  Apps, Ports,   \* who has channels
  RouterPort,    \* the port of a running application
  Reserved,      \* the <<application, port>> that is never bound anew
  Capacity,      \* how many ports may be bound
  Requests,      \* what may be asked
  Unbound        \* no channel

VARIABLES
  bound,         \* the channel of each port of each application
  served         \* the last request and what came of it

Keys == Apps \X Ports

BoundKeys == {k \in Keys : bound[k] # Unbound}

Running == {a \in Apps : <<a, RouterPort>> \in BoundKeys}

Init ==
  /\ bound = [k \in Keys |-> Unbound]
  /\ served = [cmd |-> Unbound, status |-> FALSE, data |-> Unbound]

Bind(k, ch) == bound' = [bound EXCEPT ![k] = ch]

UnbindApp(a) ==
  bound' = [k \in Keys |-> IF k[1] = a THEN Unbound ELSE bound[k]]

Reply(r, status, data) ==
  served' = [cmd |-> r, status |-> status, data |-> data]

\* A port that is bound gets its new channel, but for the reserved one.
Refuses(k) ==
  IF k \in BoundKeys THEN k = Reserved ELSE Cardinality(BoundKeys) >= Capacity

ServeBind(r, k) ==
  /\ r.command = "BIND_CHANNEL"
  /\ \/ Refuses(k) /\ UNCHANGED bound /\ Reply(r, FALSE, Unbound)
     \/ ~Refuses(k) /\ Bind(k, r.channel) /\ Reply(r, TRUE, Unbound)

\* A channel bound to several ports is taken from one of them.
ServeUnbind(r) ==
  /\ r.command = "UNBIND_CHANNEL"
  /\ \/ /\ \E k \in Keys : bound[k] = r.channel /\ Bind(k, Unbound)
        /\ Reply(r, TRUE, Unbound)
     \/ /\ \A k \in Keys : bound[k] # r.channel
        /\ UNCHANGED bound /\ Reply(r, FALSE, Unbound)

ServeUnbindApp(r) ==
  /\ r.command = "UNBIND_APP"
  /\ UnbindApp(r.app_id) /\ Reply(r, TRUE, Unbound)

ServeResolve(r, k) ==
  /\ r.command = "RESOLVE_CHANNEL"
  /\ UNCHANGED bound /\ Reply(r, k \in BoundKeys, bound[k])

\* Each running application is listed once.
ServeRunning(r) ==
  /\ r.command = "GET_RUNNING_APP_IDS" /\ UNCHANGED bound
  /\ Reply(r, TRUE, served'.data)
  /\ LET ids == served'.data
     IN  /\ {ids[i] : i \in DOMAIN ids} = Running
         /\ \A i, j \in DOMAIN ids : ids[i] = ids[j] => i = j

ServeAppData(r) ==
  /\ r.command = "GET_APP_DATA" /\ UNCHANGED bound
  /\ Reply(r, TRUE, [known |-> r.app_id \in Apps, is_running |-> r.app_id \in Running])

\* Requests that are not about channels.
ServeOther(r) ==
  /\ r.command \notin {"BIND_CHANNEL", "UNBIND_CHANNEL", "UNBIND_APP",
                       "RESOLVE_CHANNEL", "GET_RUNNING_APP_IDS", "GET_APP_DATA"}
  /\ UNCHANGED bound /\ Reply(r, TRUE, served'.data)

Serve(r) ==
  /\ served'.cmd = r
  /\ \/ ServeBind(r, <<r.app_id, r.port_id>>) \/ ServeUnbind(r) \/ ServeUnbindApp(r)
     \/ ServeResolve(r, <<r.app_id, r.port_id>>) \/ ServeRunning(r) \/ ServeAppData(r)
     \/ ServeOther(r)

Next == \E r \in Requests : Serve(r)

Spec == Init /\ [][Next]_<<bound, served>>
================================================================================
