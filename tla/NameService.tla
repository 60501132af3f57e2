------------------------------ MODULE NameService ------------------------------
(***************************************************************************)
(* The name server on its own, with any commands in any order, and the     *)
(* directory of channels it implements.                                    *)
(***************************************************************************)
EXTENDS NameServer

VARIABLE served   \* history: the last command and the reply to it

ServiceInit ==
  /\ ServerInit
  /\ served = [cmd |-> Unbound, status |-> FALSE, data |-> Unbound]

\* One turn of the loop of SAL_Name_Server_Thread.
Serves(cmd) ==
  /\ Handle(cmd)
  /\ served' = [cmd |-> cmd, status |-> ~Fails(cmd), data |-> Answer(cmd)]

ServiceNext == \E cmd \in Commands : Serves(cmd)

ServiceSpec == ServiceInit /\ [][ServiceNext]_<<tables, served>>

\* No port has two entries in the array: an old channel behind a new one would
\* be resolved again as soon as the new one is unbound (Bind_Channel looks for
\* the port before it appends; FillHole moves entries).
PortsBoundOnce ==
  \A i, j \in DOMAIN channels :
    /\ channels[i].app_id = channels[j].app_id
    /\ channels[i].port_id = channels[j].port_id
    => i = j

\* The directory the array stands for.
Directory == INSTANCE ChannelDirectory WITH
  Reserved <- <<ProcMan, RouterPort>>,
  Capacity <- SAL_MAX_CHANNELS, Requests <- Commands,
  bound <- [k \in Apps \X Ports |->
              Resolve_Channel([app_id |-> k[1], port_id |-> k[2]])]

\* The array and its handlers implement the directory: whatever hole is filled
\* by which entry, the command that was served, and no other, changes what the
\* ports it names resolve to, and its reply says whether it did; a lookup is
\* answered with what was bound last (xsal_ns_thread.c).
ImplementsDirectory == Directory!Spec
================================================================================
