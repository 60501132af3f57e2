------------------------------ MODULE NameServer ------------------------------
(***************************************************************************)
(* The name server thread of the process manager: the array of bound       *)
(* channels and the global routing table, and the handlers of its          *)
(* commands.  The thread serves one command after the other, so a handler  *)
(* is one step.  NameService is the server with any commands in any order, *)
(* Subscriptions the server with its clients.                              *)
(***************************************************************************)
EXTENDS Integers, FiniteSets, Sequences, SequencesExt

CONSTANTS
  Apps,         \* SAL_FIRST_APP_ID .. SAL_LAST_APP_ID - 1
  ProcMan,      \* APP_PROCMAN, the application of the name server itself
  Ports,        \* port ids
  RouterPort,   \* SAL_ROUTER_THREAD_ID
  Channels,     \* contents of a SAL_Channel_T
  Events,       \* published events
  OtherIds,     \* event ids a command may hold that are not published events
  SAL_MAX_CHANNELS,
  TR_NUM_MODULE_IDS, \* the dbg_trace modules, TR_MODULE_UNKNOWN is number 0
  Unbound       \* no channel

ASSUME NameServerAssumption ==
  /\ ProcMan \in Apps /\ RouterPort \in Ports
  /\ Unbound \notin Channels
  /\ Events \cap OtherIds = {}
  /\ SAL_MAX_CHANNELS \in Nat /\ TR_NUM_MODULE_IDS \in Nat \ {0}

VARIABLES
  channels,     \* channels.channel[0 .. number_of_channels - 1]
  routing_table \* routing_table[event]: the applications whose bit is set

tables == <<channels, routing_table>>

Entry == [app_id : Apps, port_id : Ports, channel : Channels]

\* The commands, as the proxy of an application makes them; none makes another,
\* which would be answered with a failure.  An empty list of events is not sent
\* at all.
SAL_NS_Bind_Channel(a, p, ch) ==
  [command |-> "BIND_CHANNEL", app_id |-> a, port_id |-> p, channel |-> ch]
SAL_NS_Unbind_Channel(ch) == [command |-> "UNBIND_CHANNEL", channel |-> ch]
SAL_NS_Resolve_Channel(a, p) ==
  [command |-> "RESOLVE_CHANNEL", app_id |-> a, port_id |-> p]
SAL_NS_Unbind_App(a) == [command |-> "UNBIND_APP", app_id |-> a]
SAL_NS_Subscribe(a, ids) ==
  [command |-> "SUBSCRIBE", app_id |-> a, event_ids |-> ids]
SAL_NS_Unsubscribe(a, ids) ==
  [command |-> "UNSUBSCRIBE", app_id |-> a, event_ids |-> ids]
SAL_NS_Unsubscribe_App(a) == [command |-> "UNSUBSCRIBE_APP", app_id |-> a]
SAL_NS_Get_Running_App_Ids == [command |-> "GET_RUNNING_APP_IDS"]
SAL_NS_Get_Last_App_Id == [command |-> "GET_LAST_APP_ID"]
SAL_NS_Get_App_Data(a) == [command |-> "GET_APP_DATA", app_id |-> a]
SAL_NS_Get_Last_Dbg_Module_Id == [command |-> "GET_LAST_DBG_MODULE_ID"]
SAL_NS_Get_Dbg_Module_Data(m) == [command |-> "GET_DBG_MODULE_DATA", module_id |-> m]

Commands ==
  LET Lists == (SUBSET (Events \cup OtherIds)) \ {{}}
  IN  {SAL_NS_Bind_Channel(a, p, ch) : a \in Apps, p \in Ports, ch \in Channels}
      \cup {SAL_NS_Unbind_Channel(ch) : ch \in Channels}
      \cup {SAL_NS_Resolve_Channel(a, p) : a \in Apps, p \in Ports}
      \cup {SAL_NS_Subscribe(a, ids) : a \in Apps, ids \in Lists}
      \cup {SAL_NS_Unsubscribe(a, ids) : a \in Apps, ids \in Lists}
      \cup {SAL_NS_Unsubscribe_App(a) : a \in Apps}
      \cup {SAL_NS_Unbind_App(a) : a \in Apps}
      \cup {SAL_NS_Get_App_Data(a) : a \in Apps \cup OtherIds}
      \cup {SAL_NS_Get_Dbg_Module_Data(m) : m \in 0 .. TR_NUM_MODULE_IDS}
      \cup {SAL_NS_Get_Running_App_Ids, SAL_NS_Get_Last_App_Id,
            SAL_NS_Get_Last_Dbg_Module_Id}

\* The type of the server's state.
ServerTypeOK ==
  /\ channels \in Seq(Entry) /\ Len(channels) <= SAL_MAX_CHANNELS
  /\ routing_table \in [Events -> SUBSET Apps]

\* SAL_Name_Server_Init: the shared memory is cleared.
ServerInit ==
  /\ channels = << >>
  /\ routing_table = [e \in Events |-> {}]

-----------------------------------------------------------------------------
(* The array of channels *)

\* The first entry of a port; 0 when there is none.
Find(a, p) ==
  SelectInSeq(channels, LAMBDA c : c.app_id = a /\ c.port_id = p)

\* Mutant: the hole is filled with the entry before the last one.
FillHoleEarly(ch, i) ==
  Front([ch EXCEPT ![i] = ch[IF Len(ch) > 1 THEN Len(ch) - 1 ELSE 1]])

\* An entry is removed by the last one taking its place.
FillHole(ch, i) == Front([ch EXCEPT ![i] = Last(ch)])

\* A bound port gets the new channel: its application restarted.
Bind_Channel(cmd) ==
  LET i == Find(cmd.app_id, cmd.port_id)
  IN  \/ i # 0 /\ channels' = [channels EXCEPT ![i].channel = cmd.channel]
      \/ i = 0 /\ channels' = Append(channels, [app_id |-> cmd.app_id,
                      port_id |-> cmd.port_id, channel |-> cmd.channel])

\* The router of the process manager is bound once; new entries need room.
Bind_Refused(cmd) ==
  IF Find(cmd.app_id, cmd.port_id) = 0 THEN Len(channels) >= SAL_MAX_CHANNELS
  ELSE <<cmd.app_id, cmd.port_id>> = <<ProcMan, RouterPort>>

\* The entry is found by the content of the channel, not by the port.
Unbind_Channel(cmd) ==
  LET i == SelectInSeq(channels, LAMBDA c : c.channel = cmd.channel)
  IN  channels' = FillHole(channels, i)

Unbind_Refused(cmd) ==
  \A i \in DOMAIN channels : channels[i].channel # cmd.channel

Resolve_Channel(cmd) ==
  LET i == Find(cmd.app_id, cmd.port_id)
  IN  IF i = 0 THEN Unbound ELSE channels[i].channel

\* One turn of the loop of Unbind_App: the entry that fills a hole is looked
\* at next.
Sweep(app_id, s) ==
  IF s.i > Len(s.ch) THEN s
  ELSE IF s.ch[s.i].app_id = app_id
       THEN [s EXCEPT !.ch = FillHole(s.ch, s.i)]
       ELSE [s EXCEPT !.i = @ + 1]

\* The array after the loop: each turn takes an entry away or goes past one.
Swept(app_id, ch) ==
  LET turn[n \in 0 .. Len(ch)] ==
        IF n = 0 THEN [ch |-> ch, i |-> 1] ELSE Sweep(app_id, turn[n - 1])
  IN  turn[Len(ch)].ch

Unbind_App(cmd) == channels' = Swept(cmd.app_id, channels)

\* The applications with a router, each at the place of its entry; the reply
\* has them one after the other, closed with SAL_NO_APP_ID: it has room for it.
Get_Running_App_Ids ==
  [i \in {j \in DOMAIN channels : channels[j].port_id = RouterPort} |-> channels[i].app_id]

\* SAL_NO_APP_ID for an id that is no application's.
Get_App_Data(app_id) ==
  [known |-> app_id \in Apps, is_running |-> Find(app_id, RouterPort) # 0]

\* TR_MODULE_UNKNOWN for an id that is no module's.
Get_Module_Data(module_id) == IF module_id < TR_NUM_MODULE_IDS THEN module_id ELSE 0

-----------------------------------------------------------------------------
(* The global routing table *)

\* Ids that are not published events are passed over.
Update_Events(app_id, ids, subscribe) ==
  routing_table' = [e \in Events |->
    IF e \notin ids THEN routing_table[e]
    ELSE IF subscribe THEN routing_table[e] \cup {app_id}
         ELSE routing_table[e] \ {app_id}]

Unsubscribe_App(app_id) ==
  routing_table' = [e \in Events |-> routing_table[e] \ {app_id}]

-----------------------------------------------------------------------------
(* SAL_Name_Server_Thread: one turn of its loop, from the command that was   *)
(* received to the reply.                                                  *)

Fails(cmd) ==
  \/ cmd.command = "BIND_CHANNEL" /\ Bind_Refused(cmd)
  \/ cmd.command = "UNBIND_CHANNEL" /\ Unbind_Refused(cmd)
  \/ cmd.command = "RESOLVE_CHANNEL" /\ Resolve_Channel(cmd) = Unbound

Change(cmd) ==
  \/ /\ cmd.command = "BIND_CHANNEL" /\ Bind_Channel(cmd)
     /\ UNCHANGED routing_table
  \/ /\ cmd.command = "UNBIND_CHANNEL" /\ Unbind_Channel(cmd)
     /\ UNCHANGED routing_table
  \/ cmd.command = "UNBIND_APP" /\ Unbind_App(cmd) /\ UNCHANGED routing_table
  \/ /\ cmd.command \in {"SUBSCRIBE", "UNSUBSCRIBE"} /\ UNCHANGED channels
     /\ Update_Events(cmd.app_id, cmd.event_ids, cmd.command = "SUBSCRIBE")
  \/ /\ cmd.command = "UNSUBSCRIBE_APP" /\ UNCHANGED channels
     /\ Unsubscribe_App(cmd.app_id)

Queries == {"RESOLVE_CHANNEL", "GET_RUNNING_APP_IDS", "GET_APP_DATA",
            "GET_LAST_APP_ID", "GET_LAST_DBG_MODULE_ID", "GET_DBG_MODULE_DATA"}

Handle(cmd) ==
  IF Fails(cmd) \/ cmd.command \in Queries THEN UNCHANGED tables
  ELSE Change(cmd)

\* What the reply carries besides the status.
Answer(cmd) ==
  CASE cmd.command = "RESOLVE_CHANNEL" -> Resolve_Channel(cmd)
    [] cmd.command = "GET_RUNNING_APP_IDS" -> Get_Running_App_Ids
    [] cmd.command = "GET_LAST_APP_ID" -> Cardinality(Apps)
    [] cmd.command = "GET_APP_DATA" -> Get_App_Data(cmd.app_id)
    [] cmd.command = "GET_LAST_DBG_MODULE_ID" -> TR_NUM_MODULE_IDS - 1
    [] cmd.command = "GET_DBG_MODULE_DATA" -> Get_Module_Data(cmd.module_id)
    [] OTHER -> Unbound
================================================================================
