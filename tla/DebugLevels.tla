----------------------------- MODULE DebugLevels -----------------------------
(***************************************************************************)
(* The debug levels of one application: the copy it works with             *)
(* (dbg_trace.c), the file that keeps them over a restart (dbg_trace_ps.c),*)
(* and the tool dbg_ctrl that changes them (dbg_ctrl.c), through the router*)
(* thread of the application (full/xsal_i_dt.c) or, in its static mode,    *)
(* behind its back in the file.  Application and tools read and write the  *)
(* file in several system calls and without a lock; the application can    *)
(* end at any of them, and a write can fail.                               *)
(***************************************************************************)
EXTENDS Integers, Sequences, FiniteSetsExt, Functions

CONSTANTS
  Tools,       \* runs of dbg_ctrl
  Modules,     \* TR_NUM_MODULE_IDS; the modules are 1 .. Modules
  LvlHi,       \* TR_LVL_INFO_HI
  LvlLo,       \* TR_LVL_INFO_LO, the last level
  Default,     \* the levels of the configuration (module_trace_levels)
  NamedBy,     \* the modules whose names contain a pattern of the options
  CommandLines,\* options of the tools, in their order
  Files,       \* contents of the file before the first start
  None         \* no file, no client, no default level

VARIABLE dbg   \* the file, the application and the tools

vars == dbg

Levels == 0 .. LvlLo
Keep == [m \in 1 .. Modules |-> 0]

Idle == [pc |-> "idle", connected |-> FALSE, request |-> None, levels |-> Keep, at |-> 0]

\* What fstat and the check of the levels accept.
RightSize(file) == file # None /\ Len(file) = Modules
InRange(levels) == \A i \in DOMAIN levels : levels[i] <= LvlLo

(* meant: the levels, as a whole, that a writer of the file had in mind;    *)
(* torn: another one had the file open while it was written; stale: another *)
(* one wrote it since the application read or wrote it, or the application  *)
(* could not open it.                                                       *)
Init ==
  \E f \in Files :
    dbg = [file |-> f, app |-> "down", levels |-> Default, isa |-> 0, read |-> <<>>,
           at |-> 0, client |-> None, tool |-> [t \in Tools |-> Idle],
           meant |-> {Default} \cup {g \in {f} : RightSize(f) /\ InRange(f)},
           torn |-> FALSE, stale |-> FALSE]

\* The file after the levels behind position at, n of them, were written.
Written(levels, at, n) ==
  [i \in 1 .. Max({Len(dbg.file), at + n}) |->
     IF i \in at + 1 .. at + n THEN levels[i]
     ELSE IF i <= Len(dbg.file) THEN dbg.file[i] ELSE 0]

\* What read returns behind n levels that were read already.
ReadMore(n) == {SubSeq(dbg.file, n + 1, k) : k \in n + 1 .. Len(dbg.file)}

Writing == {t \in Tools : dbg.tool[t].pc = "write"}

-----------------------------------------------------------------------------
(* The application.                                                        *)

(* SAL_I_Init_DT, Tr_PS_Read_Trace_Levels: the levels are those of the      *)
(* configuration until a whole file of levels in range has been read.       *)
Start ==
  /\ dbg.app = "down"
  /\ dbg' = [dbg EXCEPT !.app = IF RightSize(dbg.file) THEN "loading" ELSE "up",
                        !.levels = Default, !.isa = 0, !.read = <<>>,
                        !.torn = @ \/ Writing # {}, !.stale = Writing # {}]

Load ==
  /\ dbg.app = "loading" /\ Len(dbg.read) < Modules
  /\ IF Len(dbg.file) <= Len(dbg.read)
     THEN dbg' = [dbg EXCEPT !.app = "up"]
     ELSE \E more \in ReadMore(Len(dbg.read)) : dbg' = [dbg EXCEPT !.read = @ \o more]

LoadEnd ==
  /\ dbg.app = "loading" /\ Len(dbg.read) = Modules
  /\ dbg' = [dbg EXCEPT !.app = "up",
                        !.levels = IF InRange(dbg.read) THEN dbg.read ELSE @]

(* DT_SET_DBG_LEVELS: the levels are set, and the level of the modules of   *)
(* ISA when they are all the same; then the file is opened, and emptied.    *)
IsaLevel(levels) ==
  IF \E m \in 2 .. Modules : levels[m] # levels[1] THEN dbg.isa
  ELSE IF levels[1] \in LvlHi .. LvlLo THEN levels[1] - (LvlHi - 1) ELSE 0

LevelsSet(t) ==
  [dbg EXCEPT !.levels = dbg.tool[t].levels, !.isa = IsaLevel(dbg.tool[t].levels),
              !.meant = @ \cup {dbg.tool[t].levels}]

Asks(t, what) == dbg.app = "up" /\ dbg.tool[t].pc = what /\ dbg.tool[t].connected

Set(t) ==
  /\ Asks(t, "set")
  /\ dbg' = [LevelsSet(t) EXCEPT !.app = "saving", !.client = t, !.at = 0, !.file = <<>>,
                                 !.torn = @ \/ Writing # {}, !.stale = Writing # {}]

SetWithoutFile(t) ==
  /\ Asks(t, "set")
  /\ dbg' = [LevelsSet(t) EXCEPT !.stale = TRUE, !.tool[t].pc = "done"]

\* Tr_PS_Save_Trace_Levels, and the reply that follows it.
Save ==
  /\ dbg.app = "saving" /\ dbg.at < Modules
  /\ \E n \in 1 .. Modules - dbg.at :
       dbg' = [dbg EXCEPT !.file = Written(dbg.levels, dbg.at, n), !.at = @ + n]

SaveFails ==
  /\ dbg.app = "saving" /\ dbg.at < Modules
  /\ dbg' = [dbg EXCEPT !.file = <<>>, !.at = Modules]

SaveEnd ==
  /\ dbg.app = "saving" /\ dbg.at = Modules
  /\ dbg' = [dbg EXCEPT !.app = "up", !.client = None, !.tool[dbg.client].pc = "done"]

Crash ==
  /\ dbg.app # "down"
  /\ dbg' = [dbg EXCEPT !.app = "down", !.client = None,
                        !.tool = [t \in Tools |-> [@[t] EXCEPT !.connected = FALSE]]]

-----------------------------------------------------------------------------
(* The tool.                                                               *)

(* Parse_Command_Line_Options, Extract_Selected_Module_Ids: of the options  *)
(* for the same level the last one counts; its patterns select the modules  *)
(* whose names contain one of them, and a leading * selects all.            *)
Selected(patterns) ==
  IF Head(patterns) = "*" THEN 1 .. Modules ELSE UNION {NamedBy[p] : p \in Range(patterns)}

Parsed(line) ==
  LET at(kind) == {i \in DOMAIN line : line[i].kind = kind}
      for(l)   == {i \in at("level") : line[i].level = l}
  IN  [static  |-> at("static") # {},
       default |-> IF at("default") = {} THEN None ELSE line[Max(at("default"))].level,
       list    |-> [l \in Levels |->
                      IF for(l) = {} THEN {} ELSE Selected(line[Max(for(l))].patterns)]]

\* An illegal default ends the tool; without a level there is nothing to do.
Configures(line) ==
  /\ \A i \in DOMAIN line : line[i].kind = "default" => line[i].level \in Levels
  /\ \/ Parsed(line).default # None
     \/ \E l \in Levels : Parsed(line).list[l] # {}

(* Override_Dbg_Levels: first the default for all, then the lists of the    *)
(* options from the least to the most talkative level.                      *)
Overridden(levels, request) ==
  [m \in 1 .. Modules |->
     LET named == {l \in Levels : m \in request.list[l]} IN
     IF named # {} THEN Max(named)
     ELSE IF request.default # None THEN request.default ELSE levels[m]]

\* The tool has the levels: it will write them with the changes.
Decided(r, t, levels) ==
  [r EXCEPT !.tool[t].pc = "set",
            !.tool[t].levels = Overridden(levels, dbg.tool[t].request)]

(* main, Configure_Selected_Apps: the application must run, but for the     *)
(* static mode, in which the name server and the connection may be missing. *)
Begin(t, line, connected) ==
  /\ dbg.tool[t].pc = "idle" /\ Configures(line)
  /\ connected => dbg.app \in {"up", "saving"}
  /\ Parsed(line).static \/ connected
  /\ dbg' = [dbg EXCEPT !.tool[t] = [Idle EXCEPT !.pc = "get", !.connected = connected,
                                                  !.request = Parsed(line)]]

\* Read_Dbg_Levels_From_App, DT_GET_DBG_LEVELS.
Get(t) == Asks(t, "get") /\ dbg' = Decided(dbg, t, dbg.levels)

(* Read_App_Dbg_Levels: without an answer the file is read, and without a   *)
(* file the levels are those of the configuration, in the static mode.      *)
WithoutFile(t) ==
  IF dbg.tool[t].request.static THEN Decided(dbg, t, Default)
  ELSE [dbg EXCEPT !.tool[t].pc = "done"]

GetFails(t) ==
  /\ dbg.tool[t].pc = "get" /\ ~ dbg.tool[t].connected
  /\ dbg' = IF RightSize(dbg.file) THEN [dbg EXCEPT !.tool[t].pc = "read"] ELSE WithoutFile(t)

(* Read_Dbg_Levels_From_File: a read that ends early is reported as a       *)
(* success, and the levels that were not read are 0.                        *)
ReadFile(t) ==
  /\ dbg.tool[t].pc = "read" /\ dbg.tool[t].at < Modules
  /\ LET at == dbg.tool[t].at IN
     IF Len(dbg.file) <= at
     THEN dbg' = [Decided(dbg, t, dbg.tool[t].levels) EXCEPT !.tool[t].at = 0]
     ELSE \E more \in ReadMore(at) :
            dbg' = [dbg EXCEPT !.tool[t].at = @ + Len(more),
                               !.tool[t].levels = [m \in 1 .. Modules |->
                                 IF m \in at + 1 .. at + Len(more) THEN more[m - at] ELSE @[m]]]

ReadFileEnd(t) ==
  /\ dbg.tool[t].pc = "read" /\ dbg.tool[t].at = Modules
  /\ LET r == [dbg EXCEPT !.tool[t].at = 0] IN
     dbg' = IF InRange(dbg.tool[t].levels) THEN Decided(r, t, dbg.tool[t].levels)
            ELSE IF dbg.tool[t].request.static THEN Decided(r, t, Default)
            ELSE [r EXCEPT !.tool[t].pc = "done"]

(* Write_App_Dbg_Levels: a message that is not answered is followed by the  *)
(* file, in the static mode (Write_Dbg_Levels_To_File).                     *)
SetFails(t) ==
  /\ dbg.tool[t].pc = "set" /\ ~ dbg.tool[t].connected
  /\ dbg' = IF dbg.tool[t].request.static
            THEN [dbg EXCEPT !.tool[t].pc = "write", !.file = <<>>,
                             !.meant = @ \cup {dbg.tool[t].levels},
                             !.torn = @ \/ Writing # {} \/ dbg.app \in {"loading", "saving"},
                             !.stale = @ \/ dbg.app # "down"]
            ELSE [dbg EXCEPT !.tool[t].pc = "done"]

\* The file cannot be opened, or is whole.
WriteEnd(t) ==
  /\ \/ dbg.tool[t].pc = "set" /\ ~ dbg.tool[t].connected /\ dbg.tool[t].request.static
     \/ dbg.tool[t].pc = "write" /\ dbg.tool[t].at = Modules
  /\ dbg' = [dbg EXCEPT !.tool[t].pc = "done"]

Write(t) ==
  /\ dbg.tool[t].pc = "write" /\ dbg.tool[t].at < Modules
  /\ \E n \in 1 .. Modules - dbg.tool[t].at :
       dbg' = [dbg EXCEPT !.file = Written(dbg.tool[t].levels, dbg.tool[t].at, n),
                          !.tool[t].at = @ + n]

WriteFails(t) ==
  /\ dbg.tool[t].pc = "write" /\ dbg.tool[t].at < Modules
  /\ dbg' = [dbg EXCEPT !.file = <<>>, !.tool[t].pc = "done"]

\* The user ends the tool.
Killed(t) ==
  /\ dbg.tool[t].pc \notin {"idle", "done"}
  /\ dbg' = [dbg EXCEPT !.tool[t].pc = "done"]

Next ==
  \/ Start \/ Load \/ LoadEnd \/ Save \/ SaveFails \/ SaveEnd \/ Crash
  \/ \E t \in Tools :
       \/ \E line \in CommandLines, connected \in BOOLEAN : Begin(t, line, connected)
       \/ Get(t) \/ GetFails(t) \/ ReadFile(t) \/ ReadFileEnd(t)
       \/ Set(t) \/ SetWithoutFile(t) \/ SetFails(t)
       \/ Write(t) \/ WriteFails(t) \/ WriteEnd(t) \/ Killed(t)

Spec == Init /\ [][Next]_vars

-----------------------------------------------------------------------------
(* RestartKeepsLevels: whatever failed and whenever the application ended,  *)
(* a file that the next start would accept holds the levels in force,       *)
(* unless another one wrote it in between (dbg_trace_ps.c:140, :214).       *)
RestartKeepsLevels ==
  dbg.app = "up" /\ ~ dbg.stale /\ RightSize(dbg.file) /\ InRange(dbg.file)
    => dbg.file = dbg.levels

(* WholeOrNothing: what the application works with, and what a start would  *)
(* accept, are the levels of one request, of the configuration or of the    *)
(* file before, never some of one and some of another, however writers fail *)
(* or end half-way, as long as nobody else has the file open meanwhile      *)
(* (dbg_trace_ps.c:120, :214; dbg_ctrl.c:2388).                             *)
WholeOrNothing ==
  ~ dbg.torn =>
    /\ dbg.app # "down" => dbg.levels \in dbg.meant
    /\ RightSize(dbg.file) /\ InRange(dbg.file) => dbg.file \in dbg.meant

(* ShortReadIsFailure: a tool never goes on with levels it could not read   *)
(* (dbg_ctrl.c:2208: "true upon success; otherwise, false").                *)
Asked(m) ==
  {Default[m]} \cup {f[m] : f \in {f \in Files : RightSize(f) /\ InRange(f)}}
    \cup {Parsed(line).default : line \in CommandLines}
    \cup {l \in Levels : \E line \in CommandLines : m \in Parsed(line).list[l]}

ShortReadIsFailure ==
  \A t \in Tools : dbg.tool[t].pc = "set" =>
    \A m \in 1 .. Modules : dbg.tool[t].levels[m] \in Asked(m)
=============================================================================
