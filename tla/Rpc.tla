--------------------------------- MODULE Rpc ---------------------------------
(***************************************************************************)
(* Synchronous messages of a process to the router thread of another       *)
(* (full/xsal_i_run.c, SAL_Run), on the three systems.  On Linux and       *)
(* Windows (linux/xsal_rpc_linux.c, win32/xsal_rpc_win32.c) every request  *)
(* has a connection of its own: the client connects, writes a header and   *)
(* the message and waits; the router accepts, reads, and answers on the    *)
(* same connection.  In the process of the router a connection is a        *)
(* descriptor that the system hands out again as soon as it is closed,     *)
(* also to the other threads of the process.  On QNX (qnx/xsal_rpc_qnx.c)  *)
(* the kernel passes messages, and a request has the identity of the       *)
(* thread that sent it.                                                    *)
(***************************************************************************)
EXTENDS Integers, Sequences, FiniteSets, SequencesExt

CONSTANTS
  Platforms,    \* of "linux", "win32" and "qnx"
  Clients,      \* threads of other processes that send
  Thread,       \* a thread of the router's process that opens a file
  Free,         \* an unused descriptor
  Descriptors,  \* the lowest descriptors that are not in use otherwise
  NoId          \* no receive_id, no decision

VARIABLE rpc    \* clients, listen queue, descriptors and the router

vars == rpc

(* What a client had written when it stopped: everything, everything but    *)
(* the payload, a part of the message header, or less than the header.      *)
Parts == {"nothing", "part", "message", "all"}

Messages == {"send", "publish"}
Kinds    == Messages \cup {"pulse", "exit"}

(* told: the status in the reply; now: the request that is worked on;       *)
(* decided: what became of the request of each client.                      *)
Init ==
  \E p \in Platforms :
    rpc = [platform |-> p,
           client |-> [c \in Clients |-> "idle"], kind |-> [c \in Clients |-> "send"],
           wrote |-> [c \in Clients |-> "nothing"], told |-> [c \in Clients |-> NoId],
           decided |-> [c \in Clients |-> NoId],
           backlog |-> << >>, fd |-> [d \in Descriptors |-> Free],
           router |-> "receive", id |-> NoId, now |-> NoId, status |-> TRUE]

Linux == rpc.platform = "linux"
Win32 == rpc.platform = "win32"
Qnx   == rpc.platform = "qnx"

\* Linux takes the lowest one.
NextFree ==
  LET left == {d \in Descriptors : rpc.fd[d] = Free}
  IN  IF Linux THEN {d \in left : \A e \in left : d <= e} ELSE left

Queued(c)   == \E i \in DOMAIN rpc.backlog : rpc.backlog[i] = c
Waits(r, c) == r.client[c] = "waiting"

-----------------------------------------------------------------------------
\* The client.

(* SAL_Sync_Send_V, SAL_Send_Pulse: who has sent a whole message waits, on  *)
(* Windows also who has sent a pulse.  A client that is killed leaves a     *)
(* shorter request behind, but QNX has all of it or nothing.                *)
Whole(kind, part) == part = IF kind \in Messages THEN "all" ELSE "message"

WaitsLinux(kind, part)      == kind \in Messages /\ Whole(kind, part)
WaitsWin32(kind, part)      == kind \in Messages /\ Whole(kind, part)
PulseWaitsWin32(kind, part) == kind \notin Messages /\ Whole(kind, part)
WaitsQnx(kind, part)        == kind \in Messages

Send(c, kind, part) ==
  /\ rpc.client[c] = "idle"
  /\ kind \notin Messages => part \in {"nothing", "message"}
  /\ Qnx => Whole(kind, part)
  /\ LET waits == \/ Linux /\ WaitsLinux(kind, part)
                  \/ Win32 /\ (WaitsWin32(kind, part) \/ PulseWaitsWin32(kind, part))
                  \/ Qnx /\ WaitsQnx(kind, part)
     IN  rpc' = [rpc EXCEPT !.client[c] = IF waits THEN "waiting" ELSE "left",
                            !.kind[c] = kind, !.wrote[c] = part, !.backlog = Append(@, c)]

\* Killed while it waits for the reply; QNX takes a message back that nobody has received.
Killed(c) ==
  /\ Waits(rpc, c)
  /\ rpc' = [rpc EXCEPT !.client[c] = "left",
                        !.backlog = IF Qnx THEN RemoveFirst(@, c) ELSE @]

\* The call has returned, or the killed client runs again.
Return(c) ==
  /\ rpc.client[c] \in {"left", "replied", "refused"}
  /\ ~ Queued(c) /\ c \notin {rpc.fd[d] : d \in Descriptors}
  /\ rpc' = [rpc EXCEPT !.client[c] = "idle", !.kind[c] = "send", !.wrote[c] = "nothing",
                        !.told[c] = NoId, !.decided[c] = NoId]

-----------------------------------------------------------------------------
\* The router.

(* close(): the descriptor is free again.  Whoever has it now loses it; a   *)
(* client that was waiting for a reply gets none.                           *)
Close(r, d) ==
  LET owner == r.fd[d]
  IN  [r EXCEPT !.fd[d] = Free,
                !.client = [c \in Clients |-> IF c = owner /\ Waits(r, c)
                                              THEN "refused" ELSE @[c]]]

Answered(r, c, status) ==
  IF Waits(r, c) THEN [r EXCEPT !.client[c] = "replied", !.told[c] = status] ELSE r

(* accept() fails, without a descriptor or on Windows because the client is *)
(* gone: the router goes on to the reply with no id.                        *)
AcceptFails ==
  /\ ~ Qnx /\ rpc.router = "receive" /\ rpc.backlog # << >>
  /\ LET gone == Win32 /\ rpc.client[Head(rpc.backlog)] = "left"
     IN  /\ NextFree = {} \/ gone
         /\ rpc' = [rpc EXCEPT !.router = "reply", !.id = NoId, !.status = FALSE,
                               !.backlog = IF gone THEN Tail(@) ELSE @]

\* The first request is taken over; d is its descriptor.
Taken(r, c) ==
  [r EXCEPT !.backlog = Tail(@), !.decided[c] = NoId,
            !.now = [client |-> c, kind |-> r.kind[c], part |-> r.wrote[c]]]
Accepted(c, d) == [Taken(rpc, c) EXCEPT !.fd[d] = c, !.id = d]

\* The connection of a failure is closed at once, but the id stays what it was.
Failed(c, d) == [Close(Accepted(c, d), d) EXCEPT !.router = "reply", !.status = FALSE]

\* SAL_PULSE_RT_EXIT ends the loop, other pulses go on to the reply.
AfterPulse(r, c) ==
  [r EXCEPT !.router = IF rpc.kind[c] = "exit" THEN "exit" ELSE "reply", !.status = TRUE]

(* SAL_Sync_Receive on Linux: a request without a whole header is a         *)
(* failure; a short message is not noticed; the connection of a pulse is    *)
(* closed, the id stays.                                                    *)
ReceiveLinux(c, d) ==
  IF rpc.wrote[c] = "nothing" THEN {Failed(c, d)}
  ELSE IF rpc.kind[c] \notin Messages THEN {AfterPulse(Close(Accepted(c, d), d), c)}
  ELSE {[Accepted(c, d) EXCEPT !.router = "serve"]}

(* On Windows the end of a client is an error of recv(), also for what it   *)
(* had written; a pulse is answered with one byte and its id is cleared.    *)
ReceiveWin32(c, d) ==
  LET pulse == Close(Answered([Accepted(c, d) EXCEPT !.decided[c] = TRUE], c, TRUE), d)
  IN  (IF rpc.client[c] = "left" THEN {Failed(c, d)} ELSE {})
      \cup
      (IF rpc.wrote[c] \in {"nothing", "part"} THEN {}
       ELSE IF rpc.kind[c] \in Messages THEN {[Accepted(c, d) EXCEPT !.router = "serve"]}
       ELSE {[AfterPulse(pulse, c) EXCEPT !.id = NoId]})

(* On QNX a pulse leaves the id as it is in the memory of the last request; *)
(* that of a timer is posted and not answered.                              *)
ReceiveQnx(c) ==
  IF rpc.kind[c] \in Messages THEN {[Taken(rpc, c) EXCEPT !.id = c, !.router = "serve"]}
  ELSE LET r == AfterPulse(Taken(rpc, c), c)
       IN  {r, [r EXCEPT !.id = NoId]}
           \cup (IF rpc.kind[c] = "pulse" THEN {[r EXCEPT !.router = "receive"]} ELSE {})

Receive ==
  /\ rpc.router = "receive" /\ rpc.backlog # << >>
  /\ LET c == Head(rpc.backlog)
     IN  \/ Qnx /\ rpc' \in ReceiveQnx(c)
         \/ \E d \in NextFree :
              \/ Linux /\ rpc' \in ReceiveLinux(c, d)
              \/ Win32 /\ rpc' \in ReceiveWin32(c, d)

(* SAL_Sync_Read: on Linux it returns what has arrived; on Windows it fails *)
(* and closes the connection when the client has ended, on QNX it fails.    *)
ReadFails == \/ rpc.now.part # "all"
             \/ ~ Linux /\ ~ (Waits(rpc, rpc.now.client) /\ ~ Queued(rpc.now.client))

(* Process_Send drops a message whose payload is not whole or that finds no *)
(* place in the queue; a message may have no payload to read.  After        *)
(* Process_Publish the status is TRUE, whatever became of the event.  After *)
(* a short message the router acts on bytes it has not received.            *)
Serve ==
  /\ rpc.router = "serve"
  /\ \E s \in BOOLEAN, read \in BOOLEAN :
       /\ rpc.now.part = "message" => read
       /\ rpc.now.kind = "send" /\ read /\ ReadFails /\ rpc.now.part # "part" => ~ s
       /\ rpc.now.kind = "publish" /\ rpc.now.part # "part" => s
       /\ rpc' = [(IF Win32 /\ read /\ ReadFails THEN Close(rpc, rpc.id) ELSE rpc)
                  EXCEPT !.router = "reply", !.status = s, !.decided[rpc.now.client] = s]

(* SAL_Sync_Reply: writes to whatever the id names now, and closes it.  QNX *)
(* refuses it unless the thread waits for the reply to a received message,  *)
(* and only there the old id is seen again.                                 *)
ReplySocket(r) ==
  IF rpc.id = NoId THEN r
  ELSE IF rpc.fd[rpc.id] \in Clients
  THEN Close(Answered(r, rpc.fd[rpc.id], rpc.status), rpc.id)
  ELSE Close(r, rpc.id)

ReplyQnx(r) ==
  IF rpc.id = NoId \/ Queued(rpc.id) THEN r ELSE Answered(r, rpc.id, rpc.status)

Reply ==
  /\ rpc.router = "reply"
  /\ LET next == [rpc EXCEPT !.router = "receive", !.now = NoId, !.status = TRUE]
     IN  rpc' = IF Qnx THEN ReplyQnx(next) ELSE [ReplySocket(next) EXCEPT !.id = NoId]

AllRefused(r) ==
  [r EXCEPT !.router = "gone", !.backlog = << >>, !.now = NoId, !.id = NoId,
            !.client = [c \in Clients |-> IF @[c] = "waiting" THEN "refused" ELSE @[c]]]

(* A reply to a client that has closed its end raises SIGPIPE on Linux,     *)
(* which ends every process but the process manager (pm_main.c handles it). *)
Crash ==
  /\ Linux /\ rpc.router = "reply" /\ rpc.id # NoId
  /\ rpc.fd[rpc.id] \in Clients /\ rpc.client[rpc.fd[rpc.id]] = "left"
  /\ rpc' = [AllRefused(rpc) EXCEPT !.fd = [d \in Descriptors |-> Free]]

(* SAL_Run after the exit pulse closes the id once more;                    *)
(* SAL_Destroy_Channel ends what is queued.                                 *)
Exit ==
  /\ rpc.router = "exit"
  /\ rpc' = AllRefused(IF Linux /\ rpc.id # NoId THEN Close(rpc, rpc.id) ELSE rpc)

-----------------------------------------------------------------------------
\* Another thread of the process opens a file or a socket, and closes it.
OpenFile == /\ ~ Qnx /\ ~ \E d \in Descriptors : rpc.fd[d] = Thread
            /\ \E d \in NextFree : rpc' = [rpc EXCEPT !.fd[d] = Thread]

CloseFile == \E d \in Descriptors : /\ rpc.fd[d] = Thread
                                    /\ rpc' = [rpc EXCEPT !.fd[d] = Free]

Next ==
  \/ \E c \in Clients :
       \/ rpc.router # "gone" /\ \E k \in Kinds, p \in Parts : Send(c, k, p)
       \/ Killed(c) \/ Return(c)
  \/ AcceptFails \/ Receive \/ Serve \/ Reply \/ Crash \/ Exit
  \/ OpenFile \/ CloseFile

Spec == Init /\ [][Next]_vars

-----------------------------------------------------------------------------
(* NothingLeaks: when the router waits for the next request no connection   *)
(* of an earlier one is open, whichever way that one ended; while it works  *)
(* on a request there is only this one, and nobody waits for a reply who is *)
(* not queued or being served.                                              *)
NothingLeaks ==
  /\ \A d \in Descriptors :
       rpc.fd[d] \in Clients => rpc.router \in {"serve", "reply"} /\ d = rpc.id
  /\ \A c \in Clients : Waits(rpc, c) /\ ~ Queued(c) =>
       rpc.router \in {"serve", "reply"} /\ rpc.now # NoId /\ rpc.now.client = c

(* ReplyIsTrue: the status that a client is told is that of its own         *)
(* request, never of one before it or of a pulse in between; and a message  *)
(* is posted only if all of it arrived, unless Linux missed the end of it.  *)
ReplyIsTrue ==
  /\ \A c \in Clients :
       rpc.client[c] = "replied" => /\ rpc.told[c] # NoId /\ rpc.told[c] = rpc.decided[c]
                                    /\ rpc.wrote[c] = "all" \/ rpc.kind[c] \notin Messages
  /\ rpc.router = "reply" /\ rpc.status /\ rpc.now # NoId =>
       \/ rpc.now.part = "all" \/ rpc.now.kind # "send"
       \/ Linux /\ rpc.now.part = "part"

(* ReplyGoesToClient: the reply is sent to the client identified by         *)
(* receive_id (xsal.h:848), never into a file of another thread that got    *)
(* the same number.                                                         *)
ReplyGoesToClient ==
  \A d \in Descriptors : rpc.router = "reply" /\ rpc.id = d => rpc.fd[d] # Thread
=============================================================================
