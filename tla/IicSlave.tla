------------------------------ MODULE IicSlave -------------------------------
(***************************************************************************)
(* The slave end of an IIC bus (iic_slave_linux.c): threads of the         *)
(* application hand over messages in one of two buffers, a send thread     *)
(* writes the other one to the device until the master has read it, and a  *)
(* receive thread passes on what the master writes.  The owner enables and *)
(* disables the channel; it waits for the two threads, but not for ever,   *)
(* and frees the channel under the one that does not come back from the    *)
(* device.                                                                 *)
(***************************************************************************)
EXTENDS Integers, Sequences

CONSTANTS
  Callers,      \* threads that transmit
  Channels,     \* objects of the heap, one for each time it is enabled
  MaxMessages,  \* bound: the number of messages accepted
  NULL          \* no channel, no thread

VARIABLE iic

vars == iic

Unused == [live |-> FALSE, enabled |-> FALSE, active |-> 0, pending |-> [b \in {0, 1} |-> FALSE],
           data |-> [b \in {0, 1} |-> 0], tx_loaded |-> 0, snd |-> FALSE, rec |-> FALSE]

(* A message is the number of the call that handed it over; 0 is one that   *)
(* is being copied.  dropped: messages were discarded, by a reset or with   *)
(* the channel; reset: there was a reset; overdue: a channel was freed      *)
(* after a wait ended without its thread; lied: a failed write was reported *)
(* as done.                                                                 *)
Init ==
  iic = [attr |-> NULL, channel |-> [c \in Channels |-> Unused], lock |-> NULL,
         send |-> [pc |-> "none", chan |-> NULL], recv |-> [pc |-> "none", chan |-> NULL],
         caller |-> [t \in Callers |-> [pc |-> "idle", chan |-> NULL, buf |-> 0]],
         owner |-> "idle",
         accepted |-> 0, written |-> <<>>,
         dropped |-> FALSE, reset |-> FALSE, overdue |-> FALSE, lied |-> FALSE]

Unlocked == iic.lock = NULL
Chan == iic.channel[iic.attr]

-----------------------------------------------------------------------------
(* The owner.                                                              *)

(* IIC_SLV_Enable, from Create_Slave_Channel on: the driver or the device   *)
(* fails; the send thread is not ready in time; or both threads start.  A   *)
(* thread that is still alive is not started again, and the channel has the *)
(* number 0 for it, that of the router thread.                              *)
Created(c) ==
  [iic EXCEPT !.attr = c, !.channel[c] = [Unused EXCEPT !.live = TRUE, !.enabled = TRUE]]

WithSend(r, c) ==
  IF iic.send.pc # "none" THEN r
  ELSE [r EXCEPT !.send = [pc |-> "check", chan |-> c], !.channel[c].snd = TRUE]

WithRecv(r, c) ==
  IF iic.recv.pc # "none" THEN r
  ELSE [r EXCEPT !.recv = [pc |-> "check", chan |-> c], !.channel[c].rec = TRUE]

Enable(c) ==
  /\ iic.owner = "idle" /\ iic.attr = NULL
  /\ iic.channel[c] = Unused /\ \A d \in Channels : d < c => iic.channel[d] # Unused
  /\ iic' \in {Created(c), WithSend(Created(c), c), WithRecv(WithSend(Created(c), c), c)}

\* IIC_SLV_Disable, which IIC_SLV_Enable calls for a channel that is enabled.
Disable ==
  /\ iic.owner = "idle" /\ iic.attr # NULL /\ Unlocked
  /\ iic' = [iic EXCEPT !.channel[iic.attr].enabled = FALSE, !.owner = "send"]

Gone(thread) == thread.pc = "none" \/ thread.chan # iic.attr

SendGone ==
  /\ iic.owner = "send" /\ Chan.snd /\ Gone(iic.send)
  /\ iic' = [iic EXCEPT !.owner = "recv"]

Freed(overdue) ==
  [iic EXCEPT !.owner = "idle", !.attr = NULL,
              !.channel[iic.attr].live = FALSE,
              !.dropped = @ \/ \E b \in {0, 1} : Chan.pending[b],
              !.overdue = @ \/ overdue]

(* Destroy_Slave_Channel, when the receive thread is gone, or one of the    *)
(* threads is not: it is in the device, or it never was the one of the      *)
(* channel.  After the send thread the receive thread is not waited for.    *)
Destroy ==
  /\ Unlocked
  /\ \/ iic.owner = "recv" /\ Chan.rec /\ Gone(iic.recv) /\ iic' = Freed(FALSE)
     \/ iic.owner = "recv" /\ (~ Chan.rec \/ iic.recv.pc = "read") /\ iic' = Freed(TRUE)
     \/ iic.owner = "send" /\ (~ Chan.snd \/ iic.send.pc = "writing") /\ iic' = Freed(TRUE)

-----------------------------------------------------------------------------
(* The callers.                                                            *)

(* IIC_SLV_Transmit: the message is copied to the buffer that is not in     *)
(* use, unless one is pending there; the caller waits for the send thread.  *)
Transmit(t) ==
  /\ Unlocked /\ iic.attr # NULL /\ iic.caller[t].pc = "idle" /\ iic.accepted < MaxMessages
  /\ LET b == 1 - Chan.active IN
     /\ ~ Chan.pending[b]
     /\ iic' = [iic EXCEPT !.lock = t, !.channel[iic.attr].data[b] = 0,
                           !.caller[t] = [pc |-> "copy", chan |-> iic.attr, buf |-> b]]

Accept(t) ==
  /\ iic.caller[t].pc = "copy"
  /\ LET c == iic.caller[t].chan  b == iic.caller[t].buf IN
     iic' = [iic EXCEPT !.lock = NULL, !.accepted = @ + 1, !.caller[t].pc = "wait",
                        !.channel[c].data[b] = iic.accepted + 1, !.channel[c].pending[b] = TRUE]

\* The wait for tx_loaded ends with a token or after 15 ms.
TransmitEnd(t) ==
  /\ iic.caller[t].pc = "wait"
  /\ LET c == iic.caller[t].chan
         r == [iic EXCEPT !.caller[t] = [pc |-> "idle", chan |-> NULL, buf |-> 0]]
     IN  \/ iic' = r
         \/ /\ iic.channel[c].live /\ iic.channel[c].tx_loaded > 0
            /\ iic' = [r EXCEPT !.channel[c].tx_loaded = @ - 1]

\* IIC_SLV_Transmit_Reset
Reset ==
  /\ Unlocked /\ iic.attr # NULL
  /\ iic' = [iic EXCEPT !.channel[iic.attr].pending = [b \in {0, 1} |-> FALSE],
                        !.reset = TRUE, !.dropped = TRUE]

\* IIC_SLV_Transmit_Available
Available == \A b \in {0, 1} : ~ Chan.pending[b]

-----------------------------------------------------------------------------
(* The threads; what they make of a channel that was freed is not defined.  *)

Sends(pc) == iic.send.pc = pc /\ iic.channel[iic.send.chan].live
SendChan == iic.channel[iic.send.chan]

\* IIC_Slave_Send_Thread: the buffers are looked at under the lock ...
Check ==
  /\ Sends("check") /\ SendChan.enabled /\ Unlocked
  /\ ~ SendChan.pending[SendChan.active] /\ SendChan.pending[1 - SendChan.active]
  /\ iic' = [iic EXCEPT !.send.pc = "switch"]

\* ... and switched without it.
Switch ==
  /\ Sends("switch")
  /\ iic' = [iic EXCEPT !.send.pc = "signal", !.channel[iic.send.chan].active = 1 - @]

Signal ==
  /\ Sends("signal")
  /\ iic' = [iic EXCEPT !.send.pc = "write", !.channel[iic.send.chan].tx_loaded = @ + 1]

Write ==
  /\ Sends("write")
  /\ iic' = [iic EXCEPT !.send.pc = "writing",
                        !.written = Append(@, SendChan.data[SendChan.active])]

\* retval is unsigned: a write that fails counts as one that was done.
WriteEnd(failed) ==
  /\ Sends("writing")
  /\ iic' = [iic EXCEPT !.send.pc = "check", !.lied = @ \/ failed,
                        !.channel[iic.send.chan].pending[SendChan.active] = FALSE]

SendLeaves ==
  /\ Sends("check") /\ ~ SendChan.enabled
  /\ iic' = [iic EXCEPT !.send = [pc |-> "none", chan |-> NULL]]

\* IIC_Slave_Receive_Thread
Receives(pc) == iic.recv.pc = pc /\ iic.channel[iic.recv.chan].live
RecvChan == iic.channel[iic.recv.chan]

Read ==
  /\ Receives("check") /\ RecvChan.enabled
  /\ iic' = [iic EXCEPT !.recv.pc = "read"]

ReadEnd ==
  /\ Receives("read")
  /\ iic' = [iic EXCEPT !.recv.pc = "check"]

RecvLeaves ==
  /\ Receives("check") /\ ~ RecvChan.enabled
  /\ iic' = [iic EXCEPT !.recv = [pc |-> "none", chan |-> NULL]]

Next ==
  \/ \E c \in Channels : Enable(c)
  \/ Disable \/ SendGone \/ Destroy
  \/ \E t \in Callers : Transmit(t) \/ Accept(t) \/ TransmitEnd(t)
  \/ Reset
  \/ Check \/ Switch \/ Signal \/ Write \/ SendLeaves
  \/ \E failed \in BOOLEAN : WriteEnd(failed)
  \/ Read \/ ReadEnd \/ RecvLeaves

Spec == Init /\ [][Next]_vars

-----------------------------------------------------------------------------
Threads == {th \in {iic.send, iic.recv} : th.pc # "none"}

(* WholeInOrder: the master reads whole messages, each one once, in the     *)
(* order they were accepted, and without a reset or a channel that is       *)
(* disabled none is missing, although the buffers are switched without the  *)
(* lock (iic_slave_linux.c:442).                                            *)
WholeInOrder ==
  /\ ~ iic.reset => \A i \in DOMAIN iic.written : iic.written[i] # 0
  /\ \A i, j \in DOMAIN iic.written :
       i < j /\ iic.written[i] # 0 /\ iic.written[j] # 0 => iic.written[i] < iic.written[j]
  /\ ~ iic.dropped => \A i \in DOMAIN iic.written : iic.written[i] = i

(* AvailableIsTrue: when no message is pending the master has read all that *)
(* were accepted, and the next one can be handed over (iic_slave.h:117,     *)
(* "true is data was read and transmitter is free for new message").        *)
AvailableIsTrue ==
  iic.attr # NULL /\ Unlocked /\ Available /\ ~ iic.dropped
    => Len(iic.written) = iic.accepted /\ iic.send.pc \notin {"signal", "write", "writing"}

(* NeverStalls: the buffer in use is pending only while the send thread is  *)
(* about to write it; else neither it nor the next message would ever be    *)
(* written (iic_slave_linux.c:437).                                         *)
NeverStalls ==
  iic.attr # NULL /\ ~ iic.reset /\ Chan.pending[Chan.active]
    => iic.send.chan = iic.attr /\ iic.send.pc \in {"signal", "write", "writing"}

(* ThreadsEndFirst: unless one of them is still in the device when its      *)
(* owner stops waiting, the threads are gone when the channel is freed, and *)
(* each channel that is enabled gets its own (iic_slave_linux.c:335).       *)
ThreadsEndFirst ==
  /\ ~ iic.overdue => \A th \in Threads : iic.channel[th.chan].live
  /\ ~ iic.overdue => \A th \in Threads : th.chan = iic.attr

(* DoneMeansRead: a write that fails is not reported as a transmit that is  *)
(* complete (iic_slave_cbk.h:110, "called every time the slave completes a  *)
(* transmit").                                                              *)
DoneMeansRead == ~ iic.lied

(* FreedIsUnused: nobody uses a channel that was freed.                     *)
FreedIsUnused ==
  /\ \A th \in Threads : iic.channel[th.chan].live
  /\ \A t \in Callers : iic.caller[t].pc = "wait" => iic.channel[iic.caller[t].chan].live
=============================================================================
