------------------------------ MODULE IicMaster ------------------------------
(***************************************************************************)
(* The master of an IIC channel on Linux (iic_linux.c).  A thread locks    *)
(* the channel, which opens the device at first, collects the segments of  *)
(* a transfer, and the call that asks for a stop hands them all to the     *)
(* device.  The data of the collected writes are copied one behind the     *)
(* other; where each begins is found again at the transfer.                *)
(***************************************************************************)
EXTENDS Integers, Sequences, SequencesExt

CONSTANTS
  Threads,      \* users of the channel
  Data,         \* what is written: sequences of bytes, not empty
  ReadBuffers,  \* where is read to
  MaxSegments,  \* IIC_MAX_SEGMENTS
  Nobody        \* owner of a channel that is not locked

VARIABLE master

vars == master

(* owner: who has the lock; open: the handle is; segs: the collected        *)
(* segments, msg_data: the copied data.  The rest is history: what the      *)
(* owner asked for, whether someone left segments behind, and the last      *)
(* transfer with what it should have been.                                  *)
Seg(dir, data) == [dir |-> dir, data |-> data]

Init == master = [up |-> TRUE, owner |-> Nobody, open |-> FALSE, segs |-> <<>>, msg_data |-> <<>>,
                  asked |-> <<>>, left |-> FALSE, bus |-> <<>>, due |-> <<>>]

Reset_Channel(m) == [m EXCEPT !.segs = <<>>, !.msg_data = <<>>, !.asked = <<>>, !.left = FALSE]

-----------------------------------------------------------------------------
(* The first lock opens the device and asks for its functions; when that    *)
(* fails the lock is given back, but the handle stays: the next lock does   *)
(* not ask again.                                                           *)
Check_IIC_Open ==
  IF master.open THEN {[open |-> TRUE, success |-> TRUE]}
  ELSE {[open |-> FALSE, success |-> FALSE], [open |-> TRUE, success |-> FALSE],
        [open |-> TRUE, success |-> TRUE]}

IIC_Lock(t) ==
  /\ master.up /\ master.owner = Nobody
  /\ \E check \in Check_IIC_Open :
       master' = [master EXCEPT !.open = check.open, !.asked = <<>>,
                                !.owner = IF check.success THEN t ELSE Nobody]

\* A caller may give up before the stop.
IIC_Unlock(t) ==
  /\ master.owner = t
  /\ master' = [master EXCEPT !.owner = Nobody, !.left = @ \/ master.segs # <<>>]

-----------------------------------------------------------------------------
\* Where the data of a collected write begin
Begin(i) ==
  FoldLeft(LAMBDA sum, seg : sum + (IF seg.dir = "w" THEN seg.data ELSE 0),
           0, SubSeq(master.segs, 1, i - 1))

\* A collected write has its length only, a read its buffer.
Set_Buffers ==
  [i \in DOMAIN master.segs |->
     IF master.segs[i].dir = "r" THEN master.segs[i]
     ELSE Seg("w", SubSeq(master.msg_data, Begin(i) + 1, Begin(i) + master.segs[i].data))]

\* The device carries it out, or reports an error; both end the transfer.
IIC_Transfer(last) ==
  \/ master' = [Reset_Channel(master) EXCEPT
                  !.bus = IF master.left THEN <<>> ELSE Append(Set_Buffers, last),
                  !.due = IF master.left THEN <<>> ELSE Append(master.asked, last)]
  \/ master' = Reset_Channel(master)

\* The precondition of the code; the caller has the lock, once.
RoomForSegment(t) == master.owner = t /\ Len(master.segs) < MaxSegments

\* The last segment is taken from the buffer of the caller.
IIC_Write(t, wdata, stop) ==
  /\ RoomForSegment(t)
  /\ IF stop THEN IIC_Transfer(Seg("w", wdata))
     ELSE master' = [master EXCEPT !.segs = Append(@, Seg("w", Len(wdata))),
                                   !.msg_data = @ \o wdata,
                                   !.asked = Append(@, Seg("w", wdata))]

IIC_Read(t, rdata, stop) ==
  /\ RoomForSegment(t)
  /\ IF stop THEN IIC_Transfer(Seg("r", rdata))
     ELSE master' = [master EXCEPT !.segs = Append(@, Seg("r", rdata)),
                                   !.asked = Append(@, Seg("r", rdata))]

-----------------------------------------------------------------------------
\* A channel that is locked for longer than the timeout stays as it is.
IIC_Shutdown ==
  /\ master.up /\ master.owner = Nobody
  /\ master' = [master EXCEPT !.up = FALSE, !.open = FALSE]

IIC_Initialize ==
  /\ ~ master.up
  /\ master' = [Reset_Channel(master) EXCEPT !.up = TRUE]

Next ==
  \/ IIC_Shutdown \/ IIC_Initialize
  \/ \E t \in Threads :
       \/ IIC_Lock(t) \/ IIC_Unlock(t)
       \/ \E stop \in BOOLEAN :
            \/ \E wdata \in Data : IIC_Write(t, wdata, stop)
            \/ \E rdata \in ReadBuffers : IIC_Read(t, rdata, stop)

Spec == Init /\ [][Next]_vars

-----------------------------------------------------------------------------
(* TransferIsWhole: the device gets the segments that the owner of the lock *)
(* asked for, all of them with their own data and in order, and none of an  *)
(* earlier transfer that failed, nor of another thread unless that one gave *)
(* up before its stop.                                                      *)
TransferIsWhole ==
  /\ master.bus = master.due
  /\ master.owner # Nobody /\ ~ master.left => Set_Buffers = master.asked

(* FreeIsEmpty: who locks a channel finds no segment in it, unless another  *)
(* thread gave up, and the device was opened for who has the lock.          *)
FreeIsEmpty ==
  /\ master.owner = Nobody /\ ~ master.left => master.segs = <<>> /\ master.msg_data = <<>>
  /\ master.owner # Nobody => master.open /\ master.up
=============================================================================
