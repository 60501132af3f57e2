-------------------------------- MODULE Uart ---------------------------------
(***************************************************************************)
(* The receiving side of a UART channel (uart_linux.c, uart_qnx.c): the    *)
(* bytes of the device are read into the buffer of the channel or, by      *)
(* UA_Gets, directly into that of the caller, while more arrive.  What is  *)
(* written goes straight to the device and has no state here.  The bytes   *)
(* are the numbers of their arrival.                                       *)
(***************************************************************************)
EXTENDS Integers, Sequences, SequencesExt

CONSTANTS
  Drivers,     \* "linux", "qnx": they differ in one statement
  BufSize,     \* UART_RX_BUF_SIZE
  Serials,     \* bound: bytes that arrive
  CallerSizes, \* sizes of the buffers that callers pass
  Unset        \* a byte of the caller's buffer that nothing was written to

VARIABLE uart

vars == uart

(* device: bytes received and not read; buf: the rest of the buffer of the  *)
(* channel; arrived: number of the last byte; due: number of the next one   *)
(* to be returned; got: what the last call returned, and from where.        *)
Nothing == [bytes |-> <<>>, due |-> 1, joined |-> FALSE]

Init ==
  \E d \in Drivers :
    uart = [driver |-> d, open |-> FALSE, device |-> <<>>, buf |-> <<>>,
            arrived |-> 0, due |-> 1, got |-> Nothing]

\* A byte arrives; while the channel is closed it is dropped.
Arrive ==
  /\ uart.arrived < Serials
  /\ LET n == uart.arrived + 1 IN
     uart' = [uart EXCEPT !.arrived = n, !.device = IF uart.open THEN Append(@, n) ELSE @]

-----------------------------------------------------------------------------
\* What came before is discarded.
Emptied(u) == [u EXCEPT !.device = <<>>, !.buf = <<>>, !.due = uart.arrived + 1, !.got = Nothing]

\* tcsetattr with TCSAFLUSH
UA_Open ==
  /\ ~ uart.open
  /\ uart' = [Emptied(uart) EXCEPT !.open = TRUE]

UA_Close ==
  /\ uart.open
  /\ uart' = [Emptied(uart) EXCEPT !.open = FALSE]

UA_Flush ==
  /\ uart.open
  /\ uart' = Emptied(uart)

(* ua_Read: after the timeout of select, or an error, no byte; otherwise as *)
(* many as there are and fit, or fewer.                                     *)
Reads(size) == {n \in 0 .. size : n <= Len(uart.device)}

Returned(u, bytes, n, joined) ==
  [u EXCEPT !.got = [bytes |-> bytes, due |-> uart.due, joined |-> joined],
            !.due = uart.due + n]

UA_Getc ==
  /\ uart.open
  /\ \/ /\ uart.buf # <<>>
        /\ uart' = Returned([uart EXCEPT !.buf = Tail(@)], <<Head(uart.buf)>>, 1, FALSE)
     \/ /\ uart.buf = <<>>
        /\ \E n \in Reads(BufSize) :
             LET block == SubSeq(uart.device, 1, n)
                 read  == [uart EXCEPT !.device = SubSeq(@, n + 1, Len(@))]
             IN  uart' = IF n = 0 THEN Returned(read, <<>>, 0, FALSE)
                         ELSE Returned([read EXCEPT !.buf = Tail(block)], <<Head(block)>>, 1, FALSE)

(* us_Read_Buf means to advance the pointer of the caller past the bytes it *)
(* copied; on Linux it advances its own pointer to that one, so that what   *)
(* is read next overwrites them.  The caller is told the sum of both.       *)
CallersBuffer(copied, block) ==
  IF uart.driver = "qnx" THEN copied \o block
  ELSE [i \in 1 .. Len(copied) + Len(block) |->
          IF i <= Len(block) THEN block[i]
          ELSE IF i <= Len(copied) THEN copied[i] ELSE Unset]

UA_Gets(size) ==
  /\ uart.open
  /\ LET copied == SubSeq(uart.buf, 1, IF Len(uart.buf) < size THEN Len(uart.buf) ELSE size) IN
     \E n \in Reads(size - Len(copied)) :
       LET block == SubSeq(uart.device, 1, n) IN
       uart' = Returned([uart EXCEPT !.buf = SubSeq(@, Len(copied) + 1, Len(@)),
                                     !.device = SubSeq(@, n + 1, Len(@))],
                        CallersBuffer(copied, block), Len(copied) + n,
                        copied # <<>> /\ block # <<>>)

Next ==
  \/ Arrive
  \/ UA_Open \/ UA_Close \/ UA_Flush \/ UA_Getc
  \/ \E size \in CallerSizes : UA_Gets(size)

Spec == Init /\ [][Next]_vars

-----------------------------------------------------------------------------
Run(first, n) == [i \in 1 .. n |-> first + i - 1]

(* EveryByteIsDue: the bytes that are still to be returned, first those of  *)
(* the buffer, are all that arrived since the last open or flush, each one  *)
(* once and in order, whether the calls read bytes or blocks (uart_linux.c: *)
(* 446, :497).                                                              *)
EveryByteIsDue ==
  uart.open => uart.buf \o uart.device = Run(uart.due, uart.arrived - uart.due + 1)

(* ReceivedInOrder: a call returns the bytes that were due, in order        *)
(* (uart.h:217), on Linux unless it joins bytes of the two sources.         *)
ReceivedInOrder ==
  uart.driver = "qnx" \/ ~ uart.got.joined =>
    uart.got.bytes = Run(uart.got.due, Len(uart.got.bytes))

\* The same for every call; the Linux driver does not keep it (uart_linux.c:433).
JoinedInOrder == uart.got.bytes = Run(uart.got.due, Len(uart.got.bytes))
=============================================================================
