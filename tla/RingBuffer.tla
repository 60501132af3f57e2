----------------------------- MODULE RingBuffer ------------------------------
(***************************************************************************)
(* The control block of a ring buffer (bb_ring_buffer/_src/ring_buffer.c), *)
(* as one producer and one consumer use it without a lock: each asks       *)
(* whether there is room (or an element), accesses the cell, and only then *)
(* moves its index.  The cells belong to the caller.                       *)
(***************************************************************************)
EXTENDS Integers

CONSTANTS
  Size,    \* cells, the parameter of Ring_Buf_Init
  Serials  \* values 0 .. Serials - 1 are produced in turn; more than Size

VARIABLE ring   \* Ring_Buf_Ctrl_T, the cells and the two threads

vars == ring

\* Ring_Buf_Init
Init == ring = [in |-> 0, out |-> 0, cell |-> [i \in 0 .. Size - 1 |-> 0],
                producer |-> "ask", consumer |-> "ask",
                produced |-> 0, expected |-> 0]

\* rb_next
NextIndex(i) == IF i + 1 >= Size THEN 0 ELSE i + 1

Ring_Buf_Is_Empty == ring.in = ring.out

Ring_Buf_Is_Full == NextIndex(ring.in) = ring.out

After(serial) == (serial + 1) % Serials

ProducerAsks ==
  /\ ring.producer = "ask" /\ ~ Ring_Buf_Is_Full
  /\ ring' = [ring EXCEPT !.producer = "write"]

ProducerWrites ==
  /\ ring.producer = "write"
  /\ ring' = [ring EXCEPT !.cell[ring.in] = ring.produced,
                          !.produced = After(@), !.producer = "add"]

\* Ring_Buf_Add asks once more whether there is room.
Ring_Buf_Add ==
  /\ ring.producer = "add"
  /\ ring' = [ring EXCEPT !.producer = "ask",
                          !.in = IF Ring_Buf_Is_Full THEN @ ELSE NextIndex(@)]

ConsumerAsks ==
  /\ ring.consumer = "ask" /\ ~ Ring_Buf_Is_Empty
  /\ ring' = [ring EXCEPT !.consumer = "read"]

ConsumerReads ==
  /\ ring.consumer = "read"
  /\ ring' = [ring EXCEPT !.consumer = "remove", !.expected = After(@)]

Ring_Buf_Remove ==
  /\ ring.consumer = "remove"
  /\ ring' = [ring EXCEPT !.consumer = "ask",
                          !.out = IF Ring_Buf_Is_Empty THEN @ ELSE NextIndex(@)]

Next == \/ ProducerAsks \/ ProducerWrites \/ Ring_Buf_Add
        \/ ConsumerAsks \/ ConsumerReads \/ Ring_Buf_Remove

Spec == Init /\ [][Next]_vars

-----------------------------------------------------------------------------
(* ReadsInOrder: the consumer finds in its cell the value that is next in   *)
(* the order of production: nothing is lost, overwritten, read twice or     *)
(* read before it was written, although the threads share no lock.          *)
ReadsInOrder ==
  ring.consumer = "read" => ring.cell[ring.out] = ring.expected

(* CountsAgree: the elements between the indices are those produced and not *)
(* yet consumed; at most Size - 1 of them.                                  *)
CountsAgree ==
  LET published == IF ring.producer = "add" THEN ring.produced - 1 ELSE ring.produced
      removed   == IF ring.consumer = "remove" THEN ring.expected - 1 ELSE ring.expected
  IN  ((ring.in + Size) - ring.out) % Size
         = ((published + 2 * Serials) - removed) % Serials
=============================================================================
