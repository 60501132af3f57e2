---------------------------- MODULE PriorityQueue ---------------------------
(***************************************************************************)
(* What the message queue of a thread promises: a bounded store of         *)
(* Capacity nodes with two FIFO lists, urgent before normal.  A receive    *)
(* takes the first message that it wants; an urgent message that finds no  *)
(* room evicts the newest normal one, and nothing else is ever lost.       *)
(***************************************************************************)
EXTENDS Integers, SequencesExt

CONSTANTS Message, Event, Capacity

VARIABLES
  urgent,   \* waiting urgent messages, oldest first
  normal,   \* waiting normal messages, oldest first
  room,     \* nodes that can still be filled
  evicting, \* an urgent message is taking the place of a normal one
  taken     \* nodes in the hands of receivers

vars == <<urgent, normal, room, evicting, taken>>

Init ==
  /\ urgent = <<>> /\ normal = <<>>
  /\ room = Capacity /\ taken = 0
  /\ evicting = FALSE

Enqueue(m) ==
  IF m.urgent THEN urgent' = Append(urgent, m) /\ UNCHANGED normal
              ELSE normal' = Append(normal, m) /\ UNCHANGED urgent

Post(m) ==
  /\ ~evicting
  /\ room > 0 /\ room' = room - 1
  /\ Enqueue(m)
  /\ UNCHANGED <<evicting, taken>>

Evict ==
  /\ ~evicting /\ evicting' = TRUE
  /\ room = 0 /\ normal # <<>>
  /\ normal' = Front(normal)
  /\ UNCHANGED <<urgent, room, taken>>

Replace(m) ==
  /\ evicting /\ evicting' = FALSE
  /\ m.urgent
  /\ Enqueue(m)
  /\ UNCHANGED <<room, taken>>

\* There was no memory for the urgent message.
Abandon ==
  /\ evicting /\ evicting' = FALSE
  /\ room' = room + 1
  /\ UNCHANGED <<urgent, normal, taken>>

Unwanted(s, events) == \A i \in 1 .. Len(s) : s[i].event \notin events

\* The first message with an event of the set leaves the store.
RemoveFirstOf(events) ==
  \/ \E i \in 1 .. Len(urgent) :
       /\ urgent[i].event \in events
       /\ Unwanted(SubSeq(urgent, 1, i - 1), events)
       /\ urgent' = RemoveAt(urgent, i)
       /\ UNCHANGED normal
  \/ /\ Unwanted(urgent, events)
     /\ \E i \in 1 .. Len(normal) :
          /\ normal[i].event \in events
          /\ Unwanted(SubSeq(normal, 1, i - 1), events)
          /\ normal' = RemoveAt(normal, i)
     /\ UNCHANGED urgent

Take(events) ==
  /\ ~evicting
  /\ RemoveFirstOf(events)
  /\ taken' = taken + 1
  /\ UNCHANGED <<room, evicting>>

Purge(events) ==
  /\ ~evicting
  /\ RemoveFirstOf(events)
  /\ room' = room + 1
  /\ UNCHANGED <<evicting, taken>>

Release ==
  /\ ~evicting
  /\ taken > 0 /\ taken' = taken - 1
  /\ room' = room + 1
  /\ UNCHANGED <<urgent, normal, evicting>>

Next ==
  \/ \E m \in Message : Post(m) \/ Replace(m)
  \/ Evict \/ Abandon \/ Release
  \/ \E events \in SUBSET Event : Take(events) \/ Purge(events)

Spec == Init /\ [][Next]_vars
=============================================================================
