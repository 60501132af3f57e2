--------------------------- MODULE DoubleLinkedList ---------------------------
(***************************************************************************)
(* The double linked list of bb_double_linked_list: entries that the user  *)
(* owns are linked into a list, at a place, at an end, or in the order of  *)
(* a compare callback.  A visit may remove the entry it is at.             *)
(***************************************************************************)
EXTENDS Integers, Sequences, SequencesExt

CONSTANTS
  Entries,   \* the entries
  NULL,      \* the null pointer
  Key        \* what the compare callback looks at: [Entries -> Nat]

VARIABLE dbll   \* first, last, count and the links of the entries

vars == dbll

Empty == [first |-> NULL, last |-> NULL, count |-> 0,
          next |-> [e \in Entries |-> NULL], prev |-> [e \in Entries |-> NULL]]

\* The entries met from e on, following a link.
Walk(link, e) ==
  LET met[n \in Nat] == IF n = 0 THEN << >>
                        ELSE LET so_far == met[n - 1]
                                 at == IF so_far = << >> THEN e ELSE link[Last(so_far)]
                             IN  IF at = NULL THEN so_far ELSE Append(so_far, at)
      longest == Len(SetToSeq(Entries)) + 1
  IN  met[longest]

Forward(l) == Walk(l.next, l.first)

In(l) == {Forward(l)[i] : i \in DOMAIN Forward(l)}

-----------------------------------------------------------------------------
Alone(l, e) == [l EXCEPT !.first = e, !.last = e, !.count = @ + 1,
                         !.next[e] = NULL, !.prev[e] = NULL]

\* DBLL_Insert_After; no neighbour means the end of the list.
DBLL_Insert_After(l, e, neighbour) ==
  LET n == IF neighbour = NULL THEN l.last ELSE neighbour
  IN  IF n = NULL THEN Alone(l, e)
      ELSE [l EXCEPT !.next = [@ EXCEPT ![e] = l.next[n], ![n] = e],
                     !.prev = IF l.next[n] = NULL THEN [@ EXCEPT ![e] = n]
                              ELSE [@ EXCEPT ![e] = n, ![l.next[n]] = e],
                     !.last = IF l.next[n] = NULL THEN e ELSE @,
                     !.count = @ + 1]

\* DBLL_Insert_Before; no neighbour means the front of the list.
DBLL_Insert_Before(l, e, neighbour) ==
  LET n == IF neighbour = NULL THEN l.first ELSE neighbour
  IN  IF n = NULL THEN Alone(l, e)
      ELSE [l EXCEPT !.prev = [@ EXCEPT ![e] = l.prev[n], ![n] = e],
                     !.next = IF l.prev[n] = NULL THEN [@ EXCEPT ![e] = n]
                              ELSE [@ EXCEPT ![e] = n, ![l.prev[n]] = e],
                     !.first = IF l.prev[n] = NULL THEN e ELSE @,
                     !.count = @ + 1]

DBLL_Remove_Entry(l, e) ==
  LET p == l.prev[e]
      n == l.next[e]
  IN  [l EXCEPT !.first = IF p = NULL THEN n ELSE @,
                !.last = IF n = NULL THEN p ELSE @,
                !.next = IF p = NULL THEN [@ EXCEPT ![e] = NULL]
                         ELSE [@ EXCEPT ![e] = NULL, ![p] = n],
                !.prev = IF n = NULL THEN [@ EXCEPT ![e] = NULL]
                         ELSE [@ EXCEPT ![e] = NULL, ![n] = p],
                !.count = @ - 1]

\* Do_Ordered_Insert over DBLL_Visit_Each: before the first that is not less.
Ordered_Insert(l, e) ==
  LET larger == SelectSeq(Forward(l), LAMBDA x : Key[e] <= Key[x])
  IN  IF larger = << >> THEN DBLL_Insert_After(l, e, l.last)
      ELSE DBLL_Insert_Before(l, e, Head(larger))

\* DBLL_Add_Entry with a compare callback.
DBLL_Add_Entry(l, e) ==
  IF l.first = NULL THEN DBLL_Insert_After(l, e, NULL) ELSE Ordered_Insert(l, e)

(* DBLL_Visit_Each with a callback that removes the entries of a set: the   *)
(* link to the next entry is read before the call.                          *)
Visitor(l) == [list |-> l, at |-> l.first, seen |-> << >>]

Visit(v, removed) ==
  LET after == IF v.at \in removed THEN DBLL_Remove_Entry(v.list, v.at) ELSE v.list
  IN  [list |-> after, at |-> v.list.next[v.at], seen |-> Append(v.seen, v.at)]

DBLL_Visit_Each(l, removed) ==
  LET nth[n \in Nat] == IF n = 0 THEN Visitor(l)
                        ELSE IF nth[n - 1].at = NULL THEN nth[n - 1]
                        ELSE Visit(nth[n - 1], removed)
  IN  nth[Len(SetToSeq(Entries)) + 1]

-----------------------------------------------------------------------------
Init == dbll = Empty

\* Where an explicit insertion keeps the order, which the code only asserts.
Fits(e, left, right) == /\ left # NULL => Key[left] <= Key[e]
                        /\ right # NULL => Key[e] <= Key[right]

Next ==
  \/ \E e \in Entries \ In(dbll) :
       \/ dbll' = DBLL_Add_Entry(dbll, e)
       \/ \E n \in In(dbll) : Fits(e, n, dbll.next[n])
                              /\ dbll' = DBLL_Insert_After(dbll, e, n)
       \/ \E n \in In(dbll) : Fits(e, dbll.prev[n], n)
                              /\ dbll' = DBLL_Insert_Before(dbll, e, n)
       \/ Fits(e, dbll.last, NULL) /\ dbll' = DBLL_Insert_After(dbll, e, NULL)
       \/ Fits(e, NULL, dbll.first) /\ dbll' = DBLL_Insert_Before(dbll, e, NULL)
  \/ \E e \in In(dbll) : dbll' = DBLL_Remove_Entry(dbll, e)
  \/ \E removed \in SUBSET In(dbll) : dbll' = DBLL_Visit_Each(dbll, removed).list
  \/ dbll' = Empty   \* DBLL_Destroy: the entries have been freed

Spec == Init /\ [][Next]_vars

-----------------------------------------------------------------------------
(* WellLinked: the list reads the same from both ends, counts its entries,  *)
(* holds none twice and is in the order of the compare callback.            *)
WellLinked ==
  LET forward == Forward(dbll)
  IN  /\ Walk(dbll.prev, dbll.last) = Reverse(forward)
      /\ dbll.count = Len(forward) /\ IsInjective(forward)
      /\ \A i \in 1 .. Len(forward) - 1 : Key[forward[i]] <= Key[forward[i + 1]]

(* VisitSeesAll: whichever entries the callback removes on the way, a visit *)
(* reaches every entry that was in the list, once, and leaves the others.   *)
VisitSeesAll ==
  \A removed \in SUBSET In(dbll) :
    LET v == DBLL_Visit_Each(dbll, removed)
    IN  /\ v.seen = Forward(dbll)
        /\ Forward(v.list) = SelectSeq(Forward(dbll), LAMBDA e : e \notin removed)
=============================================================================
