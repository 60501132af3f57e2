------------------------------ MODULE BlockList ------------------------------
(***************************************************************************)
(* The block list of bb_block_list: a list of pointers in blocks of equal  *)
(* size.  A cached position (d_cur_block, d_cur_block_index) is where the  *)
(* next access starts to walk; every operation moves it, and the removal   *)
(* of a block must not leave it behind.  The list may own its items and    *)
(* free them.  A list of objects behaves like one that does not own them.  *)
(***************************************************************************)
EXTENDS Integers, Sequences, SequencesExt

CONSTANTS
  Items,    \* pointers the user adds
  NULL,     \* the null pointer
  PerBlock, \* values of items_per_block
  MaxItems  \* bound: length of the list

VARIABLE list   \* the struct blocklist, its blocks, and the items freed

vars == list

Max0(n) == IF n > 0 THEN n ELSE 0

\* create_blocklist; the blocks are a sequence, position 0 is the pointer nil;
\* holed is a history variable: null pointers were put among the items.
Created(per, kill) ==
  [block |-> << >>, cur |-> 0, index |-> -1, num |-> 0,
   per |-> per, kill |-> kill, freed |-> {}, holed |-> FALSE]

Init == \E per \in PerBlock, kill \in BOOLEAN : list = Created(per, kill)

(* The walk that blocklist_get and blocklist_replace begin with: from the   *)
(* first block if the cache is unset or may be too far, else from the cache.*)
Seek(l, i) ==
  LET unset == l.cur = 0 \/ l.index < 0 \/ i <= l.index * l.per
      steps == Max0((i \div l.per) - (IF unset THEN 0 ELSE l.index))
  IN  [l EXCEPT !.cur = (IF unset THEN 1 ELSE @) + steps,
                !.index = (IF unset THEN 0 ELSE @) + steps]

\* The item the position and the index select; a wrong position shows here.
At(l, i) == IF l.cur \in DOMAIN l.block THEN l.block[l.cur][i % l.per] ELSE NULL

Freed(l, item) == IF item = NULL THEN l ELSE [l EXCEPT !.freed = @ \cup {item}]

\* blocklist_get
blocklist_get(l, i) == LET at == Seek(l, i) IN [list |-> at, item |-> At(at, i)]

\* blocklist_replace, and blocklist_set, which frees what it overwrites.
blocklist_replace(l, item, i, free) ==
  LET at == Seek(l, i)
      set == [at EXCEPT !.block[at.cur][i % l.per] = item]
  IN  IF free /\ l.kill /\ At(at, i) # item THEN Freed(set, At(at, i)) ELSE set

-----------------------------------------------------------------------------
\* blocklist_add and its helpers; the allocation of a block may fail.

NewBlock(l, item) ==
  [l EXCEPT !.block = Append(@, [k \in 0 .. l.per - 1 |-> IF k = 0 THEN item ELSE NULL]),
            !.cur = Len(l.block) + 1, !.index = @ + 1, !.num = @ + 1]

ToLastBlock(l) ==
  LET unset == l.cur = 0 \/ l.index < 0
  IN  [l EXCEPT !.cur = Len(l.block),
                !.index = IF unset THEN Len(l.block) - 1
                          ELSE @ + (Len(l.block) - l.cur)]

blocklist_add(l, item) ==
  IF l.num = 0 THEN NewBlock([l EXCEPT !.block = << >>], item)
  ELSE LET last == ToLastBlock(l)
       IN  IF l.num % l.per = 0 THEN NewBlock(last, item)
           ELSE [last EXCEPT !.block[last.cur][l.num % l.per] = item, !.num = @ + 1]

AddFails(l) == IF l.num = 0 THEN [l EXCEPT !.block = << >>] ELSE ToLastBlock(l)

-----------------------------------------------------------------------------
\* Shifting items by one place, one get and one replace for each.

(* The loops of blocklist_delete_item, _move_downward and _move_upward: the *)
(* item behind (d = 1) or before (d = -1) takes the place; a null pointer   *)
(* is not copied.                                                           *)
Shift(l, from, n, d) ==
  LET nth[k \in Nat] ==
        IF k = 0 THEN l
        ELSE LET i == from + d * (k - 1)
                 g == blocklist_get(nth[k - 1], i + d)
             IN  IF g.item = NULL THEN g.list ELSE blocklist_replace(g.list, g.item, i, FALSE)
  IN  nth[n]

(* blocklist_delete_last_block: the cached block, or the one behind it.     *)
DeleteLastBlock(l) ==
  LET gone == IF l.cur < Len(l.block) THEN l.cur + 1 ELSE l.cur
  IN  [l EXCEPT !.block = SubSeq(@, 1, gone - 1), !.cur = 0, !.index = -1]

\* blocklist_remove, blocklist_delete_item
blocklist_remove(l, i) ==
  LET g == blocklist_get(l, i)
      last == l.num - 1
      shifted == Shift(g.list, i, last - i, 1)
      cut == IF last % l.per = 0 THEN DeleteLastBlock(shifted)
             ELSE blocklist_replace(shifted, NULL, last, FALSE)
  IN  [(IF l.kill THEN Freed(cut, g.item) ELSE cut) EXCEPT !.num = @ - 1]

\* blocklist_move, blocklist_move_item
blocklist_move(l, from, to) ==
  LET g == blocklist_get(l, from)
      shifted == IF from < to THEN Shift(g.list, from, to - from, 1)
                 ELSE Shift(g.list, from, from - to, -1)
  IN  IF g.item = NULL THEN shifted ELSE blocklist_replace(shifted, g.item, to, FALSE)

\* blocklist_kill_contents
blocklist_kill_contents(l) ==
  IF ~ l.kill THEN l
  ELSE [l EXCEPT
         !.freed = @ \cup ({l.block[b][k] : b \in DOMAIN l.block, k \in 0 .. l.per - 1}
                           \ {NULL}),
         !.block = [b \in DOMAIN @ |-> [k \in 0 .. l.per - 1 |-> NULL]],
         !.cur = 0, !.index = -1, !.holed = @ \/ l.num > 0]

-----------------------------------------------------------------------------
Contents(l) == [n \in 1 .. l.num |-> l.block[((n - 1) \div l.per) + 1][(n - 1) % l.per]]

Indices == 0 .. list.num - 1

Unused == Items \ {Contents(list)[n] : n \in 1 .. list.num}

\* The allocator may hand the address of a freed item out again.
Next ==
  \/ \E p \in Unused : \/ list.num < MaxItems /\ list' = [blocklist_add(list, p) EXCEPT !.freed = @ \ {p}]
                       \/ \E i \in Indices :
                            list' = [blocklist_replace(list, p, i, TRUE) EXCEPT !.freed = @ \ {p}]
  \/ (list.num % list.per = 0 /\ list' = AddFails(list))
  \/ \E i \in Indices :
       \/ list' = blocklist_get(list, i).list
       \/ list' = blocklist_remove(list, i)
       \/ \E j \in Indices \ {i} : list' = blocklist_move(list, i, j)
  \/ list' = blocklist_kill_contents(list)
  \/ list' = Created(list.per, list.kill)    \* dispose_blocklist, created anew

Spec == Init /\ [][Next]_vars

-----------------------------------------------------------------------------
Whole(l) == \A n \in 1 .. l.num : Contents(l)[n] # NULL

(* BehavesAsSequence: from every position of the cache, every operation has *)
(* the effect it has on a plain sequence, as long as the list holds no null *)
(* pointer.                                                                 *)
BehavesAsSequence ==
  Whole(list) =>
    \A i \in Indices :
      /\ blocklist_get(list, i).item = Contents(list)[i + 1]
      /\ Contents(blocklist_remove(list, i)) = RemoveAt(Contents(list), i + 1)
      /\ \A j \in Indices \ {i} :
           Contents(blocklist_move(list, i, j))
             = InsertAt(RemoveAt(Contents(list), i + 1), j + 1, Contents(list)[i + 1])

(* ItemsAreLive: no item of a list that never held a null pointer has been  *)
(* freed, and the list has just the blocks its items need: an owning list   *)
(* neither hands out dead memory nor keeps a block too many.                *)
ItemsAreLive ==
  /\ Len(list.block) = (list.num + list.per - 1) \div list.per
  /\ ~ list.holed => \A n \in 1 .. list.num : Contents(list)[n] \notin list.freed
=============================================================================
