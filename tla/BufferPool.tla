------------------------------ MODULE BufferPool -----------------------------
(***************************************************************************)
(* The buffer pools of XSAL (common/xsal_*buffer*.c).  A pool is one block *)
(* of memory cut in buffers of equal size.  A free buffer holds, in the    *)
(* first word the user would see, the index of the next free one; the      *)
(* header of the pool holds the index of the first.  The link shares its   *)
(* memory with the data of the user, so the list is only as good as the    *)
(* discipline that keeps the two apart.  Every operation runs under the    *)
(* mutex of its pool (creation under the mutex of the table) and is one    *)
(* action.                                                                 *)
(***************************************************************************)
EXTENDS Integers

CONSTANTS
  Pools,        \* 0 .. SAL_I_Max_Number_Of_Buffer_Pools - 1
  Sizes,        \* numbers of buffers a pool is created with
  Payload,      \* what a user writes over the first word of its buffer
  None          \* a pool without memory (buffer == NULL)

VARIABLE pool   \* SAL_I_Buffer_Pools_Tab: [Pools -> header and memory]

vars == pool

NoBuffer == -1

(* A pool: its number of buffers, the first free one, the first word of     *)
(* every buffer, and the buffers that users hold.                           *)
Empty == [max |-> None, first |-> NoBuffer, word |-> <<>>, held |-> {}]

Init == pool = [p \in Pools |-> Empty]

HasMemory(p) == pool[p].max # None

Ids(p) == 0 .. pool[p].max - 1

(* SAL_Create_Buffer_Pool, SAL_I_Create_Buffer_Pool: the first unused entry *)
(* of the table; every buffer is linked to the next, the last one to none.  *)
Linked(n) == [max |-> n, first |-> 0, held |-> {},
              word |-> [i \in 0 .. n - 1 |-> IF i < n - 1 THEN i + 1 ELSE NoBuffer]]

Create(n) ==
  \E p \in Pools :
    /\ ~ HasMemory(p) /\ \A q \in Pools : q < p => HasMemory(q)
    /\ pool' = [pool EXCEPT ![p] = Linked(n)]

\* SAL_Alloc_Buffer: the head of the list, whose successor is in its memory.
Alloc(p) ==
  /\ HasMemory(p) /\ pool[p].first # NoBuffer
  /\ pool' = [pool EXCEPT ![p].first = pool[p].word[pool[p].first],
                          ![p].held = @ \cup {pool[p].first}]

\* The user writes to the buffer it holds.
Write(p, i) ==
  /\ i \in pool[p].held
  /\ pool' = [pool EXCEPT ![p].word[i] = Payload]

(* SAL_Free_Buffer: pool and index come from the hidden header; the buffer  *)
(* becomes the head of the list.                                            *)
\* Mutant: the head is replaced before the link to the old head is stored.
FreeLinksToItself(p, i) ==
  /\ i \in pool[p].held
  /\ pool' = [pool EXCEPT ![p].word[i] = i, ![p].first = i, ![p].held = @ \ {i}]

Free(p, i) ==
  /\ i \in pool[p].held
  /\ pool' = [pool EXCEPT ![p].word[i] = pool[p].first, ![p].first = i,
                          ![p].held = @ \ {i}]

\* SAL_Destroy_Buffer_Pool, SAL_I_Deinit_Buffer_Pools: the memory is released.
Destroy(p) == HasMemory(p) /\ pool' = [pool EXCEPT ![p] = Empty]

Deinit == pool' = [p \in Pools |-> Empty]

Next ==
  \/ \E n \in Sizes : Create(n)
  \/ \E p \in Pools : \/ Alloc(p) \/ Destroy(p)
                      \/ \E i \in pool[p].held : Write(p, i) \/ Free(p, i)
  \/ Deinit

Spec == Init /\ [][Next]_vars

-----------------------------------------------------------------------------
\* The first k buffers of the free list, as the next k allocations return it.
FreeList(p) ==
  LET nth[k \in Nat] == IF k = 0 THEN pool[p].first
                        ELSE IF nth[k - 1] \in Ids(p) THEN pool[p].word[nth[k - 1]]
                        ELSE NoBuffer
  IN  {nth[k] : k \in Ids(p)} \ {NoBuffer}

(* ListIsWhatIsFree: following the links from the header visits exactly the *)
(* buffers nobody holds, so no allocation returns a buffer that is in use,  *)
(* none reads user data as an index, none is lost, and after a destruction  *)
(* an allocation finds nothing.                                             *)
ListIsWhatIsFree ==
  \A p \in Pools :
    IF HasMemory(p) THEN FreeList(p) = Ids(p) \ pool[p].held
    ELSE pool[p].first = NoBuffer
=============================================================================
