---------------------------- MODULE SharedMemory -----------------------------
(***************************************************************************)
(* A named area of shared memory on POSIX (full/xsal_*_shared_memory.c).   *)
(* One process creates and owns it, others open it, and nobody tells the   *)
(* one that its name is visible before it has a size, or the others that   *)
(* the owner is gone.  The path is a function of key and subkey, so one    *)
(* name stands for them all.                                               *)
(***************************************************************************)
EXTENDS Integers

CONSTANTS
  Processes,   \* the processes that call
  Objects,     \* bound: objects the system has room for, numbers from 1 on
  Sizes,       \* sizes the creators ask for, positive
  None         \* no object

VARIABLE shm   \* the name, the objects and the processes

vars == shm

Closed == [pc |-> "closed", object |-> None, size |-> 0, owner |-> FALSE, writes |-> FALSE]

(* size: that of each object; used: objects that had the name; rival: a     *)
(* process created the area although another one had it; crashed: one ended *)
(* without closing it; shrunk: an object was truncated below a size that    *)
(* another process had seen of it.                                          *)
Init ==
  shm = [name |-> None, size |-> [o \in Objects |-> 0], used |-> 0,
         proc |-> [p \in Processes |-> Closed],
         rival |-> FALSE, crashed |-> FALSE, shrunk |-> FALSE]

At(p, pc) == shm.proc[p].pc = pc
Open(p) == At(p, "open")
Owning(p) == shm.proc[p].owner

-----------------------------------------------------------------------------
(* SAL_Create_Shared_Memory                                                *)

\* shm_open with O_CREAT: an object that has the name already is taken over.
CreateOpen(p, size, writes) ==
  /\ At(p, "closed")
  /\ shm.name = None => shm.used + 1 \in Objects
  /\ LET o == IF shm.name = None THEN shm.used + 1 ELSE shm.name
         creator == [pc |-> "truncate", object |-> o, size |-> size,
                     owner |-> TRUE, writes |-> writes]
     IN  shm' = [shm EXCEPT !.name = o, !.used = IF shm.name = None THEN o ELSE @,
                            !.proc[p] = creator,
                            !.rival = @ \/ \E q \in Processes : Owning(q)]

(* ftruncate needs a descriptor for writing: a creation in the read-only    *)
(* mode, which xsal.h:1145 describes, can only fail.                        *)
Truncate(p) ==
  /\ At(p, "truncate") /\ shm.proc[p].writes
  /\ LET o == shm.proc[p].object  n == shm.proc[p].size IN
     shm' = [shm EXCEPT !.proc[p].pc = "map", !.size[o] = n,
                        !.shrunk = @ \/ \E q \in Processes \ {p} :
                             /\ shm.proc[q].pc \in {"map", "view", "open"}
                             /\ shm.proc[q].object = o /\ shm.proc[q].size > n]

Mapped(p) ==
  /\ At(p, "map")
  /\ shm' = [shm EXCEPT !.proc[p].pc = "open"]

\* ftruncate or mmap fails: the descriptor is closed; the name goes next.
CreateFails(p) ==
  /\ At(p, "truncate") \/ At(p, "map")
  /\ shm' = [shm EXCEPT !.proc[p].pc = "unlink"]

\* shm_unlink, whichever object has the name now; it is the last step of a close, too.
Unlink(p) ==
  /\ At(p, "unlink")
  /\ shm' = [shm EXCEPT !.proc[p] = Closed, !.name = None]

-----------------------------------------------------------------------------
(* SAL_Open_Shared_Memory                                                  *)

OpenOpen(p) ==
  /\ At(p, "closed") /\ shm.name # None
  /\ shm' = [shm EXCEPT !.proc[p] = [Closed EXCEPT !.pc = "stat", !.object = shm.name]]

Stat(p) ==
  /\ At(p, "stat")
  /\ shm' = [shm EXCEPT !.proc[p].pc = "view", !.proc[p].size = shm.size[shm.proc[p].object]]

\* mmap of no bytes fails; another one may.
Viewed(p) ==
  /\ At(p, "view") /\ shm.proc[p].size > 0
  /\ shm' = [shm EXCEPT !.proc[p].pc = "open"]

OpenFails(p) ==
  /\ At(p, "stat") \/ At(p, "view")
  /\ shm' = [shm EXCEPT !.proc[p] = Closed]

-----------------------------------------------------------------------------
\* SAL_Close_Shared_Memory, up to the unlink of the owner.
Close(p) ==
  /\ Open(p)
  /\ shm' = IF Owning(p) THEN [shm EXCEPT !.proc[p].pc = "unlink"]
            ELSE [shm EXCEPT !.proc[p] = Closed]

\* The process ends; the system closes what it had open.
Crash(p) ==
  /\ ~ At(p, "closed")
  /\ shm' = [shm EXCEPT !.proc[p] = Closed, !.crashed = TRUE]

Next ==
  \E p \in Processes :
    \/ \E size \in Sizes, writes \in BOOLEAN : CreateOpen(p, size, writes)
    \/ Truncate(p) \/ Mapped(p) \/ CreateFails(p) \/ Unlink(p)
    \/ OpenOpen(p) \/ Stat(p) \/ Viewed(p) \/ OpenFails(p)
    \/ Close(p) \/ Crash(p)

Spec == Init /\ [][Next]_vars

-----------------------------------------------------------------------------
(* OwnerIsFound: from the first step of its creation to the last but one of *)
(* its close, the area of the only owner is the one that others would open, *)
(* whatever was left by owners before (xsal_create_shared_memory.c:61,      *)
(* xsal_close_shared_memory.c:72).                                          *)
OwnerIsFound ==
  ~ shm.rival => \A p \in Processes : Owning(p) => shm.name = shm.proc[p].object

(* MapsAreBacked: a process that opened the area can use all the bytes its  *)
(* handle says, although the name is there before the size                  *)
(* (xsal_open_shared_memory.c:63), until a later owner makes the object     *)
(* smaller.                                                                 *)
MapsAreBacked ==
  ~ shm.shrunk => \A p \in Processes :
    Open(p) => shm.proc[p].size \in 1 .. shm.size[shm.proc[p].object]

(* ClosedIsGone: without a crash no name outlives its owner, so that nobody *)
(* opens an area that has none (xsal_close_shared_memory.c:67).             *)
ClosedIsGone ==
  shm.name # None /\ ~ shm.crashed => \E p \in Processes : Owning(p)
=============================================================================
