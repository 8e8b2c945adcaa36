------------------------------- MODULE Semaph -------------------------------
(***************************************************************************)
(* esameSNP38/lib/semaph.c: System V semaphores made easy.  A set has three*)
(* members: [0] is the semaphore, [1] counts its users down from BIGCOUNT  *)
(* and [2] is a lock.  With SEM_UNDO the kernel takes back what a process  *)
(* that dies has done.  All processes use one key, and the semaphore for   *)
(* mutual exclusion: sem_wait(), then sem_signal().  A server may remove   *)
(* the set at any time with sem_rm(); here only sem_close() calls it.      *)
(***************************************************************************)
EXTENDS Integers, FiniteSets

CONSTANTS
  Users,
  InitVal,  \* the initial value they all pass
  BIGCOUNT  \* more than there are processes

VARIABLES
  live,   \* there is a set with this key
  val,    \* its values
  adj,    \* what the kernel adds to them when a process ends
  id,     \* the set each process has: "live", "removed" or "none"
  opened, \* whether it got it with sem_open()
  pc      \* the call each process makes next

vars == <<live, val, adj, id, opened, pc>>

Members == 0..2
Zero == [m \in Members |-> 0]

Init ==
  /\ live = FALSE /\ val = Zero /\ adj = [p \in Users |-> Zero]
  /\ id = [p \in Users |-> "none"] /\ opened = [p \in Users |-> FALSE]
  /\ pc = [p \in Users |-> "out"]

-----------------------------------------------------------------------------
(* The kernel *)

Go(p, from, to) == pc[p] = from /\ pc' = [pc EXCEPT ![p] = to]

\* semop() with SEM_UNDO on a set that is still there: d is added to the values.
Semop(p, d) ==
  /\ id[p] = "live"
  /\ \A m \in Members : val[m] + d[m] >= 0
  /\ val' = [m \in Members |-> val[m] + d[m]]
  /\ adj' = [adj EXCEPT ![p] = [m \in Members |-> @[m] - d[m]]]
  /\ UNCHANGED <<live, id, opened>>

Delta(d0, d1, d2) == [m \in Members |-> CASE m = 0 -> d0 [] m = 1 -> d1 [] m = 2 -> d2]

\* A plausible error in the call: no SEM_UNDO.
SemopNoUndo(p, d) ==
  /\ id[p] = "live"
  /\ \A m \in Members : val[m] + d[m] >= 0
  /\ val' = [m \in Members |-> val[m] + d[m]]
  /\ UNCHANGED <<adj, live, id, opened>>

\* SETVAL clears the adjustments of all processes for the member.
Setval(m, v) ==
  /\ val' = [val EXCEPT ![m] = v]
  /\ adj' = [p \in Users |-> [adj[p] EXCEPT ![m] = 0]]
  /\ UNCHANGED <<live, id, opened>>

\* The process ends, and its adjustments are added.
Undo(p, to) ==
  /\ val' = [m \in Members |-> IF val[m] + adj[p][m] < 0 THEN 0 ELSE val[m] + adj[p][m]]
  /\ adj' = [adj EXCEPT ![p] = Zero]
  /\ id' = [id EXCEPT ![p] = "none"] /\ opened' = [opened EXCEPT ![p] = FALSE]
  /\ pc' = [pc EXCEPT ![p] = to]
  /\ UNCHANGED live

-----------------------------------------------------------------------------
(* sem_create() *)

\* semget(IPC_CREAT)
CreateGet(p) ==
  /\ Go(p, "out", "lock") \/ Go(p, "again", "lock")
  /\ live' = TRUE
  /\ val' = IF live THEN val ELSE Zero
  /\ id' = [id EXCEPT ![p] = "live"]
  /\ UNCHANGED <<adj, opened>>

LockNoUndo(p) ==
  /\ Go(p, "lock", "getval") \/ Go(p, "waiting", "getval")
  /\ val[2] = 0 /\ SemopNoUndo(p, Delta(0, 0, 1))

Lock(p) ==
  /\ Go(p, "lock", "getval") \/ Go(p, "waiting", "getval")
  /\ val[2] = 0 /\ Semop(p, Delta(0, 0, 1))

\* semop() blocks.
LockWaits(p) ==
  /\ Go(p, "lock", "waiting") /\ id[p] = "live" /\ val[2] # 0
  /\ UNCHANGED <<live, val, adj, id, opened>>

\* The set was removed before semop() was called: EINVAL ...
LockInvalid(p) ==
  /\ Go(p, "lock", "again") /\ id[p] = "removed"
  /\ id' = [id EXCEPT ![p] = "none"]
  /\ UNCHANGED <<live, val, adj, opened>>

\* ... or while it waited for the lock: EIDRM, which ends the process.
LockRemoved(p) == pc[p] = "waiting" /\ id[p] = "removed" /\ Undo(p, "failed_create")

GetVal(p) ==
  /\ Go(p, "getval", IF val[1] = 0 THEN "set0" ELSE "endcreate")
  /\ UNCHANGED <<live, val, adj, id, opened>>

Set0(p) == Go(p, "set0", "set1") /\ Setval(0, InitVal)
Set1(p) == Go(p, "set1", "endcreate") /\ Setval(1, BIGCOUNT)

EndCreate(p) == Go(p, "endcreate", "in") /\ Semop(p, Delta(0, -1, -1))

-----------------------------------------------------------------------------
(* sem_open(): it returns -1 if there is no set. *)

OpenGet(p) ==
  /\ Go(p, "out", "open") /\ live
  /\ id' = [id EXCEPT ![p] = "live"] /\ opened' = [opened EXCEPT ![p] = TRUE]
  /\ UNCHANGED <<live, val, adj>>

\* It waits while [1] is 0, and for no lock.
Open(p) == Go(p, "open", "in") /\ Semop(p, Delta(0, -1, 0))

-----------------------------------------------------------------------------
(* sem_wait() and sem_signal() *)

Wait(p) == Go(p, "in", "inside") /\ Semop(p, Delta(-1, 0, 0))
Signal(p) == Go(p, "inside", "in") /\ Semop(p, Delta(1, 0, 0))

-----------------------------------------------------------------------------
(* sem_close() *)

\* A plausible error: the count is read without the lock.
CloseUnlocked(p) == Go(p, "in", "closeval") /\ Semop(p, Delta(0, 1, 1))

Close(p) == Go(p, "in", "closeval") /\ val[2] = 0 /\ Semop(p, Delta(0, 1, 1))

CloseVal(p) ==
  /\ val[1] <= BIGCOUNT
  /\ Go(p, "closeval", IF val[1] = BIGCOUNT THEN "rm" ELSE "unlock")
  /\ UNCHANGED <<live, val, adj, id, opened>>

\* IPC_RMID: the adjustments go with the set.
Rm(p) ==
  /\ Go(p, "rm", "out")
  /\ live' = FALSE /\ val' = Zero /\ adj' = [q \in Users |-> Zero]
  /\ id' = [q \in Users |-> IF q # p /\ id[q] # "none" THEN "removed" ELSE "none"]
  /\ opened' = [opened EXCEPT ![p] = FALSE]

Unlock(p) ==
  /\ Go(p, "unlock", "out")
  /\ val' = [val EXCEPT ![2] = @ - 1] /\ adj' = [adj EXCEPT ![p] = Zero]
  /\ id' = [id EXCEPT ![p] = "none"] /\ opened' = [opened EXCEPT ![p] = FALSE]
  /\ UNCHANGED live

-----------------------------------------------------------------------------

\* err_sys() in any other call on a set that is gone, and err_dump() on a
\* count above BIGCOUNT.
Fail(p) ==
  /\ \/ pc[p] \in {"open", "in", "inside"} /\ id[p] = "removed"
     \/ pc[p] = "closeval" /\ val[1] > BIGCOUNT
  /\ Undo(p, "failed")

Kill(p) == pc[p] \notin {"out", "failed", "failed_create"} /\ Undo(p, "out")

Restart(p) ==
  /\ pc[p] \in {"failed", "failed_create"} /\ pc' = [pc EXCEPT ![p] = "out"]
  /\ UNCHANGED <<live, val, adj, id, opened>>

\* What a process does once it has the lock.
Locked(p) == \/ GetVal(p) \/ Set0(p) \/ Set1(p) \/ EndCreate(p)
             \/ CloseVal(p) \/ Rm(p) \/ Unlock(p)

Process(p) ==
  \/ CreateGet(p) \/ Lock(p) \/ LockWaits(p) \/ LockInvalid(p) \/ LockRemoved(p) \/ Locked(p)
  \/ OpenGet(p) \/ Open(p) \/ Wait(p) \/ Signal(p) \/ Close(p)
  \/ Fail(p) \/ Kill(p) \/ Restart(p)

Next == \E p \in Users : Process(p)

(* A process that has the lock goes on, or is killed; one that waits for   *)
(* it is not passed over for ever.                                         *)
Fairness ==
  \A p \in Users : /\ WF_vars(Locked(p)) /\ SF_vars(Lock(p))
                   /\ WF_vars(LockInvalid(p) \/ LockRemoved(p) \/ Fail(p))

Spec == Init /\ [][Next]_vars /\ Fairness

-----------------------------------------------------------------------------

TypeOK ==
  /\ live \in BOOLEAN /\ val \in [Members -> Nat] /\ adj \in [Users -> [Members -> -1..1]]
  /\ id \in [Users -> {"live", "removed", "none"}] /\ opened \in [Users -> BOOLEAN]
  /\ pc \in [Users -> {"out", "again", "lock", "waiting", "getval", "set0", "set1", "endcreate", "open", "in",
                       "inside", "closeval", "rm", "unlock", "failed", "failed_create"}]
  /\ \A p \in Users :
       /\ id[p] = "live" => live
       /\ pc[p] \in {"getval", "set0", "set1", "endcreate", "closeval", "rm", "unlock"} => id[p] = "live"

Using == {p \in Users : id[p] = "live" /\ pc[p] \in {"in", "inside"}}
Holding == {p \in Using : pc[p] = "inside"}

\* Once the set is initialised [1] is BIGCOUNT less its users and [0] what the
\* holders leave, whoever was killed and wherever; no set is initialised twice.
Counted ==
  live /\ val[1] # 0 =>
    /\ val[1] = BIGCOUNT - Cardinality(Using)
    /\ val[0] = InitVal - Cardinality(Holding)

\* The last user removes the set, and nobody else: only sem_open(), which
\* takes no lock, can slip in between the count and the removal.
RemovedUnused ==
  \A p \in Users : id[p] = "removed" /\ pc[p] \in {"in", "inside"} => opened[p]

\* The lock is released, also by a process that dies: a create that waits for
\* it gets it, or hears that the set is gone.
LockComes == \A p \in Users : []<>(pc[p] # "waiting")

\* What a comment of sem_create() says: a set that is removed before it is
\* locked is created again, and the call does not fail.
CreateSurvives == \A p \in Users : pc[p] # "failed_create"
=============================================================================
