---------------------------- MODULE SharedMutex ----------------------------
(***************************************************************************)
(* esameSNP14: a mutex in shared memory.  primo.c built without SYSV and   *)
(* POSIX makes the mutex in anonymous memory and forks; built with one of  *)
(* them primo and secondo (secondo.c) are programs of their own that find  *)
(* the mutex by name, and may be started and killed at any time.  Each     *)
(* takes the mutex, prints the text in the shared memory and puts its own  *)
(* in its place, for ever.                                                 *)
(***************************************************************************)

Versions == {"family", "SYSV", "POSIX"}
Procs == {"primo", "secondo"}   \* or parent and child
Other(p) == IF p = "primo" THEN "secondo" ELSE "primo"

Free == "free"

VARIABLES
  version,
  sized,     \* the object of the mutex has a size
  owner,     \* who holds the mutex, Free, or "dead" when the holder died
  at,        \* where each process stands
  clobbered  \* the mutex was initialised while somebody was at it

vars == <<version, sized, owner, at, clobbered>>

Init ==
  /\ version \in Versions
  /\ sized = (version = "family") /\ owner = Free
  /\ at = [p \in Procs |-> IF version = "family" /\ p = "primo" THEN "init" ELSE "off"]
  /\ clobbered = FALSE

Go(p, from, to) == at[p] = from /\ at' = [at EXCEPT ![p] = to]

Inside == {"print", "copy", "unlock"}

-----------------------------------------------------------------------------

\* main() of the two unrelated programs, which need each other no more than
\* their order of starting does.
Start(p) ==
  /\ version # "family"
  /\ Go(p, "off", "open")
  /\ UNCHANGED <<version, sized, owner, clobbered>>

\* shmget() gives the size, shm_open() does not: primo has ftruncate() for it,
\* secondo has not.
Open(p) ==
  /\ Go(p, "open", IF p = "primo" THEN "init" ELSE "lock")
  /\ sized' = (sized \/ version = "SYSV" \/ p = "primo")
  /\ UNCHANGED <<version, owner, clobbered>>

\* pthread_mutex_init(), at every start; in the family fork() follows it.  A
\* process that sleeps on the mutex may never be woken again: its mark is gone.
InitMutex(p) ==
  /\ p = "primo" /\ at["primo"] = "init"
  /\ \E other \in IF version = "family" THEN {"lock"}
                 ELSE IF at[Other(p)] = "lock" /\ owner # Free THEN {"lock", "lost"}
                 ELSE {at[Other(p)]} :
       at' = [q \in Procs |-> IF q = p THEN "lock" ELSE other]
  /\ owner' = Free
  /\ clobbered' = (clobbered \/ at[Other(p)] \in Inside)
  /\ UNCHANGED <<version, sized>>

\* Memory of zeros is a mutex that is free.
Lock(p) ==
  /\ sized /\ owner = Free
  /\ Go(p, "lock", "print")
  /\ owner' = p
  /\ UNCHANGED <<version, sized, clobbered>>

\* The object of the mutex has no page there: SIGBUS.
Fault(p) ==
  /\ ~sized /\ Go(p, "lock", "off")
  /\ UNCHANGED <<version, sized, owner, clobbered>>

\* A plausible error: the text is copied after the unlock.
ShowUnlocks(p) ==
  /\ Go(p, "print", "copy")
  /\ owner' = Free
  /\ UNCHANGED <<version, sized, clobbered>>

\* write()
Show(p) == Go(p, "print", "copy") /\ UNCHANGED <<version, sized, owner, clobbered>>

\* strcpy()
Copy(p) == Go(p, "copy", "unlock") /\ UNCHANGED <<version, sized, owner, clobbered>>

\* A plausible error: a way through the loop without unlock.
UnlockForgotten(p) == Go(p, "unlock", "sleep") /\ UNCHANGED <<version, sized, owner, clobbered>>

\* The mutex is free afterwards, whoever holds it.
Unlock(p) ==
  /\ Go(p, "unlock", "sleep")
  /\ owner' = Free
  /\ UNCHANGED <<version, sized, clobbered>>

Sleep(p) == Go(p, "sleep", "lock") /\ UNCHANGED <<version, sized, owner, clobbered>>

\* The mutex is not a robust one.
Kill(p) ==
  /\ at[p] # "off" /\ ~(version = "family" /\ at[p] = "init")
  /\ at' = [at EXCEPT ![p] = "off"]
  /\ owner' = IF owner = p THEN "dead" ELSE owner
  /\ UNCHANGED <<version, sized, clobbered>>

Process(p) == \/ Open(p) \/ InitMutex(p) \/ Lock(p) \/ Fault(p)
              \/ Show(p) \/ Copy(p) \/ Unlock(p) \/ Sleep(p)

Next == \E p \in Procs : Start(p) \/ Process(p) \/ Kill(p)

(* Both sleep three seconds between two uses: neither is passed over for   *)
(* ever.  Nobody need start a program or kill one.                         *)
Fairness == \A p \in Procs : WF_vars(Process(p)) /\ SF_vars(Lock(p))

Spec == Init /\ [][Next]_vars /\ Fairness

-----------------------------------------------------------------------------

TypeOK ==
  /\ version \in Versions /\ sized \in BOOLEAN /\ clobbered \in BOOLEAN
  /\ owner \in Procs \union {Free, "dead"}
  /\ at \in [Procs -> Inside \union {"off", "open", "init", "lock", "lost", "sleep"}]

\* Parent and child are never both at the text, and two programs only after
\* primo was started while secondo was: the mutex is primo's to initialise.
\* Until then the mutex tells who is inside.
Exclusive ==
  ~clobbered =>
    \A p \in Procs : at[p] \in Inside => owner = p /\ at[Other(p)] \notin Inside

\* A process that waits gets its turn, unless one was killed inside: then
\* nobody does, until primo is started again, which may cost one that waits
\* its turn for ever.
TurnComes == \A p \in Procs : []<>(at[p] # "lock" \/ owner = "dead")
=============================================================================
