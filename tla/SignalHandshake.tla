-------------------------- MODULE SignalHandshake --------------------------
(***************************************************************************)
(* esameSNP06: proc1 and proc2 share one character of memory.  Each has a  *)
(* mutex of its own; before it writes it locks it and sends SIGUSR1 to the *)
(* other process, whose signal thread then locks the other mutex until     *)
(* SIGUSR2 comes.  SIGINT stops a process, which passes it on.             *)
(* proc1 is started first (README) and creates the segment; it finds the   *)
(* pid of proc2 in shm_lpid, proc2 that of proc1 in shm_cpid.              *)
(***************************************************************************)
EXTENDS Naturals, FiniteSets

VARIABLES
  main,     \* where main stands in each process
  handler,  \* where thread_signal_handler stands
  holder,   \* who has mtx, the mutex of each process
  run,      \* the flag both loops test, 0 until main sets it
  found,    \* other_process # 0
  pending   \* signals pending for each process, at most one of a kind

shakeVars == <<main, handler, holder, run, found, pending>>

Procs == {"proc1", "proc2"}
Other(p) == IF p = "proc1" THEN "proc2" ELSE "proc1"
Signals == {"INT", "USR1", "USR2"}

ShakeInit ==
  /\ main = [p \in Procs |-> "start"]
  /\ handler = [p \in Procs |-> "none"]
  /\ holder = [p \in Procs |-> "none"]
  /\ run = [p \in Procs |-> FALSE]
  /\ found = [p \in Procs |-> FALSE]
  /\ pending = [p \in Procs |-> {}]

MainGoto(p, from, to) == main[p] = from /\ main' = [main EXCEPT ![p] = to]
HandlerGoto(p, from, to) == handler[p] = from /\ handler' = [handler EXCEPT ![p] = to]

\* kill(): a signal that is already pending is not counted twice, and one for
\* a process that is gone is lost.
Kill(q, sig) ==
  pending' = IF main[q] = "exited" THEN pending ELSE [pending EXCEPT ![q] = @ \union {sig}]

\* pthread_mutex_lock, also of a mutex the thread holds itself: it then blocks.
TakeMutex(p, thread) == holder[p] = "none" /\ holder' = [holder EXCEPT ![p] = thread]

\* pthread_mutex_unlock by a thread that does not hold the mutex is undefined:
\* it frees the mutex (glibc) or fails.
FreeMutex(p, thread) ==
  \/ holder' = [holder EXCEPT ![p] = "none"]
  \/ holder[p] # thread /\ holder' = holder

-----------------------------------------------------------------------------
(* main *)

\* shmget, shmat, pthread_create; proc2 is started while proc1 runs.
Start(p) ==
  /\ p = "proc2" => main["proc1"] \notin {"start", "exited"}
  /\ MainGoto(p, "start", "setrun")
  /\ HandlerGoto(p, "none", "check")
  /\ UNCHANGED <<holder, run, found, pending>>

\* run = 1, after the signal thread was created.
SetRun(p) ==
  /\ MainGoto(p, "setrun", "check")
  /\ run' = [run EXCEPT ![p] = TRUE]
  /\ UNCHANGED <<handler, holder, found, pending>>

CheckRun(p) ==
  /\ MainGoto(p, "check", IF ~run[p] THEN "join" ELSE IF found[p] THEN "lock" ELSE "find")
  /\ UNCHANGED <<handler, holder, run, found, pending>>

\* IPC_STAT: proc1 sees proc2 once it has attached the segment.
Find(p) ==
  /\ MainGoto(p, "find", "check")
  /\ found' = [found EXCEPT ![p] = p = "proc1" => main["proc2"] # "start"]
  /\ UNCHANGED <<handler, holder, run, pending>>

MainLock(p) ==
  /\ MainGoto(p, "lock", "usr1")
  /\ TakeMutex(p, "main")
  /\ UNCHANGED <<handler, run, found, pending>>

SendUsr1(p) ==
  /\ MainGoto(p, "usr1", "write")
  /\ Kill(Other(p), "USR1")
  /\ UNCHANGED <<handler, holder, run, found>>

\* The write, with a sleep before it, and its announcement.
SendUsr2(p) ==
  /\ MainGoto(p, "write", "unlock")
  /\ Kill(Other(p), "USR2")
  /\ UNCHANGED <<handler, holder, run, found>>

MainUnlock(p) ==
  /\ MainGoto(p, "unlock", "check")
  /\ FreeMutex(p, "main")
  /\ UNCHANGED <<handler, run, found, pending>>

\* pthread_join, shmdt and, in proc1, IPC_RMID; exit(0).
Join(p) ==
  /\ handler[p] = "done"
  /\ MainGoto(p, "join", "exited")
  /\ pending' = [pending EXCEPT ![p] = {}]
  /\ UNCHANGED <<handler, holder, run, found>>

Main(p) == \/ Start(p) \/ SetRun(p) \/ CheckRun(p) \/ Find(p) \/ MainLock(p)
           \/ SendUsr1(p) \/ SendUsr2(p) \/ MainUnlock(p) \/ Join(p)

-----------------------------------------------------------------------------
(* thread_signal_handler *)

HandlerCheck(p) ==
  /\ HandlerGoto(p, "check", IF run[p] THEN "sigwait" ELSE "done")
  /\ UNCHANGED <<main, holder, run, found, pending>>

Body(sig) == CASE sig = "INT"  -> "stop"
               [] sig = "USR1" -> "lock"
               [] sig = "USR2" -> "unlock"

\* A plausible error: the signals are taken in another order.
SigwaitAnyOrder(p) ==
  \E sig \in pending[p] :
    /\ HandlerGoto(p, "sigwait", Body(sig))
    /\ pending' = [pending EXCEPT ![p] = @ \ {sig}]
    /\ UNCHANGED <<main, holder, run, found>>

\* sigwait takes the pending signal with the lowest number.
Sigwait(p) ==
  \E sig \in pending[p] :
    /\ sig = "USR1" => "INT" \notin pending[p]
    /\ sig = "USR2" => pending[p] = {"USR2"}
    /\ HandlerGoto(p, "sigwait", Body(sig))
    /\ pending' = [pending EXCEPT ![p] = @ \ {sig}]
    /\ UNCHANGED <<main, holder, run, found>>

HandlerLock(p) ==
  /\ HandlerGoto(p, "lock", "check")
  /\ TakeMutex(p, "handler")
  /\ UNCHANGED <<main, run, found, pending>>

HandlerUnlock(p) ==
  /\ HandlerGoto(p, "unlock", "check")
  /\ FreeMutex(p, "handler")
  /\ UNCHANGED <<main, run, found, pending>>

\* SIGINT: run = 0 ...
StopRun(p) ==
  /\ HandlerGoto(p, "stop", "forward")
  /\ run' = [run EXCEPT ![p] = FALSE]
  /\ UNCHANGED <<main, holder, found, pending>>

\* ... kill(other_process, SIGINT), where 0 is the process group itself ...
Forward(p) ==
  /\ HandlerGoto(p, "forward", "release")
  /\ Kill(IF found[p] THEN Other(p) ELSE p, "INT")
  /\ UNCHANGED <<main, holder, run, found>>

\* A plausible error: the mutex is not released for a main that waits for it.
ReleaseForgotten(p) ==
  /\ HandlerGoto(p, "release", "check")
  /\ UNCHANGED <<main, holder, run, found, pending>>

\* ... and the mutex is released, whoever holds it.
Release(p) ==
  /\ HandlerGoto(p, "release", "check")
  /\ FreeMutex(p, "handler")
  /\ UNCHANGED <<main, run, found, pending>>

Handler(p) == \/ HandlerCheck(p) \/ Sigwait(p) \/ HandlerLock(p) \/ HandlerUnlock(p)
              \/ StopRun(p) \/ Forward(p) \/ Release(p)

\* The user sends SIGINT to a process whose signal thread can still take it.
Interrupt(p) ==
  /\ handler[p] \notin {"none", "done"}
  /\ Kill(p, "INT")
  /\ UNCHANGED <<main, handler, holder, run, found>>

ShakeNext == \E p \in Procs : Main(p) \/ Handler(p) \/ Interrupt(p)

(* Every thread of a running process keeps running, and a thread that waits *)
(* for a mutex which is released again and again gets it.  Nobody has to    *)
(* start proc2 or to send SIGINT.                                           *)
ShakeFairness == \A p \in Procs :
  /\ WF_shakeVars(main[p] # "start" /\ Main(p)) /\ WF_shakeVars(Handler(p))
  /\ SF_shakeVars(MainLock(p)) /\ SF_shakeVars(HandlerLock(p))

ShakeSpec == ShakeInit /\ [][ShakeNext]_shakeVars /\ ShakeFairness

-----------------------------------------------------------------------------

Writing(p) == main[p] = "write"

\* The variables keep their types, and a process has a signal thread from its
\* start on.
ShakeTypeOK ==
  /\ main \in [Procs -> {"start", "setrun", "check", "find", "lock", "usr1", "write",
                         "unlock", "join", "exited"}]
  /\ handler \in [Procs -> {"none", "check", "sigwait", "lock", "unlock", "stop",
                            "forward", "release", "done"}]
  /\ holder \in [Procs -> {"none", "main", "handler"}]
  /\ run \in [Procs -> BOOLEAN] /\ found \in [Procs -> BOOLEAN]
  /\ pending \in [Procs -> SUBSET Signals]
  /\ \A p \in Procs : handler[p] = "none" <=> main[p] = "start"

\* A signal thread that has the mutex, or is about to ask for it, can count on
\* a SIGUSR2: the other process is still to send it or it is pending, however
\* signals were merged.
ReleaseIsComing ==
  /\ ShakeTypeOK
  /\ \A p \in Procs :
       holder[p] = "handler" \/ handler[p] = "lock"
         => Writing(Other(p)) \/ "USR2" \in pending[p] \/ handler[p] = "unlock"

\* A process whose signal thread has taken SIGINT exits.
StopsAfterInt == \A p \in Procs : handler[p] = "forward" ~> main[p] = "exited"
=============================================================================
