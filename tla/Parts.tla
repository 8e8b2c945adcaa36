------------------------------- MODULE Parts -------------------------------
(***************************************************************************)
(* Programs and library routines that have nothing to do with each other,  *)
(* put side by side: part says which one a behaviour is about, and the     *)
(* others stay in one of their initial states.                             *)
(***************************************************************************)
EXTENDS Integers, Sequences, FiniteSets

CONSTANTS
  Clients, MaxKeys, MaxBytes, Cap,            \* SpeedServer, SpeedClient, PassFd
  Fds, Limits, INFINITY,                      \* Daemon
  Users, InitVal, BIGCOUNT,                   \* Semaph
  MAXLINE, Texts, Errors, Passed, Nothing,    \* PassFd
  Files, Twin, Length, NAME_MAX, PATH_MAX, MaxChanges,  \* FindStdin
  maxfd, Calls,                               \* Popen
  Meetings                                    \* TellWait

ASSUME PartsAssumption ==
  /\ "none" \notin Clients
  /\ MaxKeys \in Nat /\ MaxBytes \in Nat /\ Cap \in Nat \ {0}
  /\ Fds \subseteq Nat /\ Limits \subseteq Nat /\ INFINITY \in Limits
  /\ IsFiniteSet(Users) /\ InitVal \in Nat /\ BIGCOUNT \in Nat /\ Cardinality(Users) < BIGCOUNT
  /\ MAXLINE \in Nat /\ MAXLINE >= 2 /\ Texts \subseteq Nat /\ Errors \subseteq Int
  /\ {Passed, Nothing} \intersect Int = {} /\ Passed # Nothing
  /\ Nothing \notin [client : Clients, text : Nat]
  /\ Nothing \notin [answer : {Passed} \union Errors, all : Nat]
  /\ "stdin" \in Files /\ Twin \in Files \ {"stdin"} /\ Files \intersect {"/", "sub", "none"} = {}
  /\ NAME_MAX \in Nat /\ \A n \in DOMAIN Length : Length[n] \in 1..NAME_MAX
  /\ PATH_MAX \in Nat /\ PATH_MAX >= NAME_MAX + 3 /\ MaxChanges \in Nat
  /\ maxfd \in Nat /\ maxfd >= 3 /\ Calls \in Nat
  /\ Meetings \in Nat \ {0}

VARIABLES
  part,
  con, sent, up, down, peer, serverMain, sender, serverTaker, msg, speed, serverAlive,
  conn, came, connected, total, taker, taken, acc, meter, main, key, received, alive,
  version, sized, owner, mutexAt, clobbered,
  tty, found, save_termios, ttystate, mode, ttyAt, handler,
  stage, leader, terminal, sighup, fds, rlim_max,
  live, val, adj, id, opened, pc,
  server, bound, queue, job, meant, wire, passAt, name, passReceived, ret,
  entry, readable, stack, path, pathlen, walkPc, answer, calm, changes,
  popenFds, childpid, type, child, state, waits, calls,
  meetAt, blocked, pending, sigflag, told, met

serverVars == <<con, sent, up, down, peer, serverMain, sender, serverTaker, msg, speed, serverAlive>>
clientVars == <<conn, came, connected, total, taker, taken, acc, meter, main, key, received, alive>>
mutexVars == <<version, sized, owner, mutexAt, clobbered>>
ttyVars == <<tty, found, save_termios, ttystate, mode, ttyAt, handler>>
daemonVars == <<stage, leader, terminal, sighup, fds, rlim_max>>
semaphoreVars == <<live, val, adj, id, opened, pc>>
passingVars == <<server, bound, queue, job, meant, wire, passAt, name, passReceived, ret>>
findVars == <<entry, readable, stack, path, pathlen, walkPc, answer, calm, changes>>
popenVars == <<popenFds, childpid, type, child, state, waits, calls>>
tellVars == <<meetAt, blocked, pending, sigflag, told, met>>

Server == INSTANCE SpeedServer WITH main <- serverMain, taker <- serverTaker, alive <- serverAlive
Client == INSTANCE SpeedClient WITH n <- taken
Mutex == INSTANCE SharedMutex WITH at <- mutexAt
Tty == INSTANCE TtyModes WITH at <- ttyAt
Detach == INSTANCE Daemon
Sem == INSTANCE Semaph
Pass == INSTANCE PassFd WITH at <- passAt, received <- passReceived
Find == INSTANCE FindStdin WITH pc <- walkPc
Pipes == INSTANCE Popen WITH fds <- popenFds
Meet == INSTANCE TellWait WITH at <- meetAt

Alone(x, initial) == part = x \/ initial

Init ==
  /\ part \in {"server", "client", "mutex", "tty", "daemon", "semaphore",
              "passing", "find", "popen", "tell"}
  /\ Server!Init /\ Alone("server", msg = "c")
  /\ Client!Init /\ Alone("client", key = "other")
  /\ Mutex!Init /\ Alone("mutex", version = "family")
  /\ Tty!Init /\ Alone("tty", mode = "raw")
  /\ Detach!Init /\ Alone("daemon", leader /\ rlim_max = INFINITY)
  /\ Sem!Init
  /\ Pass!Init /\ Alone("passing", bound = "none" /\ \A c \in Clients : name[c] = "none")
  /\ Find!Init
  /\ Alone("find", /\ entry = CHOOSE t \in Find!Trees : TRUE
                   /\ readable = Find!Dirs /\ pathlen = PATH_MAX)
  /\ Pipes!Init /\ Alone("popen", 0 \in DOMAIN popenFds)
  /\ Meet!Init

Next ==
  /\ UNCHANGED part
  /\ \/ /\ part = "server" /\ Server!Next
        /\ UNCHANGED <<clientVars, mutexVars, ttyVars, daemonVars, semaphoreVars,
                      passingVars, findVars, popenVars, tellVars>>
     \/ /\ part = "client" /\ Client!Next
        /\ UNCHANGED <<serverVars, mutexVars, ttyVars, daemonVars, semaphoreVars,
                      passingVars, findVars, popenVars, tellVars>>
     \/ /\ part = "mutex" /\ Mutex!Next
        /\ UNCHANGED <<serverVars, clientVars, ttyVars, daemonVars, semaphoreVars,
                      passingVars, findVars, popenVars, tellVars>>
     \/ /\ part = "tty" /\ Tty!Next
        /\ UNCHANGED <<serverVars, clientVars, mutexVars, daemonVars, semaphoreVars,
                      passingVars, findVars, popenVars, tellVars>>
     \/ /\ part = "daemon" /\ Detach!Next
        /\ UNCHANGED <<serverVars, clientVars, mutexVars, ttyVars, semaphoreVars,
                      passingVars, findVars, popenVars, tellVars>>
     \/ /\ part = "semaphore" /\ Sem!Next
        /\ UNCHANGED <<serverVars, clientVars, mutexVars, ttyVars, daemonVars,
                      passingVars, findVars, popenVars, tellVars>>
     \/ /\ part = "passing" /\ Pass!Next
        /\ UNCHANGED <<serverVars, clientVars, mutexVars, ttyVars, daemonVars,
                      semaphoreVars, findVars, popenVars, tellVars>>
     \/ /\ part = "find" /\ Find!Next
        /\ UNCHANGED <<serverVars, clientVars, mutexVars, ttyVars, daemonVars,
                      semaphoreVars, passingVars, popenVars, tellVars>>
     \/ /\ part = "popen" /\ Pipes!Next
        /\ UNCHANGED <<serverVars, clientVars, mutexVars, ttyVars, daemonVars,
                      semaphoreVars, passingVars, findVars, tellVars>>
     \/ /\ part = "tell" /\ Meet!Next
        /\ UNCHANGED <<serverVars, clientVars, mutexVars, ttyVars, daemonVars,
                      semaphoreVars, passingVars, findVars, popenVars>>

(* The fairness each module states, for the part that runs.                *)
Fairness ==
  /\ \A c \in Clients :
       /\ WF_(serverVars)(part = "server" /\ serverAlive /\ Server!Accept(c))
       /\ WF_(serverVars)(part = "server" /\ serverAlive /\ Server!Reset(c))
  /\ WF_(serverVars)(part = "server" /\ serverAlive /\ Server!Create)
  /\ WF_(serverVars)(part = "server" /\ serverAlive
                      /\ (Server!Send \/ Server!SendFails \/ Server!SendKills \/ Server!Sleep))
  /\ WF_(serverVars)(part = "server" /\ serverAlive
                      /\ (Server!RecvData \/ Server!RecvEnd \/ Server!Apply))
  /\ WF_(clientVars)(part = "client" /\ alive /\ Client!Taker)
  /\ WF_(clientVars)(part = "client" /\ alive /\ Client!MeterThread)
  /\ WF_(clientVars)(part = "client" /\ alive /\ main # "read" /\ Client!MainThread)
  /\ \A p \in Mutex!Procs :
       /\ WF_(mutexVars)(part = "mutex" /\ Mutex!Process(p))
       /\ SF_(mutexVars)(part = "mutex" /\ Mutex!Lock(p))
  /\ \A p \in Users :
       /\ WF_(semaphoreVars)(part = "semaphore" /\ Sem!Locked(p))
       /\ SF_(semaphoreVars)(part = "semaphore" /\ Sem!Lock(p))
       /\ WF_(semaphoreVars)(part = "semaphore" /\ (Sem!LockInvalid(p) \/ Sem!LockRemoved(p) \/ Sem!Fail(p)))
  /\ WF_(passingVars)(part = "passing" /\ Pass!ServerStep)
  /\ \A c \in Clients : WF_(passingVars)(part = "passing" /\ Pass!ClientStep(c))
  /\ WF_(popenVars)(part = "popen" /\ Pipes!Reap)
  /\ \A k \in 1..Calls : WF_(popenVars)(part = "popen" /\ k \in DOMAIN state /\ Pipes!CommandEnds(k))
  /\ \A p \in Meet!Procs : WF_(tellVars)(part = "tell" /\ Meet!Process(p))

Spec == Init /\ [][Next]_<<part, serverVars, clientVars, mutexVars, ttyVars, daemonVars, semaphoreVars, passingVars, findVars, popenVars, tellVars>> /\ Fairness

-----------------------------------------------------------------------------
(* What each part promises is said in its module. *)

\* esameSNP40: each change of the speed has a command, and the client's total
\* is never more than what came.
SpeedCommanded == Server!TypeOK /\ Client!TypeOK /\ Server!SpeedCommanded

\* esameSNP40: a client that leaves ends the server.
LeaverEnds == Server!LeaverEnds

\* esameSNP40: a reset ends the thread that receives, unless main takes the error
\* first; total comes to rest at 0.
Settles == Client!ResetStops /\ Client!SettlesAtZero

\* esameSNP14: one at a time at the text, and nobody passed over.
Exclusive == Mutex!TypeOK /\ Mutex!Exclusive
TurnComes == Mutex!TurnComes

\* ttymodes.c and the client of esameSNP12: an exit leaves the terminal as it was.
Restored == Tty!TypeOK /\ Tty!Restored

\* daemonize.c: nothing of the caller is left but descriptors above the limit, or
\* above 1023 where there is none.
Detached == Detach!TypeOK /\ Detach!Detached

\* semaph.c: the counters count, and only the last user removes.
Counted == Sem!TypeOK /\ Sem!Counted /\ Sem!RemovedUnused

\* wmstdin.c: no other file is reported, a name that stays is found, and the
\* buffer is large enough.
Found == Find!TypeOK /\ Find!Found /\ Find!InBuffer

\* What the library's calls hand over, leave behind and put in order: answers of
\* recv_fd(), the pipes of popen(), tellings.
Delivered ==
  /\ Pass!TypeOK /\ Pass!AnswerTrue /\ Pass!NamesGo
  /\ Pipes!TypeOK /\ Pipes!Connected
  /\ Meet!TypeOK /\ Meet!Ordered

\* Those that wait come back: sem_create() and sem_close(), cli_conn() with
\* recv_fd(), pclose(), WAIT_PARENT and WAIT_CHILD.
CallsReturn == Sem!LockComes /\ Pass!CallsEnd /\ Pipes!PcloseReturns /\ Meet!AllMet
=============================================================================
