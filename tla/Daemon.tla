------------------------------- MODULE Daemon -------------------------------
(***************************************************************************)
(* lib/daemonize.c, as the server of esameSNP08 calls it.  The variables   *)
(* are about the process that is to become the daemon: the caller, then    *)
(* its child, then the child of that.  The user may hang up the terminal   *)
(* at any time.                                                            *)
(***************************************************************************)
EXTENDS Integers

CONSTANTS
  Fds,     \* numbers: the descriptors the caller has open, 0, 1 and 2 perhaps among them
  Limits,  \* numbers: the values RLIMIT_NOFILE may have as rlim_max
  INFINITY \* one of them: RLIM_INFINITY

VARIABLES
  stage,    \* the call that comes next; "daemon" after the return
  leader,   \* it leads its session
  terminal, \* the session has a controlling terminal, that of the caller or
            \* another, which is not hung up: "caller", "other" or "none"
  sighup,   \* "default" or "ignored"
  fds,      \* its descriptors: those of the caller and those on /dev/null
  rlim_max

vars == <<stage, leader, terminal, sighup, fds, rlim_max>>

Init ==
  /\ stage = "fork" /\ leader \in BOOLEAN /\ terminal = "caller"
  /\ sighup = "default"
  /\ fds = [f \in Fds |-> "caller"]
  /\ rlim_max \in Limits

Go(from, to) == stage = from /\ stage' = to

\* The parent exits; the child leads nothing.
Fork ==
  /\ Go("fork", "setsid") /\ leader' = FALSE
  /\ UNCHANGED <<terminal, sighup, fds, rlim_max>>

Setsid ==
  /\ Go("setsid", "sigaction") /\ leader' = TRUE /\ terminal' = "none"
  /\ UNCHANGED <<sighup, fds, rlim_max>>

IgnoreHangup ==
  /\ Go("sigaction", "fork again") /\ sighup' = "ignored"
  /\ UNCHANGED <<leader, terminal, fds, rlim_max>>

\* A plausible error: one fork() is thought enough.
NoForkAgain ==
  /\ Go("fork again", "close")
  /\ UNCHANGED <<leader, terminal, sighup, fds, rlim_max>>

\* and chdir("/").
ForkAgain ==
  /\ Go("fork again", "close") /\ leader' = FALSE
  /\ UNCHANGED <<terminal, sighup, fds, rlim_max>>

\* A plausible error: the limit is not asked for.
HighestAssumed == 1024

Highest == IF rlim_max = INFINITY THEN 1024 ELSE rlim_max

CloseAll ==
  /\ Go("close", "open")
  /\ fds' = [f \in {g \in DOMAIN fds : g >= Highest} |-> fds[f]]
  /\ UNCHANGED <<leader, terminal, sighup, rlim_max>>

\* open() and dup() twice give the three lowest descriptors: the limit is not
\* below 3 and all others are closed.  With no /dev/null nothing is opened.
OpenNull ==
  /\ \/ Go("open", "daemon")
        /\ fds' = [f \in DOMAIN fds \union 0..2 |-> IF f \in DOMAIN fds THEN fds[f] ELSE "null"]
        /\ 0..2 \intersect DOMAIN fds = {}
     \/ Go("open", "exit") /\ UNCHANGED fds
  /\ UNCHANGED <<leader, terminal, sighup, rlim_max>>

\* The daemon opens a terminal: its session gets it if it leads the session.
OpenTerminal ==
  /\ stage = "daemon"
  /\ terminal' = IF leader THEN "other" ELSE terminal
  /\ UNCHANGED <<stage, leader, sighup, fds, rlim_max>>

\* The caller's terminal goes: SIGHUP to the processes that still have it.
Hangup ==
  /\ stage \notin {"killed", "exit"} /\ terminal = "caller" /\ terminal' = "none"
  /\ stage' = IF sighup = "default" THEN "killed" ELSE stage
  /\ UNCHANGED <<leader, sighup, fds, rlim_max>>

Next == \/ Fork \/ Setsid \/ IgnoreHangup \/ ForkAgain \/ CloseAll \/ OpenNull
        \/ OpenTerminal \/ Hangup

Spec == Init /\ [][Next]_vars

-----------------------------------------------------------------------------

TypeOK ==
  /\ stage \in {"fork", "setsid", "sigaction", "fork again", "close", "open", "daemon",
                "exit", "killed"}
  /\ leader \in BOOLEAN /\ terminal \in {"caller", "other", "none"}
  /\ sighup \in {"default", "ignored"} /\ rlim_max \in Limits

\* The daemon has no terminal and gets none, although it opens one; it has
\* nothing of the caller open but what lies above the limit, or above 1023
\* where there is none: a descriptor opened before the limit was lowered.  A
\* hangup ends it only before setsid(), when the caller may already be gone.
Detached ==
  stage = "daemon" =>
    /\ terminal = "none"
    /\ \A f \in DOMAIN fds : fds[f] = "null" <=> f \in 0..2
    /\ \A f \in DOMAIN fds \ 0..2 :
         f >= rlim_max \/ (rlim_max = INFINITY /\ f >= 1024)
=============================================================================
