------------------------------ MODULE TellWait ------------------------------
(***************************************************************************)
(* esameSNP38/lib/tellwait.c, called as it is meant to be: TELL_WAIT before*)
(* fork() and again before each further meeting; in a meeting the child    *)
(* tells its parent and waits for it, the parent waits for the child and   *)
(* tells it.  SIGUSR1 and SIGUSR2 do the same, so each process has one     *)
(* signal that may be pending.                                             *)
(***************************************************************************)
EXTENDS Naturals

CONSTANT Meetings  \* how often they meet

Procs == {"parent", "child"}
Other(p) == IF p = "parent" THEN "child" ELSE "parent"

VARIABLES
  at,      \* where each stands: in "TELL_WAIT", to "tell", in the loop of
           \* WAIT_...: to "check" sigflag, to "sleep", asleep, to "clear" it and to "restore"
           \* the mask
  blocked, \* the signals are blocked
  pending, \* one is pending
  sigflag,
  told, met \* how often each has told and waited

vars == <<at, blocked, pending, sigflag, told, met>>

\* Just after fork(): the parent called TELL_WAIT for both.
Init ==
  /\ at = [p \in Procs |-> IF p = "parent" THEN "check" ELSE "tell"]
  /\ blocked = [p \in Procs |-> TRUE] /\ pending = [p \in Procs |-> FALSE]
  /\ sigflag = [p \in Procs |-> FALSE]
  /\ told = [p \in Procs |-> 0] /\ met = [p \in Procs |-> 0]

Go(p, from, to) == at[p] = from /\ at' = [at EXCEPT ![p] = to]

\* What comes after a wait, and after the whole meeting.
AfterWait(p) == IF p = "parent" THEN "tell" ELSE "TELL_WAIT"
AfterTell(p) == IF p = "parent" THEN "TELL_WAIT" ELSE "check"

\* A plausible error: the caller does it only once.
NoTellWait(p) ==
  /\ met[p] < Meetings
  /\ Go(p, "TELL_WAIT", IF p = "parent" THEN "check" ELSE "tell")
  /\ UNCHANGED <<blocked, pending, sigflag, told, met>>

\* SIG_BLOCK; a signal may have been taken before.
TELL_WAIT(p) ==
  /\ met[p] < Meetings
  /\ Go(p, "TELL_WAIT", IF p = "parent" THEN "check" ELSE "tell")
  /\ blocked' = [blocked EXCEPT ![p] = TRUE]
  /\ UNCHANGED <<pending, sigflag, told, met>>

\* TELL_PARENT and TELL_CHILD: kill().
TELL(p) ==
  /\ Go(p, "tell", AfterTell(p))
  /\ pending' = [pending EXCEPT ![Other(p)] = TRUE]
  /\ told' = [told EXCEPT ![p] = @ + 1]
  /\ UNCHANGED <<blocked, sigflag, met>>

\* sig_usr() runs: signals are not blocked, or sigsuspend() waits, which then
\* returns.
Catch(p) ==
  /\ pending[p] /\ (~blocked[p] \/ at[p] = "asleep")
  /\ pending' = [pending EXCEPT ![p] = FALSE]
  /\ sigflag' = [sigflag EXCEPT ![p] = TRUE]
  /\ at' = [at EXCEPT ![p] = IF @ = "asleep" THEN "check" ELSE @]
  /\ UNCHANGED <<blocked, told, met>>

\* WAIT_PARENT and WAIT_CHILD: while (sigflag == 0) ...
Check(p) ==
  /\ Go(p, "check", IF sigflag[p] THEN "clear" ELSE "sleep")
  /\ UNCHANGED <<blocked, pending, sigflag, told, met>>

\* ... sigsuspend(), with no signal blocked while it waits.
Suspend(p) ==
  /\ Go(p, "sleep", "asleep")
  /\ UNCHANGED <<blocked, pending, sigflag, told, met>>

Clear(p) ==
  /\ Go(p, "clear", "restore")
  /\ sigflag' = [sigflag EXCEPT ![p] = FALSE]
  /\ UNCHANGED <<blocked, pending, told, met>>

\* The mask is what it was before TELL_WAIT.
Restore(p) ==
  /\ Go(p, "restore", AfterWait(p))
  /\ blocked' = [blocked EXCEPT ![p] = FALSE]
  /\ met' = [met EXCEPT ![p] = @ + 1]
  /\ UNCHANGED <<pending, sigflag, told>>

Process(p) == \/ TELL_WAIT(p) \/ TELL(p) \/ Catch(p) \/ Check(p) \/ Suspend(p)
              \/ Clear(p) \/ Restore(p)

Next == \E p \in Procs : Process(p)

Fairness == \A p \in Procs : WF_vars(Process(p))

Spec == Init /\ [][Next]_vars /\ Fairness

-----------------------------------------------------------------------------

TypeOK ==
  /\ at \in [Procs -> {"TELL_WAIT", "tell", "check", "sleep", "asleep", "clear", "restore"}]
  /\ blocked \in [Procs -> BOOLEAN] /\ pending \in [Procs -> BOOLEAN]
  /\ sigflag \in [Procs -> BOOLEAN]
  /\ told \in [Procs -> 0..Meetings] /\ met \in [Procs -> 0..Meetings]

\* Nobody goes on before the other has told it to, and no telling is lost in
\* another that is still pending.
Ordered ==
  \A p \in Procs :
    told[Other(p)] = met[p] + (IF pending[p] \/ sigflag[p] \/ at[p] = "restore" THEN 1 ELSE 0)

\* Once begun, all meetings take place: no signal comes between the test of sigflag and
\* sigsuspend().
AllMet == []<>(told["child"] > 0 => \A p \in Procs : met[p] = Meetings)
=============================================================================
