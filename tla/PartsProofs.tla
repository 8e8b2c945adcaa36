---------------------------- MODULE PartsProofs ----------------------------
(***************************************************************************)
(* Safety of the ten Parts: the mutex of esameSNP14, the terminal of       *)
(* ttymodes.c, the daemon of daemonize.c, the meetings of tellwait.c, the  *)
(* walk of wmstdin.c, the server and the client of esameSNP40; and of the  *)
(* library of esameSNP38 the counters of semaph.c and what recv_fd(),      *)
(* popen() and WAIT_... hand over, for any processes, texts and calls.     *)
(***************************************************************************)
EXTENDS Parts, SequenceTheorems, FiniteSetTheorems, WellFoundedInduction, TLAPS

vars == <<part, serverVars, clientVars, mutexVars, ttyVars, daemonVars,
          semaphoreVars, passingVars, findVars, popenVars, tellVars>>

\* A step is a step of the part that runs, and changes nothing of another.
LEMMA StepOfPart ==
  [Next]_vars => /\ [Mutex!Next]_mutexVars /\ [Tty!Next]_ttyVars
                 /\ [Detach!Next]_daemonVars /\ [Meet!Next]_tellVars
                 /\ [Find!Next]_findVars /\ [Pass!Next]_passingVars
                 /\ [Pipes!Next]_popenVars /\ [Server!Next]_serverVars
                 /\ [Client!Next]_clientVars
<1>1. CASE UNCHANGED vars
  BY <1>1 DEF vars
<1>2. CASE Next
  BY <1>2 DEF Next
<1> QED
  BY <1>1, <1>2

-----------------------------------------------------------------------------
(* esameSNP14 *)

\* Who is inside owns the mutex, so long as it was not initialised under somebody.
OwnerInside ==
  ~clobbered => \A p \in Mutex!Procs : mutexAt[p] \in Mutex!Inside => owner = p

MutexInv == Mutex!TypeOK /\ OwnerInside

\* Nobody is inside before the first start.
LEMMA MutexInit == Init => MutexInv
BY DEF Init, Mutex!Init, MutexInv, Mutex!TypeOK, OwnerInside, Mutex!Versions, Mutex!Procs,
       Mutex!Inside, Mutex!Free

\* The other process is a process.
LEMMA OtherProc == \A p \in Mutex!Procs : Mutex!Other(p) \in Mutex!Procs /\ Mutex!Other(p) # p
BY DEF Mutex!Procs, Mutex!Other

\* No step, of whichever process, lets a second one in.
LEMMA MutexStep == MutexInv /\ [Mutex!Next]_mutexVars => MutexInv'
<1> SUFFICES ASSUME MutexInv, [Mutex!Next]_mutexVars PROVE MutexInv'
  OBVIOUS
<1> USE DEF MutexInv, Mutex!TypeOK, OwnerInside, Mutex!Inside, Mutex!Free
<1>1. CASE UNCHANGED mutexVars
  BY <1>1 DEF mutexVars
<1>2. ASSUME NEW p \in Mutex!Procs, Mutex!Start(p) PROVE MutexInv'
  BY <1>2 DEF Mutex!Start, Mutex!Go
<1>3. ASSUME NEW p \in Mutex!Procs, Mutex!Open(p) PROVE MutexInv'
  BY <1>3 DEF Mutex!Open, Mutex!Go
<1>4. ASSUME NEW p \in Mutex!Procs, Mutex!InitMutex(p) PROVE MutexInv'
  <2> DEFINE At == Mutex!Inside \union {"off", "open", "init", "lock", "lost", "sleep"}
             Moved == {"lock", "lost", mutexAt[Mutex!Other(p)]}
  <2>1. PICK other \in Moved : mutexAt' = [q \in Mutex!Procs |-> IF q = p THEN "lock" ELSE other]
    BY <1>4 DEF Mutex!InitMutex
  <2>2. /\ other \in At /\ "lock" \in At
        /\ other \in Mutex!Inside => mutexAt[Mutex!Other(p)] \in Mutex!Inside
    BY <2>1, OtherProc
  <2>3. Mutex!TypeOK'
    BY <1>4, <2>1, <2>2 DEF Mutex!InitMutex
  <2>4. ~clobbered' => other \notin Mutex!Inside
    BY <1>4, <2>2 DEF Mutex!InitMutex
  <2>5. OwnerInside'
    BY <2>1, <2>4
  <2> QED
    BY <2>3, <2>5
<1>5. ASSUME NEW p \in Mutex!Procs, Mutex!Lock(p) PROVE MutexInv'
  BY <1>5 DEF Mutex!Lock, Mutex!Go, Mutex!Procs
<1>6. ASSUME NEW p \in Mutex!Procs, Mutex!Fault(p) PROVE MutexInv'
  BY <1>6 DEF Mutex!Fault, Mutex!Go
<1>7. ASSUME NEW p \in Mutex!Procs, Mutex!Show(p) PROVE MutexInv'
  BY <1>7 DEF Mutex!Show, Mutex!Go
<1>8. ASSUME NEW p \in Mutex!Procs, Mutex!Copy(p) PROVE MutexInv'
  BY <1>8 DEF Mutex!Copy, Mutex!Go
<1>9. ASSUME NEW p \in Mutex!Procs, Mutex!Unlock(p) PROVE MutexInv'
  BY <1>9 DEF Mutex!Unlock, Mutex!Go, Mutex!Procs
<1>10. ASSUME NEW p \in Mutex!Procs, Mutex!Sleep(p) PROVE MutexInv'
  BY <1>10 DEF Mutex!Sleep, Mutex!Go
<1>11. ASSUME NEW p \in Mutex!Procs, Mutex!Kill(p) PROVE MutexInv'
  BY <1>11 DEF Mutex!Kill, Mutex!Procs
<1> QED
  BY <1>1, <1>2, <1>3, <1>4, <1>5, <1>6, <1>7, <1>8, <1>9, <1>10, <1>11
  DEF Mutex!Next, Mutex!Process

\* One owner leaves room for one process inside.
LEMMA MutexInvExclusive == MutexInv => Exclusive
BY OtherProc DEF Exclusive, Mutex!Exclusive, MutexInv, OwnerInside

\* Two processes are at the shared text together only after primo.c has
\* initialised the mutex while the other one was there.
THEOREM ExclusiveHolds == Spec => []Exclusive
<1>1. MutexInv /\ [Next]_vars => MutexInv'
  BY MutexStep, StepOfPart
<1> QED
  BY <1>1, MutexInit, MutexInvExclusive, PTL DEF Spec, vars

-----------------------------------------------------------------------------
(* lib/ttymodes.c *)

\* From the first tcgetattr() on the settings found are saved, unless the
\* client ends first.
Saved == ttyAt \in {"set", "verify", "signal", "loop", "reset", "state"} => save_termios = found

\* Where the terminal must still be, or again be, as it was found.
AsFound == ttyAt \in {"get", "set", "state", "exit"} => tty = found

\* The mode is recorded exactly while the terminal may have it.
Recorded ==
  /\ ttyAt \in {"get", "set", "verify"} => ttystate = "RESET"
  /\ ttyAt \in {"signal", "loop", "reset", "state"} => ttystate # "RESET"

\* sig_catch is only installed after the mode.
HandlerLate ==
  ttyAt \notin Tty!Ended /\ handler \in {"ready", "reset", "done"} => ttyAt \in {"loop", "reset", "state"}

TtyInv == Tty!TypeOK /\ Saved /\ AsFound /\ Recorded /\ HandlerLate

\* The first client finds the terminal as it was made.
LEMMA TtyInit == Init => TtyInv
BY DEF Init, Tty!Init, TtyInv, Tty!TypeOK, Saved, AsFound, Recorded, HandlerLate, Tty!Settings, Tty!Modes, Tty!Ended

\* Neither a refused change nor a signal in the middle of a reset loses what
\* the client found.
LEMMA TtyStep == TtyInv /\ [Tty!Next]_ttyVars => TtyInv'
<1> SUFFICES ASSUME TtyInv, [Tty!Next]_ttyVars PROVE TtyInv'
  OBVIOUS
<1> USE DEF TtyInv, Tty!TypeOK, Saved, AsFound, Recorded, HandlerLate, Tty!Settings, Tty!Modes, Tty!Ended
<1>1. CASE UNCHANGED ttyVars
  BY <1>1 DEF ttyVars
<1>2. CASE Tty!Get
  BY <1>2 DEF Tty!Get, Tty!Main
<1>3. CASE Tty!Set
  BY <1>3 DEF Tty!Set, Tty!Main
<1>4. CASE Tty!Verify
  BY <1>4 DEF Tty!Verify, Tty!Main
<1>5. CASE Tty!Install
  BY <1>5 DEF Tty!Install, Tty!Main
<1>6. CASE Tty!LeaveLoop
  BY <1>6 DEF Tty!LeaveLoop, Tty!Main
<1>7. CASE Tty!Reset
  BY <1>7 DEF Tty!Reset, Tty!Main
<1>8. CASE Tty!ResetState
  BY <1>8 DEF Tty!ResetState, Tty!Main
<1>9. CASE Tty!Interrupt
  BY <1>9 DEF Tty!Interrupt
<1>10. CASE Tty!Caught
  BY <1>10 DEF Tty!Caught
<1>11. CASE Tty!Kill
  BY <1>11 DEF Tty!Kill
<1>12. CASE Tty!Again
  BY <1>12 DEF Tty!Again
<1> QED
  BY <1>1, <1>2, <1>3, <1>4, <1>5, <1>6, <1>7, <1>8, <1>9, <1>10, <1>11, <1>12 DEF Tty!Next

\* A client that exits, on whatever way, leaves the terminal as it found it.
THEOREM RestoredHolds == Spec => []Restored
<1>1. TtyInv /\ [Next]_vars => TtyInv'
  BY TtyStep, StepOfPart
<1>2. TtyInv => Restored
  BY DEF TtyInv, AsFound, Tty!Restored, Restored
<1> QED
  BY <1>1, <1>2, TtyInit, PTL DEF Spec, vars

-----------------------------------------------------------------------------
(* lib/daemonize.c *)

\* What the calls so far have achieved, by the call that comes next.
LedOut == stage \in {"close", "open", "daemon"} => ~leader
TerminalGone == stage \in {"sigaction", "fork again", "close", "open", "daemon"} => terminal = "none"
OnlyCallers == stage # "daemon" => \A f \in DOMAIN fds : fds[f] = "caller"
ClosedBelow == stage = "open" => \A f \in DOMAIN fds : f >= Detach!Highest
NullOnly ==
  stage = "daemon" => /\ \A f \in DOMAIN fds : fds[f] = "null" <=> f \in 0..2
                      /\ \A f \in DOMAIN fds \ 0..2 : f >= Detach!Highest

DaemonInv == Detach!TypeOK /\ LedOut /\ TerminalGone /\ OnlyCallers /\ ClosedBelow /\ NullOnly

\* The caller has closed nothing yet.
LEMMA DaemonInit == Init => DaemonInv
BY DEF Init, Detach!Init, DaemonInv, Detach!TypeOK, LedOut, TerminalGone, OnlyCallers, ClosedBelow, NullOnly

\* Each call keeps what the earlier ones achieved; nothing is lost by a hangup.
LEMMA DaemonStep == DaemonInv /\ [Detach!Next]_daemonVars => DaemonInv'
<1> SUFFICES ASSUME DaemonInv, [Detach!Next]_daemonVars PROVE DaemonInv'
  OBVIOUS
<1> USE DEF DaemonInv, Detach!TypeOK, LedOut, TerminalGone, OnlyCallers, ClosedBelow, NullOnly, Detach!Highest
<1>1. CASE UNCHANGED daemonVars
  <2>1. stage' = stage /\ leader' = leader /\ terminal' = terminal
    BY <1>1 DEF daemonVars
  <2>2. fds' = fds /\ rlim_max' = rlim_max
    BY <1>1 DEF daemonVars
  <2>3. LedOut' /\ TerminalGone' /\ OnlyCallers'
    BY <2>1, <2>2
  <2>4. Detach!Highest' = Detach!Highest
    BY <2>2
  <2>5. ClosedBelow'
    BY <2>1, <2>2, <2>4
  <2>6. NullOnly'
    BY <2>1, <2>2, <2>4
  <2>7. Detach!TypeOK'
    BY <1>1 DEF daemonVars
  <2> QED
    BY <2>3, <2>5, <2>6, <2>7
<1>2. CASE Detach!Fork
  BY <1>2 DEF Detach!Fork, Detach!Go
<1>3. CASE Detach!Setsid
  BY <1>3 DEF Detach!Setsid, Detach!Go
<1>4. CASE Detach!IgnoreHangup
  BY <1>4 DEF Detach!IgnoreHangup, Detach!Go
<1>5. CASE Detach!ForkAgain
  BY <1>5 DEF Detach!ForkAgain, Detach!Go
<1>6. CASE Detach!CloseAll
  BY <1>6 DEF Detach!CloseAll, Detach!Go
<1>7. CASE Detach!OpenNull
  <2>1. CASE stage' = "exit"
    BY <1>7, <2>1 DEF Detach!OpenNull, Detach!Go
  <2>2. CASE stage' # "exit"
    <3>1. /\ stage = "open" /\ stage' = "daemon"
          /\ fds' = [f \in DOMAIN fds \union 0..2 |-> IF f \in DOMAIN fds THEN fds[f] ELSE "null"]
          /\ 0..2 \intersect DOMAIN fds = {}
          /\ UNCHANGED <<leader, terminal, sighup, rlim_max>>
      BY <1>7, <2>2 DEF Detach!OpenNull, Detach!Go
    <3>2. \A f \in DOMAIN fds' : fds'[f] = "null" <=> f \in 0..2
      BY <3>1
    <3>3. \A f \in DOMAIN fds' \ 0..2 : f >= Detach!Highest'
      BY <3>1
    <3> QED
      BY <3>1, <3>2, <3>3
  <2> QED
    BY <2>1, <2>2
<1>8. CASE Detach!OpenTerminal
  BY <1>8 DEF Detach!OpenTerminal
<1>9. CASE Detach!Hangup
  BY <1>9 DEF Detach!Hangup
<1> QED
  BY <1>1, <1>2, <1>3, <1>4, <1>5, <1>6, <1>7, <1>8, <1>9 DEF Detach!Next

\* daemonize() returns in a process that has no terminal and can get none by
\* opening one, and has none of the caller's descriptors below the limit.
THEOREM DetachedHolds == Spec => []Detached
<1>1. DaemonInv /\ [Next]_vars => DaemonInv'
  BY DaemonStep, StepOfPart
<1>2. DaemonInv => Detached
  BY DEF DaemonInv, TerminalGone, NullOnly, Detach!Highest, Detach!Detached, Detached
<1> QED
  BY <1>1, <1>2, DaemonInit, PTL DEF Spec, vars

-----------------------------------------------------------------------------
(* lib/tellwait.c *)

Waiting == {"check", "sleep", "asleep", "clear", "restore"}

\* The types, without the bound on the counters.
Typed ==
  /\ meetAt \in [Meet!Procs -> {"TELL_WAIT", "tell"} \union Waiting]
  /\ blocked \in [Meet!Procs -> BOOLEAN] /\ pending \in [Meet!Procs -> BOOLEAN]
  /\ sigflag \in [Meet!Procs -> BOOLEAN]
  /\ told \in [Meet!Procs -> Nat] /\ met \in [Meet!Procs -> Nat]

\* The parent tells after each wait, the child waits after each telling.
Turns ==
  /\ met["parent"] = told["parent"] + (IF meetAt["parent"] = "tell" THEN 1 ELSE 0)
  /\ told["child"] = met["child"] + (IF meetAt["child"] \in Waiting THEN 1 ELSE 0)

\* A telling that has not been met is in one place only.
OnePlace ==
  \A p \in Meet!Procs :
    /\ sigflag[p] => ~pending[p]
    /\ meetAt[p] = "restore" => ~pending[p] /\ ~sigflag[p]
    /\ meetAt[p] = "clear" => sigflag[p]

MeetInv == Typed /\ Turns /\ OnePlace /\ Meet!Ordered

\* fork() comes after TELL_WAIT and before any telling.
LEMMA MeetInit == Init => MeetInv
BY DEF Init, Meet!Init, MeetInv, Typed, Turns, OnePlace, Meet!Ordered, Meet!Procs, Waiting, Meet!Other

\* Telling, sleeping and waking keep the count of the meetings.
LEMMA MeetStep == MeetInv /\ [Meet!Next]_tellVars => MeetInv'
<1> SUFFICES ASSUME MeetInv, [Meet!Next]_tellVars PROVE MeetInv'
  OBVIOUS
<1> USE DEF MeetInv, Typed, Turns, OnePlace, Meet!Ordered, Meet!Procs, Waiting, Meet!Other
<1>1. CASE UNCHANGED tellVars
  BY <1>1 DEF tellVars
<1>2. ASSUME NEW p \in Meet!Procs, Meet!TELL_WAIT(p) PROVE MeetInv'
  BY <1>2 DEF Meet!TELL_WAIT, Meet!Go
<1>3. ASSUME NEW p \in Meet!Procs, Meet!TELL(p) PROVE MeetInv'
  <2>1. CASE p = "parent"
    BY <1>3, <2>1 DEF Meet!TELL, Meet!Go, Meet!AfterTell
  <2>2. CASE p = "child"
    BY <1>3, <2>2 DEF Meet!TELL, Meet!Go, Meet!AfterTell
  <2> QED
    BY <2>1, <2>2
<1>4. ASSUME NEW p \in Meet!Procs, Meet!Catch(p) PROVE MeetInv'
  BY <1>4 DEF Meet!Catch
<1>5. ASSUME NEW p \in Meet!Procs, Meet!Check(p) PROVE MeetInv'
  BY <1>5 DEF Meet!Check, Meet!Go
<1>6. ASSUME NEW p \in Meet!Procs, Meet!Suspend(p) PROVE MeetInv'
  BY <1>6 DEF Meet!Suspend, Meet!Go
<1>7. ASSUME NEW p \in Meet!Procs, Meet!Clear(p) PROVE MeetInv'
  BY <1>7 DEF Meet!Clear, Meet!Go
<1>8. ASSUME NEW p \in Meet!Procs, Meet!Restore(p) PROVE MeetInv'
  <2>1. CASE p = "parent"
    BY <1>8, <2>1 DEF Meet!Restore, Meet!Go, Meet!AfterWait
  <2>2. CASE p = "child"
    BY <1>8, <2>2 DEF Meet!Restore, Meet!Go, Meet!AfterWait
  <2> QED
    BY <2>1, <2>2
<1> QED
  BY <1>1, <1>2, <1>3, <1>4, <1>5, <1>6, <1>7, <1>8 DEF Meet!Next, Meet!Process

\* WAIT_PARENT and WAIT_CHILD return once for each TELL of the other, never
\* before it and never for two at once.
THEOREM OrderedHolds == Spec => []Meet!Ordered
<1>1. MeetInv /\ [Next]_vars => MeetInv'
  BY MeetStep, StepOfPart
<1>2. MeetInv => Meet!Ordered
  BY DEF MeetInv
<1> QED
  BY <1>1, <1>2, MeetInit, PTL DEF Spec, vars

-----------------------------------------------------------------------------
(* esameSNP38: wmstdin.c *)

\* Where the walk is.
Frames == [dir : Find!Dirs, done : SUBSET Find!Names, left : SUBSET Find!Names]
WalkTyped ==
  /\ entry \in Find!Trees /\ readable \in {Find!Dirs, {Find!Root}}
  /\ stack \in Seq(Frames) /\ path \in Seq(Find!Names) /\ pathlen \in Nat
  /\ walkPc \in {"lstat", "opendir", "readdir", "end"} /\ answer \in {"stdin", "none"}
  /\ Len(stack) \in 0..2 /\ Len(path) <= Len(stack)
  /\ Len(stack) >= 1 => stack[1].dir = Find!Root
  /\ Len(stack) = 2 => stack[2].dir = Find!Sub /\ Len(path) >= 1
  /\ walkPc \in {"lstat", "opendir"} => Len(path) = Len(stack)
  /\ walkPc = "opendir" => Len(stack) <= 1
  /\ walkPc = "readdir" => Len(stack) >= 1 /\ Len(path) >= Len(stack) - 1
  /\ walkPc = "end" => answer = "stdin" \/ stack = <<>>
  /\ walkPc # "end" => answer = "none"

\* The buffer takes the longest name in each directory that is open.
Room ==
  /\ pathlen >= PATH_MAX /\ Find!Strlen(path) + 1 <= pathlen
  /\ walkPc = "opendir" => Find!Strlen(path) < PATH_MAX
  /\ Len(stack) = 2 => Length[path[1]] + NAME_MAX + 4 <= pathlen

\* The file itself has this name, and had it from the start.
Stays(d, n) == entry[d][n] = "stdin" /\ <<d, n>> \in calm /\ d \in readable

AtRoot == stack = <<>> /\ path = <<>> /\ walkPc \in {"lstat", "opendir"}

\* A name below the root is found or still to be looked at.
RootSeen ==
  \A n \in Find!Names : Stays(Find!Root, n) =>
    \/ answer = "stdin" \/ AtRoot
    \/ Len(stack) >= 1 /\ n \in stack[1].left
    \/ walkPc = "lstat" /\ Len(stack) = 1 /\ path[1] = n

\* A name in the other directory as well, or that directory is still to come.
SubSeen ==
  \A m, n \in Find!Names :
    Stays(Find!Sub, n) /\ entry[Find!Root][m] = Find!Sub /\ <<Find!Root, m>> \in calm
    /\ 3 + Length[m] + Length[n] < PATH_MAX =>
      \/ answer = "stdin" \/ AtRoot
      \/ Len(stack) >= 1 /\ m \in stack[1].left
      \/ walkPc \in {"lstat", "opendir"} /\ Len(stack) = 1 /\ path[1] = m
      \/ Len(stack) = 2 /\ path[1] = m /\ (n \in stack[2].left \/ (walkPc = "lstat" /\ path[2] = n))

FindInv == WalkTyped /\ Room /\ RootSeen /\ SubSeen

\* The assumptions about the names.
LEMMA Lengths ==
  /\ NAME_MAX \in Nat /\ PATH_MAX \in Nat /\ PATH_MAX >= NAME_MAX + 3
  /\ \A n \in Find!Names : Length[n] \in 1..NAME_MAX
  /\ \A x \in Files : x # Find!Root /\ x # Find!Sub /\ x # Find!None
  /\ "stdin" \in Files
BY PartsAssumption DEF Find!Names, Find!Root, Find!Sub, Find!None

\* The length of a path of at most two names.
LEMMA StrlenLemma ==
  ASSUME NEW p \in Seq(Find!Names), Len(p) \in 0..2
  PROVE  /\ Find!Strlen(p) \in Nat
         /\ Len(p) = 0 => Find!Strlen(p) = 1
         /\ Len(p) = 1 => Find!Strlen(p) = 2 + Length[p[1]] /\ p[1] \in Find!Names /\ Length[p[1]] \in 1..NAME_MAX
         /\ Len(p) = 2 => /\ Find!Strlen(p) = 3 + Length[p[1]] + Length[p[2]]
                          /\ p[1] \in Find!Names /\ Length[p[1]] \in 1..NAME_MAX
                          /\ p[2] \in Find!Names /\ Length[p[2]] \in 1..NAME_MAX
<1>1. \A i \in 1..Len(p) : p[i] \in Find!Names
  BY ElementOfSeq
<1>2. \A i \in 1..Len(p) : Length[p[i]] \in 1..NAME_MAX
  BY <1>1, Lengths
<1> QED
  BY <1>1, <1>2, Lengths DEF Find!Strlen

\* What the path leads to.
LEMMA LookupLemma ==
  ASSUME NEW p \in Seq(Find!Names), Len(p) \in 0..2, entry \in Find!Trees
  PROVE  /\ Len(p) = 0 => Find!Lookup(p) = Find!Root
         /\ Len(p) = 1 => Find!Lookup(p) = entry[Find!Root][p[1]]
         /\ Len(p) = 2 => Find!Lookup(p) \in {Find!None, entry[Find!Sub][p[2]]}
         /\ Len(p) = 2 /\ entry[Find!Root][p[1]] = Find!Sub /\ Find!Strlen(p) < PATH_MAX
              => Find!Lookup(p) = entry[Find!Sub][p[2]]
         /\ Find!Lookup(p) \in Find!Dirs => Find!Strlen(p) < PATH_MAX
         /\ Find!Lookup(p) \in Find!Dirs => /\ Len(p) <= 1
                                            /\ Find!Lookup(p) = IF Len(p) = 0 THEN Find!Root ELSE Find!Sub
<1>1. /\ Find!Strlen(p) < PATH_MAX \/ Len(p) = 2
      /\ Find!Strlen(p) \in Nat /\ PATH_MAX \in Nat
  BY StrlenLemma, Lengths
<1>2. Find!None \notin Find!Dirs
  BY DEF Find!None, Find!Dirs, Find!Root, Find!Sub
<1>3. \A n \in Find!Names : entry[Find!Root][n] # Find!Root /\ entry[Find!Sub][n] \notin Find!Dirs
  BY Lengths DEF Find!Trees, Find!Dirs, Find!Root, Find!Sub, Find!None
<1>4. \A i \in 1..Len(p) : p[i] \in Find!Names
  BY ElementOfSeq
<1>5. CASE Find!Strlen(p) >= PATH_MAX
  <2>1. Len(p) = 2 /\ ~(Find!Strlen(p) < PATH_MAX)
    BY <1>1, <1>5
  <2>2. Find!Lookup(p) = Find!None
    BY <1>5 DEF Find!Lookup
  <2> QED
    BY <1>2, <2>1, <2>2
<1>6. CASE ~(Find!Strlen(p) >= PATH_MAX)
  <2>1. Find!Strlen(p) < PATH_MAX
    BY <1>6, StrlenLemma, Lengths
  <2>2. CASE Len(p) = 0
    BY <1>6, <2>1, <2>2 DEF Find!Lookup, Find!Dirs
  <2>3. CASE Len(p) = 1
    BY <1>3, <1>4, <1>6, <2>1, <2>3 DEF Find!Lookup, Find!Dirs
  <2>4. CASE Len(p) = 2
    BY <1>2, <1>3, <1>4, <1>6, <2>1, <2>4 DEF Find!Lookup
  <2> QED
    BY <2>2, <2>3, <2>4
<1> QED
  BY <1>5, <1>6

\* The walk starts with the path of the root.
LEMMA FindInit == Init => FindInv
<1> SUFFICES ASSUME Find!Init PROVE FindInv
  BY DEF Init
<1>1. WalkTyped
  BY EmptySeq, PartsAssumption DEF Find!Init, WalkTyped, Find!PathAlloc, Find!None
<1>2. Room
  <2>1. Find!Strlen(path) = 1
    <3>1. path \in Seq(Find!Names) /\ Len(path) = 0 /\ Len(path) \in 0..2
      BY EmptySeq DEF Find!Init
    <3> QED
      BY <3>1, StrlenLemma
  <2> QED
    BY <2>1, EmptySeq, Lengths DEF Find!Init, Room, Find!PathAlloc
<1>3. RootSeen /\ SubSeen
  BY DEF Find!Init, RootSeen, SubSeen, AtRoot
<1> QED
  BY <1>1, <1>2, <1>3 DEF FindInv

\* lstat() misses nothing that stays: the path it follows is the path of the name.
LEMMA LstatStep == FindInv /\ Find!Lstat => FindInv'
<1> SUFFICES ASSUME FindInv, Find!Lstat PROVE FindInv'
  OBVIOUS
<1> DEFINE x == Find!Lookup(path)
<1>0. path \in Seq(Find!Names) /\ Len(path) \in 0..2 /\ entry \in Find!Trees /\ Len(path) = Len(stack)
      /\ walkPc = "lstat" /\ answer = "none" /\ UNCHANGED <<entry, readable, stack, path, pathlen, calm>>
  BY LenProperties DEF Find!Lstat, FindInv, WalkTyped
<1>1. /\ x \in Find!Dirs => Find!Strlen(path) < PATH_MAX /\ Len(path) <= 1
      /\ "stdin" \notin Find!Dirs
  BY <1>0, LookupLemma, Lengths DEF Find!Dirs
<1>2. x = "stdin" => walkPc' = "end" /\ answer' = "stdin"
  BY <1>0, <1>1, Lengths DEF Find!Lstat, Find!IsStdin
<1>3. \/ x \in Find!Dirs /\ walkPc' = "opendir" /\ answer' = answer
      \/ walkPc' = "end" /\ answer' = "stdin"
      \/ x \notin Find!Dirs /\ x # "stdin" /\ answer' = answer
           /\ walkPc' = IF stack = <<>> THEN "end" ELSE "readdir"
  BY <1>0, <1>1, Lengths DEF Find!Lstat, Find!IsStdin, Find!Return
<1>4. WalkTyped'
  <2>1. Len(stack) \in 0..2 /\ (Len(stack) = 0 <=> stack = <<>>)
    BY EmptySeq DEF FindInv, WalkTyped
  <2> QED
    BY <1>0, <1>1, <1>3, <2>1 DEF FindInv, WalkTyped
<1>5. Room'
  BY <1>0, <1>1, <1>3 DEF FindInv, Room, Find!Strlen
<1>6. RootSeen'
  <2> SUFFICES ASSUME NEW n \in Find!Names, Stays(Find!Root, n), answer' # "stdin"
               PROVE \/ AtRoot'
                     \/ Len(stack) >= 1 /\ n \in stack[1].left
                     \/ walkPc' = "lstat" /\ Len(stack) = 1 /\ path[1] = n
    BY <1>0 DEF RootSeen, Stays
  <2>1. CASE AtRoot
    <3>1. x = Find!Root
      BY <1>0, <2>1, LookupLemma, EmptySeq DEF AtRoot
    <3> QED
      <4>1. x \in Find!Dirs
        BY <3>1 DEF Find!Dirs
      <4>2. walkPc' = "opendir"
        BY <1>3, <4>1
      <4> QED
        BY <1>0, <2>1, <4>2 DEF AtRoot
  <2>2. CASE Len(stack) >= 1 /\ n \in stack[1].left
    BY <2>2
  <2>3. CASE Len(stack) = 1 /\ path[1] = n
    <3>1. x = "stdin"
      BY <1>0, <2>3, LookupLemma DEF Stays
    <3> QED
      BY <1>2, <3>1
  <2> QED
    BY <1>0, <2>1, <2>2, <2>3 DEF FindInv, RootSeen
<1>7. SubSeen'
  <2> SUFFICES ASSUME NEW m \in Find!Names, NEW n \in Find!Names, answer' # "stdin",
                      Stays(Find!Sub, n) /\ entry[Find!Root][m] = Find!Sub /\ <<Find!Root, m>> \in calm,
                      3 + Length[m] + Length[n] < PATH_MAX
               PROVE \/ AtRoot'
                     \/ Len(stack) >= 1 /\ m \in stack[1].left
                     \/ walkPc' \in {"lstat", "opendir"} /\ Len(stack) = 1 /\ path[1] = m
                     \/ Len(stack) = 2 /\ path[1] = m /\ n \in stack[2].left
    BY <1>0 DEF SubSeen, Stays
  <2>1. CASE AtRoot
    <3>1. x = Find!Root
      BY <1>0, <2>1, LookupLemma, EmptySeq DEF AtRoot
    <3> QED
      <4>1. x \in Find!Dirs
        BY <3>1 DEF Find!Dirs
      <4>2. walkPc' = "opendir"
        BY <1>3, <4>1
      <4> QED
        BY <1>0, <2>1, <4>2 DEF AtRoot
  <2>2. CASE Len(stack) >= 1 /\ m \in stack[1].left
    BY <2>2
  <2>3. CASE Len(stack) = 1 /\ path[1] = m
    <3>1. x = Find!Sub
      BY <1>0, <2>3, LookupLemma
    <3> QED
      BY <1>3, <2>3, <3>1 DEF Find!Dirs
  <2>4. CASE Len(stack) = 2 /\ path[1] = m /\ path[2] = n
    <3>1. Find!Strlen(path) < PATH_MAX
      BY <1>0, <2>4, StrlenLemma
    <3>2. x = "stdin"
      BY <1>0, <2>4, <3>1, LookupLemma DEF Stays
    <3> QED
      BY <1>2, <3>2
  <2>5. CASE Len(stack) = 2 /\ path[1] = m /\ n \in stack[2].left
    BY <2>5
  <2> QED
    BY <1>0, <2>1, <2>2, <2>3, <2>4, <2>5 DEF FindInv, SubSeen
<1> QED
  BY <1>4, <1>5, <1>6, <1>7 DEF FindInv

\* A directory that is opened has every name still to come; the buffer grows first.
LEMMA OpendirStep == FindInv /\ Find!Opendir => FindInv'
<1> SUFFICES ASSUME FindInv, Find!Opendir PROVE FindInv'
  OBVIOUS
<1> DEFINE d == Find!Lookup(path)
           f == [dir |-> d, done |-> {}, left |-> {n \in Find!Names : entry[d][n] # Find!None}]
<1>0. /\ path \in Seq(Find!Names) /\ Len(path) \in 0..1 /\ entry \in Find!Trees /\ Len(path) = Len(stack)
      /\ Len(path) \in 0..2 /\ stack \in Seq(Frames) /\ readable \in {Find!Dirs, {Find!Root}}
      /\ walkPc = "opendir" /\ answer = "none" /\ UNCHANGED <<entry, readable, path, answer, calm>>
      /\ walkPc' # "opendir" /\ Find!Strlen(path) < PATH_MAX
  <2>1. walkPc = "opendir" /\ UNCHANGED <<entry, readable, path, answer, calm>>
    BY DEF Find!Opendir
  <2>2. walkPc' # "opendir"
    BY DEF Find!Opendir, Find!Return
  <2>3. Find!Strlen(path) < PATH_MAX
    BY <2>1 DEF FindInv, Room
  <2>4. WalkTyped
    BY DEF FindInv
  <2>5. Len(path) = Len(stack) /\ Len(stack) \in 0..1 /\ answer = "none"
    BY <2>1, <2>4 DEF WalkTyped
  <2>6. /\ path \in Seq(Find!Names) /\ entry \in Find!Trees
        /\ stack \in Seq(Frames) /\ readable \in {Find!Dirs, {Find!Root}}
    BY <2>4 DEF WalkTyped
  <2> QED
    BY <2>1, <2>2, <2>3, <2>5, <2>6
<1>p. path \in Seq(Find!Names) /\ Len(path) \in 0..2 /\ Find!Strlen(path) \in Nat
  <2>1. path \in Seq(Find!Names) /\ Len(path) \in 0..2
    BY <1>0
  <2> QED
    BY <2>1, StrlenLemma
<1>q. Len(path) = Len(stack) /\ Len(stack) \in 0..1
  BY <1>0
<1>1. d \in Find!Dirs => d = IF Len(path) = 0 THEN Find!Root ELSE Find!Sub
  BY <1>0, LookupLemma
<1>2. CASE d \in Find!Dirs \intersect readable
  <2>1. stack' = Append(stack, f) /\ walkPc' = "readdir" /\ f \in Frames
    BY <1>2 DEF Find!Opendir, Frames
  <2>2. /\ stack' \in Seq(Frames) /\ Len(stack') = Len(stack) + 1
        /\ \A i \in 1..Len(stack) : stack'[i] = stack[i]
        /\ stack'[Len(stack) + 1] = f
    BY <1>0, <2>1, AppendProperties
  <2>3. f.dir = d /\ f.left = {n \in Find!Names : entry[d][n] # Find!None}
    OBVIOUS
  <2> HIDE DEF f
  <2>4. pathlen' \in Nat /\ pathlen' >= pathlen
        /\ (Len(path) = 1 => Length[path[1]] + NAME_MAX + 4 <= pathlen')
    <3>1. pathlen \in Nat /\ pathlen >= PATH_MAX /\ pathlen' = IF Find!Short THEN 2 * pathlen ELSE pathlen
      BY DEF Find!Opendir, FindInv, WalkTyped, Room
    <3>2. Len(path) = 1 => Find!Strlen(path) = 2 + Length[path[1]] /\ Length[path[1]] \in 1..NAME_MAX
      BY <1>0, StrlenLemma
    <3> QED
      BY <1>0, <3>1, <3>2, Lengths DEF Find!Short
  <2>5. WalkTyped'
    BY <1>0, <1>1, <1>2, <2>1, <2>2, <2>3, <2>4 DEF FindInv, WalkTyped
  <2>6. Room'
    <3>1. Find!Strlen(path)' = Find!Strlen(path) /\ Find!Strlen(path) \in Nat
      <4>1. UNCHANGED path
        BY <1>0
      <4>2. Find!Strlen(path) \in Nat
        BY <1>p
      <4> QED
        BY <4>1, <4>2 DEF Find!Strlen
    <3>2. pathlen \in Nat /\ pathlen >= PATH_MAX /\ Find!Strlen(path) + 1 <= pathlen
      BY DEF FindInv, WalkTyped, Room
    <3>3. Len(stack') = 2 => Length[path[1]] + NAME_MAX + 4 <= pathlen'
      <4>1. Len(stack') = Len(stack) + 1
        BY <2>2
      <4>2. Len(stack') = 2 => Len(path) = 1
        BY <1>q, <4>1
      <4> QED
        BY <2>4, <4>2
    <3>4. pathlen' >= PATH_MAX /\ Find!Strlen(path)' + 1 <= pathlen'
      BY <2>4, <3>1, <3>2, Lengths
    <3> QED
      BY <1>0, <3>3, <3>4 DEF Room
  <2>7. RootSeen'
    <3> SUFFICES ASSUME NEW n \in Find!Names, Stays(Find!Root, n)
                 PROVE n \in stack'[1].left
      BY <1>0, <2>2 DEF RootSeen, Stays
    <3>1. CASE AtRoot
      <4>1. d = Find!Root /\ Len(stack) = 0
        BY <1>0, <1>1, <1>2, <3>1, EmptySeq DEF AtRoot
      <4> QED
        BY <2>2, <2>3, <4>1 DEF Stays, Find!None
    <3>2. CASE Len(stack) >= 1 /\ n \in stack[1].left
      BY <1>0, <2>2, <3>2
    <3> QED
      BY <1>0, <3>1, <3>2 DEF FindInv, RootSeen
  <2>8. SubSeen'
    <3> SUFFICES ASSUME NEW m \in Find!Names, NEW n \in Find!Names,
                        Stays(Find!Sub, n) /\ entry[Find!Root][m] = Find!Sub /\ <<Find!Root, m>> \in calm,
                        3 + Length[m] + Length[n] < PATH_MAX
                 PROVE \/ m \in stack'[1].left
                       \/ Len(stack') = 2 /\ path[1] = m /\ n \in stack'[2].left
      BY <1>0, <2>2 DEF SubSeen, Stays
    <3>1. CASE AtRoot
      <4>1. d = Find!Root /\ Len(stack) = 0
        BY <1>0, <1>1, <1>2, <3>1, EmptySeq DEF AtRoot
      <4> QED
        BY <2>2, <2>3, <4>1 DEF Find!None, Find!Sub
    <3>2. CASE Len(stack) >= 1 /\ m \in stack[1].left
      BY <1>0, <2>2, <3>2
    <3>3. CASE Len(stack) = 1 /\ path[1] = m
      <4>1. d = Find!Sub
        BY <1>0, <1>1, <1>2, <3>3
      <4> QED
        BY <2>2, <2>3, <3>3, <4>1 DEF Stays, Find!None
    <3> QED
      BY <1>0, <3>1, <3>2, <3>3 DEF FindInv, SubSeen
  <2> QED
    BY <2>5, <2>6, <2>7, <2>8 DEF FindInv
<1>3. CASE d \notin Find!Dirs \intersect readable
  <2>1. UNCHANGED stack /\ walkPc' = IF stack = <<>> THEN "end" ELSE "readdir"
    BY <1>3 DEF Find!Opendir, Find!Return
  <2>2. Len(stack) = 0 <=> stack = <<>>
    BY <1>0, EmptySeq
  <2>3. Find!Root \in Find!Dirs \intersect readable
    BY <1>0 DEF Find!Dirs
  <2>4. Len(stack) # 0
    BY <1>0, <1>3, <2>3, LookupLemma
  <2>5. pathlen' \in Nat /\ pathlen' >= pathlen
    BY DEF Find!Opendir, FindInv, WalkTyped
  <2>6. WalkTyped'
    BY <1>0, <2>1, <2>2, <2>4, <2>5 DEF FindInv, WalkTyped
  <2>7. Room'
    <3>1. Find!Strlen(path)' = Find!Strlen(path) /\ Find!Strlen(path) \in Nat
      <4>1. UNCHANGED path
        BY <1>0
      <4>2. Find!Strlen(path) \in Nat
        BY <1>p
      <4> QED
        BY <4>1, <4>2 DEF Find!Strlen
    <3>2. pathlen \in Nat /\ pathlen >= PATH_MAX /\ Find!Strlen(path) + 1 <= pathlen
      BY DEF FindInv, WalkTyped, Room
    <3>3. pathlen' >= PATH_MAX /\ Find!Strlen(path)' + 1 <= pathlen'
      BY <2>5, <3>1, <3>2, Lengths
    <3>4. Len(stack') # 2
      <4>1. stack' = stack
        BY <2>1
      <4>2. \A k \in 0..1 : k # 2
        OBVIOUS
      <4> QED
        BY <1>q, <4>1, <4>2
    <3>5. walkPc' # "opendir"
      BY <1>0
    <3> QED
      BY <3>3, <3>4, <3>5 DEF Room
  <2>8. RootSeen'
    BY <1>0, <2>1, <2>2, <2>4 DEF FindInv, RootSeen, AtRoot, Stays
  <2>9. SubSeen'
    <3>1. ASSUME NEW m \in Find!Names, NEW n \in Find!Names, Stays(Find!Sub, n),
                 entry[Find!Root][m] = Find!Sub, Len(stack) = 1, path[1] = m
          PROVE  FALSE
      <4>1. d = Find!Sub
        BY <1>0, <3>1, LookupLemma
      <4> QED
        BY <1>3, <3>1, <4>1 DEF Stays, Find!Dirs
    <3> QED
      BY <1>0, <2>1, <2>2, <2>4, <3>1 DEF FindInv, SubSeen, AtRoot, Stays
  <2> QED
    BY <2>6, <2>7, <2>8, <2>9 DEF FindInv
<1> QED
  BY <1>2, <1>3

\* What a sequence begins with.
LEMMA FirstsLemma ==
  ASSUME NEW S, NEW s \in Seq(S), NEW k \in 0..1, k <= Len(s)
  PROVE  /\ SubSeq(s, 1, k) \in Seq(S) /\ Len(SubSeq(s, 1, k)) = k
         /\ k = 1 => SubSeq(s, 1, k)[1] = s[1]
<1>1. Len(s) \in Nat
  BY LenProperties
<1>2. \A i \in 1..k : s[i] \in S
  BY <1>1, ElementOfSeq
<1> DEFINE p == SubSeq(s, 1, k)
<1>3. /\ p \in Seq(S) /\ Len(p) = (IF 1 <= k THEN k - 1 + 1 ELSE 0)
      /\ \A i \in 1..(k - 1 + 1) : p[i] = s[1 + i - 1]
  BY <1>2, SubSeqProperties
<1>4. k = 1 => p[1] = s[1 + 1 - 1]
  BY <1>3
<1>5. k = 1 => p[1] = s[1]
  BY <1>4
<1> HIDE DEF p
<1>6. Len(p) = k
  BY <1>3
<1> QED
  BY <1>3, <1>5, <1>6 DEF p

\* The name after the first ones.
LEMMA NextLemma ==
  ASSUME NEW s \in Seq(Find!Names), NEW n \in Find!Names
  PROVE  /\ Append(s, n) \in Seq(Find!Names) /\ Len(Append(s, n)) = Len(s) + 1
         /\ Append(s, n)[Len(s) + 1] = n /\ Len(s) \in Nat
         /\ Len(s) >= 1 => Append(s, n)[1] = s[1]
<1>1. Len(s) \in Nat
  BY LenProperties
<1>2. Append(s, n) \in Seq(Find!Names) /\ Len(Append(s, n)) = Len(s) + 1
  BY AppendProperties
<1>3. \A i \in 1..Len(s) : Append(s, n)[i] = s[i]
  BY AppendProperties
<1>4. Append(s, n)[Len(s) + 1] = n
  BY AppendProperties
<1>5. Len(s) >= 1 => 1 \in 1..Len(s)
  BY <1>1
<1> QED
  BY <1>1, <1>2, <1>3, <1>4, <1>5

\* The first names of the path.
LEMMA PrefixLemma ==
  ASSUME path \in Seq(Find!Names), Len(stack) \in 1..2, Len(path) >= Len(stack) - 1
  PROVE  /\ Find!Prefix \in Seq(Find!Names) /\ Len(Find!Prefix) = Len(stack) - 1
         /\ Len(stack) = 2 => Find!Prefix[1] = path[1]
<1>1. Len(path) \in Nat /\ Len(stack) - 1 \in 0..1
  BY LenProperties
<1>3. Find!Prefix = SubSeq(path, 1, Len(stack) - 1)
  BY DEF Find!Prefix, Find!Depth
<1>4. Len(stack) - 1 <= Len(path)
  BY <1>1
<1>5. /\ SubSeq(path, 1, Len(stack) - 1) \in Seq(Find!Names)
      /\ Len(SubSeq(path, 1, Len(stack) - 1)) = Len(stack) - 1
      /\ Len(stack) - 1 = 1 => SubSeq(path, 1, Len(stack) - 1)[1] = path[1]
  BY <1>1, <1>4, FirstsLemma
<1>6. Len(stack) = 2 => Len(stack) - 1 = 1
  OBVIOUS
<1> QED
  BY <1>3, <1>5, <1>6

\* The name that is taken out of the frame is the one lstat() looks at next.
LEMMA ReaddirStep == FindInv /\ Find!Readdir => FindInv'
<1> SUFFICES ASSUME FindInv, Find!Readdir PROVE FindInv'
  OBVIOUS
<1>1. PICK n \in Find!Names :
        /\ stack' = [stack EXCEPT ![Len(stack)].done = @ \union {n}, ![Len(stack)].left = @ \ {n}]
        /\ path' = Append(Find!Prefix, n)
  BY DEF Find!Readdir, Find!Depth, Find!Frame, Find!PathOf
<1>2. /\ walkPc = "readdir" /\ walkPc' = "lstat" /\ Len(stack) \in 1..2 /\ Len(path) >= Len(stack) - 1
      /\ path \in Seq(Find!Names) /\ stack \in Seq(Frames)
      /\ UNCHANGED <<entry, readable, pathlen, answer, calm>>
  BY DEF Find!Readdir, FindInv, WalkTyped
<1>3. /\ path' \in Seq(Find!Names) /\ Len(path') = Len(stack) /\ path'[Len(stack)] = n
      /\ Len(stack) = 2 => path'[1] = path[1]
  <2>1. /\ Find!Prefix \in Seq(Find!Names) /\ Len(Find!Prefix) = Len(stack) - 1
        /\ Len(stack) = 2 => Find!Prefix[1] = path[1]
    BY <1>2, PrefixLemma
  <2>2. /\ path' \in Seq(Find!Names) /\ Len(path') = Len(Find!Prefix) + 1 /\ path'[Len(Find!Prefix) + 1] = n
        /\ Len(Find!Prefix) >= 1 => path'[1] = Find!Prefix[1]
    BY <1>1, <2>1, NextLemma
  <2>3. Len(Find!Prefix) + 1 = Len(stack)
    BY <1>2, <2>1
  <2> QED
    BY <1>2, <2>1, <2>2, <2>3
<1>4. /\ stack' \in Seq(Frames) /\ Len(stack') = Len(stack)
      /\ \A i \in 1..Len(stack) : /\ stack'[i].dir = stack[i].dir
                                  /\ i # Len(stack) => stack'[i].left = stack[i].left
      /\ stack'[Len(stack)].left = stack[Len(stack)].left \ {n}
  <2> DEFINE k == Len(stack)
             e == [stack[k] EXCEPT !.done = @ \union {n}, !.left = @ \ {n}]
  <2>1. k \in 1..Len(stack) /\ stack[k] \in Frames
    <3>1. k \in 1..2
      BY <1>2
    <3>2. k \in 1..k
      BY <3>1
    <3> QED
      BY <1>2, <3>2, ElementOfSeq
  <2>2. e \in Frames /\ e.dir = stack[k].dir /\ e.left = stack[k].left \ {n}
    BY <2>1 DEF Frames
  <2>3. stack' = [stack EXCEPT ![k] = e]
    BY <1>1, <1>2, <2>1, LenProperties
  <2> HIDE DEF e
  <2> QED
    BY <1>2, <2>1, <2>2, <2>3, ExceptSeq
<1>5. WalkTyped'
  BY <1>2, <1>3, <1>4 DEF FindInv, WalkTyped
<1>6. Room'
  <2>1. Len(path') \in 0..2
    BY <1>2, <1>3
  <2>2. /\ Len(path') = 1 => Find!Strlen(path)' = 2 + Length[path'[1]] /\ Length[path'[1]] \in 1..NAME_MAX
        /\ Len(path') = 2 => Find!Strlen(path)' = 3 + Length[path'[1]] + Length[path'[2]] 
                             /\ Length[path'[1]] \in 1..NAME_MAX /\ Length[path'[2]] \in 1..NAME_MAX
    <3>1. Find!Strlen(path)' = Find!Strlen(path')
      BY DEF Find!Strlen
    <3> QED
      BY <1>3, <2>1, <3>1, StrlenLemma
  <2>3. pathlen \in Nat /\ pathlen >= PATH_MAX
    BY DEF FindInv, WalkTyped, Room
  <2>4. Len(stack) = 2 => Length[path[1]] + NAME_MAX + 4 <= pathlen
    BY DEF FindInv, Room
  <2>5. Len(path') = Len(stack) /\ Len(stack) \in 1..2 /\ (Len(stack) = 2 => path'[1] = path[1])
    BY <1>2, <1>3
  <2>6. Find!Strlen(path)' + 1 <= pathlen
    <3>1. CASE Len(path') = 1
      BY <2>2, <2>3, <3>1, Lengths
    <3>2. CASE Len(path') = 2
      BY <2>2, <2>3, <2>4, <2>5, <3>2, Lengths
    <3> QED
      BY <2>5, <3>1, <3>2
  <2>7. Len(stack') = 2 => Length[path'[1]] + NAME_MAX + 4 <= pathlen
    BY <1>4, <2>4, <2>5
  <2> QED
    BY <1>2, <2>3, <2>6, <2>7 DEF Room
<1>7. RootSeen'
  BY <1>2, <1>3, <1>4, EmptySeq DEF FindInv, RootSeen, AtRoot, Stays
<1>8. SubSeen'
  <2> SUFFICES ASSUME NEW m \in Find!Names, NEW l \in Find!Names, answer # "stdin",
                      Stays(Find!Sub, l) /\ entry[Find!Root][m] = Find!Sub /\ <<Find!Root, m>> \in calm,
                      3 + Length[m] + Length[l] < PATH_MAX
               PROVE \/ m \in stack'[1].left
                     \/ Len(stack) = 1 /\ path'[1] = m
                     \/ Len(stack) = 2 /\ path'[1] = m /\ (l \in stack'[2].left \/ path'[2] = l)
    BY <1>2, <1>4 DEF SubSeen, Stays
  <2>1. \/ m \in stack[1].left
        \/ Len(stack) = 2 /\ path[1] = m /\ l \in stack[2].left
    BY <1>2, EmptySeq DEF FindInv, SubSeen, AtRoot
  <2> QED
    BY <1>2, <1>3, <1>4, <2>1
<1> QED
  BY <1>5, <1>6, <1>7, <1>8 DEF FindInv

\* A directory is closed when no name that stays is left in it.
LEMMA ClosedirStep == FindInv /\ Find!Closedir => FindInv'
<1> SUFFICES ASSUME FindInv, Find!Closedir PROVE FindInv'
  OBVIOUS
<1>1. /\ walkPc = "readdir" /\ Len(stack) \in 1..2 /\ Len(path) >= Len(stack) - 1
      /\ path \in Seq(Find!Names) /\ stack \in Seq(Frames) /\ answer = "none" /\ stack # <<>>
      /\ UNCHANGED <<entry, readable, pathlen, answer, calm>> /\ stack[Len(stack)].left = {}
      /\ path' = Find!Prefix /\ stack' = SubSeq(stack, 1, Len(stack) - 1)
      /\ walkPc' = IF Len(stack) = 1 THEN "end" ELSE "readdir"
  BY EmptySeq DEF Find!Closedir, FindInv, WalkTyped, Find!Depth, Find!Frame
<1>2. /\ path' \in Seq(Find!Names) /\ Len(path') = Len(stack) - 1
      /\ Len(stack) = 2 => path'[1] = path[1]
  BY <1>1, PrefixLemma
<1>3. /\ stack' \in Seq(Frames) /\ Len(stack') = Len(stack) - 1
      /\ Len(stack) = 2 => stack'[1] = stack[1]
  <2>1. Len(stack) - 1 \in 0..1 /\ Len(stack) - 1 <= Len(stack)
    BY <1>1
  <2>2. /\ stack' \in Seq(Frames) /\ Len(stack') = Len(stack) - 1
        /\ Len(stack) - 1 = 1 => stack'[1] = stack[1]
    BY <1>1, <2>1, FirstsLemma
  <2>3. Len(stack) = 2 => Len(stack) - 1 = 1
    OBVIOUS
  <2> QED
    BY <2>2, <2>3
<1>4. WalkTyped'
  BY <1>1, <1>2, <1>3, EmptySeq DEF FindInv, WalkTyped
<1>5. Room'
  <2>1. Find!Strlen(path)' = Find!Strlen(path') /\ Len(path') \in 0..2
    <3>1. Len(path') \in 0..2
      BY <1>1, <1>2
    <3> QED
      BY <3>1 DEF Find!Strlen
  <2>2. /\ Len(path') = 0 => Find!Strlen(path)' = 1
        /\ Len(path') = 1 => Find!Strlen(path)' = 2 + Length[path'[1]] /\ Length[path'[1]] \in 1..NAME_MAX
    BY <1>2, <2>1, StrlenLemma
  <2>3. pathlen \in Nat /\ pathlen >= PATH_MAX
    BY DEF FindInv, WalkTyped, Room
  <2>4. Find!Strlen(path)' + 1 <= pathlen
    <3>1. Len(path') \in 0..1
      BY <1>1, <1>2
    <3> QED
      BY <2>2, <2>3, <3>1, Lengths
  <2>5. Len(stack') # 2
    <3>1. Len(stack') = Len(stack) - 1 /\ Len(stack) \in 1..2
      BY <1>1, <1>3
    <3> QED
      BY <3>1
  <2>6. walkPc' # "opendir" /\ pathlen' = pathlen
    BY <1>1
  <2> QED
    BY <2>3, <2>4, <2>5, <2>6 DEF Room
<1>6. RootSeen'
  BY <1>1, <1>2, <1>3 DEF FindInv, RootSeen, AtRoot, Stays
<1>7. SubSeen'
  BY <1>1, <1>2, <1>3 DEF FindInv, SubSeen, AtRoot, Stays
<1> QED
  BY <1>4, <1>5, <1>6, <1>7 DEF FindInv

\* A change makes names that are no longer calm; what is to be looked at of
\* the others is what it was.
LEMMA ChangeLemma ==
  ASSUME FindInv, NEW places, Find!Change(places), entry' \in Find!Trees,
         \A d \in Find!Dirs, n \in Find!Names : <<d, n>> \notin places => entry'[d][n] = entry[d][n]
  PROVE  FindInv'
<1>1. /\ walkPc # "end" /\ UNCHANGED <<readable, path, pathlen, walkPc, answer>>
      /\ calm' = calm \ places /\ stack \in Seq(Frames)
      /\ stack' = [i \in DOMAIN stack |->
                     [stack[i] EXCEPT !.left = {n \in stack[i].left : <<stack[i].dir, n>> \notin places}]]
  BY DEF Find!Change, FindInv, WalkTyped
<1>2. \A d \in Find!Dirs, n \in Find!Names : Stays(d, n)' => Stays(d, n) /\ <<d, n>> \notin places
  BY <1>1 DEF Stays
<1>3. /\ DOMAIN stack = 1..Len(stack) /\ Len(stack) \in Nat
      /\ \A i \in 1..Len(stack) : stack[i] \in Frames
  BY <1>1, LenProperties, ElementOfSeq
<1>4. /\ DOMAIN stack' = 1..Len(stack) /\ \A i \in 1..Len(stack) : stack'[i] \in Frames /\ stack'[i].dir = stack[i].dir
      /\ \A i \in 1..Len(stack) : stack'[i].left = {n \in stack[i].left : <<stack[i].dir, n>> \notin places}
  BY <1>1, <1>3 DEF Frames
<1>5. stack' \in Seq(Frames) /\ Len(stack') = Len(stack)
  <2>1. stack' \in [1..Len(stack) -> Frames]
    BY <1>1, <1>3, <1>4
  <2> QED
    BY <1>3, <1>4, <2>1
<1>6. stack = <<>> => stack' = <<>>
  BY <1>1, <1>5, EmptySeq
<1>7. WalkTyped'
  BY <1>1, <1>4, <1>5 DEF FindInv, WalkTyped
<1>8. Room'
  BY <1>1, <1>5 DEF FindInv, Room, Find!Strlen
<1>9. RootSeen'
  <2> SUFFICES ASSUME NEW n \in Find!Names, Stays(Find!Root, n)'
               PROVE \/ AtRoot'
                     \/ Len(stack') >= 1 /\ n \in stack'[1].left
                     \/ walkPc = "lstat" /\ Len(stack') = 1 /\ path[1] = n
    BY <1>1 DEF RootSeen
  <2>1. Stays(Find!Root, n) /\ <<Find!Root, n>> \notin places
    BY <1>2 DEF Find!Dirs
  <2>2. \/ AtRoot
        \/ Len(stack) >= 1 /\ n \in stack[1].left
        \/ walkPc = "lstat" /\ Len(stack) = 1 /\ path[1] = n
    BY <1>1, <2>1 DEF FindInv, RootSeen, WalkTyped
  <2> QED
    BY <1>1, <1>3, <1>4, <1>5, <1>6, <2>1, <2>2 DEF AtRoot, FindInv, WalkTyped
<1>10. SubSeen'
  <2> SUFFICES ASSUME NEW m \in Find!Names, NEW n \in Find!Names, Stays(Find!Sub, n)',
                      entry'[Find!Root][m] = Find!Sub, <<Find!Root, m>> \in calm',
                      3 + Length[m] + Length[n] < PATH_MAX
               PROVE \/ AtRoot'
                     \/ Len(stack') >= 1 /\ m \in stack'[1].left
                     \/ walkPc \in {"lstat", "opendir"} /\ Len(stack') = 1 /\ path[1] = m
                     \/ Len(stack') = 2 /\ path[1] = m /\ (n \in stack'[2].left \/ (walkPc = "lstat" /\ path[2] = n))
    BY <1>1 DEF SubSeen
  <2>1. /\ Stays(Find!Sub, n) /\ <<Find!Sub, n>> \notin places
        /\ <<Find!Root, m>> \in calm /\ <<Find!Root, m>> \notin places /\ entry[Find!Root][m] = Find!Sub
    BY <1>1, <1>2 DEF Find!Dirs
  <2>2. \/ AtRoot
        \/ Len(stack) >= 1 /\ m \in stack[1].left
        \/ walkPc \in {"lstat", "opendir"} /\ Len(stack) = 1 /\ path[1] = m
        \/ Len(stack) = 2 /\ path[1] = m /\ (n \in stack[2].left \/ (walkPc = "lstat" /\ path[2] = n))
    BY <1>1, <2>1 DEF FindInv, SubSeen, WalkTyped
  <2>3. Len(stack) >= 1 /\ m \in stack[1].left => m \in stack'[1].left
    <3> SUFFICES ASSUME Len(stack) >= 1, m \in stack[1].left PROVE m \in stack'[1].left
      OBVIOUS
    <3>1. 1 \in 1..Len(stack) /\ stack[1].dir = Find!Root
      BY <1>3 DEF FindInv, WalkTyped
    <3> QED
      BY <1>4, <2>1, <3>1
  <2>4. Len(stack) = 2 /\ n \in stack[2].left => n \in stack'[2].left
    <3> SUFFICES ASSUME Len(stack) = 2, n \in stack[2].left PROVE n \in stack'[2].left
      OBVIOUS
    <3>1. 2 \in 1..Len(stack) /\ stack[2].dir = Find!Sub
      BY DEF FindInv, WalkTyped
    <3> QED
      BY <1>4, <2>1, <3>1
  <2>5. AtRoot => AtRoot'
    BY <1>1, <1>6 DEF AtRoot
  <2>6. Len(stack') = Len(stack)
    BY <1>5
  <2> QED
    BY <2>2, <2>3, <2>4, <2>5, <2>6
<1> QED
  BY <1>7, <1>8, <1>9, <1>10 DEF FindInv

\* A new file makes no second directory below the root.
LEMMA MakeStep == FindInv /\ Find!Make => FindInv'
<1> SUFFICES ASSUME FindInv, Find!Make PROVE FindInv'
  OBVIOUS
<1>1. PICK d \in Find!Dirs, n \in Find!Names, f \in Files :
        /\ entry[d][n] = Find!None /\ entry' = [entry EXCEPT ![d][n] = f] /\ Find!Change({<<d, n>>})
  BY DEF Find!Make
<1>2. entry \in Find!Trees
  BY DEF FindInv, WalkTyped
<1>3. entry' \in Find!Trees
  <2>1. entry' \in [Find!Dirs -> [Find!Names -> Files \union {Find!Sub, Find!None}]]
    BY <1>1, <1>2 DEF Find!Trees
  <2>2. \A c \in Find!Dirs, m \in Find!Names : (entry'[c][m] = Find!Sub) <=> (entry[c][m] = Find!Sub)
    BY <1>1, <1>2, Lengths DEF Find!Trees, Find!None, Find!Sub
  <2> QED
    BY <1>2, <2>1, <2>2 DEF Find!Trees, Find!Dirs
<1>4. \A c \in Find!Dirs, m \in Find!Names : <<c, m>> \notin {<<d, n>>} => entry'[c][m] = entry[c][m]
  BY <1>1, <1>2 DEF Find!Trees
<1> QED
  BY <1>1, <1>3, <1>4, ChangeLemma

\* The directory itself is not removed.
LEMMA RemoveStep == FindInv /\ Find!Remove => FindInv'
<1> SUFFICES ASSUME FindInv, Find!Remove PROVE FindInv'
  OBVIOUS
<1>1. PICK d \in Find!Dirs, n \in Find!Names :
        /\ entry[d][n] \in Files /\ entry' = [entry EXCEPT ![d][n] = Find!None] /\ Find!Change({<<d, n>>})
  BY DEF Find!Remove
<1>2. entry \in Find!Trees
  BY DEF FindInv, WalkTyped
<1>3. entry' \in Find!Trees
  <2>1. entry' \in [Find!Dirs -> [Find!Names -> Files \union {Find!Sub, Find!None}]]
    BY <1>1, <1>2 DEF Find!Trees
  <2>2. \A c \in Find!Dirs, m \in Find!Names : (entry'[c][m] = Find!Sub) <=> (entry[c][m] = Find!Sub)
    BY <1>1, <1>2, Lengths DEF Find!Trees, Find!None, Find!Sub
  <2> QED
    BY <1>2, <2>1, <2>2 DEF Find!Trees, Find!Dirs
<1>4. \A c \in Find!Dirs, m \in Find!Names : <<c, m>> \notin {<<d, n>>} => entry'[c][m] = entry[c][m]
  BY <1>1, <1>2 DEF Find!Trees
<1> QED
  BY <1>1, <1>3, <1>4, ChangeLemma

\* rename() of the directory leaves it below the root, under one name.
LEMMA RenameStep == FindInv /\ Find!Rename => FindInv'
<1> SUFFICES ASSUME FindInv, Find!Rename PROVE FindInv'
  OBVIOUS
<1>1. PICK d \in Find!Dirs, e \in Find!Dirs, m \in Find!Names, n \in Find!Names :
        /\ entry[d][m] # Find!None /\ <<d, m>> # <<e, n>>
        /\ entry[d][m] = Find!Sub => e = Find!Root /\ entry[e][n] = Find!None
        /\ entry[e][n] # Find!Sub
        /\ entry' = [entry EXCEPT ![d][m] = Find!None, ![e][n] = entry[d][m]]
        /\ Find!Change({<<d, m>>, <<e, n>>})
  BY DEF Find!Rename
<1>2. entry \in Find!Trees /\ entry \in [Find!Dirs -> [Find!Names -> Files \union {Find!Sub, Find!None}]]
  BY DEF FindInv, WalkTyped, Find!Trees
<1>3. /\ entry' \in [Find!Dirs -> [Find!Names -> Files \union {Find!Sub, Find!None}]]
      /\ entry'[e][n] = entry[d][m] /\ entry'[d][m] = Find!None
      /\ \A c \in Find!Dirs, k \in Find!Names : <<c, k>> # <<d, m>> /\ <<c, k>> # <<e, n>> => entry'[c][k] = entry[c][k]
  <2> DEFINE V == Files \union {Find!Sub, Find!None}
             a == [entry EXCEPT ![d][m] = Find!None]
  <2>1. entry[d][m] \in V /\ Find!None \in V
    BY <1>2
  <2>2. /\ a \in [Find!Dirs -> [Find!Names -> V]] /\ a[d][m] = Find!None
        /\ \A c \in Find!Dirs, k \in Find!Names : <<c, k>> # <<d, m>> => a[c][k] = entry[c][k]
    BY <1>2, <2>1
  <2>3. entry' = [a EXCEPT ![e][n] = entry[d][m]]
    BY <1>1, <1>2
  <2> HIDE DEF a
  <2>4. /\ entry' \in [Find!Dirs -> [Find!Names -> V]] /\ entry'[e][n] = entry[d][m]
        /\ \A c \in Find!Dirs, k \in Find!Names : <<c, k>> # <<e, n>> => entry'[c][k] = a[c][k]
    BY <2>1, <2>2, <2>3
  <2>5. entry'[d][m] = Find!None
    BY <1>1, <2>2, <2>4
  <2>6. \A c \in Find!Dirs, k \in Find!Names :
           <<c, k>> # <<d, m>> /\ <<c, k>> # <<e, n>> => entry'[c][k] = entry[c][k]
    BY <2>2, <2>4
  <2> QED
    BY <2>4, <2>5, <2>6
<1>4. entry' \in Find!Trees
  <2>1. \A k \in Find!Names : entry'[Find!Sub][k] # Find!Sub
    BY <1>1, <1>2, <1>3 DEF Find!Trees, Find!Sub, Find!Root, Find!None, Find!Dirs
  <2>2. PICK k \in Find!Names : {l \in Find!Names : entry[Find!Root][l] = Find!Sub} = {k}
    BY <1>2 DEF Find!Trees
  <2>3. CASE entry[d][m] = Find!Sub
    <3>1. d = Find!Root /\ m = k /\ e = Find!Root /\ n # m
      BY <1>1, <1>2, <2>2, <2>3 DEF Find!Trees, Find!Dirs
    <3>2. {l \in Find!Names : entry'[Find!Root][l] = Find!Sub} = {n}
      BY <1>1, <1>3, <2>2, <2>3, <3>1 DEF Find!Sub, Find!None
    <3> QED
      BY <1>3, <2>1, <3>2 DEF Find!Trees
  <2>4. CASE entry[d][m] # Find!Sub
    <3>1. {l \in Find!Names : entry'[Find!Root][l] = Find!Sub} = {k}
      <4>1. \A l \in Find!Names : (entry'[Find!Root][l] = Find!Sub) <=> (entry[Find!Root][l] = Find!Sub)
        BY <1>1, <1>3, <2>4 DEF Find!Sub, Find!None, Find!Dirs
      <4> QED
        BY <2>2, <4>1
    <3> QED
      BY <1>3, <2>1, <3>1 DEF Find!Trees
  <2> QED
    BY <2>3, <2>4
<1>5. \A c \in Find!Dirs, k \in Find!Names : <<c, k>> \notin {<<d, m>>, <<e, n>>} => entry'[c][k] = entry[c][k]
  BY <1>3
<1> QED
  BY <1>1, <1>4, <1>5, ChangeLemma

\* The walk, whatever the others do meanwhile, keeps what it has still to see.
LEMMA FindStep == FindInv /\ [Find!Next]_findVars => FindInv'
<1>1. FindInv /\ UNCHANGED findVars => FindInv'
  BY DEF findVars, FindInv, WalkTyped, Room, RootSeen, SubSeen, Stays, AtRoot, Find!Strlen
<1> QED
  BY <1>1, LstatStep, OpendirStep, ReaddirStep, ClosedirStep, MakeStep, RemoveStep, RenameStep DEF Find!Next

\* At the end nothing is left to be seen.
LEMMA FindInvFound == FindInv => Found
<1> SUFFICES ASSUME FindInv PROVE Found
  OBVIOUS
<1>1. Find!TypeOK
  <2>1. entry \in Find!Trees /\ readable \subseteq Find!Dirs /\ path \in Seq(Find!Names)
    BY DEF FindInv, WalkTyped, Find!Dirs
  <2>2. Len(path) <= 2 /\ Len(stack) <= 2
    <3>1. Len(path) \in Nat
      BY <2>1, LenProperties
    <3>2. Len(stack) \in 0..2 /\ Len(path) <= Len(stack)
      BY DEF FindInv, WalkTyped
    <3>3. \A a \in Nat, b \in 0..2 : a <= b => a <= 2 /\ b <= 2
      OBVIOUS
    <3> QED
      BY <3>1, <3>2, <3>3
  <2>3. walkPc \in {"lstat", "opendir", "readdir", "end"} /\ answer \in Files \union {Find!None}
    BY Lengths DEF FindInv, WalkTyped, Find!None
  <2> QED
    BY <2>1, <2>2, <2>3 DEF Find!TypeOK, Find!Depth
<1>2. Find!InBuffer
  BY DEF FindInv, Room, Find!InBuffer
<1>3. Find!Found
  <2> SUFFICES ASSUME walkPc = "end", answer # "stdin",
                      NEW d \in Find!Dirs, NEW n \in Find!Names, Stays(d, n)
               PROVE d = Find!Sub /\ \A m \in Find!Names : entry[Find!Root][m] = Find!Sub =>
                                       \/ <<Find!Root, m>> \notin calm
                                       \/ Find!Strlen(<<m, n>>) >= PATH_MAX
    BY DEF Find!Found, Stays, FindInv, WalkTyped, Find!None
  <2>1. stack = <<>> /\ Len(stack) = 0
    BY EmptySeq DEF FindInv, WalkTyped
  <2>2. d # Find!Root
    BY <2>1 DEF FindInv, RootSeen, AtRoot
  <2>3. d = Find!Sub
    BY <2>2 DEF Find!Dirs
  <2>4. ASSUME NEW m \in Find!Names, entry[Find!Root][m] = Find!Sub, <<Find!Root, m>> \in calm
        PROVE  Find!Strlen(<<m, n>>) >= PATH_MAX
    <3>1. ~(3 + Length[m] + Length[n] < PATH_MAX)
      BY <2>1, <2>3, <2>4 DEF FindInv, SubSeen, AtRoot
    <3>2. Find!Strlen(<<m, n>>) = 3 + Length[m] + Length[n]
      BY DEF Find!Strlen
    <3> QED
      BY <3>1, <3>2, Lengths
  <2> QED
    BY <2>3, <2>4
<1> QED
  BY <1>1, <1>2, <1>3 DEF Found

\* wmstdin reports the file unless no name of it stayed in reach during the walk,
\* whatever is made, removed or renamed meanwhile; and its path fits the buffer.
THEOREM FoundHolds == Spec => []Found
<1>1. FindInv /\ [Next]_vars => FindInv'
  BY FindStep, StepOfPart
<1> QED
  BY <1>1, FindInit, FindInvFound, PTL DEF Spec, vars

-----------------------------------------------------------------------------
(* The server of esameSNP40. *)

\* How many of the first m members of s are k.
Count(s, m, k) == Cardinality({i \in 1..m : s[i] = k})

LEMMA CountLemma ==
  ASSUME NEW s, NEW k, NEW m \in Nat, NEW l \in Nat, m <= l
  PROVE  /\ Count(s, m, k) \in Nat /\ Count(s, m, k) <= Count(s, l, k)
         /\ m < l /\ s[m + 1] = k => Count(s, m, k) + 1 <= Count(s, l, k)
<1> DEFINE M == {i \in 1..m : s[i] = k}
           L == {i \in 1..l : s[i] = k}
<1>1. IsFiniteSet(1..m) /\ IsFiniteSet(1..l)
  BY FS_Interval
<1>2. M \subseteq 1..m /\ L \subseteq 1..l /\ M \subseteq L
  OBVIOUS
<1>3. IsFiniteSet(M) /\ IsFiniteSet(L)
  BY <1>1, <1>2, FS_Subset
<1>4. Cardinality(M) \in Nat /\ Cardinality(L) \in Nat /\ Cardinality(M) <= Cardinality(L)
  BY <1>2, <1>3, FS_Subset, FS_CardinalityType
<1>5. ASSUME m < l, s[m + 1] = k PROVE Cardinality(M) + 1 <= Cardinality(L)
  <2>1. m + 1 \in L /\ m + 1 \notin M
    BY <1>5
  <2>2. M # L
    BY <2>1
  <2> HIDE DEF M, L
  <2>3. Cardinality(M) # Cardinality(L)
    BY <1>2, <1>3, <2>2, FS_Subset
  <2> QED
    BY <1>4, <2>3
<1> QED
  BY <1>4, <1>5 DEF Count

\* The instance counts as FiniteSets does.
LEMMA SameServerCardinality == ASSUME NEW S PROVE Server!Cardinality(S) = Cardinality(S)
BY Zenon DEF Server!Cardinality, Cardinality

\* What the thread has received of the commands of a client.
Taken(c) == Len(sent[c]) - Len(up[c])

\* Those under way are the last ones that were sent.
Suffix ==
  \A c \in Clients : /\ Len(up[c]) <= Len(sent[c])
                     /\ \A i \in 1..Len(up[c]) : up[c][i] = sent[c][Taken(c) + i]

Pending(k) == IF serverTaker = "apply" /\ msg = k THEN 1 ELSE 0

\* The commands that were received cover the speed with the one that is looked at.
Covered ==
  /\ serverTaker # "apply" /\ msg # "c" => speed = 0
  /\ peer = "none" => speed = 0
  /\ peer # "none" => /\ speed + Pending("d") <= Count(sent[peer], Taken(peer), "d") + 1
                      /\ Pending("u") - speed <= Count(sent[peer], Taken(peer), "u") + 1

ServerInv == Server!TypeOK /\ Suffix /\ Covered

\* Nobody has sent anything.
LEMMA ServerInit == Init => ServerInv
<1> SUFFICES ASSUME Server!Init PROVE ServerInv
  BY DEF Init
<1>1. Server!TypeOK
  BY EmptySeq, PartsAssumption DEF Server!Init, Server!TypeOK, Server!NoClient, Server!Keys
<1>2. Suffix
  BY EmptySeq DEF Server!Init, Suffix
<1>3. Covered
  BY DEF Server!Init, Covered, Server!NoClient
<1> QED
  BY <1>1, <1>2, <1>3 DEF ServerInv

\* What the type invariant says, a value at a time.
LEMMA ServerTypes ==
  ASSUME Server!TypeOK
  PROVE  /\ \A c \in Clients : /\ sent[c] \in Seq(Server!Keys) /\ up[c] \in Seq(Server!Keys)
                               /\ Len(sent[c]) \in Nat /\ Len(up[c]) \in Nat
         /\ sent \in [Clients -> Seq(Server!Keys)] /\ up \in [Clients -> Seq(Server!Keys)]
         /\ speed \in Int /\ (peer # "none" => peer \in Clients)
         /\ serverTaker # "none" => peer \in Clients
<1>1. sent \in [Clients -> Seq(Server!Keys)] /\ up \in [Clients -> Seq(Server!Keys)]
  BY DEF Server!TypeOK
<1>2. ASSUME NEW c \in Clients PROVE Len(sent[c]) \in Nat /\ Len(up[c]) \in Nat
  BY <1>1, LenProperties
<1>3. speed \in Int /\ (peer # "none" => peer \in Clients) /\ (serverTaker # "none" => peer \in Clients)
  BY DEF Server!TypeOK, Server!NoClient
<1> QED
  BY <1>1, <1>2, <1>3

\* What u and d do to the speed.
LEMMA SpeedOfMsg ==
  ASSUME speed \in Int, msg \in {"u", "d", "c"}, Server!Apply
  PROVE  /\ speed' \in Int
         /\ msg = "u" => speed' = speed - 1
         /\ msg = "d" => speed' = speed + 1
         /\ msg = "c" => speed' = speed
<1>1. CASE msg = "u"
  BY <1>1 DEF Server!Apply
<1>2. CASE msg = "d"
  BY <1>2 DEF Server!Apply
<1>3. CASE msg = "c"
  BY <1>3 DEF Server!Apply
<1> QED
  BY <1>1, <1>2, <1>3

\* The types, whatever step is taken.
LEMMA ServerTypesStep == Server!TypeOK /\ Server!Next => Server!TypeOK'
<1> SUFFICES ASSUME Server!TypeOK, Server!Next PROVE Server!TypeOK'
  OBVIOUS
<1> USE PartsAssumption DEF Server!TypeOK, Server!NoClient, Server!net, Server!threads
<1>1. ASSUME NEW c \in Clients, Server!Connect(c) PROVE Server!TypeOK'
  BY <1>1 DEF Server!Connect
<1>10. ASSUME NEW c \in Clients, Server!Leave(c) PROVE Server!TypeOK'
  BY <1>10 DEF Server!Leave
<1>11. ASSUME NEW c \in Clients, Server!Reset(c) PROVE Server!TypeOK'
  BY <1>11 DEF Server!Reset
<1>2. ASSUME NEW c \in Clients, Server!Read(c) PROVE Server!TypeOK'
  BY <1>2 DEF Server!Read
<1>3. ASSUME NEW c \in Clients, NEW k \in Server!Keys, Server!Command(c, k) PROVE Server!TypeOK'
  <2>1. Append(sent[c], k) \in Seq(Server!Keys) /\ Append(up[c], k) \in Seq(Server!Keys)
    BY AppendProperties
  <2> QED
    BY <1>3, <2>1 DEF Server!Command
<1>4. ASSUME NEW c \in Clients, Server!Accept(c) PROVE Server!TypeOK'
  BY <1>4 DEF Server!Accept
<1>5. CASE Server!Create \/ Server!SendKills \/ Server!Sleep
  BY <1>5 DEF Server!Create, Server!SendKills, Server!Sleep
<1>6. CASE Server!Send
  <2>1. down \in [Clients -> 0..Cap] /\ down' = [down EXCEPT ![peer] = down[peer] + 1]
    BY <1>6 DEF Server!Send
  <2>2. ASSUME peer \in Clients PROVE down[peer] + 1 \in 0..Cap
    <3>1. down[peer] \in 0..Cap /\ down[peer] < Cap /\ Cap \in Nat
      BY <1>6, <2>2 DEF Server!Send
    <3> QED
      BY <3>1
  <2>3. down' \in [Clients -> 0..Cap]
    BY <2>1, <2>2
  <2> QED
    BY <1>6, <2>3 DEF Server!Send
<1>12. CASE Server!SendFails
  BY <1>12 DEF Server!SendFails
<1>7. CASE Server!RecvData
  <2>1. PICK k \in 1..Len(up[peer]) : up' = [up EXCEPT ![peer] = SubSeq(up[peer], k + 1, Len(up[peer]))]
    BY <1>7 DEF Server!RecvData
  <2>2. up[peer] \in Seq(Server!Keys) /\ up[peer] # <<>> /\ Len(up[peer]) \in Nat /\ k + 1 \in Int /\ k + 1 >= 1
    BY <1>7, ServerTypes DEF Server!RecvData
  <2>3. \A i \in (k + 1)..Len(up[peer]) : up[peer][i] \in Server!Keys
    BY <2>2, ElementOfSeq
  <2>4. SubSeq(up[peer], k + 1, Len(up[peer])) \in Seq(Server!Keys)
    BY <2>2, <2>3, SubSeqProperties
  <2>5. Head(up[peer]) \in Server!Keys
    BY <2>2, HeadTailProperties
  <2> QED
    BY <1>7, <2>1, <2>4, <2>5 DEF Server!RecvData
<1>8. CASE Server!RecvEnd
  BY <1>8 DEF Server!RecvEnd
<1>9. CASE Server!Apply
  <2>1. speed \in Int /\ msg \in {"u", "d", "c"}
    BY DEF Server!Keys
  <2>2. speed' \in Int
    BY <1>9, <2>1, SpeedOfMsg
  <2> QED
    BY <1>9, <2>2 DEF Server!Apply, Server!Keys
<1> QED
  BY <1>1, <1>2, <1>3, <1>4, <1>5, <1>6, <1>7, <1>8, <1>9, <1>10, <1>11, <1>12 DEF Server!Next

\* Steps by which no command moves.
LEMMA NoCommandStep ==
  ASSUME ServerInv, Server!TypeOK', UNCHANGED <<sent, up, peer, serverTaker, msg, speed>>
  PROVE  ServerInv'
<1>1. Suffix'
  BY DEF ServerInv, Suffix, Taken
<1>2. Covered'
  BY DEF ServerInv, Covered, Taken, Pending, Count
<1> QED
  BY <1>1, <1>2 DEF ServerInv

\* A command that is sent comes last of those under way.
LEMMA CommandStep ==
  \A c \in Clients, k \in Server!Keys : ServerInv /\ Server!TypeOK' /\ Server!Command(c, k) => ServerInv'
<1> SUFFICES ASSUME NEW c \in Clients, NEW k \in Server!Keys, ServerInv, Server!TypeOK', Server!Command(c, k)
             PROVE  ServerInv'
  OBVIOUS
<1>1. /\ sent' = [sent EXCEPT ![c] = Append(sent[c], k)] /\ up' = [up EXCEPT ![c] = Append(up[c], k)]
      /\ UNCHANGED <<peer, serverTaker, msg, speed>>
  BY DEF Server!Command, Server!threads
<1>2. /\ \A d \in Clients : /\ sent[d] \in Seq(Server!Keys) /\ up[d] \in Seq(Server!Keys)
                            /\ Len(sent[d]) \in Nat /\ Len(up[d]) \in Nat
      /\ sent \in [Clients -> Seq(Server!Keys)] /\ up \in [Clients -> Seq(Server!Keys)]
  BY ServerTypes DEF ServerInv
<1>3. /\ sent'[c] = Append(sent[c], k) /\ up'[c] = Append(up[c], k)
      /\ \A d \in Clients : d # c => sent'[d] = sent[d] /\ up'[d] = up[d]
  BY <1>1, <1>2
<1>4. /\ Len(sent'[c]) = Len(sent[c]) + 1 /\ Len(up'[c]) = Len(up[c]) + 1
      /\ sent'[c][Len(sent[c]) + 1] = k /\ up'[c][Len(up[c]) + 1] = k
  BY <1>2, <1>3, AppendProperties
<1>5. /\ \A i \in 1..Len(sent[c]) : sent'[c][i] = sent[c][i]
      /\ \A i \in 1..Len(up[c]) : up'[c][i] = up[c][i]
  BY <1>2, <1>3, AppendProperties
<1>6. ASSUME NEW d \in Clients
      PROVE  /\ Len(sent'[d]) - Len(up'[d]) = Taken(d) /\ Taken(d) \in Nat /\ Taken(d) <= Len(sent[d])
             /\ Len(up[d]) <= Len(sent[d]) /\ Taken(d) + Len(up[d]) = Len(sent[d])
  <2>1. Len(up[d]) <= Len(sent[d])
    BY DEF ServerInv, Suffix
  <2>2. Len(sent[d]) \in Nat /\ Len(up[d]) \in Nat
    BY <1>2
  <2>3. Len(sent'[d]) - Len(up'[d]) = Len(sent[d]) - Len(up[d])
    <3>1. CASE d = c
      <4>1. \A x, y \in Nat : (x + 1) - (y + 1) = x - y
        OBVIOUS
      <4> QED
        BY <1>4, <2>2, <3>1, <4>1
    <3>2. CASE d # c
      BY <1>3, <3>2
    <3> QED
      BY <3>1, <3>2
  <2>4. \A x, y \in Nat : y <= x => x - y \in Nat /\ x - y <= x /\ (x - y) + y = x
    OBVIOUS
  <2>5. Len(sent[d]) - Len(up[d]) \in Nat /\ Len(sent[d]) - Len(up[d]) <= Len(sent[d])
        /\ (Len(sent[d]) - Len(up[d])) + Len(up[d]) = Len(sent[d])
    BY <2>1, <2>2, <2>4
  <2> QED
    BY <2>1, <2>3, <2>5 DEF Taken
<1>7. Suffix'
  <2> SUFFICES ASSUME NEW d \in Clients
               PROVE  /\ Len(up'[d]) <= Len(sent'[d])
                      /\ \A i \in 1..Len(up'[d]) : up'[d][i] = sent'[d][Taken(d) + i]
    BY <1>6 DEF Suffix, Taken
  <2>1. CASE d # c
    BY <1>3, <2>1 DEF ServerInv, Suffix
  <2>2. CASE d = c
    <3> DEFINE t == Taken(c)
               m == Len(sent[c])
               l == Len(up[c])
    <3>1. t \in Nat /\ m \in Nat /\ l \in Nat /\ t + l = m
      BY <1>2, <1>6
    <3>2. \A i \in 1..l : up[c][i] = sent[c][t + i]
      BY DEF ServerInv, Suffix
    <3>3. /\ Len(sent'[c]) = m + 1 /\ Len(up'[c]) = l + 1
          /\ sent'[c][m + 1] = k /\ up'[c][l + 1] = k
      BY <1>4
    <3>4. /\ \A i \in 1..m : sent'[c][i] = sent[c][i]
          /\ \A i \in 1..l : up'[c][i] = up[c][i]
      BY <1>5
    <3> HIDE DEF t, m, l
    <3>5. \A i \in 1..l : t + i \in 1..m
      BY <3>1
    <3>6. \A i \in 1..l : up'[c][i] = sent'[c][t + i]
      BY <3>2, <3>4, <3>5
    <3>7. t + (l + 1) = m + 1
      BY <3>1
    <3>8. \A i \in 1..(l + 1) : i \in 1..l \/ i = l + 1
      BY <3>1
    <3>9. \A i \in 1..(l + 1) : up'[c][i] = sent'[c][t + i]
      BY <3>3, <3>6, <3>7, <3>8
    <3>10. l + 1 <= m + 1
      BY <3>1
    <3> QED
      BY <2>2, <3>3, <3>9, <3>10 DEF t
  <2> QED
    BY <2>1, <2>2
<1>8. ASSUME NEW d \in Clients, NEW x
      PROVE  Count(sent'[d], Len(sent'[d]) - Len(up'[d]), x) = Count(sent[d], Taken(d), x)
  <2>1. \A i \in 1..Taken(d) : sent'[d][i] = sent[d][i]
    <3>1. CASE d = c
      <4>1. Taken(c) \in Nat /\ Taken(c) <= Len(sent[c]) /\ Len(sent[c]) \in Nat
        BY <1>2, <1>6
      <4>2. \A i \in 1..Taken(c) : i \in 1..Len(sent[c])
        BY <4>1
      <4> QED
        BY <1>5, <3>1, <4>2
    <3>2. CASE d # c
      BY <1>3, <3>2
    <3> QED
      BY <3>1, <3>2
  <2>2. {i \in 1..Taken(d) : sent'[d][i] = x} = {i \in 1..Taken(d) : sent[d][i] = x}
    BY <2>1
  <2> QED
    BY <1>6, <2>2 DEF Count
<1>9. Covered'
  <2>1. peer # "none" => peer \in Clients
    BY ServerTypes DEF ServerInv
  <2>2. ASSUME peer # "none"
        PROVE  /\ Count(sent'[peer], Len(sent'[peer]) - Len(up'[peer]), "d") = Count(sent[peer], Taken(peer), "d")
               /\ Count(sent'[peer], Len(sent'[peer]) - Len(up'[peer]), "u") = Count(sent[peer], Taken(peer), "u")
    BY <1>8, <2>1, <2>2
  <2>3. Pending("d")' = Pending("d") /\ Pending("u")' = Pending("u")
    BY <1>1 DEF Pending
  <2>4. Covered
    BY DEF ServerInv
  <2>5. ASSUME peer # "none" PROVE Count(sent[peer], Taken(peer), "d")' = Count(sent[peer], Taken(peer), "d")
    BY <1>1, <2>2, <2>5 DEF Count, Taken
  <2>6. ASSUME peer # "none" PROVE Count(sent[peer], Taken(peer), "u")' = Count(sent[peer], Taken(peer), "u")
    BY <1>1, <2>2, <2>6 DEF Count, Taken
  <2> QED
    BY <1>1, <2>3, <2>4, <2>5, <2>6 DEF Covered
<1> QED
  BY <1>7, <1>9 DEF ServerInv

\* Steps by which no command moves, and the peer and the speed stay.
LEMMA SameCommands ==
  ASSUME ServerInv, UNCHANGED <<sent, up>>
  PROVE  /\ Suffix'
         /\ \A c \in Clients : \A x : Taken(c)' = Taken(c)
                                      /\ Count(sent[c], Taken(c), x)' = Count(sent[c], Taken(c), x)
<1>1. Suffix'
  BY DEF ServerInv, Suffix, Taken
<1>2. ASSUME NEW c \in Clients, NEW x
      PROVE  Taken(c)' = Taken(c) /\ Count(sent[c], Taken(c), x)' = Count(sent[c], Taken(c), x)
  BY DEF Taken, Count
<1> QED
  BY <1>1, <1>2

\* What the thread has received is a number, and so is how often a key is in it.
LEMMA CountOfTaken ==
  ASSUME ServerInv, NEW c \in Clients, NEW x
  PROVE  /\ Taken(c) \in Nat /\ Taken(c) <= Len(sent[c]) /\ Len(sent[c]) \in Nat
         /\ Count(sent[c], Taken(c), x) \in Nat
         /\ Count(sent[c], Taken(c), x) <= Count(sent[c], Len(sent[c]), x)
<1>1. Len(sent[c]) \in Nat /\ Len(up[c]) \in Nat
  BY ServerTypes DEF ServerInv
<1>2. Len(up[c]) <= Len(sent[c])
  BY DEF ServerInv, Suffix
<1>3. \A a, b \in Nat : b <= a => a - b \in Nat /\ a - b <= a
  OBVIOUS
<1>4. Taken(c) \in Nat /\ Taken(c) <= Len(sent[c])
  BY <1>1, <1>2, <1>3 DEF Taken
<1> QED
  BY <1>1, <1>4, CountLemma

\* Nobody has been served before the first accept().
LEMMA AcceptClientStep ==
  \A c \in Clients : ServerInv /\ Server!TypeOK' /\ Server!Accept(c) => ServerInv'
<1> SUFFICES ASSUME NEW c \in Clients, ServerInv, Server!TypeOK', Server!Accept(c) PROVE ServerInv'
  OBVIOUS
<1>1. /\ UNCHANGED <<sent, up, serverTaker, msg, speed>> /\ peer' = c /\ serverMain = "accept"
  BY DEF Server!Accept
<1>2. peer = "none" /\ serverTaker = "none" /\ speed = 0
  BY <1>1 DEF ServerInv, Server!TypeOK, Server!NoClient, Covered
<1>3. Suffix'
  BY <1>1, SameCommands
<1>4. \A x : Count(sent[c], Taken(c), x)' = Count(sent[c], Taken(c), x) /\ Count(sent[c], Taken(c), x) \in Nat
  BY <1>1, SameCommands, CountOfTaken
<1>5. Count(sent[c], Taken(c), "d")' \in Nat /\ Count(sent[c], Taken(c), "u")' \in Nat
  BY <1>4
<1>6. Pending("d")' = 0 /\ Pending("u")' = 0
  BY <1>1, <1>2 DEF Pending
<1>7. \A n \in Nat : 0 + 0 <= n + 1 /\ 0 - 0 <= n + 1
  OBVIOUS
<1>8. speed' = 0
  BY <1>1, <1>2
<1>9. Count(sent[peer], Taken(peer), "d")' \in Nat /\ Count(sent[peer], Taken(peer), "u")' \in Nat
  BY <1>1, <1>5 DEF Count, Taken
<1>10. Covered'
  BY <1>6, <1>7, <1>8, <1>9 DEF Covered
<1> QED
  BY <1>3, <1>10 DEF ServerInv

\* A thread that has just been made has not received anything.
LEMMA CreateThreadStep == ServerInv /\ Server!TypeOK' /\ Server!Create => ServerInv'
<1> SUFFICES ASSUME ServerInv, Server!TypeOK', Server!Create PROVE ServerInv'
  OBVIOUS
<1>1. UNCHANGED <<sent, up, peer, msg, speed>>
      /\ (serverTaker' = serverTaker \/ (serverTaker' = "recv" /\ serverMain = "create"))
  BY DEF Server!Create, Server!net
<1>2. serverMain = "create" => serverTaker = "none"
  BY DEF ServerInv, Server!TypeOK
<1>3. Suffix' /\ \A c \in Clients : \A x : Count(sent[c], Taken(c), x)' = Count(sent[c], Taken(c), x)
  BY <1>1, SameCommands
<1>4. Pending("d")' = Pending("d") /\ Pending("u")' = Pending("u") /\ (serverTaker' = "apply" <=> serverTaker = "apply")
  BY <1>1, <1>2 DEF Pending
<1>5. peer # "none" => peer \in Clients
  BY ServerTypes DEF ServerInv
<1>6. ASSUME peer # "none"
      PROVE  /\ Count(sent[peer], Taken(peer), "d")' = Count(sent[peer], Taken(peer), "d")
             /\ Count(sent[peer], Taken(peer), "u")' = Count(sent[peer], Taken(peer), "u")
  BY <1>1, <1>3, <1>5, <1>6 DEF Count, Taken
<1>7. Covered
  BY DEF ServerInv
<1>8. Covered'
  BY <1>1, <1>4, <1>6, <1>7 DEF Covered
<1> QED
  BY <1>3, <1>8 DEF ServerInv

\* recv() moves at least one command, and msg becomes the first of those it moves.
LEMMA RecvDataStep == ServerInv /\ Server!TypeOK' /\ Server!RecvData => ServerInv'
<1> SUFFICES ASSUME ServerInv, Server!TypeOK', Server!RecvData PROVE ServerInv'
  OBVIOUS
<1>1. /\ serverTaker = "recv" /\ up[peer] # <<>> /\ msg' = Head(up[peer]) /\ serverTaker' = "apply"
      /\ UNCHANGED <<sent, peer, speed>>
  BY DEF Server!RecvData
<1>2. PICK k \in 1..Len(up[peer]) : up' = [up EXCEPT ![peer] = SubSeq(up[peer], k + 1, Len(up[peer]))]
  BY DEF Server!RecvData
<1>3. /\ peer \in Clients /\ peer # "none" /\ speed \in Int
      /\ \A c \in Clients : /\ sent[c] \in Seq(Server!Keys) /\ up[c] \in Seq(Server!Keys)
                            /\ Len(sent[c]) \in Nat /\ Len(up[c]) \in Nat
      /\ up \in [Clients -> Seq(Server!Keys)]
  <2>1. peer \in Clients
    BY <1>1, ServerTypes DEF ServerInv
  <2> QED
    BY <2>1, ServerTypes, PartsAssumption DEF ServerInv
<1> DEFINE l == Len(up[peer])
           m == Len(sent[peer])
           t == Taken(peer)
<1>4. /\ l \in Nat /\ m \in Nat /\ t \in Nat /\ k \in 1..l /\ t = m - l /\ l <= m
  BY <1>2, <1>3, CountOfTaken DEF Taken, ServerInv, Suffix
<1>5. \A i \in 1..l : up[peer][i] = sent[peer][t + i]
  BY <1>3 DEF ServerInv, Suffix
<1>6. /\ up'[peer] = SubSeq(up[peer], k + 1, l)
      /\ \A d \in Clients : d # peer => up'[d] = up[d]
  BY <1>2, <1>3
<1>7. up[peer] \in Seq(Server!Keys) /\ msg' = up[peer][1] /\ msg' \in Server!Keys
  <2>1. up[peer] \in Seq(Server!Keys)
    BY <1>3
  <2>2. Head(up[peer]) = up[peer][1] /\ Head(up[peer]) \in Server!Keys
    BY <1>1, <2>1, HeadTailProperties
  <2> QED
    BY <1>1, <2>1, <2>2
<1>8. /\ Len(up'[peer]) = l - k
      /\ \A i \in 1..(l - k) : up'[peer][i] = up[peer][k + i]
  <2>1. k + 1 \in 1..(l + 1) /\ l \in Nat /\ l - (k + 1) + 1 = l - k /\ k \in Int
    BY <1>4
  <2>2. \A i \in (k + 1)..l : up[peer][i] \in Server!Keys
    <3>1. \A i \in (k + 1)..l : i \in 1..l
      BY <1>4
    <3> QED
      BY <1>7, <3>1, ElementOfSeq
  <2>3. /\ Len(SubSeq(up[peer], k + 1, l)) = l - k
        /\ \A i \in 1..(l - k) : SubSeq(up[peer], k + 1, l)[i] = up[peer][(k + 1) + i - 1]
    <3>1. k + 1 <= l + 1
      BY <1>4
    <3>2. Len(SubSeq(up[peer], k + 1, l)) = IF k + 1 <= l THEN l - (k + 1) + 1 ELSE 0
      BY <1>7, <2>1, <2>2, SubSeqProperties
    <3>3. Len(SubSeq(up[peer], k + 1, l)) = l - k
      BY <1>4, <2>1, <3>2
    <3>4. \A i \in 1..(l - (k + 1) + 1) : SubSeq(up[peer], k + 1, l)[i] = up[peer][(k + 1) + i - 1]
      BY <1>7, <2>1, <2>2, SubSeqProperties
    <3> QED
      BY <2>1, <3>3, <3>4
  <2>4. \A i \in 1..(l - k) : (k + 1) + i - 1 = k + i
    BY <1>4
  <2> QED
    BY <1>6, <2>3, <2>4
<1>9. sent[peer][t + 1] = msg'
  <2>1. 1 \in 1..l
    BY <1>4
  <2> QED
    BY <1>5, <1>7, <2>1
<1> HIDE DEF l, m, t
<1>10. /\ l - k \in Nat /\ m - (l - k) = t + k /\ t + k \in Nat /\ l - k <= m /\ t + 1 <= t + k
       /\ t + 1 \in Nat /\ t < t + k /\ t < t + 1 /\ t <= t + k /\ t <= t + 1
  BY <1>4
<1>11. Len(sent'[peer]) - Len(up'[peer]) = t + k
  BY <1>1, <1>8, <1>10 DEF m
<1>12. Suffix'
  <2> SUFFICES ASSUME NEW d \in Clients
               PROVE  /\ Len(up'[d]) <= Len(sent[d])
                      /\ \A i \in 1..Len(up'[d]) : up'[d][i] = sent[d][(Len(sent[d]) - Len(up'[d])) + i]
    BY <1>1 DEF Suffix, Taken
  <2>1. CASE d # peer
    BY <1>6, <2>1 DEF ServerInv, Suffix, Taken
  <2>2. CASE d = peer
    <3>1. \A i \in 1..(l - k) : k + i \in 1..l /\ t + (k + i) = (t + k) + i
      BY <1>4
    <3>2. \A i \in 1..(l - k) : up'[peer][i] = sent[peer][(t + k) + i]
      BY <1>5, <1>8, <3>1
    <3>3. Len(sent[peer]) - Len(up'[peer]) = t + k
      BY <1>1, <1>11
    <3>4. Len(up'[peer]) <= Len(sent[peer])
      BY <1>8, <1>10 DEF m
    <3> QED
      BY <1>8, <2>2, <3>2, <3>3, <3>4
  <2> QED
    BY <2>1, <2>2
<1>13. ASSUME NEW x PROVE /\ Count(sent[peer], t, x) \in Nat /\ Count(sent[peer], t + k, x) \in Nat
                          /\ Count(sent[peer], t, x) <= Count(sent[peer], t + k, x)
                          /\ msg' = x => Count(sent[peer], t, x) + 1 <= Count(sent[peer], t + k, x)
  BY <1>4, <1>9, <1>10, CountLemma
<1>14. /\ speed <= Count(sent[peer], t, "d") + 1
       /\ 0 - speed <= Count(sent[peer], t, "u") + 1
  <2>1. Pending("d") = 0 /\ Pending("u") = 0
    BY <1>1 DEF Pending
  <2>2. /\ speed + 0 <= Count(sent[peer], t, "d") + 1
        /\ 0 - speed <= Count(sent[peer], t, "u") + 1
    BY <1>3, <2>1 DEF ServerInv, Covered, t
  <2> QED
    BY <1>3, <2>2
<1>15. \A a, b, p \in Int : /\ (a <= b /\ p <= a + 1 => p + 0 <= b + 1)
                            /\ (a + 1 <= b /\ p <= a + 1 => p + 1 <= b + 1)
                            /\ (a <= b /\ 0 - p <= a + 1 => 0 - p <= b + 1)
                            /\ (a + 1 <= b /\ 0 - p <= a + 1 => 1 - p <= b + 1)
  OBVIOUS
<1>16. speed + Pending("d")' <= Count(sent[peer], t + k, "d") + 1
  <2>1. CASE msg' = "d"
    BY <1>1, <1>3, <1>13, <1>14, <1>15, <2>1 DEF Pending
  <2>2. CASE msg' # "d"
    BY <1>1, <1>3, <1>13, <1>14, <1>15, <2>2 DEF Pending
  <2> QED
    BY <2>1, <2>2
<1>17. Pending("u")' - speed <= Count(sent[peer], t + k, "u") + 1
  <2>1. CASE msg' = "u"
    BY <1>1, <1>3, <1>13, <1>14, <1>15, <2>1 DEF Pending
  <2>2. CASE msg' # "u"
    BY <1>1, <1>3, <1>13, <1>14, <1>15, <2>2 DEF Pending
  <2> QED
    BY <2>1, <2>2
<1>18. \A x : Count(sent[peer], Taken(peer), x)' = Count(sent[peer], t + k, x)
  BY <1>1, <1>11 DEF Count, Taken
<1>19. Covered'
  BY <1>1, <1>3, <1>16, <1>17, <1>18 DEF Covered
<1> QED
  BY <1>12, <1>19 DEF ServerInv

\* recv() without a command: only what msg was before the first one is looked at.
LEMMA RecvEndStep == ServerInv /\ Server!TypeOK' /\ Server!RecvEnd => ServerInv'
<1> SUFFICES ASSUME ServerInv, Server!TypeOK', Server!RecvEnd PROVE ServerInv'
  OBVIOUS
<1>1. /\ UNCHANGED <<sent, up, peer, msg, speed>> /\ serverTaker = "recv" /\ serverTaker' = "apply"
  BY DEF Server!RecvEnd, Server!net
<1>2. peer \in Clients /\ peer # "none" /\ speed \in Int
  <2>1. peer \in Clients /\ speed \in Int
    BY <1>1, ServerTypes DEF ServerInv
  <2> QED
    BY <2>1, PartsAssumption
<1>3. Suffix' /\ \A x : Count(sent[peer], Taken(peer), x)' = Count(sent[peer], Taken(peer), x)
                        /\ Count(sent[peer], Taken(peer), x) \in Nat
  <2>1. \A c \in Clients : \A x : Taken(c)' = Taken(c) /\ Count(sent[c], Taken(c), x)' = Count(sent[c], Taken(c), x)
    BY <1>1, SameCommands
  <2>2. ASSUME NEW x PROVE Count(sent[peer], Taken(peer), x)' = Count(sent[peer], Taken(peer), x)
    BY <1>1, <1>2, <2>1 DEF Count, Taken
  <2> QED
    BY <1>1, <1>2, <2>2, SameCommands, CountOfTaken
<1>4. /\ speed <= Count(sent[peer], Taken(peer), "d") + 1
      /\ 0 - speed <= Count(sent[peer], Taken(peer), "u") + 1
  <2>1. Pending("d") = 0 /\ Pending("u") = 0
    BY <1>1 DEF Pending
  <2>2. /\ speed + 0 <= Count(sent[peer], Taken(peer), "d") + 1
        /\ 0 - speed <= Count(sent[peer], Taken(peer), "u") + 1
    BY <1>2, <2>1 DEF ServerInv, Covered
  <2> QED
    BY <1>2, <2>2
<1>5. msg # "c" => speed = 0
  BY <1>1 DEF ServerInv, Covered
<1>6. CASE msg = "c"
  <2>1. Pending("d")' = 0 /\ Pending("u")' = 0
    BY <1>1, <1>6 DEF Pending
  <2>2. speed' + Pending("d")' = speed /\ Pending("u")' - speed' = 0 - speed
    BY <1>1, <1>2, <2>1
  <2>3. Covered'
    BY <1>1, <1>2, <1>3, <1>4, <2>2 DEF Covered
  <2> QED
    BY <1>3, <2>3 DEF ServerInv
<1>7. CASE speed = 0
  <2>1. Pending("d")' \in {0, 1} /\ Pending("u")' \in {0, 1}
    BY DEF Pending
  <2>2. \A n \in Nat, q \in {0, 1} : 0 + q <= n + 1 /\ q - 0 <= n + 1
    OBVIOUS
  <2>3. /\ speed' = 0 /\ peer' # "none" /\ serverTaker' = "apply"
        /\ Count(sent[peer], Taken(peer), "d")' \in Nat /\ Count(sent[peer], Taken(peer), "u")' \in Nat
    BY <1>1, <1>2, <1>3, <1>7
  <2>4. Covered'
    BY <2>1, <2>2, <2>3 DEF Covered
  <2> QED
    BY <1>3, <2>4 DEF ServerInv
<1> QED
  BY <1>5, <1>6, <1>7

\* The command that is carried out is the one that was looked at.
LEMMA ApplyStep == ServerInv /\ Server!TypeOK' /\ Server!Apply => ServerInv'
<1> SUFFICES ASSUME ServerInv, Server!TypeOK', Server!Apply PROVE ServerInv'
  OBVIOUS
<1>1. /\ UNCHANGED <<sent, up, peer>> /\ serverTaker = "apply" /\ serverTaker' = "recv" /\ msg' = "c"
  BY DEF Server!Apply, Server!net
<1>2. peer \in Clients /\ peer # "none" /\ speed \in Int /\ msg \in {"u", "d", "c"}
  <2>1. peer \in Clients /\ speed \in Int
    BY <1>1, ServerTypes DEF ServerInv
  <2>2. msg \in {"u", "d", "c"}
    BY DEF ServerInv, Server!TypeOK, Server!Keys
  <2> QED
    BY <2>1, <2>2, PartsAssumption
<1>3. Suffix' /\ \A x : Count(sent[peer], Taken(peer), x)' = Count(sent[peer], Taken(peer), x)
                        /\ Count(sent[peer], Taken(peer), x) \in Nat
  <2>1. \A c \in Clients : \A x : Taken(c)' = Taken(c) /\ Count(sent[c], Taken(c), x)' = Count(sent[c], Taken(c), x)
    BY <1>1, SameCommands
  <2>2. ASSUME NEW x PROVE Count(sent[peer], Taken(peer), x)' = Count(sent[peer], Taken(peer), x)
    BY <1>1, <1>2, <2>1 DEF Count, Taken
  <2> QED
    BY <1>1, <1>2, <2>2, SameCommands, CountOfTaken
<1>4. /\ speed + Pending("d") <= Count(sent[peer], Taken(peer), "d") + 1
      /\ Pending("u") - speed <= Count(sent[peer], Taken(peer), "u") + 1
  BY <1>2 DEF ServerInv, Covered
<1>5. speed' \in Int /\ speed' <= speed + Pending("d") /\ 0 - speed' <= Pending("u") - speed
  <2>1. CASE msg = "u"
    <3>1. speed' = speed - 1 /\ Pending("u") = 1 /\ Pending("d") = 0
      BY <1>1, <1>2, <2>1, SpeedOfMsg DEF Pending
    <3> QED
      BY <1>2, <3>1
  <2>2. CASE msg = "d"
    <3>1. speed' = speed + 1 /\ Pending("u") = 0 /\ Pending("d") = 1
      BY <1>1, <1>2, <2>2, SpeedOfMsg DEF Pending
    <3> QED
      BY <1>2, <3>1
  <2>3. CASE msg = "c"
    <3>1. speed' = speed /\ Pending("u") = 0 /\ Pending("d") = 0
      BY <1>1, <1>2, <2>3, SpeedOfMsg DEF Pending
    <3> QED
      BY <1>2, <3>1
  <2> QED
    BY <1>2, <2>1, <2>2, <2>3
<1>6. Pending("d")' = 0 /\ Pending("u")' = 0 /\ Pending("d") \in Int /\ Pending("u") \in Int
  BY <1>1 DEF Pending
<1>7. \A p, q, r, n \in Int : /\ (p <= q + r /\ q + r <= n + 1 => p + 0 <= n + 1)
                              /\ (0 - p <= r - q /\ r - q <= n + 1 => 0 - p <= n + 1)
  OBVIOUS
<1>8. /\ Count(sent[peer], Taken(peer), "d") \in Int /\ Count(sent[peer], Taken(peer), "u") \in Int
  BY <1>3
<1>9. /\ speed' + 0 <= Count(sent[peer], Taken(peer), "d") + 1
      /\ 0 - speed' <= Count(sent[peer], Taken(peer), "u") + 1
  BY <1>2, <1>4, <1>5, <1>6, <1>7, <1>8
<1>10. Covered'
  BY <1>1, <1>2, <1>3, <1>6, <1>9 DEF Covered
<1> QED
  BY <1>3, <1>10 DEF ServerInv

\* Each step of the server or of a client of its keeps the account.
LEMMA ServerStep == ServerInv /\ [Server!Next]_serverVars => ServerInv'
<1> SUFFICES ASSUME ServerInv, [Server!Next]_serverVars PROVE ServerInv'
  OBVIOUS
<1>1. CASE UNCHANGED serverVars
  <2>1. Server!TypeOK'
    BY <1>1 DEF serverVars, ServerInv, Server!TypeOK
  <2> QED
    BY <1>1, <2>1, NoCommandStep DEF serverVars
<1>2. CASE Server!Next
  <2>1. Server!TypeOK'
    BY <1>2, ServerTypesStep DEF ServerInv
  <2>2. ASSUME NEW c \in Clients, Server!Connect(c) \/ Server!Read(c) \/ Server!Leave(c) \/ Server!Reset(c)
        PROVE  ServerInv'
    <3>1. UNCHANGED <<sent, up, peer, serverTaker, msg, speed>>
      BY <2>2 DEF Server!Connect, Server!Read, Server!Leave, Server!Reset, Server!threads
    <3> QED
      BY <2>1, <3>1, NoCommandStep
  <2>3. ASSUME NEW c \in Clients, NEW k \in Server!Keys, Server!Command(c, k) PROVE ServerInv'
    BY <2>1, <2>3, CommandStep
  <2>4. ASSUME NEW c \in Clients, Server!Accept(c) PROVE ServerInv'
    BY <2>1, <2>4, AcceptClientStep
  <2>5. CASE Server!Send \/ Server!SendFails \/ Server!SendKills \/ Server!Sleep
    <3>1. UNCHANGED <<sent, up, peer, serverTaker, msg, speed>>
      BY <2>5 DEF Server!Send, Server!SendFails, Server!SendKills, Server!Sleep, Server!net, Server!threads
    <3> QED
      BY <2>1, <3>1, NoCommandStep
  <2> QED
    BY <1>2, <2>1, <2>2, <2>3, <2>4, <2>5, CreateThreadStep, RecvDataStep, RecvEndStep, ApplyStep DEF Server!Next
<1> QED
  BY <1>1, <1>2

\* What was received is among what was sent.
LEMMA ServerInvSuffices == ServerInv => Server!SpeedCommanded
<1> SUFFICES ASSUME ServerInv, peer # "none"
             PROVE  /\ speed <= Server!Number(sent[peer], "d") + 1
                    /\ -speed <= Server!Number(sent[peer], "u") + 1
  BY DEF Server!SpeedCommanded, Server!NoClient
<1>1. peer \in Clients /\ speed \in Int /\ sent[peer] \in Seq(Server!Keys)
  BY ServerTypes DEF ServerInv
<1>2. ASSUME NEW x PROVE /\ Count(sent[peer], Taken(peer), x) \in Nat /\ Server!Number(sent[peer], x) \in Nat
                         /\ Count(sent[peer], Taken(peer), x) <= Server!Number(sent[peer], x)
  <2>1. DOMAIN sent[peer] = 1..Len(sent[peer]) /\ Len(sent[peer]) \in Nat
    BY <1>1, LenProperties
  <2>2. Server!Number(sent[peer], x) = Count(sent[peer], Len(sent[peer]), x)
    BY <2>1, SameServerCardinality DEF Server!Number, Count
  <2> QED
    BY <1>1, <2>1, <2>2, CountOfTaken, CountLemma
<1>3. /\ speed + Pending("d") <= Count(sent[peer], Taken(peer), "d") + 1
      /\ Pending("u") - speed <= Count(sent[peer], Taken(peer), "u") + 1
  BY DEF ServerInv, Covered
<1>4. Pending("d") \in {0, 1} /\ Pending("u") \in {0, 1}
  BY DEF Pending
<1>5. \A p \in Int, q \in {0, 1}, a, b \in Nat : /\ (p + q <= a + 1 /\ a <= b => p <= b + 1)
                                                /\ (q - p <= a + 1 /\ a <= b => -p <= b + 1)
  OBVIOUS
<1> QED
  BY <1>1, <1>2, <1>3, <1>4, <1>5

-----------------------------------------------------------------------------
(* The client of esameSNP40. *)

\* What is being added has come, and what comes is bounded.
Sums ==
  /\ received + came <= MaxBytes
  /\ taker = "load" => total + taken <= received
  /\ taker = "store" => acc + taken <= received

ClientInv == Client!TypeOK /\ Sums

\* Nothing has come.
LEMMA ClientInit == Init => ClientInv
<1> SUFFICES ASSUME Client!Init PROVE ClientInv
  BY DEF Init
<1>1. came = 0 /\ total = 0 /\ received = 0 /\ taken = 0 /\ acc = 0 /\ taker = "check"
  BY DEF Client!Init
<1>2. 0 \in 0..Cap /\ 0 \in 0..MaxBytes /\ 0 \in 0..0 /\ 0 + 0 <= MaxBytes
  BY PartsAssumption
<1> QED
  BY <1>1, <1>2 DEF Client!Init, ClientInv, Sums, Client!TypeOK

\* No thread adds more than it has received.
LEMMA ClientStep == ClientInv /\ [Client!Next]_clientVars => ClientInv'
<1> SUFFICES ASSUME ClientInv, [Client!Next]_clientVars PROVE ClientInv'
  OBVIOUS
<1>0. /\ came \in Nat /\ total \in Nat /\ received \in Nat /\ taken \in Nat /\ acc \in Nat
      /\ came <= Cap /\ total <= received /\ received <= MaxBytes /\ taken <= Cap /\ acc <= received
      /\ Cap \in Nat /\ MaxBytes \in Nat /\ received + came <= MaxBytes
  <2>1. Cap \in Nat /\ MaxBytes \in Nat
    BY PartsAssumption
  <2>2. came \in 0..Cap /\ received \in 0..MaxBytes /\ taken \in 0..Cap
    BY DEF ClientInv, Client!TypeOK
  <2>3. total \in 0..received /\ acc \in 0..received
    BY DEF ClientInv, Client!TypeOK
  <2>4. \A x \in Nat : \A y \in 0..x : y \in Nat /\ y <= x
    OBVIOUS
  <2>5. received \in Nat /\ came \in Nat /\ taken \in Nat /\ came <= Cap /\ received <= MaxBytes /\ taken <= Cap
    BY <2>1, <2>2, <2>4
  <2>6. total \in Nat /\ acc \in Nat /\ total <= received /\ acc <= received
    BY <2>3, <2>4, <2>5
  <2> QED
    BY <2>1, <2>5, <2>6 DEF ClientInv, Sums
<1>7. \A x \in Nat, y \in Nat : y <= x => y \in 0..x
  OBVIOUS
<1>8. 0 \in 0..Cap /\ 0 \in 0..received /\ received + 0 <= MaxBytes
  BY <1>0
<1>9. came < Cap /\ received + came < MaxBytes => came + 1 \in 0..Cap /\ received + (came + 1) <= MaxBytes
  BY <1>0
<1>10. \A k \in 1..came :
         /\ k \in Nat /\ came - k \in Nat /\ k <= Cap /\ came - k <= Cap /\ received + k \in Nat
         /\ received + k <= MaxBytes /\ (received + k) + (came - k) <= MaxBytes
         /\ total + k <= received + k /\ total <= received + k /\ acc <= received + k
  BY <1>0
<1>11. acc + taken <= received => acc + taken \in 0..received
  BY <1>0
<1>12. total + taken <= received => 0 + taken <= received
  BY <1>0
<1>1. CASE UNCHANGED clientVars
  <2>1. Client!TypeOK'
    BY <1>1 DEF clientVars, ClientInv, Client!TypeOK
  <2>2. Sums'
    BY <1>1 DEF clientVars, ClientInv, Sums
  <2> QED
    BY <2>1, <2>2 DEF ClientInv
<1> USE DEF ClientInv, Client!TypeOK, Sums
<1>2. CASE Client!ServerSends
  <2>1. came < Cap /\ received + came < MaxBytes
    BY <1>2 DEF Client!ServerSends
  <2>2. came + 1 \in 0..Cap /\ received + (came + 1) <= MaxBytes
    BY <1>9, <2>1
  <2> QED
    BY <1>2, <2>2 DEF Client!ServerSends, Client!taking, Client!typing
<1>3. ASSUME NEW how \in {"left", "reset"}, Client!ServerEnds(how) PROVE ClientInv'
  BY <1>3 DEF Client!ServerEnds, Client!taking, Client!typing
<1>4. CASE Client!Taker
  <2> USE DEF Client!Take, Client!typing
  <2>1. CASE Client!TakerCheck
    BY <2>1 DEF Client!TakerCheck
  <2>2. CASE Client!RecvData
    <3>1. PICK k \in 1..came : taken' = k /\ came' = came - k /\ received' = received + k
      BY <2>2 DEF Client!RecvData
    <3>2. /\ k \in Nat /\ came - k \in Nat /\ k <= Cap /\ came - k <= Cap /\ received + k \in Nat
          /\ received + k <= MaxBytes /\ (received + k) + (came - k) <= MaxBytes
          /\ total + k <= received + k /\ total <= received + k /\ acc <= received + k
      BY <1>10
    <3>3. /\ taken' \in 0..Cap /\ came' \in 0..Cap /\ received' \in 0..MaxBytes
          /\ total \in 0..received' /\ acc \in 0..received'
      BY <1>0, <1>7, <3>1, <3>2
    <3> QED
      BY <2>2, <3>1, <3>2, <3>3 DEF Client!RecvData
  <2>3. CASE Client!RecvEof
    BY <2>3 DEF Client!RecvEof
  <2>4. CASE Client!RecvError
    BY <1>8, <2>4 DEF Client!RecvError
  <2>5. CASE Client!AddLoad
    BY <1>0, <2>5 DEF Client!AddLoad
  <2>6. CASE Client!AddStore
    <3>1. acc + taken <= received
      BY <2>6 DEF Client!AddStore, Client!Take
    <3>2. acc + taken \in 0..received 
      BY <1>11, <3>1
    <3> QED
      BY <1>8, <2>6, <3>2 DEF Client!AddStore
  <2> QED
    BY <1>4, <2>1, <2>2, <2>3, <2>4, <2>5, <2>6 DEF Client!Taker
<1>5. CASE Client!MeterThread
  <2> USE DEF Client!Meter, Client!taking, Client!typing
  <2>1. CASE Client!MeterCheck
    BY <2>1 DEF Client!MeterCheck
  <2>2. CASE Client!Show
    BY <2>2 DEF Client!Show
  <2>3. CASE Client!Zero
    BY <1>8, <1>12, <2>3 DEF Client!Zero
  <2> QED
    BY <1>5, <2>1, <2>2, <2>3 DEF Client!MeterThread
<1>6. CASE Client!MainThread
  <2> USE DEF Client!Main, Client!taking
  <2>1. CASE Client!MainCheck
    BY <2>1 DEF Client!MainCheck
  <2>2. CASE Client!ReadKey
    BY <2>2 DEF Client!ReadKey
  <2>3. CASE Client!SendKey
    BY <2>3 DEF Client!SendKey
  <2>4. CASE Client!SendKills
    BY <2>4 DEF Client!SendKills
  <2>5. CASE Client!JoinTaker
    BY <2>5 DEF Client!JoinTaker
  <2> QED
    BY <1>6, <2>1, <2>2, <2>3, <2>4, <2>5 DEF Client!MainThread
<1> QED
  BY <1>1, <1>2, <1>3, <1>4, <1>5, <1>6 DEF Client!Next

\* A step of the speed has a command of its own, but for one, and the client's total
\* is at most what has come, whatever the threads, the clients and the network do.
THEOREM SpeedCommandedHolds == Spec => []SpeedCommanded
<1>1. ServerInv /\ [Next]_vars => ServerInv'
  BY ServerStep, StepOfPart
<1>2. ClientInv /\ [Next]_vars => ClientInv'
  BY ClientStep, StepOfPart
<1>3. ServerInv /\ ClientInv => SpeedCommanded
  BY ServerInvSuffices DEF ServerInv, ClientInv, SpeedCommanded
<1> QED
  BY <1>1, <1>2, <1>3, ServerInit, ClientInit, PTL DEF Spec, vars

-----------------------------------------------------------------------------
(* semaph.c *)

\* Where a process has the lock [2].
InLock == {"getval", "set0", "set1", "endcreate", "closeval", "rm", "unlock"}

\* One process at most has the lock.
OneLocker ==
  /\ \A p, q \in Users : pc[p] \in InLock /\ pc[q] \in InLock => p = q
  /\ \A p \in Users : pc[p] \in InLock => val[2] = 1

\* The kernel would take back what a process has done and no more.
AdjustTrue ==
  \A p \in Users : /\ adj[p][0] = IF p \in Sem!Holding THEN 1 ELSE 0
                   /\ adj[p][1] = IF p \in Sem!Using THEN 1 ELSE 0
                   /\ adj[p][2] = IF pc[p] \in InLock THEN -1 ELSE 0

\* A set that is not initialised has no users, and is initialised under the lock.
Initialised ==
  /\ val[1] = 0 => Sem!Using = {}
  /\ ~live => \A m \in Sem!Members : val[m] = 0
  /\ \A p \in Users : /\ pc[p] \in {"set0", "set1"} => val[1] = 0
                      /\ pc[p] = "set1" => val[0] = InitVal
                      /\ pc[p] = "endcreate" => val[1] # 0

\* From the count of the last user to the removal only sem_open() can come.
OpenersOnly ==
  \A p \in Users : /\ pc[p] = "open" => opened[p]
                   /\ pc[p] = "rm" => \A q \in Sem!Using : opened[q]

CountedInv ==
  val[1] # 0 => /\ val[1] = BIGCOUNT - Cardinality(Sem!Using)
                /\ val[0] = InitVal - Cardinality(Sem!Holding)

IInv == /\ Sem!TypeOK /\ OneLocker /\ AdjustTrue /\ Initialised
        /\ OpenersOnly /\ CountedInv /\ Sem!RemovedUnused

One(b) == IF b THEN 1 ELSE 0

\* The places a process can be at.
Places == {"out", "again", "lock", "waiting", "getval", "set0", "set1", "endcreate", "open", "in",
           "inside", "closeval", "rm", "unlock", "failed", "failed_create"}

\* There are fewer users than BIGCOUNT.
LEMMA UsersFinite ==
  /\ IsFiniteSet(Sem!Using) /\ IsFiniteSet(Sem!Holding)
  /\ Cardinality(Sem!Using) \in Nat /\ Cardinality(Sem!Holding) \in Nat
  /\ Cardinality(Sem!Using) < BIGCOUNT
<1>1. Sem!Using \subseteq Users /\ Sem!Holding \subseteq Users
  BY DEF Sem!Using, Sem!Holding
<1>2. IsFiniteSet(Sem!Using) /\ IsFiniteSet(Sem!Holding) /\ Cardinality(Sem!Using) <= Cardinality(Users)
  BY <1>1, PartsAssumption, FS_Subset
<1> QED
  BY <1>2, PartsAssumption, FS_CardinalityType

\* The three members.
LEMMA MemberNumbers == Sem!Members = {0, 1, 2}
BY DEF Sem!Members

\* What the types say of one value.
LEMMA Numbers ==
  ASSUME Sem!TypeOK
  PROVE  /\ \A m \in Sem!Members : val[m] \in Nat
         /\ \A p \in Users : adj[p] \in [Sem!Members -> -1..1]
         /\ \A p \in Users, m \in Sem!Members : adj[p][m] \in -1..1
BY DEF Sem!TypeOK

\* Zero is a function, of both kinds.
LEMMA ZeroFunction ==
  /\ Sem!Zero \in [Sem!Members -> -1..1] /\ Sem!Zero \in [Sem!Members -> Nat]
  /\ \A m \in Sem!Members : Sem!Zero[m] = 0
BY DEF Sem!Zero

\* There is no set at first.
LEMMA InitIInv == Init => IInv
<1> SUFFICES ASSUME Init PROVE IInv
  OBVIOUS
<1>1. Sem!Using = {} /\ Sem!Holding = {}
  BY DEF Init, Sem!Init, Sem!Using, Sem!Holding
<1>2. 0 \in Sem!Members /\ 1 \in Sem!Members /\ 2 \in Sem!Members /\ Sem!Zero \in [Sem!Members -> Nat]
  BY DEF Sem!Members, Sem!Zero
<1>3. \A m \in Sem!Members : val[m] = 0 /\ \A p \in Users : adj[p][m] = 0
  BY DEF Init, Sem!Init, Sem!Zero
<1>4. Sem!TypeOK
  <2>1. adj \in [Users -> [Sem!Members -> -1..1]]
    BY DEF Init, Sem!Init, Sem!Zero
  <2> QED
    BY <1>2, <2>1 DEF Init, Sem!Init, Sem!TypeOK
<1>5. OneLocker /\ Initialised /\ OpenersOnly /\ Sem!RemovedUnused
  BY <1>1, <1>2, <1>3 DEF Init, Sem!Init, OneLocker, Initialised, OpenersOnly, Sem!RemovedUnused, InLock
<1>6. AdjustTrue
  BY <1>1, <1>2, <1>3 DEF Init, Sem!Init, AdjustTrue, InLock
<1>7. CountedInv
  BY <1>2, <1>3 DEF CountedInv
<1> QED
  BY <1>4, <1>5, <1>6, <1>7 DEF IInv

\* The end of a process, wherever it stands.
LEMMA UndoIInv ==
  ASSUME IInv, NEW p \in Users, NEW to,
         to \in {"out", "failed", "failed_create"}, Sem!Undo(p, to)
  PROVE  IInv'
<1>0. 0 \in Sem!Members /\ 1 \in Sem!Members /\ 2 \in Sem!Members
  BY MemberNumbers
<1>1. Sem!Using' = Sem!Using \ {p} /\ Sem!Holding' = Sem!Holding \ {p}
  BY DEF IInv, Sem!Undo, Sem!Using, Sem!Holding, Sem!TypeOK
<1>2. \A m \in Sem!Members : val[m] \in Nat /\ adj[p][m] \in -1..1
  BY DEF IInv, Sem!TypeOK
<1>3. \A m \in Sem!Members : val'[m] = IF val[m] + adj[p][m] < 0 THEN 0 ELSE val[m] + adj[p][m]
  BY DEF Sem!Undo
<1>4. /\ val'[0] = IF p \in Sem!Holding THEN val[0] + 1 ELSE val[0]
      /\ val'[1] = IF p \in Sem!Using THEN val[1] + 1 ELSE val[1]
      /\ val'[2] = IF pc[p] \in InLock THEN 0 ELSE val[2]
  <2>1. /\ val[0] \in Nat /\ val[1] \in Nat
        /\ adj[p][0] = IF p \in Sem!Holding THEN 1 ELSE 0
        /\ adj[p][1] = IF p \in Sem!Using THEN 1 ELSE 0
        /\ adj[p][2] = IF pc[p] \in InLock THEN -1 ELSE 0
        /\ pc[p] \in InLock => val[2] = 1
        /\ val[2] \in Nat
    BY <1>0, <1>2 DEF IInv, AdjustTrue, OneLocker
  <2>2. val'[0] = IF val[0] + adj[p][0] < 0 THEN 0 ELSE val[0] + adj[p][0]
    BY <1>0, <1>3
  <2>3. val'[1] = IF val[1] + adj[p][1] < 0 THEN 0 ELSE val[1] + adj[p][1]
    BY <1>0, <1>3
  <2>4. val'[2] = IF val[2] + adj[p][2] < 0 THEN 0 ELSE val[2] + adj[p][2]
    BY <1>0, <1>3
  <2> QED
    BY <2>1, <2>2, <2>3, <2>4
<1>5. Sem!TypeOK'
  <2>1. adj' \in [Users -> [Sem!Members -> -1..1]]
    BY ZeroFunction DEF IInv, Sem!Undo, Sem!TypeOK
  <2>2. val' \in [Sem!Members -> Nat]
    <3>1. \A m \in Sem!Members : val'[m] \in Nat
      BY <1>2, <1>3
    <3>2. val' = [m \in Sem!Members |-> val'[m]]
      BY DEF Sem!Undo
    <3> QED
      BY <3>1, <3>2
  <2>3. /\ live' \in BOOLEAN
        /\ id' \in [Users -> {"live", "removed", "none"}] /\ opened' \in [Users -> BOOLEAN]
    BY DEF IInv, Sem!Undo, Sem!TypeOK
  <2> QED
    BY <2>1, <2>2, <2>3 DEF IInv, Sem!Undo, Sem!TypeOK
<1>6. /\ \A q \in Users : /\ pc'[q] = IF q = p THEN to ELSE pc[q]
                          /\ opened'[q] = IF q = p THEN FALSE ELSE opened[q]
                          /\ id'[q] = IF q = p THEN "none" ELSE id[q]
      /\ live' = live
  BY DEF Sem!Undo, IInv, Sem!TypeOK
<1>7. OneLocker'
  BY <1>4, <1>6 DEF IInv, OneLocker, InLock
<1>8. AdjustTrue'
  <2>1. \A q \in Users \ {p} : adj'[q] = adj[q]
    BY DEF Sem!Undo, IInv, Sem!TypeOK
  <2>2. adj'[p][0] = 0 /\ adj'[p][1] = 0 /\ adj'[p][2] = 0
    BY <1>0, ZeroFunction DEF Sem!Undo, IInv, Sem!TypeOK
  <2> QED
    BY <1>1, <1>6, <2>1, <2>2 DEF IInv, AdjustTrue, InLock
<1>9. CountedInv' /\ (val'[1] = 0 => Sem!Using' = {}) /\ (val[1] = 0 <=> val'[1] = 0)
  <2>1. CASE val[1] = 0
    BY <1>1, <1>4, <2>1 DEF IInv, Initialised, CountedInv
  <2>2. CASE val[1] # 0
    <3>1. Cardinality(Sem!Using') =
            IF p \in Sem!Using THEN Cardinality(Sem!Using) - 1 ELSE Cardinality(Sem!Using)
      BY <1>1, UsersFinite, FS_RemoveElement
    <3>2. Cardinality(Sem!Holding') =
            IF p \in Sem!Holding THEN Cardinality(Sem!Holding) - 1 ELSE Cardinality(Sem!Holding)
      BY <1>1, UsersFinite, FS_RemoveElement
    <3> QED
      BY <1>0, <1>2, <1>4, <2>2, <3>1, <3>2, UsersFinite, PartsAssumption
      DEF IInv, CountedInv
  <2> QED
    BY <2>1, <2>2
<1>10. Initialised'
  <2>1. ~live' => \A m \in Sem!Members : val'[m] = 0
    BY <1>0, <1>3, <1>4, <1>6 DEF IInv, Initialised, Sem!TypeOK, Sem!Using, Sem!Holding, Sem!Members
  <2>2. ASSUME NEW q \in Users, pc'[q] = "set1" PROVE val'[0] = InitVal
    BY <2>2, <1>4, <1>6 DEF IInv, Initialised, Sem!Holding
  <2> QED
    BY <1>6, <1>9, <2>1, <2>2 DEF IInv, Initialised
<1>11. OpenersOnly' /\ Sem!RemovedUnused'
  BY <1>1, <1>6 DEF IInv, OpenersOnly, Sem!RemovedUnused, Sem!Using
<1> QED
  BY <1>5, <1>7, <1>8, <1>9, <1>10, <1>11 DEF IInv

\* What semop() does to each value.
LEMMA SemopValues ==
  ASSUME Sem!TypeOK, NEW p \in Users, NEW d0 \in -1..1, NEW d1 \in -1..1, NEW d2 \in -1..1,
         Sem!Semop(p, Sem!Delta(d0, d1, d2))
  PROVE  /\ val'[0] = val[0] + d0 /\ val'[1] = val[1] + d1 /\ val'[2] = val[2] + d2
         /\ val' \in [Sem!Members -> Nat]
         /\ adj'[p][0] = adj[p][0] - d0 /\ adj'[p][1] = adj[p][1] - d1 /\ adj'[p][2] = adj[p][2] - d2
         /\ adj' \in [Users -> [Sem!Members -> Int]]
         /\ \A q \in Users : q # p => adj'[q] = adj[q]
         /\ id[p] = "live" /\ UNCHANGED <<live, id, opened>>
<1> DEFINE d == Sem!Delta(d0, d1, d2)
<1>0. 0 \in Sem!Members /\ 1 \in Sem!Members /\ 2 \in Sem!Members
  BY MemberNumbers
<1>1. d[0] = d0 /\ d[1] = d1 /\ d[2] = d2 /\ \A m \in Sem!Members : d[m] \in -1..1
  BY <1>0, MemberNumbers DEF Sem!Delta
<1> HIDE DEF d
<1>2. /\ id[p] = "live" /\ UNCHANGED <<live, id, opened>>
      /\ \A m \in Sem!Members : val[m] + d[m] >= 0
      /\ val' = [m \in Sem!Members |-> val[m] + d[m]]
      /\ adj' = [adj EXCEPT ![p] = [m \in Sem!Members |-> adj[p][m] - d[m]]]
  BY DEF Sem!Semop, d
<1>3. \A m \in Sem!Members : val'[m] = val[m] + d[m] /\ val'[m] \in Nat
  BY <1>1, <1>2, Numbers
<1>4. val' \in [Sem!Members -> Nat]
  <2>1. val' = [m \in Sem!Members |-> val'[m]]
    BY <1>2
  <2> QED
    BY <2>1, <1>3
<1>5. /\ adj'[p] = [m \in Sem!Members |-> adj[p][m] - d[m]]
      /\ \A q \in Users : q # p => adj'[q] = adj[q]
      /\ adj' \in [Users -> [Sem!Members -> Int]]
  <2>1. [m \in Sem!Members |-> adj[p][m] - d[m]] \in [Sem!Members -> Int]
    BY <1>1, Numbers
  <2>2. adj \in [Users -> [Sem!Members -> Int]]
    BY DEF Sem!TypeOK
  <2> QED
    BY <1>2, <2>1, <2>2
<1> QED
  BY <1>0, <1>1, <1>2, <1>3, <1>4, <1>5

\* A call of semop() that moves the counts as it moves the process.
LEMMA SemopCounts ==
  ASSUME IInv, NEW p \in Users, NEW d0 \in -1..1, NEW d1 \in -1..1, NEW d2 \in -1..1,
         Sem!Semop(p, Sem!Delta(d0, d1, d2)),
         \A q \in Users : q # p => /\ q \in Sem!Using' <=> q \in Sem!Using
                                   /\ q \in Sem!Holding' <=> q \in Sem!Holding
                                   /\ pc'[q] \in InLock <=> pc[q] \in InLock,
         d0 = One(p \in Sem!Holding) - One(p \in Sem!Holding'),
         d1 = One(p \in Sem!Using) - One(p \in Sem!Using'),
         d2 = One(pc'[p] \in InLock) - One(pc[p] \in InLock),
         p \in Sem!Using' => val[1] # 0
  PROVE  /\ AdjustTrue' /\ CountedInv'
         /\ val' \in [Sem!Members -> Nat] /\ adj' \in [Users -> [Sem!Members -> -1..1]]
         /\ val'[1] = 0 <=> val[1] = 0
<1>0. 0 \in Sem!Members /\ 1 \in Sem!Members /\ 2 \in Sem!Members /\ Sem!TypeOK
  BY MemberNumbers DEF IInv
<1>1. AdjustTrue'
  BY <1>0, SemopValues DEF IInv, AdjustTrue, One
<1>2. adj' \in [Users -> [Sem!Members -> -1..1]]
  <2>1. \A q \in Users : adj'[q] \in [Sem!Members -> Int] /\ \A m \in Sem!Members : adj'[q][m] \in -1..1
    BY <1>0, <1>1, SemopValues, MemberNumbers DEF AdjustTrue
  <2>2. \A q \in Users : adj'[q] \in [Sem!Members -> -1..1]
    BY <2>1
  <2> QED
    BY <1>0, <2>2, SemopValues
<1>3. CASE val[1] = 0
  <2>1. p \notin Sem!Using /\ p \notin Sem!Using'
    BY <1>3 DEF IInv, Initialised
  <2> QED
    BY <1>0, <1>1, <1>2, <1>3, <2>1, SemopValues DEF One, CountedInv
<1>4. CASE val[1] # 0
  <2>1. /\ Sem!Using' = IF p \in Sem!Using' THEN Sem!Using \union {p} ELSE Sem!Using \ {p}
        /\ Sem!Holding' = IF p \in Sem!Holding' THEN Sem!Holding \union {p} ELSE Sem!Holding \ {p}
    BY DEF Sem!Using, Sem!Holding
  <2>2. Cardinality(Sem!Using') = Cardinality(Sem!Using) - d1
    <3>1. CASE p \in Sem!Using'
      BY <2>1, <3>1, UsersFinite, FS_AddElement DEF One
    <3>2. CASE p \notin Sem!Using'
      BY <2>1, <3>2, UsersFinite, FS_RemoveElement DEF One
    <3> QED
      BY <3>1, <3>2
  <2>5. Cardinality(Sem!Holding') = Cardinality(Sem!Holding) - d0
    <3>1. CASE p \in Sem!Holding'
      BY <2>1, <3>1, UsersFinite, FS_AddElement DEF One
    <3>2. CASE p \notin Sem!Holding'
      BY <2>1, <3>2, UsersFinite, FS_RemoveElement DEF One
    <3> QED
      BY <3>1, <3>2
  <2>3. Cardinality(Sem!Using') \in Nat /\ Cardinality(Sem!Using') < BIGCOUNT
    <3>1. Sem!Using' \subseteq Users
      BY DEF Sem!Using
    <3> QED
      BY <3>1, FS_Subset, FS_CardinalityType, PartsAssumption
  <2>4. val'[1] = BIGCOUNT - Cardinality(Sem!Using') /\ val'[0] = InitVal - Cardinality(Sem!Holding')
    BY <1>0, <1>4, <2>2, <2>5, UsersFinite, SemopValues, PartsAssumption DEF IInv, CountedInv
  <2> QED
    BY <1>0, <1>1, <1>2, <1>4, <2>3, <2>4, SemopValues, PartsAssumption DEF CountedInv
<1> QED
  BY <1>3, <1>4

\* What a call of semop() adds.
SemopMoves(p, d0, d1, d2) == val'[0] = val[0] + d0 /\ val'[1] = val[1] + d1 /\ val'[2] = val[2] + d2

\* sem_create() takes the lock: one process gets it, and no count moves.
LEMMA LockIInv ==
  ASSUME IInv, NEW p \in Users, Sem!Lock(p)
  PROVE  IInv'
<1>1. /\ Sem!Semop(p, Sem!Delta(0, 0, 1)) /\ Sem!TypeOK /\ UNCHANGED <<live, id, opened>> /\ live
      /\ -1 \in -1..1 /\ 0 \in -1..1 /\ 1 \in -1..1
  BY DEF Sem!Lock, IInv, Sem!Semop, Sem!TypeOK
<1>2. /\ Sem!Using' = Sem!Using /\ Sem!Holding' = Sem!Holding
      /\ p \notin Sem!Using /\ p \notin Sem!Holding /\ pc[p] \notin InLock /\ pc'[p] \in InLock
  BY <1>1 DEF Sem!TypeOK, Sem!Using, Sem!Holding, InLock, Sem!Lock, Sem!Go, Sem!Semop
<1>3. /\ val'[0] \in Nat /\ val'[1] \in Nat /\ val'[2] \in Nat
      /\ val[0] \in Nat /\ val[1] \in Nat /\ val[2] \in Nat
      /\ SemopMoves(p, 0, 0, 1)
  BY <1>1, SemopValues, Numbers, MemberNumbers DEF SemopMoves
<1>4. /\ p \in Sem!Using' => val[1] # 0
      /\ \A q \in Users : q # p => (pc'[q] \in InLock <=> pc[q] \in InLock)
  BY <1>1, <1>2, <1>3 DEF Sem!Lock, Sem!Go, IInv, Sem!TypeOK, Initialised, InLock, SemopMoves
<1>5. /\ AdjustTrue' /\ CountedInv'
      /\ val' \in [Sem!Members -> Nat] /\ adj' \in [Users -> [Sem!Members -> -1..1]]
      /\ val'[1] = 0 <=> val[1] = 0
  BY <1>1, <1>2, <1>4, SemopCounts DEF One
<1>6. Sem!TypeOK'
  <2>1. /\ pc' \in [Users -> Places]
        /\ \A q \in Users : q # p => pc'[q] = pc[q]
    BY DEF Places, Sem!Lock, Sem!Go, IInv, Sem!TypeOK
  <2>2. id[p] = "live"
    BY <1>1 DEF Sem!Semop
  <2> QED
    BY <1>1, <1>5, <2>1, <2>2 DEF Sem!TypeOK, Places
<1>7. OneLocker'
  BY <1>1, <1>3 DEF IInv, Sem!TypeOK, OneLocker, InLock, SemopMoves, Sem!Lock, Sem!Go
<1>8. Initialised'
  BY <1>1, <1>2, <1>3, <1>4, <1>5
  DEF IInv, Sem!TypeOK, Initialised, OneLocker, InLock, SemopMoves, Sem!Lock, Sem!Go
<1>9. OpenersOnly' /\ Sem!RemovedUnused'
  BY <1>1, <1>2, <1>3
  DEF IInv, Sem!TypeOK, OpenersOnly, Sem!RemovedUnused, OneLocker, InLock, SemopMoves, Sem!Using,
      Sem!Lock, Sem!Go
<1> QED
  BY <1>5, <1>6, <1>7, <1>8, <1>9 DEF IInv

\* sem_create() counts its caller and gives the lock back in one call.
LEMMA EndCreateIInv ==
  ASSUME IInv, NEW p \in Users, Sem!EndCreate(p)
  PROVE  IInv'
<1>1. /\ Sem!Semop(p, Sem!Delta(0, -1, -1)) /\ Sem!TypeOK /\ UNCHANGED <<live, id, opened>> /\ live
      /\ -1 \in -1..1 /\ 0 \in -1..1 /\ 1 \in -1..1
  BY DEF Sem!EndCreate, IInv, Sem!Semop, Sem!TypeOK
<1>2. /\ Sem!Using' = Sem!Using \union {p} /\ Sem!Holding' = Sem!Holding
      /\ p \notin Sem!Using /\ p \notin Sem!Holding /\ pc[p] \in InLock /\ pc'[p] \notin InLock
  BY <1>1 DEF Sem!TypeOK, Sem!Using, Sem!Holding, InLock, Sem!EndCreate, Sem!Go, Sem!Semop
<1>3. /\ val'[0] \in Nat /\ val'[1] \in Nat /\ val'[2] \in Nat
      /\ val[0] \in Nat /\ val[1] \in Nat /\ val[2] \in Nat
      /\ SemopMoves(p, 0, -1, -1)
  BY <1>1, SemopValues, Numbers, MemberNumbers DEF SemopMoves
<1>4. /\ p \in Sem!Using' => val[1] # 0
      /\ \A q \in Users : q # p => (pc'[q] \in InLock <=> pc[q] \in InLock)
  BY <1>1, <1>2, <1>3 DEF Sem!EndCreate, Sem!Go, IInv, Sem!TypeOK, Initialised, InLock, SemopMoves
<1>5. /\ AdjustTrue' /\ CountedInv'
      /\ val' \in [Sem!Members -> Nat] /\ adj' \in [Users -> [Sem!Members -> -1..1]]
      /\ val'[1] = 0 <=> val[1] = 0
  BY <1>1, <1>2, <1>4, SemopCounts DEF One
<1>6. Sem!TypeOK'
  <2>1. /\ pc' \in [Users -> Places]
        /\ \A q \in Users : q # p => pc'[q] = pc[q]
    BY DEF Places, Sem!EndCreate, Sem!Go, IInv, Sem!TypeOK
  <2>2. id[p] = "live"
    BY <1>1 DEF Sem!Semop
  <2> QED
    BY <1>1, <1>5, <2>1, <2>2 DEF Sem!TypeOK, Places
<1>7. OneLocker'
  BY <1>1, <1>3 DEF IInv, Sem!TypeOK, OneLocker, InLock, SemopMoves, Sem!EndCreate, Sem!Go
<1>8. Initialised'
  BY <1>1, <1>2, <1>3, <1>4, <1>5
  DEF IInv, Sem!TypeOK, Initialised, OneLocker, InLock, SemopMoves, Sem!EndCreate, Sem!Go
<1>9. OpenersOnly' /\ Sem!RemovedUnused'
  BY <1>1, <1>2, <1>3
  DEF IInv, Sem!TypeOK, OpenersOnly, Sem!RemovedUnused, OneLocker, InLock, SemopMoves, Sem!Using,
      Sem!EndCreate, Sem!Go
<1> QED
  BY <1>5, <1>6, <1>7, <1>8, <1>9 DEF IInv

\* sem_open() counts its caller; it takes no lock.
LEMMA OpenIInv ==
  ASSUME IInv, NEW p \in Users, Sem!Open(p)
  PROVE  IInv'
<1>1. /\ Sem!Semop(p, Sem!Delta(0, -1, 0)) /\ Sem!TypeOK /\ UNCHANGED <<live, id, opened>> /\ live
      /\ -1 \in -1..1 /\ 0 \in -1..1 /\ 1 \in -1..1
  BY DEF Sem!Open, IInv, Sem!Semop, Sem!TypeOK
<1>2. /\ Sem!Using' = Sem!Using \union {p} /\ Sem!Holding' = Sem!Holding
      /\ p \notin Sem!Using /\ p \notin Sem!Holding /\ pc[p] \notin InLock /\ pc'[p] \notin InLock
  BY <1>1 DEF Sem!TypeOK, Sem!Using, Sem!Holding, InLock, Sem!Open, Sem!Go, Sem!Semop
<1>3. /\ val'[0] \in Nat /\ val'[1] \in Nat /\ val'[2] \in Nat
      /\ val[0] \in Nat /\ val[1] \in Nat /\ val[2] \in Nat
      /\ SemopMoves(p, 0, -1, 0)
  BY <1>1, SemopValues, Numbers, MemberNumbers DEF SemopMoves
<1>4. /\ p \in Sem!Using' => val[1] # 0
      /\ \A q \in Users : q # p => (pc'[q] \in InLock <=> pc[q] \in InLock)
  BY <1>1, <1>2, <1>3 DEF Sem!Open, Sem!Go, IInv, Sem!TypeOK, Initialised, InLock, SemopMoves
<1>5. /\ AdjustTrue' /\ CountedInv'
      /\ val' \in [Sem!Members -> Nat] /\ adj' \in [Users -> [Sem!Members -> -1..1]]
      /\ val'[1] = 0 <=> val[1] = 0
  BY <1>1, <1>2, <1>4, SemopCounts DEF One
<1>6. Sem!TypeOK'
  <2>1. /\ pc' \in [Users -> Places]
        /\ \A q \in Users : q # p => pc'[q] = pc[q]
    BY DEF Places, Sem!Open, Sem!Go, IInv, Sem!TypeOK
  <2>2. id[p] = "live"
    BY <1>1 DEF Sem!Semop
  <2> QED
    BY <1>1, <1>5, <2>1, <2>2 DEF Sem!TypeOK, Places
<1>7. OneLocker'
  BY <1>1, <1>3 DEF IInv, Sem!TypeOK, OneLocker, InLock, SemopMoves, Sem!Open, Sem!Go
<1>8. Initialised'
  BY <1>1, <1>2, <1>3, <1>4, <1>5
  DEF IInv, Sem!TypeOK, Initialised, OneLocker, InLock, SemopMoves, Sem!Open, Sem!Go
<1>9. OpenersOnly' /\ Sem!RemovedUnused'
  BY <1>1, <1>2, <1>3
  DEF IInv, Sem!TypeOK, OpenersOnly, Sem!RemovedUnused, OneLocker, InLock, SemopMoves, Sem!Using,
      Sem!Open, Sem!Go
<1> QED
  BY <1>5, <1>6, <1>7, <1>8, <1>9 DEF IInv

\* sem_wait().
LEMMA WaitIInv ==
  ASSUME IInv, NEW p \in Users, Sem!Wait(p)
  PROVE  IInv'
<1>1. /\ Sem!Semop(p, Sem!Delta(-1, 0, 0)) /\ Sem!TypeOK /\ UNCHANGED <<live, id, opened>> /\ live
      /\ -1 \in -1..1 /\ 0 \in -1..1 /\ 1 \in -1..1
  BY DEF Sem!Wait, IInv, Sem!Semop, Sem!TypeOK
<1>2. /\ Sem!Using' = Sem!Using /\ Sem!Holding' = Sem!Holding \union {p}
      /\ p \in Sem!Using /\ p \notin Sem!Holding /\ pc[p] \notin InLock /\ pc'[p] \notin InLock
  BY <1>1 DEF Sem!TypeOK, Sem!Using, Sem!Holding, InLock, Sem!Wait, Sem!Go, Sem!Semop
<1>3. /\ val'[0] \in Nat /\ val'[1] \in Nat /\ val'[2] \in Nat
      /\ val[0] \in Nat /\ val[1] \in Nat /\ val[2] \in Nat
      /\ SemopMoves(p, -1, 0, 0)
  BY <1>1, SemopValues, Numbers, MemberNumbers DEF SemopMoves
<1>4. /\ p \in Sem!Using' => val[1] # 0
      /\ \A q \in Users : q # p => (pc'[q] \in InLock <=> pc[q] \in InLock)
  BY <1>1, <1>2, <1>3 DEF Sem!Wait, Sem!Go, IInv, Sem!TypeOK, Initialised, InLock, SemopMoves
<1>5. /\ AdjustTrue' /\ CountedInv'
      /\ val' \in [Sem!Members -> Nat] /\ adj' \in [Users -> [Sem!Members -> -1..1]]
      /\ val'[1] = 0 <=> val[1] = 0
  BY <1>1, <1>2, <1>4, SemopCounts DEF One
<1>6. Sem!TypeOK'
  <2>1. /\ pc' \in [Users -> Places]
        /\ \A q \in Users : q # p => pc'[q] = pc[q]
    BY DEF Places, Sem!Wait, Sem!Go, IInv, Sem!TypeOK
  <2>2. id[p] = "live"
    BY <1>1 DEF Sem!Semop
  <2> QED
    BY <1>1, <1>5, <2>1, <2>2 DEF Sem!TypeOK, Places
<1>7. OneLocker'
  BY <1>1, <1>3 DEF IInv, Sem!TypeOK, OneLocker, InLock, SemopMoves, Sem!Wait, Sem!Go
<1>8. Initialised'
  BY <1>1, <1>2, <1>3, <1>4, <1>5
  DEF IInv, Sem!TypeOK, Initialised, OneLocker, InLock, SemopMoves, Sem!Wait, Sem!Go
<1>9. OpenersOnly' /\ Sem!RemovedUnused'
  BY <1>1, <1>2, <1>3
  DEF IInv, Sem!TypeOK, OpenersOnly, Sem!RemovedUnused, OneLocker, InLock, SemopMoves, Sem!Using,
      Sem!Wait, Sem!Go
<1> QED
  BY <1>5, <1>6, <1>7, <1>8, <1>9 DEF IInv

\* sem_signal().
LEMMA SignalIInv ==
  ASSUME IInv, NEW p \in Users, Sem!Signal(p)
  PROVE  IInv'
<1>1. /\ Sem!Semop(p, Sem!Delta(1, 0, 0)) /\ Sem!TypeOK /\ UNCHANGED <<live, id, opened>> /\ live
      /\ -1 \in -1..1 /\ 0 \in -1..1 /\ 1 \in -1..1
  BY DEF Sem!Signal, IInv, Sem!Semop, Sem!TypeOK
<1>2. /\ Sem!Using' = Sem!Using /\ Sem!Holding' = Sem!Holding \ {p}
      /\ p \in Sem!Using /\ p \in Sem!Holding /\ pc[p] \notin InLock /\ pc'[p] \notin InLock
  BY <1>1 DEF Sem!TypeOK, Sem!Using, Sem!Holding, InLock, Sem!Signal, Sem!Go, Sem!Semop
<1>3. /\ val'[0] \in Nat /\ val'[1] \in Nat /\ val'[2] \in Nat
      /\ val[0] \in Nat /\ val[1] \in Nat /\ val[2] \in Nat
      /\ SemopMoves(p, 1, 0, 0)
  BY <1>1, SemopValues, Numbers, MemberNumbers DEF SemopMoves
<1>4. /\ p \in Sem!Using' => val[1] # 0
      /\ \A q \in Users : q # p => (pc'[q] \in InLock <=> pc[q] \in InLock)
  BY <1>1, <1>2, <1>3 DEF Sem!Signal, Sem!Go, IInv, Sem!TypeOK, Initialised, InLock, SemopMoves
<1>5. /\ AdjustTrue' /\ CountedInv'
      /\ val' \in [Sem!Members -> Nat] /\ adj' \in [Users -> [Sem!Members -> -1..1]]
      /\ val'[1] = 0 <=> val[1] = 0
  BY <1>1, <1>2, <1>4, SemopCounts DEF One
<1>6. Sem!TypeOK'
  <2>1. /\ pc' \in [Users -> Places]
        /\ \A q \in Users : q # p => pc'[q] = pc[q]
    BY DEF Places, Sem!Signal, Sem!Go, IInv, Sem!TypeOK
  <2>2. id[p] = "live"
    BY <1>1 DEF Sem!Semop
  <2> QED
    BY <1>1, <1>5, <2>1, <2>2 DEF Sem!TypeOK, Places
<1>7. OneLocker'
  BY <1>1, <1>3 DEF IInv, Sem!TypeOK, OneLocker, InLock, SemopMoves, Sem!Signal, Sem!Go
<1>8. Initialised'
  BY <1>1, <1>2, <1>3, <1>4, <1>5
  DEF IInv, Sem!TypeOK, Initialised, OneLocker, InLock, SemopMoves, Sem!Signal, Sem!Go
<1>9. OpenersOnly' /\ Sem!RemovedUnused'
  BY <1>1, <1>2, <1>3
  DEF IInv, Sem!TypeOK, OpenersOnly, Sem!RemovedUnused, OneLocker, InLock, SemopMoves, Sem!Using,
      Sem!Signal, Sem!Go
<1> QED
  BY <1>5, <1>6, <1>7, <1>8, <1>9 DEF IInv

\* sem_close() takes the lock and its caller from the count in one call.
LEMMA CloseIInv ==
  ASSUME IInv, NEW p \in Users, Sem!Close(p)
  PROVE  IInv'
<1>1. /\ Sem!Semop(p, Sem!Delta(0, 1, 1)) /\ Sem!TypeOK /\ UNCHANGED <<live, id, opened>> /\ live
      /\ -1 \in -1..1 /\ 0 \in -1..1 /\ 1 \in -1..1
  BY DEF Sem!Close, IInv, Sem!Semop, Sem!TypeOK
<1>2. /\ Sem!Using' = Sem!Using \ {p} /\ Sem!Holding' = Sem!Holding
      /\ p \in Sem!Using /\ p \notin Sem!Holding /\ pc[p] \notin InLock /\ pc'[p] \in InLock
  BY <1>1 DEF Sem!TypeOK, Sem!Using, Sem!Holding, InLock, Sem!Close, Sem!Go, Sem!Semop
<1>3. /\ val'[0] \in Nat /\ val'[1] \in Nat /\ val'[2] \in Nat
      /\ val[0] \in Nat /\ val[1] \in Nat /\ val[2] \in Nat
      /\ SemopMoves(p, 0, 1, 1)
  BY <1>1, SemopValues, Numbers, MemberNumbers DEF SemopMoves
<1>4. /\ p \in Sem!Using' => val[1] # 0
      /\ \A q \in Users : q # p => (pc'[q] \in InLock <=> pc[q] \in InLock)
  BY <1>1, <1>2, <1>3 DEF Sem!Close, Sem!Go, IInv, Sem!TypeOK, Initialised, InLock, SemopMoves
<1>5. /\ AdjustTrue' /\ CountedInv'
      /\ val' \in [Sem!Members -> Nat] /\ adj' \in [Users -> [Sem!Members -> -1..1]]
      /\ val'[1] = 0 <=> val[1] = 0
  BY <1>1, <1>2, <1>4, SemopCounts DEF One
<1>6. Sem!TypeOK'
  <2>1. /\ pc' \in [Users -> Places]
        /\ \A q \in Users : q # p => pc'[q] = pc[q]
    BY DEF Places, Sem!Close, Sem!Go, IInv, Sem!TypeOK
  <2>2. id[p] = "live"
    BY <1>1 DEF Sem!Semop
  <2> QED
    BY <1>1, <1>5, <2>1, <2>2 DEF Sem!TypeOK, Places
<1>7. OneLocker'
  BY <1>1, <1>3 DEF IInv, Sem!TypeOK, OneLocker, InLock, SemopMoves, Sem!Close, Sem!Go
<1>8. Initialised'
  BY <1>1, <1>2, <1>3, <1>4, <1>5
  DEF IInv, Sem!TypeOK, Initialised, OneLocker, InLock, SemopMoves, Sem!Close, Sem!Go
<1>9. OpenersOnly' /\ Sem!RemovedUnused'
  BY <1>1, <1>2, <1>3
  DEF IInv, Sem!TypeOK, OpenersOnly, Sem!RemovedUnused, OneLocker, InLock, SemopMoves, Sem!Using,
      Sem!Close, Sem!Go
<1> QED
  BY <1>5, <1>6, <1>7, <1>8, <1>9 DEF IInv

\* No call, and no death at any point, loses the count.
LEMMA StepIInv == IInv /\ [Sem!Next]_semaphoreVars => IInv'
<1> SUFFICES ASSUME IInv, [Sem!Next]_semaphoreVars PROVE IInv'
  OBVIOUS
<1>0. CASE UNCHANGED semaphoreVars
  <2>1. Sem!Using' = Sem!Using /\ Sem!Holding' = Sem!Holding
    BY <1>0 DEF semaphoreVars, Sem!Using, Sem!Holding
  <2> QED
    BY <1>0, <2>1
    DEF semaphoreVars, IInv, Sem!TypeOK, OneLocker, AdjustTrue, Initialised, OpenersOnly, CountedInv,
        Sem!RemovedUnused
<1>1. ASSUME NEW p \in Users, Sem!CreateGet(p) PROVE IInv'
  <2>1. Sem!Using' = Sem!Using /\ Sem!Holding' = Sem!Holding
    BY <1>1 DEF IInv, Sem!TypeOK, Sem!Using, Sem!Holding, Sem!CreateGet, Sem!Go
  <2>2. Sem!TypeOK'
    BY <1>1, ZeroFunction DEF IInv, Sem!TypeOK, Sem!CreateGet, Sem!Go
  <2>3. OneLocker' /\ AdjustTrue'
    BY <1>1, <2>1, ZeroFunction, MemberNumbers
    DEF IInv, Sem!TypeOK, OneLocker, AdjustTrue, Initialised, InLock, Sem!CreateGet, Sem!Go
  <2>4. CountedInv' /\ Initialised'
    BY <1>1, <2>1, ZeroFunction, MemberNumbers
    DEF IInv, Sem!TypeOK, CountedInv, Initialised, Sem!CreateGet, Sem!Go
  <2>5. OpenersOnly' /\ Sem!RemovedUnused'
    BY <1>1, <2>1 DEF IInv, Sem!TypeOK, OpenersOnly, Sem!RemovedUnused, Sem!Using, Sem!CreateGet, Sem!Go
  <2> QED
    BY <2>2, <2>3, <2>4, <2>5 DEF IInv
<1>2. ASSUME NEW p \in Users, Sem!LockWaits(p) PROVE IInv'
  <2>1. Sem!Using' = Sem!Using /\ Sem!Holding' = Sem!Holding
    BY <1>2 DEF IInv, Sem!TypeOK, Sem!Using, Sem!Holding, Sem!LockWaits, Sem!Go
  <2>2. Sem!TypeOK'
    BY <1>2, ZeroFunction DEF IInv, Sem!TypeOK, Sem!LockWaits, Sem!Go
  <2>3. OneLocker' /\ AdjustTrue'
    BY <1>2, <2>1, ZeroFunction, MemberNumbers
    DEF IInv, Sem!TypeOK, OneLocker, AdjustTrue, Initialised, InLock, Sem!LockWaits, Sem!Go
  <2>4. CountedInv' /\ Initialised'
    BY <1>2, <2>1, ZeroFunction, MemberNumbers
    DEF IInv, Sem!TypeOK, CountedInv, Initialised, Sem!LockWaits, Sem!Go
  <2>5. OpenersOnly' /\ Sem!RemovedUnused'
    BY <1>2, <2>1 DEF IInv, Sem!TypeOK, OpenersOnly, Sem!RemovedUnused, Sem!Using, Sem!LockWaits, Sem!Go
  <2> QED
    BY <2>2, <2>3, <2>4, <2>5 DEF IInv
<1>3. ASSUME NEW p \in Users, Sem!LockInvalid(p) PROVE IInv'
  <2>1. Sem!Using' = Sem!Using /\ Sem!Holding' = Sem!Holding
    BY <1>3 DEF IInv, Sem!TypeOK, Sem!Using, Sem!Holding, Sem!LockInvalid, Sem!Go
  <2>2. Sem!TypeOK'
    BY <1>3, ZeroFunction DEF IInv, Sem!TypeOK, Sem!LockInvalid, Sem!Go
  <2>3. OneLocker' /\ AdjustTrue'
    BY <1>3, <2>1, ZeroFunction, MemberNumbers
    DEF IInv, Sem!TypeOK, OneLocker, AdjustTrue, Initialised, InLock, Sem!LockInvalid, Sem!Go
  <2>4. CountedInv' /\ Initialised'
    BY <1>3, <2>1, ZeroFunction, MemberNumbers
    DEF IInv, Sem!TypeOK, CountedInv, Initialised, Sem!LockInvalid, Sem!Go
  <2>5. OpenersOnly' /\ Sem!RemovedUnused'
    BY <1>3, <2>1
    DEF IInv, Sem!TypeOK, OpenersOnly, Sem!RemovedUnused, Sem!Using, Sem!LockInvalid, Sem!Go
  <2> QED
    BY <2>2, <2>3, <2>4, <2>5 DEF IInv
<1>4. ASSUME NEW p \in Users, Sem!GetVal(p) PROVE IInv'
  <2>1. Sem!Using' = Sem!Using /\ Sem!Holding' = Sem!Holding
    BY <1>4 DEF IInv, Sem!TypeOK, Sem!Using, Sem!Holding, Sem!GetVal, Sem!Go
  <2>2. Sem!TypeOK'
    BY <1>4, ZeroFunction DEF IInv, Sem!TypeOK, Sem!GetVal, Sem!Go
  <2>3. OneLocker' /\ AdjustTrue'
    BY <1>4, <2>1, ZeroFunction, MemberNumbers
    DEF IInv, Sem!TypeOK, OneLocker, AdjustTrue, Initialised, InLock, Sem!GetVal, Sem!Go
  <2>4. CountedInv' /\ Initialised'
    BY <1>4, <2>1, ZeroFunction, MemberNumbers
    DEF IInv, Sem!TypeOK, CountedInv, Initialised, Sem!GetVal, Sem!Go
  <2>5. OpenersOnly' /\ Sem!RemovedUnused'
    BY <1>4, <2>1 DEF IInv, Sem!TypeOK, OpenersOnly, Sem!RemovedUnused, Sem!Using, Sem!GetVal, Sem!Go
  <2> QED
    BY <2>2, <2>3, <2>4, <2>5 DEF IInv
<1>5. ASSUME NEW p \in Users, Sem!OpenGet(p) PROVE IInv'
  <2>1. Sem!Using' = Sem!Using /\ Sem!Holding' = Sem!Holding
    BY <1>5 DEF IInv, Sem!TypeOK, Sem!Using, Sem!Holding, Sem!OpenGet, Sem!Go
  <2>2. Sem!TypeOK'
    BY <1>5, ZeroFunction DEF IInv, Sem!TypeOK, Sem!OpenGet, Sem!Go
  <2>3. OneLocker' /\ AdjustTrue'
    BY <1>5, <2>1, ZeroFunction, MemberNumbers
    DEF IInv, Sem!TypeOK, OneLocker, AdjustTrue, Initialised, InLock, Sem!OpenGet, Sem!Go
  <2>4. CountedInv' /\ Initialised'
    BY <1>5, <2>1, ZeroFunction, MemberNumbers
    DEF IInv, Sem!TypeOK, CountedInv, Initialised, Sem!OpenGet, Sem!Go
  <2>5. OpenersOnly' /\ Sem!RemovedUnused'
    BY <1>5, <2>1 DEF IInv, Sem!TypeOK, OpenersOnly, Sem!RemovedUnused, Sem!Using, Sem!OpenGet, Sem!Go
  <2> QED
    BY <2>2, <2>3, <2>4, <2>5 DEF IInv
<1>6. ASSUME NEW p \in Users, Sem!CloseVal(p) PROVE IInv'
  <2>1. Sem!Using' = Sem!Using /\ Sem!Holding' = Sem!Holding
    BY <1>6 DEF IInv, Sem!TypeOK, Sem!Using, Sem!Holding, Sem!CloseVal, Sem!Go
  <2>2. Sem!TypeOK'
    BY <1>6, ZeroFunction DEF IInv, Sem!TypeOK, Sem!CloseVal, Sem!Go
  <2>3. OneLocker' /\ AdjustTrue'
    BY <1>6, <2>1, ZeroFunction, MemberNumbers
    DEF IInv, Sem!TypeOK, OneLocker, AdjustTrue, Initialised, InLock, Sem!CloseVal, Sem!Go
  <2>4. CountedInv' /\ Initialised'
    BY <1>6, <2>1, ZeroFunction, MemberNumbers
    DEF IInv, Sem!TypeOK, CountedInv, Initialised, Sem!CloseVal, Sem!Go
  <2>6. val[1] = BIGCOUNT => Sem!Using = {}
    <3>1. val[1] = BIGCOUNT => Cardinality(Sem!Using) = 0
      BY UsersFinite, PartsAssumption DEF IInv, CountedInv
    <3> QED
      BY <3>1, UsersFinite, FS_EmptySet
  <2>5. OpenersOnly' /\ Sem!RemovedUnused'
    BY <1>6, <2>1, <2>6 DEF IInv, Sem!TypeOK, OpenersOnly, Sem!RemovedUnused, Sem!CloseVal, Sem!Go
  <2> QED
    BY <2>2, <2>3, <2>4, <2>5 DEF IInv
<1>7. ASSUME NEW p \in Users, Sem!Restart(p) PROVE IInv'
  <2>1. Sem!Using' = Sem!Using /\ Sem!Holding' = Sem!Holding
    BY <1>7 DEF IInv, Sem!TypeOK, Sem!Using, Sem!Holding, Sem!Restart, Sem!Go
  <2>2. Sem!TypeOK'
    BY <1>7, ZeroFunction DEF IInv, Sem!TypeOK, Sem!Restart, Sem!Go
  <2>3. OneLocker' /\ AdjustTrue'
    BY <1>7, <2>1, ZeroFunction, MemberNumbers
    DEF IInv, Sem!TypeOK, OneLocker, AdjustTrue, Initialised, InLock, Sem!Restart, Sem!Go
  <2>4. CountedInv' /\ Initialised'
    BY <1>7, <2>1, ZeroFunction, MemberNumbers
    DEF IInv, Sem!TypeOK, CountedInv, Initialised, Sem!Restart, Sem!Go
  <2>5. OpenersOnly' /\ Sem!RemovedUnused'
    BY <1>7, <2>1 DEF IInv, Sem!TypeOK, OpenersOnly, Sem!RemovedUnused, Sem!Using, Sem!Restart, Sem!Go
  <2> QED
    BY <2>2, <2>3, <2>4, <2>5 DEF IInv
<1>8. ASSUME NEW p \in Users, Sem!Lock(p) PROVE IInv'
  BY <1>8, LockIInv
<1>9. ASSUME NEW p \in Users, Sem!EndCreate(p) PROVE IInv'
  BY <1>9, EndCreateIInv
<1>10. ASSUME NEW p \in Users, Sem!Open(p) PROVE IInv'
  BY <1>10, OpenIInv
<1>11. ASSUME NEW p \in Users, Sem!Wait(p) PROVE IInv'
  BY <1>11, WaitIInv
<1>12. ASSUME NEW p \in Users, Sem!Signal(p) PROVE IInv'
  BY <1>12, SignalIInv
<1>13. ASSUME NEW p \in Users, Sem!Close(p) PROVE IInv'
  BY <1>13, CloseIInv
<1>14. ASSUME NEW p \in Users, Sem!LockRemoved(p) PROVE IInv'
  BY <1>14, UndoIInv DEF Sem!LockRemoved
<1>15. ASSUME NEW p \in Users, Sem!Kill(p) PROVE IInv'
  BY <1>15, UndoIInv DEF Sem!Kill
<1>16. ASSUME NEW p \in Users, Sem!Fail(p) PROVE IInv'
  BY <1>16, UndoIInv DEF Sem!Fail
<1>17. ASSUME NEW p \in Users, Sem!Set0(p) PROVE IInv'
  <2>1. Sem!Using' = Sem!Using /\ Sem!Holding' = Sem!Holding /\ Sem!Using = {} /\ Sem!Holding = {}
    BY <1>17 DEF IInv, Sem!TypeOK, Initialised, Sem!Using, Sem!Holding, Sem!Set0, Sem!Go, Sem!Setval
  <2>2. Sem!TypeOK'
    BY <1>17, ZeroFunction, MemberNumbers, Numbers, PartsAssumption
    DEF IInv, Sem!TypeOK, Sem!Set0, Sem!Go, Sem!Setval, InLock
  <2>3. OneLocker'
    BY <1>17, MemberNumbers DEF IInv, Sem!TypeOK, OneLocker, InLock, Sem!Set0, Sem!Go, Sem!Setval
  <2>4. AdjustTrue'
    <3>1. \A q \in Users : adj[q][0] = 0 /\ adj[q][1] = 0
      BY <2>1 DEF IInv, AdjustTrue
    <3>2. \A q \in Users, m \in Sem!Members : adj'[q][m] = adj[q][m]
      BY <1>17, <3>1, MemberNumbers DEF IInv, Sem!TypeOK, Sem!Set0, Sem!Setval
    <3>3. \A q \in Users : pc'[q] \in InLock <=> pc[q] \in InLock
      BY <1>17 DEF IInv, Sem!TypeOK, InLock, Sem!Set0, Sem!Go
    <3> QED
      BY <2>1, <3>2, <3>3, MemberNumbers DEF IInv, AdjustTrue
  <2>5. /\ val' \in [Sem!Members -> Nat]
        /\ \A m \in Sem!Members : val'[m] = IF m = 0 THEN InitVal ELSE val[m]
    BY <1>17, MemberNumbers, Numbers, PartsAssumption DEF IInv, Sem!TypeOK, Sem!Set0, Sem!Setval
  <2>6. Initialised' /\ CountedInv'
    BY <1>17, <2>1, <2>5, MemberNumbers, UsersFinite, FS_EmptySet, PartsAssumption
    DEF IInv, Sem!TypeOK, Initialised, CountedInv, OneLocker, InLock, Sem!Set0, Sem!Go, Sem!Setval
  <2>7. OpenersOnly' /\ Sem!RemovedUnused'
    BY <1>17, <2>1 DEF IInv, Sem!TypeOK, OpenersOnly, Sem!RemovedUnused, Sem!Set0, Sem!Go, Sem!Setval
  <2> QED
    BY <2>2, <2>3, <2>4, <2>6, <2>7 DEF IInv
<1>18. ASSUME NEW p \in Users, Sem!Set1(p) PROVE IInv'
  <2>1. Sem!Using' = Sem!Using /\ Sem!Holding' = Sem!Holding /\ Sem!Using = {} /\ Sem!Holding = {}
    BY <1>18 DEF IInv, Sem!TypeOK, Initialised, Sem!Using, Sem!Holding, Sem!Set1, Sem!Go, Sem!Setval
  <2>2. Sem!TypeOK'
    BY <1>18, ZeroFunction, MemberNumbers, Numbers, PartsAssumption
    DEF IInv, Sem!TypeOK, Sem!Set1, Sem!Go, Sem!Setval, InLock
  <2>3. OneLocker'
    BY <1>18, MemberNumbers DEF IInv, Sem!TypeOK, OneLocker, InLock, Sem!Set1, Sem!Go, Sem!Setval
  <2>4. AdjustTrue'
    <3>1. \A q \in Users : adj[q][0] = 0 /\ adj[q][1] = 0
      BY <2>1 DEF IInv, AdjustTrue
    <3>2. \A q \in Users, m \in Sem!Members : adj'[q][m] = adj[q][m]
      BY <1>18, <3>1, MemberNumbers DEF IInv, Sem!TypeOK, Sem!Set1, Sem!Setval
    <3>3. \A q \in Users : pc'[q] \in InLock <=> pc[q] \in InLock
      BY <1>18 DEF IInv, Sem!TypeOK, InLock, Sem!Set1, Sem!Go
    <3> QED
      BY <2>1, <3>2, <3>3, MemberNumbers DEF IInv, AdjustTrue
  <2>5. /\ val' \in [Sem!Members -> Nat]
        /\ \A m \in Sem!Members : val'[m] = IF m = 1 THEN BIGCOUNT ELSE val[m]
    BY <1>18, MemberNumbers, Numbers, PartsAssumption DEF IInv, Sem!TypeOK, Sem!Set1, Sem!Setval
  <2>6. Initialised' /\ CountedInv'
    BY <1>18, <2>1, <2>5, MemberNumbers, UsersFinite, FS_EmptySet, PartsAssumption
    DEF IInv, Sem!TypeOK, Initialised, CountedInv, OneLocker, InLock, Sem!Set1, Sem!Go, Sem!Setval
  <2>7. OpenersOnly' /\ Sem!RemovedUnused'
    BY <1>18, <2>1 DEF IInv, Sem!TypeOK, OpenersOnly, Sem!RemovedUnused, Sem!Set1, Sem!Go, Sem!Setval
  <2> QED
    BY <2>2, <2>3, <2>4, <2>6, <2>7 DEF IInv
<1>19. ASSUME NEW p \in Users, Sem!Rm(p) PROVE IInv'
  <2>1. Sem!Using' = {} /\ Sem!Holding' = {}
    BY <1>19 DEF IInv, Sem!TypeOK, Sem!Using, Sem!Holding, Sem!Rm, Sem!Go
  <2>2. Sem!TypeOK'
    <3>1. adj' \in [Users -> [Sem!Members -> -1..1]] /\ val' \in [Sem!Members -> Nat]
      BY <1>19, ZeroFunction DEF Sem!Rm
    <3>2. \A q \in Users : q # p => pc[q] \notin InLock
      BY <1>19 DEF IInv, OneLocker, InLock, Sem!Rm, Sem!Go
    <3> QED
      BY <1>19, <3>1, <3>2 DEF IInv, Sem!TypeOK, InLock, Sem!Rm, Sem!Go
  <2>3. OneLocker'
    BY <1>19 DEF IInv, Sem!TypeOK, OneLocker, InLock, Sem!Rm, Sem!Go
  <2>4. AdjustTrue'
    <3>1. \A q \in Users : pc'[q] \notin InLock
      BY <1>19 DEF IInv, Sem!TypeOK, OneLocker, InLock, Sem!Rm, Sem!Go
    <3> QED
      BY <1>19, <2>1, <3>1, ZeroFunction, MemberNumbers DEF AdjustTrue, Sem!Rm
  <2>5. CountedInv' /\ Initialised'
    BY <1>19, <2>1, ZeroFunction, MemberNumbers
    DEF IInv, Sem!TypeOK, CountedInv, Initialised, OneLocker, InLock, Sem!Rm, Sem!Go
  <2>6. OpenersOnly' /\ Sem!RemovedUnused'
    BY <1>19, <2>1 DEF IInv, Sem!TypeOK, OpenersOnly, Sem!RemovedUnused, Sem!Using, Sem!Rm, Sem!Go
  <2> QED
    BY <2>2, <2>3, <2>4, <2>5, <2>6 DEF IInv
<1>20. ASSUME NEW p \in Users, Sem!Unlock(p) PROVE IInv'
  <2>1. Sem!Using' = Sem!Using /\ Sem!Holding' = Sem!Holding /\ p \notin Sem!Using
    BY <1>20 DEF IInv, Sem!TypeOK, Sem!Using, Sem!Holding, Sem!Unlock, Sem!Go
  <2>2. /\ val[2] = 1 /\ val'[0] = val[0] /\ val'[1] = val[1] /\ val'[2] = 0
        /\ val' \in [Sem!Members -> Nat]
    BY <1>20, MemberNumbers, Numbers DEF IInv, Sem!TypeOK, OneLocker, InLock, Sem!Unlock, Sem!Go
  <2>3. /\ adj' \in [Users -> [Sem!Members -> -1..1]] /\ adj'[p] = Sem!Zero
        /\ \A q \in Users : q # p => adj'[q] = adj[q]
    BY <1>20, ZeroFunction DEF IInv, Sem!TypeOK, Sem!Unlock
  <2>4. Sem!TypeOK'
    BY <1>20, <2>2, <2>3 DEF IInv, Sem!TypeOK, Sem!Unlock, Sem!Go
  <2>5. OneLocker'
    BY <1>20 DEF IInv, Sem!TypeOK, OneLocker, InLock, Sem!Unlock, Sem!Go
  <2>6. AdjustTrue'
    BY <1>20, <2>1, <2>3, ZeroFunction, MemberNumbers
    DEF IInv, Sem!TypeOK, AdjustTrue, InLock, Sem!Unlock, Sem!Go, Sem!Holding
  <2>7. CountedInv' /\ Initialised'
    BY <1>20, <2>1, <2>2, MemberNumbers DEF IInv, Sem!TypeOK, CountedInv, Initialised, Sem!Unlock, Sem!Go
  <2>8. OpenersOnly' /\ Sem!RemovedUnused'
    BY <1>20, <2>1 DEF IInv, Sem!TypeOK, OpenersOnly, Sem!RemovedUnused, Sem!Unlock, Sem!Go
  <2> QED
    BY <2>4, <2>5, <2>6, <2>7, <2>8 DEF IInv
<1> QED
  BY <1>0, <1>1, <1>2, <1>3, <1>4, <1>5, <1>6, <1>7, <1>8, <1>9, <1>10, <1>11, <1>12, <1>13, <1>14,
     <1>15, <1>16, <1>17, <1>18, <1>19, <1>20
  DEF Sem!Next, Sem!Process, Sem!Locked

\* The instance counts as FiniteSets does.
LEMMA SameCardinality == ASSUME NEW S PROVE Sem!Cardinality(S) = Cardinality(S)
BY Zenon DEF Sem!Cardinality, Cardinality

\* [1] of a set that is initialised is BIGCOUNT less its users, [0] what the
\* holders leave, and a set is removed only when nobody but one that came by
\* sem_open() meanwhile uses it: sem_create(), sem_close() and their SEM_UNDO.
THEOREM CountedHolds == Spec => []Counted
<1>1. IInv => Counted
  BY SameCardinality DEF IInv, CountedInv, Counted, Sem!Counted
<1>2. IInv /\ [Next]_vars => IInv'
  <2>1. [Next]_vars => [Sem!Next]_semaphoreVars
    BY DEF Next, vars
  <2> QED
    BY <2>1, StepIInv
<1> QED
  BY <1>1, <1>2, InitIInv, PTL DEF Spec, vars

-----------------------------------------------------------------------------
(* servlisten.c, servaccept.c, cliconn.c, sendfd.c, senderr.c, recvfd.c *)

Ats == {"start", "chmod", "connect", "recv"} \union Pass!Ended
Meant == [answer : {Passed} \union Errors, all : Nat]
Wires == [text : Nat, tail : Seq(Nat), open : BOOLEAN]
\* What the server is at, with the text it still has to write.
Jobs == [client : Clients, text : Nat]

PassTyped ==
  /\ server \in {"down", "listens", "answers", "answered"} /\ bound \in {"none", "old", "bound"}
  /\ queue \in Seq(Clients) /\ job \in Jobs \union {Nothing}
  /\ server \in {"answers", "answered"} <=> job # Nothing
  /\ meant \in [Clients -> Meant \union {Nothing}] /\ wire \in [Clients -> Wires]
  /\ passAt \in [Clients -> Ats] /\ name \in [Clients -> {"none", "private", "unfit"}]
  /\ passReceived \in [Clients -> Nat] /\ ret \in [Clients -> Int \union {Passed, Nothing}]

\* A client is in the queue once, and before it is answered.
Waits(c) ==
  passAt[c] \in {"recv", "killed"} /\ meant[c] = Nothing /\ ~Pass!Answered(c) /\ wire[c].open

InQueue ==
  /\ \A i, j \in 1..Len(queue) : queue[i] = queue[j] => i = j
  /\ \A i \in 1..Len(queue) : Waits(queue[i])

\* What returns to the client from recv_fd().
Right(c) ==
  /\ passReceived[c] = meant[c].all
  /\ ret[c] = Passed <=> meant[c].answer = Passed
  /\ meant[c].answer # Passed =>
       /\ ret[c] \in -255..-1
       /\ \/ (ret[c] - meant[c].answer) % 256 = 0
          \/ ret[c] = -1 /\ (meant[c].answer % 256 = 0 \/ meant[c].answer > 0)

\* Each byte of the text is still to be written, on the way, or received, and the
\* status follows the last one.
OnTheWay(c) ==
  /\ wire[c].tail \in {<<>>, <<0, Pass!Status(meant[c].answer)>>}
  /\ passReceived[c] + wire[c].text <= meant[c].all
  /\ Pass!Answered(c) => passReceived[c] + wire[c].text + job.text = meant[c].all
  /\ wire[c].tail # <<>> => passReceived[c] + wire[c].text = meant[c].all

\* Nobody has bytes before it is answered, whose name is then gone.
Fresh(c) == passReceived[c] = 0 /\ wire[c].text = 0 /\ wire[c].tail = <<>>

ClientOk(c) ==
  /\ passAt[c] \in {"start", "chmod", "connect"} => meant[c] = Nothing /\ wire[c].open
  /\ passAt[c] \in {"failed", "returned", "aborted"} => name[c] = "none"
  /\ passAt[c] \in {"returned", "aborted"} \/ Pass!Answered(c) => meant[c] # Nothing
  /\ meant[c] = Nothing => Fresh(c)
  /\ meant[c] # Nothing => passAt[c] # "failed" /\ name[c] = "none"
  /\ meant[c] # Nothing /\ passAt[c] = "recv" => OnTheWay(c)
  /\ passAt[c] = "returned" => Right(c)
  /\ passAt[c] = "aborted" => meant[c].all >= MAXLINE - 1

PassInv == PassTyped /\ InQueue /\ \A c \in Clients : ClientOk(c)

\* The byte 0 is the descriptor's; any other is the error's low byte, or 1.
LEMMA StatusLemma ==
  ASSUME NEW a \in {Passed} \union Errors
  PROVE  /\ Pass!Status(a) \in 0..255
         /\ Pass!Status(a) = 0 <=> a = Passed
         /\ a # Passed => /\ a \in Int /\ -Pass!Status(a) \in -255..-1
                          /\ \/ (-Pass!Status(a) - a) % 256 = 0
                             \/ -Pass!Status(a) = -1 /\ (a % 256 = 0 \/ a > 0)
<1>1. Passed \notin Int /\ Errors \subseteq Int
  BY PartsAssumption
<1>2. CASE a = Passed
  BY <1>1, <1>2 DEF Pass!Status
<1>3. CASE a # Passed /\ (a >= 0 \/ a % 256 = 0)
  <2>1. Pass!Status(a) = 1 /\ a \in Int
    BY <1>1, <1>3 DEF Pass!Status
  <2>2. a % 256 = 0 \/ a > 0
    BY <1>3, <2>1
  <2> QED
    BY <1>3, <2>1, <2>2
<1>4. CASE a # Passed /\ ~(a >= 0 \/ a % 256 = 0)
  <2>1. Pass!Status(a) = (-a) % 256 /\ a \in Int /\ a % 256 # 0
    BY <1>1, <1>4 DEF Pass!Status
  <2>2. \A x \in Int : x % 256 # 0 => (-x) % 256 \in 1..255 /\ (-((-x) % 256) - x) % 256 = 0
    OBVIOUS
  <2>3. Pass!Status(a) \in 1..255 /\ (-Pass!Status(a) - a) % 256 = 0
    BY <2>1, <2>2
  <2> QED
    BY <1>4, <2>1, <2>3
<1> QED
  BY <1>2, <1>3, <1>4

\* Without a server nothing is on its way.
LEMMA PassInit == Init => PassInv
<1> SUFFICES ASSUME Pass!Init PROVE PassInv
  BY DEF Init
<1>1. PassTyped
  BY EmptySeq DEF Pass!Init, PassTyped, Pass!Silent, Wires, Ats
<1>2. Len(queue) = 0
  BY EmptySeq DEF Pass!Init
<1>3. \A c \in Clients : /\ passAt[c] = "start" /\ meant[c] = Nothing /\ ~Pass!Answered(c)
                         /\ wire[c].open /\ Fresh(c)
  BY DEF Pass!Init, Pass!Silent, Pass!Answered, Fresh
<1> QED
  BY <1>1, <1>2, <1>3 DEF PassInv, InQueue, ClientOk

\* A step that leaves a client alone, but for a connection that is closed.
LEMMA LeftAlone ==
  ASSUME NEW d \in Clients, ClientOk(d), Pass!Answered(d)' => Pass!Answered(d) /\ job' = job,
         passAt'[d] = passAt[d], name'[d] = name[d], passReceived'[d] = passReceived[d],
         ret'[d] = ret[d], meant'[d] = meant[d],
         wire'[d].text = wire[d].text, wire'[d].tail = wire[d].tail,
         wire'[d].open = wire[d].open \/ passAt[d] \notin {"start", "chmod", "connect"}
  PROVE  ClientOk(d)'
<1>1. Fresh(d) => Fresh(d)'
  BY DEF Fresh
<1>2. Right(d) => Right(d)'
  BY DEF Right
<1>3. OnTheWay(d) => OnTheWay(d)'
  BY DEF OnTheWay, Pass!Status
<1> QED
  BY <1>1, <1>2, <1>3 DEF ClientOk

\* A queue that stays, with those in it.
LEMMA QueueStays ==
  ASSUME PassInv, queue' = queue,
         \A d \in Clients : Waits(d) => Waits(d)' \/ \A i \in 1..Len(queue) : queue[i] # d
  PROVE  InQueue'
<1>1. ASSUME NEW i \in 1..Len(queue') PROVE Waits(queue[i])'
  <2>1. queue[i] \in Clients /\ Waits(queue[i]) /\ i \in 1..Len(queue)
    BY ElementOfSeq DEF PassInv, PassTyped, InQueue
  <2> QED
    BY <2>1 DEF Waits, Pass!Answered
<1> QED
  BY <1>1 DEF PassInv, InQueue

\* The first of the queue and the others.
LEMMA QueueLemma ==
  ASSUME queue \in Seq(Clients), queue # <<>>
  PROVE  /\ Len(queue) \in Nat \ {0} /\ Head(queue) \in Clients /\ Head(queue) = queue[1]
         /\ Tail(queue) \in Seq(Clients) /\ Len(Tail(queue)) = Len(queue) - 1
         /\ \A i \in 1..(Len(queue) - 1) : Tail(queue)[i] = queue[i + 1]
<1>1. Len(queue) \in Nat \ {0}
  BY LenProperties, EmptySeq
<1>2. Head(queue) \in Clients /\ Head(queue) = queue[1]
  BY HeadTailProperties, <1>1, ElementOfSeq
<1>3. Tail(queue) \in Seq(Clients) /\ Len(Tail(queue)) = Len(queue) - 1
  BY HeadTailProperties
<1>4. \A i \in 1..Len(Tail(queue)) : Tail(queue)[i] = queue[i + 1]
  BY HeadTailProperties
<1> QED
  BY <1>1, <1>2, <1>3, <1>4

\* The server takes the first of the queue; the others still wait.
LEMMA QueueMoves ==
  ASSUME PassInv, NEW c \in Clients, queue # <<>>, c = Head(queue), queue' = Tail(queue),
         \A d \in Clients \ {c} : Waits(d) => Waits(d)'
  PROVE  Waits(c) /\ InQueue' /\ queue' \in Seq(Clients)
<1>1. /\ Len(queue) \in Nat \ {0} /\ c = queue[1]
      /\ queue' \in Seq(Clients) /\ Len(queue') = Len(queue) - 1
      /\ \A i \in 1..(Len(queue) - 1) : queue'[i] = queue[i + 1]
  BY QueueLemma DEF PassInv, PassTyped
<1>2. Waits(c)
  BY <1>1 DEF PassInv, InQueue
<1>3. ASSUME NEW i \in 1..Len(queue')
      PROVE  i + 1 \in 1..Len(queue) /\ queue'[i] = queue[i + 1] /\ queue'[i] \in Clients \ {c}
  <2>1. i + 1 \in 1..Len(queue) /\ i \in 1..(Len(queue) - 1) /\ i + 1 # 1 /\ 1 \in 1..Len(queue)
    BY <1>1
  <2>2. queue'[i] \in Clients
    BY <1>1, ElementOfSeq
  <2> QED
    BY <1>1, <2>1, <2>2 DEF PassInv, InQueue
<1>4. \A i, j \in 1..Len(queue') : queue'[i] = queue'[j] => i = j
  <2> SUFFICES ASSUME NEW i \in 1..Len(queue'), NEW j \in 1..Len(queue'), queue'[i] = queue'[j]
               PROVE  i = j
    OBVIOUS
  <2>1. i + 1 = j + 1
    BY <1>3 DEF PassInv, InQueue
  <2> QED
    BY <2>1, <1>1
<1>5. ASSUME NEW i \in 1..Len(queue') PROVE Waits(queue[i])'
  <2>1. Waits(queue[i + 1])
    BY <1>3 DEF PassInv, InQueue
  <2> QED
    BY <1>3, <2>1 DEF Waits, Pass!Answered
<1> QED
  BY <1>1, <1>2, <1>4, <1>5 DEF InQueue

\* The server comes, or does not.
LEMMA ListenStep == PassInv /\ (Pass!Listen \/ Pass!ListenFails) => PassInv'
<1> SUFFICES ASSUME PassInv, Pass!Listen \/ Pass!ListenFails PROVE PassInv'
  OBVIOUS
<1>1. /\ server = "down" /\ server' \in {"down", "listens"} /\ bound' \in {"none", "old", "bound"}
      /\ UNCHANGED <<queue, job, meant, wire, passAt, name, passReceived, ret>>
  BY DEF Pass!Listen, Pass!ListenFails
<1>2. PassTyped'
  BY <1>1 DEF PassInv, PassTyped
<1>3. \A c \in Clients : Pass!Answered(c)' <=> Pass!Answered(c)
  BY <1>1 DEF Pass!Answered
<1>4. InQueue'
  BY <1>1, <1>3, QueueStays DEF Waits
<1>5. \A c \in Clients : ClientOk(c)'
  BY <1>1, <1>3, LeftAlone DEF PassInv
<1> QED
  BY <1>2, <1>4, <1>5 DEF PassInv

\* serv_accept() takes the first of the queue, which has received nothing yet.
LEMMA AcceptStep == \A c \in Clients : PassInv /\ Pass!Accept(c) => PassInv'
<1> SUFFICES ASSUME NEW c \in Clients, PassInv, Pass!Accept(c) PROVE PassInv'
  OBVIOUS
<1>1. /\ server = "listens" /\ queue # <<>> /\ c = Head(queue) /\ queue' = Tail(queue)
      /\ name' = [name EXCEPT ![c] = "none"] /\ server' = "answers"
      /\ UNCHANGED <<bound, wire, passAt, passReceived, ret>>
  BY DEF Pass!Accept, Pass!Accepts
<1>2. PICK n \in Texts, a \in {Passed} \union Errors :
        /\ job' = [client |-> c, text |-> n]
        /\ meant' = [meant EXCEPT ![c] = [answer |-> a, all |-> n]]
  BY DEF Pass!Accept
<1>3. \A d \in Clients : ~Pass!Answered(d)
  BY <1>1 DEF PassInv, PassTyped, Pass!Answered
<1>4. /\ n \in Nat /\ job' \in Jobs /\ job' # Nothing
      /\ [answer |-> a, all |-> n] \in Meant /\ [answer |-> a, all |-> n] # Nothing
  BY <1>2, PartsAssumption DEF Jobs, Meant
<1>5. \A d \in Clients : Pass!Answered(d)' <=> d = c
  BY <1>2, <1>4 DEF Pass!Answered
<1>6. /\ meant'[c] = [answer |-> a, all |-> n] /\ name'[c] = "none"
      /\ \A d \in Clients : d # c => meant'[d] = meant[d] /\ name'[d] = name[d]
  BY <1>1, <1>2 DEF PassInv, PassTyped
<1>7. Waits(c) /\ InQueue' /\ queue' \in Seq(Clients)
  BY <1>1, <1>5, <1>6, QueueMoves DEF Waits
<1>8. PassTyped'
  BY <1>1, <1>2, <1>4, <1>7 DEF PassInv, PassTyped
<1>9. ClientOk(c)'
  <2>1. Fresh(c) /\ passAt[c] \in {"recv", "killed"}
    BY <1>7 DEF PassInv, ClientOk, Waits
  <2>2. meant'[c] # Nothing /\ meant'[c].all = n /\ job'.text = n
    BY <1>2, <1>4, <1>6
  <2>3. OnTheWay(c)'
    BY <1>1, <1>4, <2>1, <2>2 DEF OnTheWay, Fresh
  <2> QED
    BY <1>1, <1>6, <2>1, <2>2, <2>3 DEF ClientOk
<1>10. ASSUME NEW d \in Clients, d # c PROVE ClientOk(d)'
  BY <1>1, <1>5, <1>6, <1>10, LeftAlone DEF PassInv
<1> QED
  BY <1>7, <1>8, <1>9, <1>10 DEF PassInv

\* The server's end of a connection is closed: what was sent stays.
LEMMA CloseLemma ==
  ASSUME PassInv, NEW c \in Clients, wire' = [wire EXCEPT ![c].open = FALSE]
  PROVE  /\ wire' \in [Clients -> Wires] /\ \A d \in Clients : d # c => wire'[d] = wire[d]
         /\ wire'[c].text = wire[c].text /\ wire'[c].tail = wire[c].tail
BY DEF PassInv, PassTyped, Wires

\* The connection is closed.
LEMMA RefuseStep == \A c \in Clients : PassInv /\ Pass!Refuse(c) => PassInv'
<1> SUFFICES ASSUME NEW c \in Clients, PassInv, Pass!Refuse(c) PROVE PassInv'
  OBVIOUS
<1>1. /\ queue # <<>> /\ c = Head(queue) /\ queue' = Tail(queue)
      /\ wire' = [wire EXCEPT ![c].open = FALSE]
      /\ UNCHANGED <<server, bound, job, meant, passAt, name, passReceived, ret>>
  BY DEF Pass!Refuse, Pass!Accepts
<1>2. /\ wire' \in [Clients -> Wires] /\ \A d \in Clients : d # c => wire'[d] = wire[d]
      /\ wire'[c].text = wire[c].text /\ wire'[c].tail = wire[c].tail
  BY <1>1, CloseLemma
<1>3. \A d \in Clients : Pass!Answered(d)' <=> Pass!Answered(d)
  BY <1>1 DEF Pass!Answered
<1>4. Waits(c) /\ InQueue' /\ queue' \in Seq(Clients)
  BY <1>1, <1>2, <1>3, QueueMoves DEF Waits
<1>5. PassTyped'
  BY <1>1, <1>2, <1>4 DEF PassInv, PassTyped
<1>6. ASSUME NEW d \in Clients PROVE ClientOk(d)'
  BY <1>1, <1>2, <1>3, <1>4, LeftAlone DEF PassInv, Waits
<1> QED
  BY <1>4, <1>5, <1>6 DEF PassInv

\* The server writes to the client it answers.
LEMMA AnswerStep ==
  ASSUME PassInv, NEW c \in Clients, Pass!Answered(c), passAt[c] = "recv", server \in {"answers", "answered"},
         server' \in {"answers", "answered"}, job' \in Jobs, job'.client = c, wire' \in [Clients -> Wires],
         \A d \in Clients : d # c => wire'[d] = wire[d],
         wire'[c].tail \in {<<>>, <<0, Pass!Status(meant[c].answer)>>},
         passReceived[c] + wire'[c].text + job'.text = meant[c].all,
         passReceived[c] + wire'[c].text <= meant[c].all,
         wire'[c].tail # <<>> => passReceived[c] + wire'[c].text = meant[c].all,
         UNCHANGED <<bound, queue, meant, passAt, name, passReceived, ret>>
  PROVE  PassInv'
<1>1. \A d \in Clients : /\ Pass!Answered(d) <=> d = c
                         /\ Pass!Answered(d)' <=> d = c
  BY PartsAssumption DEF PassInv, PassTyped, Jobs, Pass!Answered
<1>2. PassTyped'
  BY PartsAssumption DEF PassInv, PassTyped, Jobs
<1>3. InQueue'
  BY <1>1, QueueStays DEF Waits
<1>4. ClientOk(c)'
  <2>1. OnTheWay(c)'
    BY DEF OnTheWay, Pass!Status
  <2> QED
    BY <1>1, <2>1 DEF PassInv, ClientOk
<1>5. ASSUME NEW d \in Clients, d # c PROVE ClientOk(d)'
  BY <1>1, <1>5, LeftAlone DEF PassInv
<1> QED
  BY <1>2, <1>3, <1>4, <1>5 DEF PassInv

\* Whom the server is at, and what it has to write.
LEMMA JobLemma ==
  ASSUME PassInv, server \in {"answers", "answered"}
  PROVE  /\ job \in Jobs /\ job.client \in Clients /\ job.text \in Nat /\ Pass!Answered(job.client)
         /\ passAt[job.client] = "recv" => /\ meant[job.client] \in Meant
                                            /\ OnTheWay(job.client)
BY DEF PassInv, PassTyped, Jobs, Pass!Answered, ClientOk

\* writen() loses no byte.
LEMMA WriteStep == PassInv /\ Pass!Write => PassInv'
<1> SUFFICES ASSUME PassInv, Pass!Write PROVE PassInv'
  OBVIOUS
<1> DEFINE c == job.client
<1>1. /\ server = "answers" /\ passAt[c] = "recv"
      /\ UNCHANGED <<server, bound, queue, meant, passAt, name, passReceived, ret>>
  BY DEF Pass!Write
<1>2. PICK k \in 1..job.text : /\ job' = [job EXCEPT !.text = job.text - k]
                               /\ wire' = [wire EXCEPT ![c].text = wire[c].text + k]
  BY DEF Pass!Write
<1>3. /\ job \in Jobs /\ c \in Clients /\ job.text \in Nat /\ Pass!Answered(c)
      /\ meant[c] \in Meant /\ OnTheWay(c)
  BY <1>1, JobLemma
<1>4. k \in Nat /\ k >= 1 /\ k <= job.text
  BY <1>2, <1>3
<1>5. job' \in Jobs /\ job'.client = c /\ job'.text = job.text - k
  BY <1>2, <1>3, <1>4 DEF Jobs
<1>6. wire[c] \in Wires /\ wire[c].text \in Nat /\ passReceived[c] \in Nat /\ meant[c].all \in Nat
  BY <1>3 DEF PassInv, PassTyped, Wires, Meant
<1> HIDE DEF c
<1>7. /\ wire' \in [Clients -> Wires] /\ \A d \in Clients : d # c => wire'[d] = wire[d]
      /\ wire'[c].text = wire[c].text + k /\ wire'[c].tail = wire[c].tail
  <2>1. wire[c].text + k \in Nat
    BY <1>4, <1>6
  <2> QED
    BY <1>2, <1>3, <1>6, <2>1 DEF PassInv, PassTyped, Wires
<1>8. wire[c].tail = <<>>
  BY <1>3, <1>4, <1>6 DEF OnTheWay
<1>9. /\ passReceived[c] + (wire[c].text + k) + (job.text - k) = meant[c].all
      /\ passReceived[c] + (wire[c].text + k) <= meant[c].all
  BY <1>3, <1>4, <1>6 DEF OnTheWay
<1>10. /\ passReceived[c] + wire'[c].text + job'.text = meant[c].all
       /\ passReceived[c] + wire'[c].text <= meant[c].all
  BY <1>1, <1>5, <1>7, <1>9
<1>11. passAt[c] = "recv" /\ server' \in {"answers", "answered"}
  BY <1>1
<1> QED
  BY <1>1, <1>3, <1>5, <1>7, <1>8, <1>10, <1>11, AnswerStep

\* The descriptor follows the whole text.
LEMMA SendFdStep == PassInv /\ Pass!SendFd => PassInv'
<1> SUFFICES ASSUME PassInv, Pass!SendFd PROVE PassInv'
  OBVIOUS
<1> DEFINE c == job.client
           s == Pass!Status(meant[c].answer)
<1>1. /\ server = "answers" /\ server' = "answered" /\ passAt[c] = "recv" /\ job.text = 0
      /\ wire' = [wire EXCEPT ![c].tail = <<0, s>>]
      /\ UNCHANGED <<bound, queue, job, meant, passAt, name, passReceived, ret>>
  BY DEF Pass!SendFd
<1>2. /\ job \in Jobs /\ c \in Clients /\ Pass!Answered(c) /\ meant[c] \in Meant /\ OnTheWay(c)
  BY <1>1, JobLemma
<1>3. s \in 0..255
  BY <1>2, StatusLemma DEF Meant
<1>4. s \in Nat
  BY <1>3
<1>5. <<0, s>> \in Seq(Nat)
  BY <1>4
<1> HIDE DEF s, c
<1>6. /\ wire' \in [Clients -> Wires] /\ \A d \in Clients : d # c => wire'[d] = wire[d]
      /\ wire'[c].text = wire[c].text /\ wire'[c].tail = <<0, s>>
  BY <1>1, <1>2, <1>5 DEF PassInv, PassTyped, Wires
<1>7. wire[c].text \in Nat /\ passReceived[c] \in Nat
  BY <1>2 DEF PassInv, PassTyped, Wires
<1>8. /\ passReceived[c] + wire[c].text = meant[c].all /\ passReceived[c] + wire[c].text <= meant[c].all
      /\ passReceived[c] + wire[c].text + job.text = meant[c].all
  BY <1>1, <1>2, <1>7 DEF OnTheWay
<1>9. job.client = c
  BY DEF c
<1>10. wire'[c].tail = <<0, Pass!Status(meant[c].answer)>>
  BY <1>6 DEF s
<1> QED
  BY <1>1, <1>2, <1>6, <1>8, <1>9, <1>10, AnswerStep

\* The server closes its end with the answer sent, or when nobody is there.
LEMMA NextClientStep == PassInv /\ Pass!NextClient => PassInv'
<1> SUFFICES ASSUME PassInv, Pass!NextClient PROVE PassInv'
  OBVIOUS
<1> DEFINE c == job.client
<1>1. /\ server \in {"answers", "answered"} /\ server' = "listens" /\ job' = Nothing
      /\ wire' = [wire EXCEPT ![c].open = FALSE]
      /\ UNCHANGED <<bound, queue, meant, passAt, name, passReceived, ret>>
  BY DEF Pass!NextClient
<1>2. c \in Clients /\ Pass!Answered(c)
  BY <1>1, JobLemma
<1>3. /\ wire' \in [Clients -> Wires] /\ \A d \in Clients : d # c => wire'[d] = wire[d]
      /\ wire'[c].text = wire[c].text /\ wire'[c].tail = wire[c].tail
  BY <1>1, <1>2, CloseLemma
<1>4. \A d \in Clients : ~Pass!Answered(d)'
  BY <1>1 DEF Pass!Answered
<1>5. PassTyped'
  BY <1>1, <1>3 DEF PassInv, PassTyped
<1> HIDE DEF c
<1>6. InQueue'
  BY <1>1, <1>2, <1>3, <1>4, QueueStays DEF Waits
<1>7. passAt[c] \notin {"start", "chmod", "connect"}
  BY <1>2 DEF PassInv, ClientOk
<1>8. ASSUME NEW d \in Clients PROVE ClientOk(d)'
  BY <1>1, <1>3, <1>4, <1>7, LeftAlone DEF PassInv
<1> QED
  BY <1>5, <1>6, <1>8 DEF PassInv

\* Every connection is closed, and what was sent can still be read.
LEMMA ServerDiesStep == PassInv /\ Pass!ServerDies => PassInv'
<1> SUFFICES ASSUME PassInv, Pass!ServerDies PROVE PassInv'
  OBVIOUS
<1>1. /\ server' = "down" /\ bound' = "old" /\ queue' = <<>> /\ job' = Nothing
      /\ wire' = [c \in Clients |-> IF Pass!Answered(c) \/ Pass!Queued(c)
                                    THEN [wire[c] EXCEPT !.open = FALSE] ELSE wire[c]]
      /\ UNCHANGED <<meant, passAt, name, passReceived, ret>>
  BY DEF Pass!ServerDies
<1>2. ASSUME NEW c \in Clients
      PROVE  /\ wire'[c] \in Wires /\ wire'[c].text = wire[c].text /\ wire'[c].tail = wire[c].tail
             /\ wire'[c].open = wire[c].open \/ Pass!Answered(c) \/ Pass!Queued(c)
  <2>1. wire[c] \in Wires
    BY DEF PassInv, PassTyped
  <2>2. wire'[c] = wire[c] \/ ((Pass!Answered(c) \/ Pass!Queued(c)) /\ wire'[c] = [wire[c] EXCEPT !.open = FALSE])
    BY <1>1
  <2> QED
    BY <2>1, <2>2 DEF Wires
<1>3. wire' \in [Clients -> Wires]
  <2>1. \A c \in Clients : wire'[c] \in Wires
    BY <1>2
  <2>2. wire' = [c \in Clients |-> wire'[c]]
    BY <1>1
  <2> QED
    BY <2>1, <2>2
<1>4. \A c \in Clients : ~Pass!Answered(c)'
  BY <1>1 DEF Pass!Answered
<1>5. PassTyped' /\ InQueue'
  <2>1. queue' \in Seq(Clients) /\ Len(queue') = 0
    BY <1>1, EmptySeq
  <2>2. PassTyped'
    BY <1>1, <1>3, <2>1 DEF PassInv, PassTyped
  <2> QED
    BY <2>1, <2>2 DEF InQueue
<1>6. ASSUME NEW c \in Clients, Pass!Answered(c) \/ Pass!Queued(c)
      PROVE  passAt[c] \notin {"start", "chmod", "connect"}
  <2>1. CASE Pass!Answered(c)
    BY <2>1 DEF PassInv, ClientOk
  <2>2. CASE Pass!Queued(c)
    BY <2>2, LenProperties DEF PassInv, PassTyped, Pass!Queued, InQueue, Waits
  <2> QED
    BY <1>6, <2>1, <2>2
<1>7. ASSUME NEW c \in Clients PROVE ClientOk(c)'
  BY <1>1, <1>2, <1>4, <1>6, LeftAlone DEF PassInv
<1> QED
  BY <1>5, <1>7 DEF PassInv

\* A step of one client, seen by the others.
LEMMA OwnStep ==
  ASSUME PassInv, NEW c \in Clients, UNCHANGED <<server, bound, queue, job>>, PassTyped', ClientOk(c)',
         Waits(c) => Waits(c)' \/ \A i \in 1..Len(queue) : queue[i] # c,
         \A d \in Clients : d # c =>
           /\ passAt'[d] = passAt[d] /\ name'[d] = name[d] /\ passReceived'[d] = passReceived[d]
           /\ ret'[d] = ret[d] /\ meant'[d] = meant[d] /\ wire'[d] = wire[d]
  PROVE  PassInv'
<1>1. \A d \in Clients : Pass!Answered(d)' <=> Pass!Answered(d)
  BY DEF Pass!Answered
<1>2. InQueue'
  <2>1. \A d \in Clients : d # c => (Waits(d) => Waits(d)')
    BY <1>1 DEF Waits
  <2> QED
    BY <2>1, QueueStays
<1>3. ASSUME NEW d \in Clients, d # c PROVE ClientOk(d)'
  BY <1>1, <1>3, LeftAlone DEF PassInv
<1> QED
  BY <1>2, <1>3 DEF PassInv

\* cli_conn() takes its name with it when it fails.
LEMMA BindStep == \A c \in Clients : PassInv /\ (Pass!Bind(c) \/ Pass!Chmod(c)) => PassInv'
<1> SUFFICES ASSUME NEW c \in Clients, PassInv, Pass!Bind(c) \/ Pass!Chmod(c) PROVE PassInv'
  OBVIOUS
<1>1. /\ passAt[c] \in {"start", "chmod"} /\ UNCHANGED <<server, bound, queue, job, meant, wire, passReceived, ret>>
      /\ \/ passAt' = [passAt EXCEPT ![c] = "chmod"] /\ name' = [name EXCEPT ![c] = "unfit"]
         \/ passAt' = [passAt EXCEPT ![c] = "connect"] /\ name' = [name EXCEPT ![c] = "private"]
         \/ passAt' = [passAt EXCEPT ![c] = "failed"] /\ name' = [name EXCEPT ![c] = "none"]
  BY DEF Pass!Bind, Pass!Chmod, Pass!Client
<1>2. passAt \in [Clients -> Ats] /\ name \in [Clients -> {"none", "private", "unfit"}]
  BY DEF PassInv, PassTyped
<1>3. /\ passAt'[c] \in {"chmod", "connect", "failed"}
      /\ passAt'[c] = "failed" => name'[c] = "none"
      /\ \A d \in Clients : d # c => passAt'[d] = passAt[d] /\ name'[d] = name[d]
  BY <1>1, <1>2
<1>4. passAt' \in [Clients -> Ats] /\ name' \in [Clients -> {"none", "private", "unfit"}]
  BY <1>1, <1>2 DEF Ats, Pass!Ended
<1>5. PassTyped'
  BY <1>1, <1>4 DEF PassInv, PassTyped
<1>6. meant[c] = Nothing /\ wire[c].open /\ Fresh(c) /\ ~Pass!Answered(c)
  BY <1>1 DEF PassInv, ClientOk
<1>7. ClientOk(c)'
  BY <1>1, <1>3, <1>6 DEF ClientOk, Fresh, Pass!Answered
<1>8. ~Waits(c)
  BY <1>1 DEF Waits
<1> QED
  BY <1>1, <1>3, <1>5, <1>7, <1>8, OwnStep

\* One more client.
LEMMA AppendLemma ==
  ASSUME NEW s \in Seq(Clients), NEW c \in Clients
  PROVE  /\ Append(s, c) \in Seq(Clients) /\ Len(Append(s, c)) = Len(s) + 1
         /\ Append(s, c)[Len(s) + 1] = c
         /\ \A i \in 1..Len(s) : Append(s, c)[i] = s[i]
BY AppendProperties

\* connect() puts the client behind all others in the queue.
LEMMA ConnectStep == \A c \in Clients : PassInv /\ Pass!Connect(c) => PassInv'
<1> SUFFICES ASSUME NEW c \in Clients, PassInv, Pass!Connect(c) PROVE PassInv'
  OBVIOUS
<1>1. passAt[c] = "connect" /\ UNCHANGED <<server, bound, job, meant, wire, passReceived, ret>>
  BY DEF Pass!Connect, Pass!Client
<1>2. /\ passAt \in [Clients -> Ats] /\ queue \in Seq(Clients)
      /\ name \in [Clients -> {"none", "private", "unfit"}]
  BY DEF PassInv, PassTyped
<1>3. ~Pass!Answered(c) /\ meant[c] = Nothing /\ wire[c].open /\ Fresh(c)
  BY <1>1 DEF PassInv, ClientOk
<1>4. \A d \in Clients : Pass!Answered(d)' <=> Pass!Answered(d)
  BY <1>1 DEF Pass!Answered
<1>5. CASE passAt' = [passAt EXCEPT ![c] = "recv"] /\ queue' = Append(queue, c) /\ UNCHANGED name
  <2>1. /\ Len(queue) \in Nat /\ queue' \in Seq(Clients) /\ Len(queue') = Len(queue) + 1
        /\ queue'[Len(queue) + 1] = c /\ \A i \in 1..Len(queue) : queue'[i] = queue[i]
    BY <1>2, <1>5, AppendLemma, LenProperties
  <2>2. passAt'[c] = "recv" /\ \A d \in Clients : d # c => passAt'[d] = passAt[d]
    BY <1>2, <1>5
  <2>3. PassTyped'
    <3>1. passAt' \in [Clients -> Ats]
      BY <1>2, <1>5 DEF Ats
    <3> QED
      BY <1>1, <1>5, <2>1, <3>1 DEF PassInv, PassTyped
  <2>4. \A i \in 1..Len(queue) : queue[i] \in Clients \ {c} /\ Waits(queue[i])
    BY <1>1, <1>2, ElementOfSeq DEF PassInv, InQueue, Waits
  <2>5. \A i \in 1..Len(queue') : i \in 1..Len(queue) \/ i = Len(queue) + 1
    BY <2>1
  <2>6. \A i, j \in 1..Len(queue') : queue'[i] = queue'[j] => i = j
    BY <2>1, <2>4, <2>5 DEF PassInv, InQueue
  <2>7. ASSUME NEW i \in 1..Len(queue') PROVE Waits(queue[i])'
    <3>1. CASE i \in 1..Len(queue)
      BY <1>1, <2>1, <2>2, <2>4, <3>1 DEF Waits, Pass!Answered
    <3>2. CASE i = Len(queue) + 1
      BY <1>1, <1>3, <2>1, <2>2, <3>2 DEF Waits, Pass!Answered
    <3> QED
      BY <2>5, <3>1, <3>2
  <2>8. ClientOk(c)'
    BY <1>1, <1>3, <1>5, <2>2 DEF ClientOk, Fresh, Pass!Answered
  <2>9. ASSUME NEW d \in Clients, d # c PROVE ClientOk(d)'
    BY <1>1, <1>4, <1>5, <2>2, <2>9, LeftAlone DEF PassInv
  <2> QED
    BY <2>3, <2>6, <2>7, <2>8, <2>9 DEF PassInv, InQueue
<1>6. CASE passAt' = [passAt EXCEPT ![c] = "failed"] /\ name' = [name EXCEPT ![c] = "none"] /\ UNCHANGED queue
  <2>1. passAt' \in [Clients -> Ats] /\ name' \in [Clients -> {"none", "private", "unfit"}]
    BY <1>2, <1>6 DEF Ats, Pass!Ended
  <2>2. PassTyped'
    BY <1>1, <1>6, <2>1 DEF PassInv, PassTyped
  <2>3. /\ passAt'[c] = "failed" /\ name'[c] = "none"
        /\ \A d \in Clients : d # c => passAt'[d] = passAt[d] /\ name'[d] = name[d]
    BY <1>2, <1>6
  <2>4. ClientOk(c)'
    BY <1>1, <1>3, <2>3 DEF ClientOk, Fresh, Pass!Answered
  <2>5. ~Waits(c)
    BY <1>1 DEF Waits
  <2> QED
    BY <1>1, <1>6, <2>2, <2>3, <2>4, <2>5, OwnStep
<1> QED
  BY <1>5, <1>6 DEF Pass!Connect, Pass!Client

\* A client that leaves without an answer, is killed, or comes again.
LEMMA LeaveStep == \A c \in Clients : PassInv /\ (Pass!RecvEnd(c) \/ Pass!Kill(c) \/ Pass!Again(c)) => PassInv'
<1> SUFFICES ASSUME NEW c \in Clients, PassInv PROVE Pass!RecvEnd(c) \/ Pass!Kill(c) \/ Pass!Again(c) => PassInv'
  OBVIOUS
<1>1. /\ passAt \in [Clients -> Ats] /\ meant \in [Clients -> Meant \union {Nothing}] /\ wire \in [Clients -> Wires]
      /\ passReceived \in [Clients -> Nat] /\ ret \in [Clients -> Int \union {Passed, Nothing}]
      /\ wire[c] \in Wires
  BY DEF PassInv, PassTyped
<1>2. CASE Pass!RecvEnd(c)
  <2>1. /\ passAt[c] = "recv" /\ passAt' = [passAt EXCEPT ![c] = "closed"] /\ ~wire[c].open
        /\ UNCHANGED <<server, bound, queue, job, meant, wire, name, passReceived, ret>>
    BY <1>2 DEF Pass!RecvEnd, Pass!Client
  <2>2. passAt' \in [Clients -> Ats]
    BY <1>1, <2>1 DEF Ats, Pass!Ended
  <2>3. PassTyped'
    BY <2>1, <2>2 DEF PassInv, PassTyped
  <2>4. passAt'[c] = "closed" /\ \A d \in Clients : d # c => passAt'[d] = passAt[d]
    BY <1>1, <2>1
  <2>5. ClientOk(c)'
    BY <2>1, <2>4 DEF PassInv, ClientOk, Fresh, Pass!Answered
  <2>6. ~Waits(c)
    BY <2>1 DEF Waits
  <2> QED
    BY <2>1, <2>3, <2>4, <2>5, <2>6, OwnStep
<1>3. CASE Pass!Kill(c)
  <2>1. /\ passAt' = [passAt EXCEPT ![c] = "killed"]
        /\ wire' = [wire EXCEPT ![c].text = 0, ![c].tail = <<>>]
        /\ UNCHANGED <<server, bound, queue, job, meant, name, passReceived, ret>>
    BY <1>3 DEF Pass!Kill
  <2>2. /\ wire' \in [Clients -> Wires] /\ wire'[c].text = 0 /\ wire'[c].tail = <<>> /\ wire'[c].open = wire[c].open
        /\ \A d \in Clients : d # c => wire'[d] = wire[d]
    BY <1>1, <2>1, EmptySeq DEF Wires
  <2>3. passAt' \in [Clients -> Ats]
    BY <1>1, <2>1 DEF Ats, Pass!Ended
  <2>4. PassTyped'
    BY <2>1, <2>2, <2>3 DEF PassInv, PassTyped
  <2>5. passAt'[c] = "killed" /\ \A d \in Clients : d # c => passAt'[d] = passAt[d]
    BY <1>1, <2>1
  <2>6. ClientOk(c)'
    BY <2>1, <2>2, <2>5 DEF PassInv, ClientOk, Fresh, Pass!Answered
  <2>7. Waits(c) => Waits(c)'
    BY <2>1, <2>2, <2>5 DEF Waits, Pass!Answered
  <2> QED
    BY <2>1, <2>2, <2>4, <2>5, <2>6, <2>7, OwnStep
<1>4. CASE Pass!Again(c)
  <2>1. /\ passAt' = [passAt EXCEPT ![c] = "start"] /\ ~Pass!Answered(c)
        /\ meant' = [meant EXCEPT ![c] = Nothing] /\ wire' = [wire EXCEPT ![c] = Pass!Silent]
        /\ passReceived' = [passReceived EXCEPT ![c] = 0] /\ ret' = [ret EXCEPT ![c] = Nothing]
        /\ UNCHANGED <<server, bound, queue, job, name>>
    BY <1>4 DEF Pass!Again
  <2>2. \A i \in 1..Len(queue) : queue[i] # c
    BY <1>4, LenProperties DEF Pass!Again, Pass!Queued, PassInv, PassTyped
  <2>3. passAt' \in [Clients -> Ats] /\ Pass!Silent \in Wires
    BY <1>1, <2>1, EmptySeq DEF Ats, Pass!Silent, Wires
  <2>4. PassTyped'
    BY <1>1, <2>1, <2>3 DEF PassInv, PassTyped
  <2>5. /\ passAt'[c] = "start" /\ passReceived'[c] = 0 /\ meant'[c] = Nothing /\ wire'[c] = Pass!Silent
        /\ \A d \in Clients : d # c => /\ passAt'[d] = passAt[d] /\ passReceived'[d] = passReceived[d]
                                       /\ ret'[d] = ret[d] /\ meant'[d] = meant[d] /\ wire'[d] = wire[d]
    BY <1>1, <2>1
  <2>6. ClientOk(c)'
    BY <2>1, <2>5 DEF ClientOk, Fresh, Pass!Answered, Pass!Silent
  <2> QED
    BY <2>1, <2>2, <2>4, <2>5, <2>6, OwnStep
<1> QED
  BY <1>2, <1>3, <1>4

\* Somebody is at the name of a client that waits.
LEMMA DisturbStep == \A c \in Clients : PassInv /\ Pass!Disturb(c) => PassInv'
<1> SUFFICES ASSUME NEW c \in Clients, PassInv, Pass!Disturb(c) PROVE PassInv'
  OBVIOUS
<1>1. /\ passAt[c] = "recv" /\ name[c] = "private"
      /\ UNCHANGED <<server, bound, queue, job, meant, wire, passAt, passReceived, ret>>
  BY DEF Pass!Disturb
<1>2. PICK n \in {"none", "unfit"} : name' = [name EXCEPT ![c] = n]
  BY DEF Pass!Disturb
<1>3. name' \in [Clients -> {"none", "private", "unfit"}]
      /\ \A d \in Clients : d # c => name'[d] = name[d]
  BY <1>2 DEF PassInv, PassTyped
<1>4. PassTyped'
  BY <1>1, <1>3 DEF PassInv, PassTyped
<1>5. ClientOk(c)' /\ (Waits(c) => Waits(c)')
  BY <1>1 DEF PassInv, ClientOk, Fresh, Waits, Pass!Answered
<1> QED
  BY <1>1, <1>3, <1>4, <1>5, OwnStep

\* What recvmsg() gets, when it gets the null byte or does not.
LEMMA NrLemma ==
  ASSUME NEW c \in Clients, wire[c].text \in Nat, NEW l \in {0, 2}, Len(wire[c].tail) = l
  PROVE  /\ Pass!Nr(c) \in Nat /\ Pass!Nr(c) <= MAXLINE /\ Pass!Nr(c) <= wire[c].text + l
         /\ Pass!TextRead(c) = Pass!Nr(c) => Pass!Nr(c) <= wire[c].text
         /\ Pass!TextRead(c) < Pass!Nr(c) =>
              /\ Pass!TextRead(c) = wire[c].text /\ l = 2
              /\ Pass!Nr(c) - Pass!TextRead(c) = 2 \/ wire[c].text >= MAXLINE - 1
<1>1. MAXLINE \in Nat
  BY PartsAssumption
<1> QED
  BY <1>1 DEF Pass!Nr, Pass!TextRead, Pass!Waiting

\* What a client has that reads.
LEMMA ReadLemma ==
  ASSUME PassInv, NEW c \in Clients, passAt[c] = "recv", Pass!Nr(c) > 0
  PROVE  /\ meant[c] \in Meant /\ OnTheWay(c) /\ wire[c].text \in Nat /\ passReceived[c] \in Nat
         /\ Len(wire[c].tail) \in {0, 2} /\ wire[c] \in Wires /\ ~Waits(c)
         /\ Pass!Answered(c) => job.text \in Nat
<1>1. /\ meant[c] \in Meant \union {Nothing} /\ wire[c] \in Wires /\ passReceived[c] \in Nat
      /\ Pass!Answered(c) => job.text \in Nat
  BY DEF PassInv, PassTyped, Pass!Answered, Jobs
<1>2. wire[c].text \in Nat
  BY <1>1 DEF Wires
<1>3. meant[c] # Nothing
  <2> SUFFICES ASSUME meant[c] = Nothing PROVE Pass!Nr(c) = 0
    OBVIOUS
  <2>1. wire[c].text = 0 /\ Len(wire[c].tail) = 0
    BY EmptySeq DEF PassInv, ClientOk, Fresh
  <2> QED
    BY <2>1, NrLemma
<1>4. OnTheWay(c)
  BY <1>3 DEF PassInv, ClientOk
<1>5. Len(wire[c].tail) \in {0, 2}
  BY <1>4 DEF OnTheWay
<1> QED
  BY <1>1, <1>2, <1>3, <1>4, <1>5 DEF Waits

\* Text that is passed on is counted.
LEMMA RecvTextStep == \A c \in Clients : PassInv /\ Pass!RecvText(c) => PassInv'
<1> SUFFICES ASSUME NEW c \in Clients, PassInv, Pass!RecvText(c) PROVE PassInv'
  OBVIOUS
<1> DEFINE k == Pass!Nr(c)
<1>1. /\ passAt[c] = "recv" /\ k > 0 /\ Pass!TextRead(c) = k
      /\ wire' = [wire EXCEPT ![c].text = wire[c].text - k]
      /\ passReceived' = [passReceived EXCEPT ![c] = passReceived[c] + k]
      /\ UNCHANGED <<server, bound, queue, job, meant, passAt, name, ret>>
  BY DEF Pass!RecvText
<1>2. /\ meant[c] \in Meant /\ OnTheWay(c) /\ wire[c].text \in Nat /\ passReceived[c] \in Nat
      /\ Len(wire[c].tail) \in {0, 2} /\ wire[c] \in Wires /\ ~Waits(c)
      /\ Pass!Answered(c) => job.text \in Nat
  BY <1>1, ReadLemma
<1>3. k \in Nat /\ k <= wire[c].text
  BY <1>1, <1>2, NrLemma
<1> HIDE DEF k
<1>4. wire[c].text - k \in Nat /\ passReceived[c] + k \in Nat
  BY <1>2, <1>3
<1>5. /\ wire' \in [Clients -> Wires] /\ \A d \in Clients : d # c => wire'[d] = wire[d]
      /\ wire'[c].text = wire[c].text - k /\ wire'[c].tail = wire[c].tail /\ wire'[c].open = wire[c].open
  BY <1>1, <1>2, <1>4 DEF PassInv, PassTyped, Wires
<1>6. /\ passReceived' \in [Clients -> Nat] /\ passReceived'[c] = passReceived[c] + k
      /\ \A d \in Clients : d # c => passReceived'[d] = passReceived[d]
  BY <1>1, <1>4 DEF PassInv, PassTyped
<1>7. PassTyped'
  BY <1>1, <1>5, <1>6 DEF PassInv, PassTyped
<1>8. OnTheWay(c)'
  <2>1. (passReceived[c] + k) + (wire[c].text - k) = passReceived[c] + wire[c].text
    BY <1>2, <1>3
  <2>2. passReceived'[c] + wire'[c].text = passReceived[c] + wire[c].text
    BY <1>5, <1>6, <2>1
  <2>3. Pass!Answered(c)' <=> Pass!Answered(c)
    BY <1>1 DEF Pass!Answered
  <2> QED
    BY <1>1, <1>2, <1>5, <2>2, <2>3 DEF OnTheWay, Pass!Status
<1>9. ClientOk(c)'
  <2>1. meant[c] # Nothing /\ name[c] = "none"
    BY <1>2, PartsAssumption DEF PassInv, ClientOk, Meant
  <2> QED
    BY <1>1, <1>8, <2>1 DEF ClientOk
<1> QED
  BY <1>1, <1>2, <1>5, <1>6, <1>7, <1>9, OwnStep

\* recv_fd() returns with the whole text behind it.
LEMMA RecvLastStep == \A c \in Clients : PassInv /\ Pass!RecvLast(c) => PassInv'
<1> SUFFICES ASSUME NEW c \in Clients, PassInv, Pass!RecvLast(c) PROVE PassInv'
  OBVIOUS
<1> DEFINE s == Pass!Status(meant[c].answer)
<1>1. /\ passAt[c] = "recv" /\ Pass!TextRead(c) < Pass!Nr(c)
      /\ wire' = [wire EXCEPT ![c].text = 0, ![c].tail = <<>>]
      /\ UNCHANGED <<server, bound, queue, job, meant, name>>
  BY DEF Pass!RecvLast
<1>2. Pass!Nr(c) > 0
  <2>1. wire[c] \in Wires /\ Len(wire[c].tail) \in Nat /\ wire[c].text \in Nat /\ MAXLINE \in Nat
    BY LenProperties, PartsAssumption DEF PassInv, PassTyped, Wires
  <2> QED
    BY <1>1, <2>1 DEF Pass!Nr, Pass!TextRead, Pass!Waiting
<1>3. /\ meant[c] \in Meant /\ OnTheWay(c) /\ wire[c].text \in Nat /\ passReceived[c] \in Nat
      /\ Len(wire[c].tail) \in {0, 2} /\ wire[c] \in Wires /\ ~Waits(c)
  BY <1>1, <1>2, ReadLemma
<1>4. Pass!TextRead(c) = wire[c].text /\ Len(wire[c].tail) = 2
      /\ (Pass!Nr(c) - Pass!TextRead(c) = 2 \/ wire[c].text >= MAXLINE - 1)
  BY <1>1, <1>3, NrLemma
<1>5. wire[c].tail = <<0, s>> /\ wire[c].tail[2] = s /\ passReceived[c] + wire[c].text = meant[c].all
  BY <1>3, <1>4 DEF OnTheWay
<1>6. /\ meant[c].answer \in {Passed} \union Errors /\ meant[c].all \in Nat /\ meant[c] # Nothing
      /\ name[c] = "none"
  BY <1>3, PartsAssumption DEF PassInv, ClientOk, Meant
<1>7. /\ s \in Int /\ (s = 0 <=> meant[c].answer = Passed)
      /\ meant[c].answer # Passed => /\ -s \in -255..-1
                                     /\ \/ (-s - meant[c].answer) % 256 = 0
                                        \/ -s = -1 /\ (meant[c].answer % 256 = 0 \/ meant[c].answer > 0)
  BY <1>6, StatusLemma
<1>8. /\ passAt \in [Clients -> Ats] /\ passReceived \in [Clients -> Nat]
      /\ ret \in [Clients -> Int \union {Passed, Nothing}]
  BY DEF PassInv, PassTyped
<1>9. /\ wire' \in [Clients -> Wires] /\ \A d \in Clients : d # c => wire'[d] = wire[d]
  BY <1>1, <1>3, EmptySeq DEF PassInv, PassTyped, Wires
<1>10. CASE Pass!Nr(c) - Pass!TextRead(c) = 2
  <2>1. /\ passAt' = [passAt EXCEPT ![c] = "returned"]
        /\ ret' = [ret EXCEPT ![c] = IF s = 0 THEN Passed ELSE -s]
        /\ passReceived' = [passReceived EXCEPT ![c] = passReceived[c] + wire[c].text]
    BY <1>4, <1>5, <1>7, <1>10 DEF Pass!RecvLast
  <2> HIDE DEF s
  <2>2. /\ passAt'[c] = "returned" /\ ret'[c] = (IF s = 0 THEN Passed ELSE -s)
        /\ passReceived'[c] = meant[c].all
        /\ \A d \in Clients : d # c => /\ passAt'[d] = passAt[d] /\ passReceived'[d] = passReceived[d]
                                       /\ ret'[d] = ret[d]
    BY <1>5, <1>8, <2>1
  <2>3. PassTyped'
    <3>1. (IF s = 0 THEN Passed ELSE -s) \in Int \union {Passed, Nothing}
      BY <1>7
    <3>2. ret' \in [Clients -> Int \union {Passed, Nothing}]
      BY <1>8, <2>1, <3>1
    <3>3. passReceived[c] + wire[c].text \in Nat
      BY <1>3
    <3>4. passReceived' \in [Clients -> Nat]
      BY <1>8, <2>1, <3>3
    <3>5. passAt' \in [Clients -> Ats]
      BY <1>8, <2>1 DEF Ats, Pass!Ended
    <3> QED
      BY <1>1, <1>9, <3>2, <3>4, <3>5 DEF PassInv, PassTyped
  <2>4. Right(c)'
    <3>1. -s \in Int
      BY <1>7
    <3>2. -s # Passed
      BY <3>1, PartsAssumption
    <3> QED
      BY <1>1, <1>7, <2>2, <3>2 DEF Right
  <2>5. ClientOk(c)'
    BY <1>1, <1>6, <2>2, <2>4 DEF ClientOk
  <2> QED
    BY <1>1, <1>3, <1>9, <2>2, <2>3, <2>5, OwnStep
<1>11. CASE Pass!Nr(c) - Pass!TextRead(c) # 2
  <2>1. passAt' = [passAt EXCEPT ![c] = "aborted"] /\ UNCHANGED <<passReceived, ret>>
    BY <1>11 DEF Pass!RecvLast
  <2>2. passAt'[c] = "aborted" /\ \A d \in Clients : d # c => passAt'[d] = passAt[d]
    BY <1>8, <2>1
  <2>3. passAt' \in [Clients -> Ats]
    BY <1>8, <2>1 DEF Ats, Pass!Ended
  <2>4. PassTyped'
    BY <1>1, <1>9, <2>1, <2>3 DEF PassInv, PassTyped
  <2>5. meant[c].all >= MAXLINE - 1
    <3>1. wire[c].text >= MAXLINE - 1 /\ MAXLINE \in Nat
      BY <1>4, <1>11, PartsAssumption
    <3> QED
      BY <1>3, <1>5, <1>6, <3>1
  <2>6. ClientOk(c)'
    BY <1>1, <1>6, <2>2, <2>5 DEF ClientOk
  <2> QED
    BY <1>1, <1>3, <1>9, <2>1, <2>2, <2>4, <2>6, OwnStep
<1> QED
  BY <1>10, <1>11

\* Every step of server and clients.
LEMMA PassStep == PassInv /\ [Pass!Next]_passingVars => PassInv'
<1> SUFFICES ASSUME PassInv, [Pass!Next]_passingVars PROVE PassInv'
  OBVIOUS
<1>1. CASE UNCHANGED passingVars
  <2>1. UNCHANGED <<server, bound, queue, job, meant, wire, passAt, name, passReceived, ret>>
    BY <1>1 DEF passingVars
  <2>2. \A c \in Clients : Pass!Answered(c)' <=> Pass!Answered(c)
    BY <2>1 DEF Pass!Answered
  <2>3. PassTyped'
    BY <2>1 DEF PassInv, PassTyped
  <2>4. InQueue'
    BY <2>1, <2>2, QueueStays DEF Waits
  <2>5. \A c \in Clients : ClientOk(c)'
    BY <2>1, <2>2, LeftAlone DEF PassInv
  <2> QED
    BY <2>3, <2>4, <2>5 DEF PassInv
<1>2. CASE Pass!Listen \/ Pass!ListenFails
  BY <1>2, ListenStep
<1>3. CASE \E c \in Clients : Pass!Accept(c) \/ Pass!Refuse(c)
  BY <1>3, AcceptStep, RefuseStep
<1>4. CASE Pass!Write \/ Pass!SendFd \/ Pass!NextClient \/ Pass!ServerDies
  BY <1>4, WriteStep, SendFdStep, NextClientStep, ServerDiesStep
<1>5. CASE \E c \in Clients : Pass!Bind(c) \/ Pass!Chmod(c) \/ Pass!Connect(c)
  BY <1>5, BindStep, ConnectStep
<1>6. CASE \E c \in Clients : Pass!RecvText(c) \/ Pass!RecvLast(c) \/ Pass!RecvEnd(c)
  BY <1>6, RecvTextStep, RecvLastStep, LeaveStep
<1>7. CASE \E c \in Clients : Pass!Kill(c) \/ Pass!Disturb(c) \/ Pass!Again(c)
  BY <1>7, LeaveStep, DisturbStep
<1> QED
  BY <1>1, <1>2, <1>3, <1>4, <1>5, <1>6, <1>7 DEF Pass!Next, Pass!ServerStep, Pass!ClientStep

\* What the run checks.
LEMMA PassInvDelivered == PassInv => Pass!TypeOK /\ Pass!AnswerTrue /\ Pass!NamesGo
<1> SUFFICES ASSUME PassInv PROVE Pass!TypeOK /\ Pass!AnswerTrue /\ Pass!NamesGo
  OBVIOUS
<1>1. \A i \in DOMAIN queue : queue[i] \in Clients
  BY LenProperties, ElementOfSeq DEF PassInv, PassTyped
<1>2. Pass!TypeOK
  BY <1>1 DEF PassInv, PassTyped, Pass!TypeOK, Ats
<1>3. Pass!AnswerTrue /\ Pass!NamesGo
  BY DEF PassInv, ClientOk, Right, Pass!AnswerTrue, Pass!NamesGo
<1> QED
  BY <1>2, <1>3

-----------------------------------------------------------------------------
(* popen.c *)

\* A set of numbers has a least one.
LEMMA Least ==
  ASSUME NEW T, T \subseteq Nat, T # {}
  PROVE  \E x \in T : \A y \in T : x <= y
<1> DEFINE R == StrictSubsetOrdering(Nat)
           U == {0..n : n \in T}
<1>1. U \subseteq FiniteSubsetsOf(Nat)
  <2>1. \A n \in T : IsFiniteSet(0..n)
    BY FS_Interval
  <2> QED
    BY <2>1 DEF FiniteSubsetsOf
<1>2. IsWellFoundedOn(R, FiniteSubsetsOf(Nat))
  BY FS_StrictSubsetOrderingWellFounded
<1>3. U # {}
  OBVIOUS
<1> HIDE DEF R, U
<1>4. PICK u \in U : \A v \in U : ~(<<v, u>> \in R)
  BY <1>1, <1>2, <1>3, WFMin, Zenon
<1>5. PICK x \in T : u = 0..x
  BY DEF U
<1>6. ASSUME NEW y \in T, y < x PROVE FALSE
  <2>1. 0..y \in U
    BY DEF U
  <2>2. 0..y \subseteq 0..x /\ 0..y # 0..x /\ 0..x \subseteq Nat /\ 0..y \subseteq Nat
    BY <1>6
  <2>3. IsFiniteSet(0..x) /\ IsFiniteSet(0..y)
    BY FS_Interval
  <2>4. <<0..y, 0..x>> \in R
    BY <2>2, <2>3 DEF R, StrictSubsetOrdering
  <2> QED
    BY <2>1, <2>4, <1>4, <1>5
<1> QED
  BY <1>6

\* pipe() takes it.
LEMMA LowestLemma ==
  ASSUME NEW T, T \subseteq Nat, T # {}
  PROVE  Pipes!Lowest(T) \in T /\ \A y \in T : Pipes!Lowest(T) <= y
BY Least DEF Pipes!Lowest

\* The instance counts as FiniteSets does.
LEMMA SamePipesCardinality == ASSUME NEW S PROVE Pipes!Cardinality(S) = Cardinality(S)
BY Zenon DEF Pipes!Cardinality, Cardinality

PipesTyped ==
  /\ DOMAIN popenFds \subseteq Pipes!Table /\ childpid \in [0..(maxfd - 1) -> 0..Calls]
  /\ state \in [DOMAIN state -> {"runs", "zombie", "reaped"}]
  /\ type \in [DOMAIN state -> {"r", "w"}] /\ DOMAIN child = DOMAIN state
  /\ DOMAIN state \subseteq 1..calls
  /\ waits \in {0} \union DOMAIN state /\ calls \in 0..Calls

\* Every stream is open, on the pipe of its command.
StreamsOpen ==
  /\ \A f \in Pipes!Streams : /\ f \in DOMAIN popenFds /\ popenFds[f].pipe = childpid[f]
                              /\ childpid[f] \in DOMAIN state
  /\ 1 \in DOMAIN popenFds /\ popenFds[1] = Pipes!Other

PipesInv == PipesTyped /\ StreamsOpen /\ Pipes!Connected

\* Before the first call there is no command.
LEMMA PipesInit == Init => PipesInv
<1> SUFFICES ASSUME Pipes!Init PROVE PipesInv
  BY DEF Init
<1>1. maxfd \in Nat /\ maxfd >= 3 /\ Calls \in Nat
  BY PartsAssumption
<1>2. PipesTyped
  BY <1>1 DEF Pipes!Init, PipesTyped, Pipes!Table
<1>3. StreamsOpen
  BY <1>1 DEF Pipes!Init, StreamsOpen, Pipes!Streams, Pipes!Other
<1>4. Pipes!Connected
  BY DEF Pipes!Init, Pipes!Connected, Pipes!Running
<1> QED
  BY <1>2, <1>3, <1>4 DEF PipesInv

\* pipe() finds two descriptors, both of which popen() can note a command for.
LEMMA PipeLemma ==
  ASSUME PipesInv, Pipes!CanOpen
  PROVE  /\ Pipes!Pfd0 \in 0..(maxfd - 1) /\ Pipes!Pfd1 \in 0..(maxfd - 1) /\ Pipes!Pfd0 # Pipes!Pfd1
         /\ Pipes!Pfd0 \notin DOMAIN popenFds /\ Pipes!Pfd1 \notin DOMAIN popenFds
<1> DEFINE S == {f \in Pipes!Unused : f < maxfd}
<1>1. maxfd \in Nat /\ Pipes!Unused \subseteq Nat
  BY PartsAssumption DEF Pipes!Unused, Pipes!Table
<1>2. Cardinality(S) >= 2
  BY SamePipesCardinality DEF Pipes!CanOpen
<1>3. \E a, b \in S : a # b
  <2>1. CASE S = {}
    BY <1>2, <2>1, FS_EmptySet
  <2>2. ASSUME NEW a \in S, S = {a} PROVE FALSE
    <3>1. Cardinality({a}) = 1
      BY FS_Singleton
    <3> QED
      BY <1>2, <2>2, <3>1
  <2> QED
    BY <2>1, <2>2
<1>4. PICK a \in S : \E b \in S : a # b
  BY <1>3
<1>5. PICK b \in S : a # b
  BY <1>4
<1>6. /\ Pipes!Pfd0 \in Pipes!Unused /\ Pipes!Pfd0 <= a
  BY <1>1, LowestLemma DEF Pipes!Pfd0
<1>7. /\ Pipes!Pfd1 \in Pipes!Unused \ {Pipes!Pfd0} /\ (Pipes!Pfd1 <= a \/ Pipes!Pfd1 <= b)
  <2>1. a \in Pipes!Unused \ {Pipes!Pfd0} \/ b \in Pipes!Unused \ {Pipes!Pfd0}
    BY <1>5
  <2>2. Pipes!Unused \ {Pipes!Pfd0} \subseteq Nat
    BY <1>1
  <2> QED
    BY <2>1, <2>2, LowestLemma DEF Pipes!Pfd1
<1>8. a \in Nat /\ b \in Nat /\ a < maxfd /\ b < maxfd
  BY <1>1
<1> HIDE DEF S
<1>9. Pipes!Pfd0 \in Nat /\ Pipes!Pfd1 \in Nat
  BY <1>1, <1>6, <1>7
<1> QED
  BY <1>1, <1>6, <1>7, <1>8, <1>9 DEF Pipes!Unused

\* What the child has after dup2() and close(), whatever the numbers are.
LEMMA RedirectLemma ==
  ASSUME NEW t, NEW own \in DOMAIN t, NEW other, NEW std, own # other
  PROVE  LET r == Pipes!Redirected(t, own, other, std)
         IN  /\ std \in DOMAIN r /\ r[std] = t[own]
             /\ \A f \in DOMAIN r : f # std => f \in DOMAIN t /\ f # own /\ f # other /\ r[f] = t[f]
<1>1. CASE own = std
  BY <1>1 DEF Pipes!Redirected, Pipes!Without
<1>2. CASE own # std
  BY <1>2 DEF Pipes!Redirected, Pipes!Without
<1> QED
  BY <1>1, <1>2

\* fork() fails: the pipe that is left is nobody's stream.
LEMMA ForkFailsStep == PipesInv /\ Pipes!ForkFails => PipesInv'
<1> SUFFICES ASSUME PipesInv, Pipes!ForkFails PROVE PipesInv'
  OBVIOUS
<1>1. /\ popenFds' = [f \in DOMAIN popenFds \union {Pipes!Pfd0, Pipes!Pfd1} |->
                         IF f \in DOMAIN popenFds THEN popenFds[f] ELSE Pipes!Leaked]
      /\ calls' = calls + 1 /\ calls < Calls /\ UNCHANGED <<childpid, type, child, state, waits>>
  BY DEF Pipes!ForkFails, Pipes!CanOpen
<1>2. /\ Pipes!Pfd0 \in 0..(maxfd - 1) /\ Pipes!Pfd1 \in 0..(maxfd - 1)
  BY PipeLemma DEF Pipes!ForkFails
<1>3. maxfd \in Nat /\ Calls \in Nat /\ calls \in Nat
  BY PartsAssumption DEF PipesInv, PipesTyped
<1>4. PipesTyped'
  <2>1. DOMAIN popenFds' \subseteq Pipes!Table
    BY <1>1, <1>2, <1>3 DEF PipesInv, PipesTyped, Pipes!Table
  <2>2. calls' \in 0..Calls /\ DOMAIN state \subseteq 1..calls'
    BY <1>1, <1>3 DEF PipesInv, PipesTyped
  <2> QED
    BY <1>1, <2>1, <2>2 DEF PipesInv, PipesTyped, Pipes!Table
<1>5. StreamsOpen'
  BY <1>1 DEF PipesInv, StreamsOpen, Pipes!Streams, Pipes!Leaked
<1>6. Pipes!Connected'
  <2>1. Pipes!Unnoted \subseteq Pipes!Unnoted'
    BY <1>1 DEF Pipes!Unnoted, Pipes!Streams
  <2> QED
    BY <1>1, <2>1 DEF PipesInv, Pipes!Connected, Pipes!Running, Pipes!Wired, Pipes!Leaked, Pipes!Other, Pipes!End
<1> QED
  BY <1>4, <1>5, <1>6 DEF PipesInv

\* pclose() up to waitpid().
LEMMA PcloseStep == PipesInv /\ Pipes!Pclose => PipesInv'
<1> SUFFICES ASSUME PipesInv, Pipes!Pclose PROVE PipesInv'
  OBVIOUS
<1>1. PICK f \in Pipes!Streams :
        /\ childpid' = [childpid EXCEPT ![f] = 0] /\ popenFds' = Pipes!Without(popenFds, {f})
        /\ waits' \in {0, childpid[f]} /\ UNCHANGED <<type, child, state, calls>>
  BY DEF Pipes!Pclose
<1>2. PipesTyped'
  <2>1. childpid[f] \in DOMAIN state /\ f \in DOMAIN childpid
    BY DEF PipesInv, StreamsOpen, Pipes!Streams
  <2>2. childpid' \in [0..(maxfd - 1) -> 0..Calls]
    <3>1. 0 \in 0..Calls
      BY PartsAssumption
    <3> QED
      BY <1>1, <3>1 DEF PipesInv, PipesTyped
  <2>3. DOMAIN popenFds' \subseteq Pipes!Table
    BY <1>1 DEF PipesInv, PipesTyped, Pipes!Without, Pipes!Table
  <2> QED
    BY <1>1, <2>1, <2>2, <2>3 DEF PipesInv, PipesTyped, Pipes!Table
<1>3. popenFds[f].pipe # 0
  BY DEF PipesInv, PipesTyped, StreamsOpen, Pipes!Streams
<1>4. \A g \in DOMAIN childpid : g \in Pipes!Streams' <=> g \in Pipes!Streams /\ g # f
  BY <1>1 DEF PipesInv, PipesTyped, Pipes!Streams
<1>5. /\ DOMAIN popenFds' = DOMAIN popenFds \ {f}
      /\ \A g \in DOMAIN popenFds' : popenFds'[g] = popenFds[g]
      /\ DOMAIN childpid' = DOMAIN childpid /\ \A g \in DOMAIN childpid : g # f => childpid'[g] = childpid[g]
  BY <1>1 DEF Pipes!Without
<1>6. 1 # f
  BY <1>3 DEF PipesInv, StreamsOpen, Pipes!Other
<1>7. StreamsOpen'
  BY <1>1, <1>4, <1>5, <1>6 DEF PipesInv, StreamsOpen, Pipes!Streams
<1>8. Pipes!Connected'
  <2>1. Pipes!Unnoted \subseteq Pipes!Unnoted'
    BY <1>4, <1>5 DEF Pipes!Unnoted, Pipes!Streams
  <2> QED
    BY <1>1, <1>5, <2>1 DEF PipesInv, Pipes!Connected, Pipes!Running, Pipes!Wired, Pipes!End
<1> QED
  BY <1>2, <1>7, <1>8 DEF PipesInv

\* A command ends, and is waited for.
LEMMA EndStep == PipesInv /\ (Pipes!Reap \/ \E k \in DOMAIN state : Pipes!CommandEnds(k)) => PipesInv'
<1> SUFFICES ASSUME PipesInv, Pipes!Reap \/ \E k \in DOMAIN state : Pipes!CommandEnds(k) PROVE PipesInv'
  OBVIOUS
<1>1. PICK k \in DOMAIN state, s \in {"zombie", "reaped"} :
        /\ state' = [state EXCEPT ![k] = s] /\ waits' \in {0, waits}
        /\ UNCHANGED <<popenFds, childpid, type, child, calls>>
  BY DEF Pipes!Reap, Pipes!CommandEnds, PipesInv, PipesTyped
<1>2. /\ DOMAIN state' = DOMAIN state /\ state' \in [DOMAIN state -> {"runs", "zombie", "reaped"}]
      /\ Pipes!Running' \subseteq Pipes!Running
  BY <1>1 DEF PipesInv, PipesTyped, Pipes!Running
<1>3. PipesTyped'
  BY <1>1, <1>2 DEF PipesInv, PipesTyped, Pipes!Table
<1>4. StreamsOpen'
  BY <1>1, <1>2 DEF PipesInv, StreamsOpen, Pipes!Streams
<1>5. Pipes!Connected'
  BY <1>1, <1>2 DEF PipesInv, Pipes!Connected, Pipes!Wired, Pipes!End, Pipes!Unnoted, Pipes!Streams
<1> QED
  BY <1>3, <1>4, <1>5 DEF PipesInv

\* The command has its end where it uses it, unless its standard input was a
\* stream, and of the other commands nothing but what is noted nowhere.
LEMMA OpenStep ==
  ASSUME NEW t \in {"r", "w"}, PipesInv, Pipes!CanOpen, Pipes!Open(t),
         calls' = calls + 1, UNCHANGED waits,
         childpid' \in {childpid, [childpid EXCEPT ![Pipes!Kept(t)] = calls + 1]}
  PROVE  PipesInv'
<1>0. PICK k : k = calls + 1
  OBVIOUS
<1> DEFINE a == Pipes!Pfd0
           b == Pipes!Pfd1
           all == [f \in DOMAIN popenFds \union {a, b} |->
                     IF f = a THEN Pipes!End(k, "read") ELSE IF f = b THEN Pipes!End(k, "write") ELSE popenFds[f]]
           kept == Pipes!Kept(t)
           own == IF t = "r" THEN b ELSE a
           std == IF t = "r" THEN 1 ELSE 0
           r == Pipes!Redirected(all, own, kept, std)
           new == Pipes!StreamsClosed(r)
<1>1. /\ type' = [j \in DOMAIN type \union {k} |-> IF j = k THEN t ELSE type[j]]
      /\ state' = [j \in DOMAIN type \union {k} |-> IF j = k THEN "runs" ELSE state[j]]
      /\ child' = [j \in DOMAIN type \union {k} |-> IF j = k THEN new ELSE child[j]]
      /\ popenFds' = Pipes!Without(all, {own})
      /\ childpid' \in {childpid, [childpid EXCEPT ![kept] = k]}
  BY <1>0 DEF Pipes!Open
<1>2. /\ a \in 0..(maxfd - 1) /\ b \in 0..(maxfd - 1) /\ a # b
      /\ a \notin DOMAIN popenFds /\ b \notin DOMAIN popenFds
  BY PipeLemma
<1>3. /\ maxfd \in Nat /\ Calls \in Nat /\ calls \in Nat /\ calls < Calls
      /\ k \in 1..Calls /\ k # 0 /\ k \notin DOMAIN state /\ DOMAIN type = DOMAIN state /\ DOMAIN child = DOMAIN state
  <2>1. maxfd \in Nat /\ Calls \in Nat /\ calls \in Nat /\ calls < Calls
    BY PartsAssumption DEF PipesInv, PipesTyped, Pipes!CanOpen
  <2>2. k \notin DOMAIN state
    BY <1>0, <2>1 DEF PipesInv, PipesTyped
  <2> QED
    BY <1>0, <2>1, <2>2 DEF PipesInv, PipesTyped
<1>4. /\ own \in {a, b} /\ kept \in {a, b} /\ own # kept /\ own \notin DOMAIN popenFds /\ kept \notin DOMAIN popenFds
      /\ own \in 0..(maxfd - 1) /\ kept \in 0..(maxfd - 1)
      /\ all[own] = Pipes!End(k, IF t = "r" THEN "write" ELSE "read")
      /\ all[kept].pipe = k /\ DOMAIN all = DOMAIN popenFds \union {own, kept}
      /\ \A f \in DOMAIN popenFds : all[f] = popenFds[f]
  BY <1>2 DEF Pipes!End, Pipes!Kept
<1>5. /\ std \in DOMAIN r /\ r[std] = all[own]
      /\ \A f \in DOMAIN r : f # std => f \in DOMAIN all /\ f # own /\ f # kept /\ r[f] = all[f]
  BY <1>4, RedirectLemma
<1>6. DOMAIN new = DOMAIN r \ Pipes!Streams /\ \A f \in DOMAIN new : new[f] = r[f]
  BY DEF Pipes!StreamsClosed, Pipes!Without
<1>7. own # 1 /\ kept # 1 /\ 1 \notin Pipes!Streams /\ own \notin Pipes!Streams /\ kept \notin Pipes!Streams
  <2>1. 1 \notin Pipes!Streams
    BY DEF PipesInv, StreamsOpen, Pipes!Streams, Pipes!Other, PipesTyped
  <2> QED
    BY <1>4, <2>1 DEF PipesInv, StreamsOpen
<1>8. /\ DOMAIN popenFds' = DOMAIN popenFds \union {kept} /\ popenFds'[kept].pipe = k
      /\ \A f \in DOMAIN popenFds : popenFds'[f] = popenFds[f]
  <2> HIDE DEF all, own, kept
  <2> QED
    BY <1>1, <1>4 DEF Pipes!Without
<1>9. /\ childpid \in [0..(maxfd - 1) -> 0..Calls] /\ childpid' \in [0..(maxfd - 1) -> 0..Calls]
      /\ childpid'[kept] \in {childpid[kept], k} /\ \A f \in 0..(maxfd - 1) : f # kept => childpid'[f] = childpid[f]
  <2> HIDE DEF kept
  <2>1. childpid \in [0..(maxfd - 1) -> 0..Calls] /\ k \in 0..Calls
    BY <1>3 DEF PipesInv, PipesTyped
  <2> QED
    BY <1>1, <1>4, <2>1
<1>10. /\ DOMAIN state' = DOMAIN state \union {k} /\ DOMAIN type' = DOMAIN state' /\ DOMAIN child' = DOMAIN state'
       /\ state'[k] = "runs" /\ type'[k] = t /\ child'[k] = new
       /\ \A j \in DOMAIN state : state'[j] = state[j] /\ type'[j] = type[j] /\ child'[j] = child[j]
       /\ state' \in [DOMAIN state' -> {"runs", "zombie", "reaped"}] /\ type' \in [DOMAIN state' -> {"r", "w"}]
  <2> HIDE DEF new
  <2> QED
    BY <1>1, <1>3 DEF PipesInv, PipesTyped
<1> HIDE DEF new, r, all, own, kept, std, a, b
<1>11. PipesTyped'
  <2>1. DOMAIN popenFds' \subseteq Pipes!Table
    BY <1>3, <1>4, <1>8 DEF PipesInv, PipesTyped, Pipes!Table
  <2>2. calls' \in 0..Calls /\ DOMAIN state' \subseteq 1..calls'
    BY <1>0, <1>3, <1>10 DEF PipesInv, PipesTyped
  <2>3. waits' \in {0} \union DOMAIN state'
    BY <1>10 DEF PipesInv, PipesTyped
  <2> QED
    BY <1>9, <1>10, <2>1, <2>2, <2>3 DEF PipesTyped, Pipes!Table
<1>12. StreamsOpen'
  <2>1. \A f : /\ f \in Pipes!Streams => f \in Pipes!Streams'
               /\ f \in Pipes!Streams' => f \in Pipes!Streams \/ (f = kept /\ childpid'[kept] = k)
    <3>1. k > 0 /\ kept \in 0..(maxfd - 1) /\ DOMAIN childpid = 0..(maxfd - 1) /\ DOMAIN childpid' = 0..(maxfd - 1)
      BY <1>3, <1>4, <1>9
    <3>2. \A f \in 0..(maxfd - 1) : f # kept => childpid'[f] = childpid[f]
      BY <1>9
    <3> QED
      BY <1>9, <3>1, <3>2 DEF Pipes!Streams
  <2>2. \A f \in Pipes!Streams : f \in DOMAIN popenFds /\ f \in 0..(maxfd - 1) /\ f # kept
    BY <1>7, <1>9 DEF PipesInv, StreamsOpen, Pipes!Streams
  <2>3. \A f \in Pipes!Streams' : /\ f \in DOMAIN popenFds' /\ popenFds'[f].pipe = childpid'[f]
                                  /\ childpid'[f] \in DOMAIN state'
    BY <1>8, <1>9, <1>10, <2>1, <2>2 DEF PipesInv, StreamsOpen
  <2>5. 1 \in DOMAIN popenFds' /\ popenFds'[1] = Pipes!Other
    BY <1>8 DEF PipesInv, StreamsOpen
  <2> QED
    BY <2>3, <2>5 DEF StreamsOpen, Pipes!Other
<1>13. \A j \in Pipes!Running' : j = k \/ j \in Pipes!Running
  BY <1>10 DEF Pipes!Running
<1>14. \A f \in DOMAIN new : new[f].pipe \in {0, k} \/ new[f] \in Pipes!Unnoted
  <2> SUFFICES ASSUME NEW f \in DOMAIN new PROVE new[f].pipe \in {0, k} \/ new[f] \in Pipes!Unnoted
    OBVIOUS
  <2>1. CASE f = std
    BY <1>4, <1>5, <1>6, <2>1 DEF Pipes!End
  <2>2. CASE f # std
    <3>1. f \in DOMAIN popenFds /\ f \notin Pipes!Streams /\ new[f] = popenFds[f]
      BY <1>4, <1>5, <1>6, <2>2
    <3> QED
      BY <3>1 DEF Pipes!Unnoted
  <2> QED
    BY <2>1, <2>2
<1>18. Pipes!Unnoted \subseteq Pipes!Unnoted'
  <2>1. \A f \in DOMAIN popenFds \ Pipes!Streams : f \in DOMAIN popenFds' \ Pipes!Streams'
    BY <1>4, <1>8, <1>9 DEF Pipes!Streams
  <2> QED
    BY <1>8, <2>1 DEF Pipes!Unnoted
<1>15. 0 \in DOMAIN popenFds' /\ popenFds'[0] = Pipes!Other
         => /\ 0 \in DOMAIN popenFds /\ popenFds[0] = Pipes!Other
            /\ Pipes!Wired(k)'
  <2> SUFFICES ASSUME 0 \in DOMAIN popenFds', popenFds'[0] = Pipes!Other
               PROVE  0 \in DOMAIN popenFds /\ popenFds[0] = Pipes!Other /\ Pipes!Wired(k)'
    OBVIOUS
  <2>1. 0 \in DOMAIN popenFds /\ popenFds[0] = Pipes!Other
    BY <1>3, <1>8 DEF Pipes!Other
  <2>2. 0 \notin Pipes!Streams
    BY <2>1 DEF PipesInv, PipesTyped, StreamsOpen, Pipes!Streams, Pipes!Other
  <2>3. std \in DOMAIN new /\ new[std] = Pipes!End(k, IF t = "r" THEN "write" ELSE "read")
    BY <1>4, <1>5, <1>6, <1>7, <2>2 DEF std
  <2> QED
    BY <1>10, <2>1, <2>3 DEF Pipes!Wired, std, Pipes!End
<1>16. Pipes!Connected'
  BY <1>10, <1>13, <1>14, <1>15, <1>18
     DEF PipesInv, Pipes!Connected, Pipes!Running, Pipes!Wired, Pipes!Other, Pipes!End
<1> QED
  BY <1>11, <1>12, <1>16 DEF PipesInv

\* Every step of the caller and of the commands.
LEMMA PipesStep == PipesInv /\ [Pipes!Next]_popenVars => PipesInv'
<1>1. PipesInv /\ UNCHANGED popenVars => PipesInv'
  BY DEF popenVars, PipesInv, PipesTyped, StreamsOpen, Pipes!Connected, Pipes!Running, Pipes!Wired,
         Pipes!Streams, Pipes!Table, Pipes!Other, Pipes!End, Pipes!Unnoted
<1>2. PipesInv /\ (Pipes!Popen \/ Pipes!FdopenFails) => PipesInv'
  BY OpenStep DEF Pipes!Popen, Pipes!FdopenFails
<1> QED
  BY <1>1, <1>2, ForkFailsStep, PcloseStep, EndStep DEF Pipes!Next

\* What the run checks.
LEMMA PipesInvConnected == PipesInv => Pipes!TypeOK /\ Pipes!Connected
BY DEF PipesInv, PipesTyped, Pipes!TypeOK

-----------------------------------------------------------------------------
(* tellwait.c *)

\* No process begins a meeting after the last one.
InBounds ==
  \A p \in Meet!Procs :
    /\ met[p] <= Meetings
    /\ meetAt[p] \in Waiting => met[p] < Meetings
    /\ p = "child" /\ meetAt[p] = "tell" => met[p] < Meetings

\* The counters of the meetings keep their bound.
LEMMA InBoundsStep == MeetInv /\ InBounds /\ [Meet!Next]_tellVars => InBounds'
<1> SUFFICES ASSUME MeetInv, InBounds, [Meet!Next]_tellVars PROVE InBounds'
  OBVIOUS
<1> USE PartsAssumption DEF MeetInv, Typed, InBounds, Meet!Procs, Waiting
<1>1. CASE UNCHANGED tellVars
  BY <1>1 DEF tellVars
<1>2. ASSUME NEW p \in Meet!Procs, Meet!TELL_WAIT(p) PROVE InBounds'
  BY <1>2 DEF Meet!TELL_WAIT, Meet!Go
<1>3. ASSUME NEW p \in Meet!Procs, Meet!TELL(p) PROVE InBounds'
  BY <1>3 DEF Meet!TELL, Meet!Go, Meet!AfterTell, Turns
<1>4. ASSUME NEW p \in Meet!Procs, Meet!Catch(p) PROVE InBounds'
  BY <1>4 DEF Meet!Catch
<1>5. ASSUME NEW p \in Meet!Procs, Meet!Check(p) PROVE InBounds'
  BY <1>5 DEF Meet!Check, Meet!Go
<1>6. ASSUME NEW p \in Meet!Procs, Meet!Suspend(p) PROVE InBounds'
  BY <1>6 DEF Meet!Suspend, Meet!Go
<1>7. ASSUME NEW p \in Meet!Procs, Meet!Clear(p) PROVE InBounds'
  BY <1>7 DEF Meet!Clear, Meet!Go
<1>8. ASSUME NEW p \in Meet!Procs, Meet!Restore(p) PROVE InBounds'
  BY <1>8 DEF Meet!Restore, Meet!Go, Meet!AfterWait
<1> QED
  BY <1>1, <1>2, <1>3, <1>4, <1>5, <1>6, <1>7, <1>8 DEF Meet!Next, Meet!Process

\* Types and order of the meetings.
LEMMA MeetInvType == MeetInv /\ InBounds => Meet!TypeOK /\ Meet!Ordered
<1> SUFFICES ASSUME MeetInv, InBounds PROVE Meet!TypeOK
  BY DEF MeetInv
<1>1. \A p \in Meet!Procs : met[p] \in 0..Meetings
  BY PartsAssumption DEF MeetInv, Typed, InBounds
<1>2. told["parent"] \in 0..Meetings /\ told["child"] \in 0..Meetings
  BY <1>1, PartsAssumption DEF MeetInv, Typed, Turns, InBounds, Meet!Procs, Waiting
<1> QED
  BY <1>1, <1>2 DEF MeetInv, Typed, Meet!TypeOK, Meet!Procs, Waiting

-----------------------------------------------------------------------------

LibraryInv == PassInv /\ PipesInv /\ MeetInv /\ InBounds

\* recv_fd() returns what the server meant behind all of its text, a command has
\* its pipe and no other, a wait returns for its telling: servaccept.c to
\* recvfd.c, popen.c and tellwait.c.
THEOREM DeliveredHolds == Spec => []Delivered
<1>1. Init => LibraryInv
  <2>1. Init => InBounds
    BY PartsAssumption DEF Init, Meet!Init, InBounds, Meet!Procs, Waiting
  <2> QED
    BY <2>1, PassInit, PipesInit, MeetInit DEF LibraryInv
<1>2. LibraryInv /\ [Next]_vars => LibraryInv'
  BY PassStep, PipesStep, MeetStep, InBoundsStep, StepOfPart DEF LibraryInv
<1>3. LibraryInv => Delivered
  BY PassInvDelivered, PipesInvConnected, MeetInvType DEF LibraryInv, Delivered
<1> QED
  BY <1>1, <1>2, <1>3, PTL DEF Spec, vars
=============================================================================
