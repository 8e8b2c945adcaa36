------------------------------- MODULE Popen -------------------------------
(***************************************************************************)
(* esameSNP38/lib/popen.c, with the commands it starts.  A process opens   *)
(* and closes streams to them in any order.  A command reads its standard  *)
(* input to the end, or writes on its standard output until SIGPIPE: it    *)
(* ends when nobody else has the other end of its pipe.                    *)
(***************************************************************************)
EXTENDS Integers, FiniteSets

CONSTANTS
  maxfd,  \* what open_max() says; the table of descriptors has one more
  Calls   \* bound: calls of popen()

VARIABLES
  fds,      \* the open descriptors of the caller, and what they refer to
  childpid, \* for each descriptor the number of the command, 0 for none
  type,     \* "r" or "w", for each call that started a command
  child,    \* the descriptors of each command: 0, 1, 2 and what it inherited
  state,    \* "runs", "zombie" or "reaped"
  waits,    \* the command pclose() waits for, 0 for none
  calls     \* those made

vars == <<fds, childpid, type, child, state, waits, calls>>

Table == 0..maxfd
Other == [pipe |-> 0, end |-> "other"]  \* a file or a terminal
Leaked == [pipe |-> 0, end |-> "leaked"]
End(k, e) == [pipe |-> k, end |-> e]

\* The caller may have closed its standard input.
Init ==
  /\ fds \in {[f \in 0..2 |-> Other], [f \in 1..2 |-> Other]}
  /\ childpid = [f \in 0..(maxfd - 1) |-> 0]
  /\ type = [k \in {} |-> "r"] /\ child = [k \in {} |-> fds] /\ state = [k \in {} |-> "runs"]
  /\ waits = 0 /\ calls = 0

\* pipe() takes the lowest two descriptors that are free.
Lowest(S) == CHOOSE f \in S : \A g \in S : f <= g
Unused == Table \ DOMAIN fds
Pfd0 == Lowest(Unused)
Pfd1 == Lowest(Unused \ {Pfd0})

Without(t, F) == [f \in DOMAIN t \ F |-> t[f]]

Streams == {f \in DOMAIN childpid : childpid[f] > 0}

-----------------------------------------------------------------------------

\* The child: the end that is not its own is closed, its own is put in the
\* place of the standard input or output.
Redirected(t, own, other, std) ==
  LET u == Without(t, {other})
      v == [f \in DOMAIN u \union {std} |-> IF f = std THEN u[own] ELSE u[f]]
  IN  IF own = std THEN u ELSE Without(v, {own})

\* A plausible error: the command inherits the streams of the others.
AllKept(t) == t

\* The child closes all streams the caller has, by their numbers.
StreamsClosed(t) == Without(t, Streams)

\* The end the caller keeps.
Kept(t) == IF t = "r" THEN Pfd0 ELSE Pfd1

\* popen() up to fdopen(), with the child up to its exec.
Open(t) ==
  LET k    == calls + 1
      all  == [f \in DOMAIN fds \union {Pfd0, Pfd1} |->
                 IF f = Pfd0 THEN End(k, "read") ELSE IF f = Pfd1 THEN End(k, "write") ELSE fds[f]]
      own  == IF t = "r" THEN Pfd1 ELSE Pfd0
      std  == IF t = "r" THEN 1 ELSE 0
  IN  /\ type'  = [j \in DOMAIN type \union {k} |-> IF j = k THEN t ELSE type[j]]
      /\ state' = [j \in DOMAIN type \union {k} |-> IF j = k THEN "runs" ELSE state[j]]
      /\ child' = [j \in DOMAIN type \union {k} |->
                     IF j = k THEN StreamsClosed(Redirected(all, own, Kept(t), std)) ELSE child[j]]
      /\ fds' = Without(all, {own})

\* With fewer than two descriptors below maxfd it fails, and nothing changes.
CanOpen ==
  /\ waits = 0 /\ calls < Calls
  /\ Cardinality({f \in Unused : f < maxfd}) >= 2

Popen ==
  /\ CanOpen
  /\ \E t \in {"r", "w"} : Open(t) /\ childpid' = [childpid EXCEPT ![Kept(t)] = calls + 1]
  /\ calls' = calls + 1 /\ UNCHANGED waits

\* fdopen() fails: the command runs, the end that was kept stays open and is
\* noted nowhere.
FdopenFails ==
  /\ CanOpen /\ \E t \in {"r", "w"} : Open(t)
  /\ calls' = calls + 1 /\ UNCHANGED <<childpid, waits>>

\* fork() fails: both ends of the pipe stay open.
ForkFails ==
  /\ CanOpen
  /\ fds' = [f \in DOMAIN fds \union {Pfd0, Pfd1} |-> IF f \in DOMAIN fds THEN fds[f] ELSE Leaked]
  /\ calls' = calls + 1 /\ UNCHANGED <<childpid, type, child, state, waits>>

\* pclose() up to waitpid(), which is left out when fclose() returns EOF ...
Pclose ==
  /\ waits = 0
  /\ \E f \in Streams :
       /\ childpid' = [childpid EXCEPT ![f] = 0]
       /\ fds' = Without(fds, {f})
       /\ waits' \in {0, childpid[f]}
  /\ UNCHANGED <<type, child, state, calls>>

\* ... which is repeated after EINTR.
Reap ==
  /\ waits # 0 /\ state[waits] = "zombie"
  /\ state' = [state EXCEPT ![waits] = "reaped"] /\ waits' = 0
  /\ UNCHANGED <<fds, childpid, type, child, calls>>

-----------------------------------------------------------------------------

Running == {k \in DOMAIN state : state[k] = "runs"}

\* Command k has its end of the pipe where it uses it.
Wired(k) ==
  LET std == IF type[k] = "r" THEN 1 ELSE 0
  IN  std \in DOMAIN child[k] /\ child[k][std] = End(k, IF type[k] = "r" THEN "write" ELSE "read")

Holds(t, x) == \E f \in DOMAIN t : t[f] = x

\* End of file, or SIGPIPE; or an error, without the pipe.
CommandEnds(k) ==
  LET peer == End(k, IF type[k] = "r" THEN "read" ELSE "write")
  IN  /\ k \in Running
      /\ ~Wired(k) \/ ~(Holds(fds, peer) \/ \E j \in Running : Holds(child[j], peer))
      /\ state' = [state EXCEPT ![k] = "zombie"]
      /\ UNCHANGED <<fds, childpid, type, child, waits, calls>>

Next == Popen \/ FdopenFails \/ ForkFails \/ Pclose \/ Reap \/ \E k \in DOMAIN state : CommandEnds(k)

(* The caller does not give up in pclose(); a command that can end does.   *)
Fairness == WF_vars(Reap) /\ \A k \in 1..Calls : WF_vars(k \in DOMAIN state /\ CommandEnds(k))

Spec == Init /\ [][Next]_vars /\ Fairness

-----------------------------------------------------------------------------

TypeOK ==
  /\ DOMAIN fds \subseteq Table /\ childpid \in [0..(maxfd - 1) -> 0..Calls]
  /\ DOMAIN type = DOMAIN state /\ DOMAIN child = DOMAIN state
  /\ waits \in {0} \union DOMAIN state /\ calls \in 0..Calls

\* What the caller has open besides its streams: also ends of pipes that a
\* popen() left when its fdopen() failed.
Unnoted == {fds[f] : f \in DOMAIN fds \ Streams}

\* As long as the caller has a standard input of its own, each command has its
\* pipe in the place of its standard input or output; and no command has a
\* descriptor of another one's pipe, but of a popen() that returned NULL.
Connected ==
  /\ 0 \in DOMAIN fds /\ fds[0] = Other => \A k \in Running : Wired(k)
  /\ \A k \in Running : \A f \in DOMAIN child[k] : child[k][f].pipe \in {0, k} \/ child[k][f] \in Unnoted

\* pclose() returns: once it has closed the stream the command sees that,
\* whatever other streams there are, and whatever calls of popen() failed.
PcloseReturns == []<>(waits = 0)
=============================================================================
