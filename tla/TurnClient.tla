----------------------------- MODULE TurnClient -----------------------------
(***************************************************************************)
(* esameSNP04/src/client.c: two threads share one connection to the echo   *)
(* server.  thread_f1 sends a message and receives the reply under the     *)
(* mutex once a second and then signals the condition variable on which    *)
(* thread_f2 waits before it does the same.                                *)
(***************************************************************************)
EXTENDS Naturals, Sequences

CONSTANTS
  Parts,  \* parts in which a message of 4096 bytes arrives
  Cap     \* parts the socket buffers of one direction hold

ASSUME TurnAssumption == Parts \in Nat \ {0} /\ Cap \in Nat /\ Parts <= Cap

VARIABLES
  pc,    \* where each thread stands
  mtx,   \* the holder of the mutex, or "none"
  up,    \* the connection towards the server
  down,  \* the connection towards the client
  reply  \* what the last recv of each thread returned

vars == <<pc, mtx, up, down, reply>>

Threads == {"f1", "f2"}

Link == INSTANCE EchoLink WITH Senders <- Threads

Init ==
  /\ pc = [f1 |-> "sleep", f2 |-> "lock"]
  /\ mtx = "none"
  /\ Link!Init
  /\ reply = [t \in Threads |-> <<>>]

Goto(t, from, to) == pc[t] = from /\ pc' = [pc EXCEPT ![t] = to]

Lock(t, from, to) ==
  /\ mtx = "none"
  /\ Goto(t, from, to)
  /\ mtx' = t
  /\ UNCHANGED <<up, down, reply>>

Unlock(t, from, to) ==
  /\ Goto(t, from, to)
  /\ mtx' = "none"
  /\ UNCHANGED <<up, down, reply>>

Send(t) ==
  /\ Goto(t, "send", "recv")
  /\ Link!Send(t)
  /\ UNCHANGED <<mtx, reply>>

\* recv() once: it returns what has arrived, all of the reply or a part of it.
Recv(t) ==
  /\ Goto(t, "recv", "unlock")
  /\ \E k \in Link!Readable(down) :
       Link!Receive(k) /\ reply' = [reply EXCEPT ![t] = Link!Take(down, k)]
  /\ UNCHANGED mtx

F1Sleep ==
  /\ Goto("f1", "sleep", "lock")
  /\ UNCHANGED <<mtx, up, down, reply>>

F1Lock == Lock("f1", "lock", "send")

\* A plausible error: the reply is not awaited.
F1SendOnly ==
  /\ Goto("f1", "send", "unlock")
  /\ Link!Send("f1")
  /\ UNCHANGED <<mtx, reply>>

F1Send == Send("f1")

F1Unlock == Unlock("f1", "unlock", "signal")

\* A plausible error: nobody is signalled.
F1SignalDropped ==
  /\ Goto("f1", "signal", "sleep")
  /\ UNCHANGED <<mtx, up, down, reply>>

F1Signal ==
  /\ pc["f1"] = "signal"
  /\ pc' = [pc EXCEPT !["f1"] = "sleep",
                      !["f2"] = IF @ = "waiting" THEN "relock" ELSE @]
  /\ UNCHANGED <<mtx, up, down, reply>>

F1 == F1Sleep \/ F1Lock \/ F1Send \/ Recv("f1") \/ F1Unlock \/ F1Signal

F2Lock == Lock("f2", "lock", "wait")

\* pthread_cond_wait releases the mutex and sleeps, may wake without a
\* signal, and takes the mutex again.
F2Wait == Unlock("f2", "wait", "waiting")

F2Spurious ==
  /\ Goto("f2", "waiting", "relock")
  /\ UNCHANGED <<mtx, up, down, reply>>

F2Relock == Lock("f2", "relock", "send")

F2Unlock == Unlock("f2", "unlock", "lock")

F2 == F2Lock \/ F2Wait \/ F2Relock \/ Send("f2") \/ Recv("f2") \/ F2Unlock

\* The server, as far as this connection sees it.
Server == Link!Echo /\ UNCHANGED <<pc, mtx, reply>>

Next == F1 \/ F2 \/ F2Spurious \/ Server

(* The threads and the server keep running; a mutex that is released again  *)
(* and again is granted in the end (thread_f1 sleeps a second outside it).  *)
Fairness ==
  /\ WF_vars(F1) /\ WF_vars(F2) /\ WF_vars(Server)
  /\ SF_vars(F1Lock) /\ SF_vars(F2Lock) /\ SF_vars(F2Relock)

Spec == Init /\ [][Next]_vars /\ Fairness

-----------------------------------------------------------------------------

Held == [f1 |-> {"send", "recv", "unlock"}, f2 |-> {"wait", "send", "recv", "unlock"}]

\* The variables keep their types and the mutex has the holder the program
\* counters tell.
TypeOK ==
  /\ pc \in [f1 : {"sleep", "lock", "send", "recv", "unlock", "signal"},
             f2 : {"lock", "wait", "waiting", "relock", "send", "recv", "unlock"}]
  /\ mtx \in Threads \union {"none"}
  /\ \A t \in Threads : mtx = t <=> pc[t] \in Held[t]
  /\ up \in Seq(Link!Part) /\ down \in Seq(Link!Part)
  /\ reply \in [Threads -> Seq(Link!Part)]

InFlight == {up[i] : i \in DOMAIN up} \union {down[i] : i \in DOMAIN down}

\* The exercise: the intervals in which the two threads access the server
\* never overlap, so whatever is under way belongs to the exchange of the
\* thread that holds the mutex, and a thread reads only its own reply.
NoOverlap ==
  /\ \A m \in InFlight : mtx = m.from /\ pc[m.from] = "recv"
  /\ \A t \in Threads : \A i \in DOMAIN reply[t] : reply[t][i].from = t

\* Both threads keep getting replies, although a signal may find nobody.
BothServed == \A t \in Threads : []<>(pc[t] = "unlock")
=============================================================================
