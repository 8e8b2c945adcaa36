---------------------------- MODULE EchoServers ----------------------------
(***************************************************************************)
(* server1.c and server2.c of gtramonte953.esameSNP44.  For each client    *)
(* the first forks a child, the second makes a thread; it receives once,   *)
(* sends that back and closes.  Children are not waited for and threads    *)
(* not joined: each takes up a place for ever.  A worker has the name of   *)
(* the client main accepted when it started it.                            *)
(***************************************************************************)
EXTENDS OneShotClients, FiniteSets

CONSTANT MaxWorkers  \* the numbers of children or threads the system may allow

ASSUME WorkersAssumption == MaxWorkers \subseteq Nat

VARIABLES
  places,     \* the number it does allow
  main,       \* where the server's main stands
  newclient,  \* the connection it has accepted
  worker,     \* where each child or thread stands
  sock,       \* the connection it works on
  buf,        \* what it has received
  held        \* held[c]: the processes with c's connection open

echoVars == <<places, main, newclient, worker, sock, buf, held>>

Main == "main"
ASSUME MainAssumption == Main \notin Clients

Nobody == "nobody"
ASSUME NobodyAssumption == Nobody \notin Clients

EchoInit ==
  /\ places \in MaxWorkers
  /\ main = "accept" /\ newclient = Nobody
  /\ worker = [w \in Clients |-> "none"] /\ sock = [w \in Clients |-> Nobody]
  /\ buf = [w \in Clients |-> <<>>] /\ held = [c \in Clients |-> {}]

Started == {w \in Clients : worker[w] # "none"}

\* The connections process p was the last to hold.
LastHeld(p) == {c \in Clients : held[c] = {p}}

EchoAccept(c) ==
  /\ main = "accept" /\ server[c] = "queued"
  /\ server' = [server EXCEPT ![c] = "open"]
  /\ newclient' = c /\ main' = "start"
  /\ held' = [held EXCEPT ![c] = {Main}]
  /\ UNCHANGED <<client, got, piping, places, listening, up, down, worker, sock, buf>>

Start ==
  /\ main = "start" /\ Cardinality(Started) < places
  /\ worker' = [worker EXCEPT ![newclient] = "recv"]
  /\ sock' = [sock EXCEPT ![newclient] = newclient]

\* The child has a copy of every descriptor main has.
Fork ==
  /\ program = "fork" /\ Start
  /\ main' = "close"
  /\ held' = [c \in Clients |-> IF Main \in held[c] THEN held[c] \union {newclient} ELSE held[c]]
  /\ UNCHANGED <<client, got, piping, places, net, newclient, buf>>

\* fork() returns -1: err_sys() ends the server, and what waits is refused.
ForkFails ==
  /\ program = "fork" /\ main = "start" /\ Cardinality(Started) >= places
  /\ main' = "exit" /\ listening' = FALSE
  /\ held' = [c \in Clients |-> held[c] \ {Main}]
  /\ Shut({c \in Clients : server[c] = "queued"} \union LastHeld(Main))
  /\ UNCHANGED <<client, got, piping, places, newclient, worker, sock, buf>>

\* A plausible error: main keeps the connection open.
MainKeeps ==
  /\ main = "close" /\ main' = "accept"
  /\ UNCHANGED <<client, got, piping, places, net, newclient, worker, sock, buf, held>>

\* A plausible error: shutdown() in place of close().
MainShuts ==
  /\ main = "close" /\ main' = "accept"
  /\ held' = [held EXCEPT ![newclient] = @ \ {Main}]
  /\ UNCHANGED listening /\ Shut({newclient})
  /\ UNCHANGED <<client, got, piping, places, newclient, worker, sock, buf>>

\* close(newclient) in the parent.
MainCloses ==
  /\ main = "close" /\ main' = "accept"
  /\ held' = [held EXCEPT ![newclient] = @ \ {Main}]
  /\ UNCHANGED listening /\ Shut({newclient} \intersect LastHeld(Main))
  /\ UNCHANGED <<client, got, piping, places, newclient, worker, sock, buf>>

Create ==
  /\ program = "threads" /\ Start
  /\ main' = "accept"
  /\ UNCHANGED <<client, got, piping, places, net, newclient, buf, held>>

\* Nobody looks at what pthread_create() returns.
CreateFails ==
  /\ program = "threads" /\ main = "start" /\ Cardinality(Started) >= places
  /\ main' = "accept"
  /\ UNCHANGED <<client, got, piping, places, net, newclient, worker, sock, buf, held>>

-----------------------------------------------------------------------------
(* A worker: main's child, or thread_f. *)

Work(w, from, to) == worker[w] = from /\ worker' = [worker EXCEPT ![w] = to]

\* A plausible error: the threads are given the address of newclient.
SockShared(w) == newclient

\* The argument of pthread_create() is newclient itself, not its address.
Sock(w) == sock[w]

WorkerRecv(w) ==
  /\ Work(w, "recv", "send")
  /\ \E msg \in {SubSeq(up[Sock(w)], 1, k) : k \in 1..Len(up[Sock(w)])} :
       /\ RecvOnce(Sock(w), msg)
       /\ buf' = [buf EXCEPT ![w] = msg]
  /\ UNCHANGED <<client, got, piping, places, main, newclient, sock, held>>

\* recv() returned 0: the child ends, and with it its descriptor; the thread
\* ends and its descriptor stays.
WorkerNothing(w) ==
  /\ Work(w, "recv", IF program = "fork" THEN "close" ELSE "ended")
  /\ RecvNothing(Sock(w))
  /\ UNCHANGED <<client, got, piping, places, main, newclient, sock, buf, held>>

\* strlen(buf) goes on to the first NUL, which recv() does not write.
WorkerSend(w) ==
  /\ Work(w, "send", "close")
  /\ \E junk \in {<<>>, <<Junk>>} : Reply(Sock(w), buf[w] \o junk)
  /\ buf' = [buf EXCEPT ![w] = <<>>]
  /\ UNCHANGED <<client, got, piping, places, main, newclient, sock, held>>

\* close(), and exit() of the child.
WorkerClose(w) ==
  LET p == IF program = "fork" THEN w ELSE Main
      cs == IF program = "fork" THEN {c \in Clients : w \in held[c]} ELSE {Sock(w)} IN
  /\ Work(w, "close", "ended")
  /\ held' = [c \in Clients |-> IF c \in cs THEN held[c] \ {p} ELSE held[c]]
  /\ UNCHANGED listening /\ Shut(cs \intersect LastHeld(p))
  /\ UNCHANGED <<client, got, piping, places, main, newclient, sock, buf>>

MainStep == Fork \/ ForkFails \/ MainCloses \/ Create \/ CreateFails
Worker(w) == WorkerRecv(w) \/ WorkerNothing(w) \/ WorkerSend(w) \/ WorkerClose(w)
=============================================================================
