----------------------------- MODULE SelectEcho -----------------------------
(***************************************************************************)
(* esameSNP04/src/server.c: one process serves all its clients through     *)
(* select(), sending back what it receives in upper case.  Conns are the   *)
(* connections clients make; a descriptor a connection has left is given   *)
(* to the next one.                                                        *)
(***************************************************************************)
EXTENDS Integers, Sequences

CONSTANTS
  Conns,     \* connections, each made at most once
  Readers,   \* those whose client keeps reading its replies
  LastFd,    \* bound: descriptors 4..LastFd are there for connections
  Parts,     \* parts in which a message of 4096 bytes arrives
  Cap,       \* parts the socket buffers of one direction hold
  MaxSends   \* bound: messages a client sends

ASSUME SelectAssumption ==
  /\ Readers \subseteq Conns /\ LastFd \in Nat /\ LastFd >= 3
  /\ Parts \in Nat \ {0} /\ Cap \in Nat /\ Parts <= Cap /\ MaxSends \in Nat
  /\ "free" \notin Conns

VARIABLES
  client,   \* each client: "idle", "open", "closed"; "reset" once RST is sent
  sent,     \* messages each client has sent
  up, down, \* what is under way on each connection
  backlog,  \* connections that wait for accept()
  fdOf,     \* the server's descriptors: a connection or "free"
  master,   \* the set FD_SET and FD_CLR maintain
  fdmax,
  readset,  \* read_fds
  pos,      \* the loop variable i
  buf,      \* parts in buf
  pc        \* "select", "scan", "send", or "dead" after SIGPIPE

clientVars == <<client, sent>>
serverVars == <<fdOf, master, fdmax, readset, pos, buf, pc>>
vars == <<clientVars, up, down, backlog, serverVars>>

Listener == 3
Fds == 4..LastFd

\* What the client of one connection is promised.
Serving(c) == pc = "send" /\ fdOf[pos] = c
LinkUp(c) == IF client[c] = "open" THEN (IF Serving(c) THEN buf ELSE <<>>) \o up[c] ELSE <<>>
LinkDown(c) == IF client[c] = "open" THEN down[c] ELSE <<>>
Link(c) == INSTANCE EchoLink
  WITH Senders <- {c}, Cap <- Cap + Parts, up <- LinkUp(c), down <- LinkDown(c)
Wire == INSTANCE EchoLink WITH Senders <- Conns, up <- <<>>, down <- <<>>

Init ==
  /\ client = [c \in Conns |-> "idle"] /\ sent = [c \in Conns |-> 0]
  /\ up = [c \in Conns |-> <<>>] /\ down = [c \in Conns |-> <<>>]
  /\ backlog = <<>>
  /\ fdOf = [f \in Fds |-> "free"]
  /\ master = {Listener} /\ fdmax = Listener
  /\ readset = {} /\ pos = Listener /\ buf = <<>> /\ pc = "select"

-----------------------------------------------------------------------------
(* The clients *)

Connect(c) ==
  /\ client[c] = "idle"
  /\ client' = [client EXCEPT ![c] = "open"]
  /\ backlog' = Append(backlog, c)
  /\ UNCHANGED <<sent, up, down, serverVars>>

ClientSend(c) ==
  /\ client[c] = "open" /\ sent[c] < MaxSends /\ Len(up[c]) + Parts <= Cap
  /\ up' = [up EXCEPT ![c] = @ \o Wire!Message(c)]
  /\ sent' = [sent EXCEPT ![c] = @ + 1]
  /\ UNCHANGED <<client, down, backlog, serverVars>>

ClientRecv(c) ==
  /\ client[c] = "open"
  /\ \E k \in Wire!Readable(down[c]) : down' = [down EXCEPT ![c] = Wire!Drop(@, k)]
  /\ UNCHANGED <<clientVars, up, backlog, serverVars>>

\* close() sends FIN, or RST if replies are left unread.
ClientClose(c) ==
  /\ client[c] = "open"
  /\ client' = [client EXCEPT ![c] = IF down[c] = <<>> THEN "closed" ELSE "reset"]
  /\ down' = [down EXCEPT ![c] = <<>>]
  /\ UNCHANGED <<sent, up, backlog, serverVars>>

Client(c) == Connect(c) \/ ClientSend(c) \/ ClientRecv(c) \/ ClientClose(c)

-----------------------------------------------------------------------------
(* The server *)

Ended(c) == client[c] \in {"closed", "reset"}

Ready == {f \in master \cap Fds : fdOf[f] # "free" /\ (up[fdOf[f]] # <<>> \/ Ended(fdOf[f]))}
         \union {f \in {Listener} : backlog # <<>>}

\* read_fds = master; select(fdmax + 1, &read_fds, ...).  The descriptors
\* below the listener are never set: the loop is entered there.
Select ==
  /\ pc = "select"
  /\ readset' = Ready \cap Listener..fdmax
  /\ readset' # {}
  /\ pos' = Listener /\ pc' = "scan"
  /\ UNCHANGED <<clientVars, up, down, backlog, fdOf, master, fdmax, buf>>

Skip ==
  /\ pc = "scan" /\ pos <= fdmax /\ pos \notin readset
  /\ pos' = pos + 1
  /\ UNCHANGED <<clientVars, up, down, backlog, fdOf, master, fdmax, readset, buf, pc>>

EndScan ==
  /\ pc = "scan" /\ pos > fdmax
  /\ pc' = "select"
  /\ UNCHANGED <<clientVars, up, down, backlog, fdOf, master, fdmax, readset, pos, buf>>

FreeFds == {f \in Fds : fdOf[f] = "free"}

\* A plausible error: fdmax is not raised.
AcceptFdmaxKept ==
  /\ pc = "scan" /\ pos = Listener /\ pos \in readset
  /\ \E newfd \in FreeFds :
       /\ \A f \in FreeFds : newfd <= f
       /\ fdOf' = [fdOf EXCEPT ![newfd] = Head(backlog)]
       /\ master' = master \union {newfd}
       /\ UNCHANGED fdmax
  /\ backlog' = Tail(backlog)
  /\ pos' = pos + 1
  /\ UNCHANGED <<clientVars, up, down, readset, buf, pc>>

\* accept() returns the lowest free descriptor.
Accept ==
  /\ pc = "scan" /\ pos = Listener /\ pos \in readset
  /\ \E newfd \in FreeFds :
       /\ \A f \in FreeFds : newfd <= f
       /\ fdOf' = [fdOf EXCEPT ![newfd] = Head(backlog)]
       /\ master' = master \union {newfd}
       /\ fdmax' = IF newfd > fdmax THEN newfd ELSE fdmax
  /\ backlog' = Tail(backlog)
  /\ pos' = pos + 1
  /\ UNCHANGED <<clientVars, up, down, readset, buf, pc>>

\* accept() fails: there is no descriptor left.
AcceptFails ==
  /\ pc = "scan" /\ pos = Listener /\ pos \in readset /\ FreeFds = {}
  /\ pos' = pos + 1
  /\ UNCHANGED <<clientVars, up, down, backlog, fdOf, master, fdmax, readset, buf, pc>>

\* A plausible error: the loop tests master in place of read_fds.
AtMaster == pc = "scan" /\ pos <= fdmax /\ pos \in master /\ pos # Listener

\* FD_ISSET(i, &read_fds), i # listener
AtReady == pc = "scan" /\ pos <= fdmax /\ pos \in readset /\ pos # Listener

RecvData ==
  /\ AtReady
  /\ \E c \in Conns :
       /\ fdOf[pos] = c
       /\ \E k \in Wire!Readable(up[c]) :
            /\ buf' = Wire!Take(up[c], k)
            /\ up' = [up EXCEPT ![c] = Wire!Drop(@, k)]
  /\ pc' = "send"
  /\ UNCHANGED <<clientVars, down, backlog, fdOf, master, fdmax, readset, pos>>

\* recv() returns 0, or -1 after a reset, which may discard what was received.
RecvEnd ==
  /\ AtReady
  /\ \E c \in Conns :
       /\ fdOf[pos] = c /\ Ended(c) /\ (up[c] = <<>> \/ client[c] = "reset")
       /\ up' = [up EXCEPT ![c] = <<>>]
  /\ fdOf' = [fdOf EXCEPT ![pos] = "free"]
  /\ master' = master \ {pos}
  /\ pos' = pos + 1
  /\ UNCHANGED <<clientVars, down, backlog, fdmax, readset, buf, pc>>

\* A plausible error: the reply goes to every client, as in the chat server
\* this one was made from.
SendToAll ==
  /\ pc = "send"
  /\ \A c \in Conns : Len(down[c]) + Len(buf) <= Cap
  /\ down' = [c \in Conns |-> IF client[c] = "open" /\ \E f \in master \cap Fds : fdOf[f] = c
                              THEN down[c] \o Wire!UpperCase(buf) ELSE down[c]]
  /\ buf' = <<>> /\ pos' = pos + 1 /\ pc' = "scan"
  /\ UNCHANGED <<clientVars, up, backlog, fdOf, master, fdmax, readset>>

\* send() blocks while the client's buffers are full.
SendReply ==
  /\ pc = "send"
  /\ \E c \in Conns :
       /\ fdOf[pos] = c /\ client[c] = "open"
       /\ Len(down[c]) + Len(buf) <= Cap
       /\ down' = [down EXCEPT ![c] = @ \o Wire!UpperCase(buf)]
  /\ buf' = <<>> /\ pos' = pos + 1 /\ pc' = "scan"
  /\ UNCHANGED <<clientVars, up, backlog, fdOf, master, fdmax, readset>>

\* The first send() after the client has closed is answered by RST ...
SendLost ==
  /\ pc = "send"
  /\ \E c \in Conns :
       /\ fdOf[pos] = c /\ Ended(c)
       /\ client' = [client EXCEPT ![c] = "reset"]
  /\ buf' = <<>> /\ pos' = pos + 1 /\ pc' = "scan"
  /\ UNCHANGED <<sent, up, down, backlog, fdOf, master, fdmax, readset>>

\* ... and a later one may raise SIGPIPE, which ends the server.
SendKills ==
  /\ pc = "send"
  /\ \E c \in Conns : fdOf[pos] = c /\ client[c] = "reset"
  /\ pc' = "dead" /\ buf' = <<>>
  /\ UNCHANGED <<clientVars, up, down, backlog, fdOf, master, fdmax, readset, pos>>

Server == \/ Select \/ Skip \/ EndScan \/ Accept \/ AcceptFails
          \/ RecvData \/ RecvEnd \/ SendReply \/ SendLost \/ SendKills

Next == Server \/ \E c \in Conns : Client(c)

(* The server keeps running, and the clients in Readers read what comes.   *)
Fairness == WF_vars(Server) /\ \A c \in Readers : WF_vars(ClientRecv(c))

Spec == Init /\ [][Next]_vars /\ Fairness

-----------------------------------------------------------------------------

\* The variables keep their types, and master holds the listener and exactly
\* the open descriptors, none above fdmax.
TypeOK ==
  /\ client \in [Conns -> {"idle", "open", "closed", "reset"}]
  /\ sent \in [Conns -> 0..MaxSends]
  /\ up \in [Conns -> Seq(Wire!Part)] /\ down \in [Conns -> Seq(Wire!Part)]
  /\ backlog \in Seq(Conns)
  /\ fdOf \in [Fds -> Conns \union {"free"}]
  /\ readset \subseteq Fds \union {Listener}
  /\ pos \in Nat /\ buf \in Seq(Wire!Part) /\ pc \in {"select", "scan", "send", "dead"}
  /\ master = {Listener} \union {f \in Fds : fdOf[f] # "free"}
  /\ \A f \in master : f <= fdmax

\* The server calls recv() only on a connection that has something to return,
\* although accept() and close() change the descriptors between select() and
\* the recv(): it never blocks there and never uses a descriptor that is gone
\* or belongs to somebody else.
RecvNeverBlocks ==
  /\ TypeOK
  /\ AtReady => /\ pos \in Fds /\ fdOf[pos] # "free"
                /\ up[fdOf[pos]] # <<>> \/ Ended(fdOf[pos])

\* Each client gets its own messages back, in order, and nobody else's.
Implements ==
  /\ \A c \in Conns : Link(c)!Init
  /\ [][\A c \in Conns : [Link(c)!Next]_(Link(c)!vars)]_vars

Accepted(c) == \E f \in Fds : fdOf[f] = c
Pending(c) == Accepted(c) /\ LinkUp(c) # <<>>

\* A message of an accepted client is taken and answered unless the server
\* dies of SIGPIPE.
Answered == \A c \in Conns : Pending(c) ~> ~Pending(c) \/ pc = "dead"
=============================================================================
