--------------------------- MODULE OneShotClients ---------------------------
(***************************************************************************)
(* The clients of the servers that answer once and close: client.c of      *)
(* esameSNP08, esameSNP09 and gtramonte953.esameSNP44, with their          *)
(* connections.  A message is a sequence of pieces, as recv() may find it. *)
(* An empty one is never sent: the client of esameSNP44 waits for an       *)
(* answer all the same, that of esameSNP09 leaves, and in esameSNP08,      *)
(* whose client sends eight bytes, it stands for another program.          *)
(***************************************************************************)
EXTENDS Integers, SequencesExt

CONSTANTS
  Clients,
  Message   \* Message[c]: what client c sends

ASSUME MessageAssumption == \A c \in Clients : Message[c] \in Seq(0..9)

VARIABLES
  program,  \* which server runs: "fork", "threads", "ports" or "lines"
  listening,
  client,   \* where each client stands; "killed" also by SIGPIPE
  server,   \* the server's end of each connection
  up, down, \* what is under way on each connection
  got,      \* what recv() has returned to the client
  chunk,    \* esameSNP09: what it has not yet written to its pipe,
  pipe,     \*   the pipe,
  caster,   \*   the multicaster that reads it,
  cast      \*   and what the multicaster has read

net == <<listening, server, up, down>>
piping == <<chunk, pipe, caster, cast>>
clientVars == <<program, client, net, got, piping>>

Over == {"done", "killed"}

\* What an echo server reads in its buffer behind what it received.
Junk == -1

ClientInit ==
  /\ listening = TRUE
  /\ client = [c \in Clients |-> "idle"] /\ server = [c \in Clients |-> "none"]
  /\ up = [c \in Clients |-> <<>>] /\ down = [c \in Clients |-> <<>>]
  /\ got = [c \in Clients |-> <<>>]
  /\ chunk = [c \in Clients |-> <<>>] /\ pipe = [c \in Clients |-> <<>>]
  /\ caster = [c \in Clients |-> "none"] /\ cast = [c \in Clients |-> <<>>]

Step(c, from, to) == client[c] = from /\ client' = [client EXCEPT ![c] = to]

\* In esameSNP09 after pipe(), fork() and exec().
Connect(c) ==
  /\ Step(c, "idle", "send") /\ listening
  /\ server' = [server EXCEPT ![c] = "queued"]
  /\ caster' = [caster EXCEPT ![c] = IF program = "lines" THEN "read" ELSE @]
  /\ UNCHANGED <<program, listening, up, down, got, chunk, pipe, cast>>

\* Nobody listens, which happens in esameSNP44 only: the socket is closed, and
\* the client calls send() and recv() on it all the same, for ever: n stays -1.
Refused(c) == Step(c, "idle", "loop") /\ ~listening /\ UNCHANGED <<program, net, got, piping>>

\* send() returns how much was sent: at 0 esameSNP09 does not come to recv().
SendMessage(c) ==
  /\ Step(c, "send", IF program = "lines" /\ Message[c] = <<>> THEN "wait" ELSE "recv")
  /\ up' = [up EXCEPT ![c] = Message[c]]
  /\ UNCHANGED <<program, listening, server, down, got, piping>>

\* esameSNP08 reads once, esameSNP09 hands on what it reads.
RecvReply(c) ==
  /\ Step(c, "recv", CASE program = "ports" -> "done" [] program = "lines" -> "write" [] OTHER -> "recv")
  /\ \E k \in 1..Len(down[c]) :
       /\ got' = [got EXCEPT ![c] = @ \o SubSeq(down[c], 1, k)]
       /\ down' = [down EXCEPT ![c] = SubSeq(@, k + 1, Len(@))]
       /\ chunk' = [chunk EXCEPT ![c] = IF program = "lines" THEN SubSeq(down[c], 1, k) ELSE @]
  /\ UNCHANGED <<program, listening, server, up, pipe, caster, cast>>

\* recv() returns 0, or -1 and then 0 after a reset, which may discard what
\* has not been read.
RecvEnd(c) ==
  /\ Step(c, "recv", IF program = "lines" THEN "wait" ELSE "done")
  /\ server[c] = "rst" \/ (server[c] = "fin" /\ down[c] = <<>>)
  /\ down' = [down EXCEPT ![c] = <<>>]
  /\ UNCHANGED <<program, listening, server, up, got, piping>>

Kill(c) ==
  /\ client[c] \in {"send", "recv", "write", "wait", "loop"}
  /\ client' = [client EXCEPT ![c] = "killed"]
  /\ down' = [down EXCEPT ![c] = <<>>]
  /\ UNCHANGED <<program, listening, server, up, got, piping>>

-----------------------------------------------------------------------------
(* The pipe of esameSNP09 and the multicaster at its end. *)

WritePipe(c) ==
  /\ Step(c, "write", "recv") /\ caster[c] # "gone"
  /\ pipe' = [pipe EXCEPT ![c] = @ \o chunk[c]]
  /\ chunk' = [chunk EXCEPT ![c] = <<>>]
  /\ UNCHANGED <<program, net, got, caster, cast>>

\* SIGPIPE: the multicaster has read once and ended.
WriteKills(c) ==
  /\ Step(c, "write", "killed") /\ caster[c] = "gone"
  /\ down' = [down EXCEPT ![c] = <<>>]
  /\ UNCHANGED <<program, listening, server, up, got, piping>>

\* Someone may still write to the pipe.
WriteEndOpen(c) == client[c] \notin {"wait"} \union Over

\* read(), once.  What lies in buf behind it may be sent as well.
CasterRead(c) ==
  /\ caster[c] = "read"
  /\ pipe[c] # <<>> \/ ~WriteEndOpen(c)
  /\ cast' = [cast EXCEPT ![c] = pipe[c]]
  /\ pipe' = [pipe EXCEPT ![c] = <<>>]
  /\ caster' = [caster EXCEPT ![c] = "cast"]
  /\ UNCHANGED <<program, client, net, got, chunk>>

\* sendto() and exit(0).
CasterSend(c) ==
  /\ caster[c] = "cast" /\ caster' = [caster EXCEPT ![c] = "gone"]
  /\ UNCHANGED <<program, client, net, got, chunk, pipe, cast>>

\* close(pipefd[1]), wait() and exit.
WaitCaster(c) ==
  /\ Step(c, "wait", "done") /\ caster[c] = "gone"
  /\ UNCHANGED <<program, net, got, piping>>

Progress(c) ==
  \/ SendMessage(c) \/ RecvReply(c) \/ RecvEnd(c)
  \/ WritePipe(c) \/ WriteKills(c) \/ WaitCaster(c)

Caster(c) == CasterRead(c) \/ CasterSend(c)

-----------------------------------------------------------------------------
(* What the servers do with a connection. *)

\* recv() on the connection of c gives the piece msg to the caller ...
RecvOnce(c, msg) ==
  /\ msg # <<>> /\ IsPrefix(msg, up[c])
  /\ up' = [up EXCEPT ![c] = SubSeq(@, Len(msg) + 1, Len(@))]
  /\ UNCHANGED <<listening, server, down>>

\* ... or returns 0.
RecvNothing(c) == client[c] \in Over /\ up[c] = <<>> /\ UNCHANGED net

\* send() to a client that has gone is lost.
Reply(c, text) ==
  /\ down' = [down EXCEPT ![c] = IF client[c] \in Over THEN <<>> ELSE @ \o text]
  /\ UNCHANGED <<listening, server, up>>

\* The last close() of the server's end: FIN, or RST if the client has sent
\* more than was read.
Shut(cs) ==
  /\ server' = [c \in Clients |-> IF c \notin cs THEN server[c]
                                  ELSE IF up[c] = <<>> THEN "fin" ELSE "rst"]
  /\ UNCHANGED <<up, down>>
=============================================================================
