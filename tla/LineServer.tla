----------------------------- MODULE LineServer -----------------------------
(***************************************************************************)
(* esameSNP09/src/server.c: one client after the other is accepted, its    *)
(* request received, the line it asks for sent and the connection closed.  *)
(***************************************************************************)
EXTENDS OneShotClients

CONSTANT File  \* its lines, each the sequence of its characters

ASSUME FileAssumption == File \in Seq(Seq(0..9)) /\ \E i \in DOMAIN File : File[i] # <<>>

VARIABLES
  serving,  \* where main stands
  fd,       \* the connection accepted
  sendbuff  \* the line found

lineVars == <<serving, fd, sendbuff>>

NoClient == "nobody"

LineInit == serving = "accept" /\ fd = NoClient /\ sendbuff = <<>>

\* The digits that have come, as atoi() reads them.
Atoi(digits) == FoldLeft(LAMBDA n, d : 10 * n + d, 0, digits)

\* strtok() passes over empty lines.  Numbers below 2 get the first line,
\* those past the last an empty one.
Tokens == {i \in DOMAIN File : File[i] # <<>>}
Numbered(n) == {i \in Tokens : Cardinality({h \in Tokens : h <= i}) = n}
Line(n) ==
  LET nth == Numbered(IF n < 2 THEN 1 ELSE n) IN
  IF nth = {} THEN <<>> ELSE File[CHOOSE i \in nth : TRUE]

Serve(from, to) == serving = from /\ serving' = to /\ UNCHANGED <<client, got, piping>>

LineAccept(c) ==
  /\ Serve("accept", "recv") /\ server[c] = "queued"
  /\ server' = [server EXCEPT ![c] = "open"]
  /\ fd' = c
  /\ UNCHANGED <<listening, up, down, sendbuff>>

\* memset(), recv(), atoi(), and the line of a fresh copy of the file.
LineRecv ==
  /\ Serve("recv", "send")
  /\ \E k \in 1..Len(up[fd]) :
       LET msg == SubSeq(up[fd], 1, k) IN
         RecvOnce(fd, msg) /\ sendbuff' = Line(Atoi(msg))
  /\ UNCHANGED fd

LineNothing ==
  /\ Serve("recv", "close")
  /\ RecvNothing(fd)
  /\ UNCHANGED <<fd, sendbuff>>

LineSend ==
  /\ Serve("send", "close")
  /\ Reply(fd, sendbuff)
  /\ UNCHANGED <<fd, sendbuff>>

LineClose ==
  /\ Serve("close", "accept")
  /\ Shut({fd}) /\ UNCHANGED listening
  /\ UNCHANGED <<fd, sendbuff>>

LineNext == LineRecv \/ LineNothing \/ LineSend \/ LineClose \/ \E c \in Clients : LineAccept(c)
=============================================================================
