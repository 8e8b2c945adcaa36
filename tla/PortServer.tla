----------------------------- MODULE PortServer -----------------------------
(***************************************************************************)
(* esameSNP08/src/server.c: its thread waits with select() for clients on  *)
(* any of the listening sockets, and then, one listener after the other,   *)
(* accepts one client, receives once, sends that back and closes.          *)
(***************************************************************************)
EXTENDS OneShotClients

CONSTANTS
  Ports,   \* the listening sockets, 1..Ports in the order of descriptors
  Port     \* Port[c]: the one client c connects to

ASSUME PortsAssumption == Ports \in Nat \ {0} /\ Port \in [Clients -> 1..Ports]

VARIABLES
  thread,  \* where thread_f stands
  sockets, \* the set select() leaves
  i,       \* the loop variable
  conn,    \* the connection accepted
  text     \* what is in buf

portVars == <<thread, sockets, i, conn, text>>

NoConn == "nobody"

PortInit == thread = "select" /\ sockets = {} /\ i = 1 /\ conn = NoConn /\ text = <<>>

Queued(p) == {c \in Clients : server[c] = "queued" /\ Port[c] = p}

Thread(from, to) == thread = from /\ thread' = to /\ UNCHANGED <<client, got, piping>>

Select ==
  /\ Thread("select", "scan")
  /\ sockets' = {p \in 1..Ports : Queued(p) # {}} /\ sockets' # {}
  /\ i' = 1
  /\ UNCHANGED <<net, conn, text>>

\* A plausible error: fdmax is the last listener, not one more.
InScanShort == i < Ports

InScan == i <= Ports

Skip ==
  /\ Thread("scan", "scan") /\ InScan /\ i \notin sockets
  /\ i' = i + 1
  /\ UNCHANGED <<net, sockets, conn, text>>

EndScan ==
  /\ Thread("scan", "select") /\ ~InScan
  /\ UNCHANGED <<net, sockets, i, conn, text>>

PortAccept(c) ==
  /\ Thread("scan", "recv") /\ InScan /\ i \in sockets /\ c \in Queued(i)
  /\ server' = [server EXCEPT ![c] = "open"]
  /\ conn' = c
  /\ UNCHANGED <<listening, up, down, sockets, i, text>>

PortRecv ==
  /\ Thread("recv", "send")
  /\ \/ \E k \in 1..Len(up[conn]) : text' = SubSeq(up[conn], 1, k) /\ RecvOnce(conn, text')
     \/ text' = <<>> /\ RecvNothing(conn)
  /\ UNCHANGED <<sockets, i, conn>>

PortSend ==
  /\ Thread("send", "close")
  /\ Reply(conn, text)
  /\ UNCHANGED <<sockets, i, conn, text>>

PortClose ==
  /\ Thread("close", "scan")
  /\ Shut({conn}) /\ UNCHANGED listening
  /\ i' = i + 1
  /\ UNCHANGED <<sockets, conn, text>>

PortNext == \/ Select \/ Skip \/ EndScan \/ PortRecv \/ PortSend \/ PortClose
            \/ \E c \in Clients : PortAccept(c)
=============================================================================
