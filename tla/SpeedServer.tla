---------------------------- MODULE SpeedServer ----------------------------
(***************************************************************************)
(* esameSNP40/src/Server.c: main accepts a client, starts a thread that    *)
(* sends it a byte every speed seconds and a thread that takes its         *)
(* commands, u to go faster and d to go slower, and joins both.  Nobody    *)
(* resets connected.  speed is counted in steps of 0.05.                   *)
(***************************************************************************)
EXTENDS Integers, Sequences, FiniteSets

CONSTANTS
  Clients,   \* each connects at most once
  MaxKeys,   \* bound: commands a client sends
  Cap        \* bytes the socket buffers towards a client hold

NoClient == "none"

Keys == {"u", "d"}

VARIABLES
  con,    \* the connection of each client
  sent,   \* the commands each client has sent
  up,     \* those that are under way
  down,   \* bytes under way to each client
  peer,   \* peerfd: the client that was accepted
  main,   \* where main stands
  sender, \* where threadFunc stands
  taker,  \* where threadRecv stands
  msg,    \* its msg[0]
  speed,
  alive   \* the process runs

net == <<con, sent, up, down>>
threads == <<peer, main, sender, taker, msg, speed>>
vars == <<net, threads, alive>>

\* main listens; it returns at once if it cannot.
Init ==
  /\ con = [c \in Clients |-> "out"]
  /\ sent = [c \in Clients |-> <<>>] /\ up = [c \in Clients |-> <<>>]
  /\ down = [c \in Clients |-> 0]
  /\ peer = NoClient /\ main = "accept"
  /\ sender = "none" /\ taker = "none"
  /\ msg \in Keys \union {"c"}   \* msg is not initialised
  /\ speed = 0
  /\ alive = TRUE

-----------------------------------------------------------------------------
(* The clients. *)

Connect(c) ==
  /\ con[c] = "out"
  /\ con' = [con EXCEPT ![c] = "queued"]
  /\ UNCHANGED <<sent, up, down, threads, alive>>

Command(c, k) ==
  /\ con[c] = "open" /\ Len(sent[c]) < MaxKeys
  /\ sent' = [sent EXCEPT ![c] = Append(@, k)]
  /\ up' = [up EXCEPT ![c] = Append(@, k)]
  /\ UNCHANGED <<con, down, threads, alive>>

Read(c) ==
  /\ con[c] = "open" /\ down[c] > 0
  /\ down' = [down EXCEPT ![c] = 0]
  /\ UNCHANGED <<con, sent, up, threads, alive>>

\* FIN, or RST if bytes were left unread.
Leave(c) ==
  /\ con[c] = "open"
  /\ con' = [con EXCEPT ![c] = IF down[c] = 0 THEN "left" ELSE "reset"]
  /\ down' = [down EXCEPT ![c] = 0]
  /\ UNCHANGED <<sent, up, threads, alive>>

\* RST comes back for a byte that was sent to a client that has left.
Reset(c) ==
  /\ con[c] = "left" /\ down[c] > 0
  /\ con' = [con EXCEPT ![c] = "reset"]
  /\ UNCHANGED <<sent, up, down, threads, alive>>

-----------------------------------------------------------------------------
(* main *)

\* accept() and connected = 1.
Accept(c) ==
  /\ main = "accept" /\ con[c] = "queued"
  /\ con' = [con EXCEPT ![c] = "open"]
  /\ peer' = c /\ main' = "create"
  /\ UNCHANGED <<sent, up, down, sender, taker, msg, speed, alive>>

Create ==
  /\ main = "create"
  /\ \/ sender = "none" /\ sender' = "send" /\ UNCHANGED <<main, taker>>
     \/ sender # "none" /\ taker' = "recv" /\ main' = "join" /\ UNCHANGED sender
  /\ UNCHANGED <<net, peer, msg, speed, alive>>

-----------------------------------------------------------------------------
(* threadFunc.  connected stays 1: the loop is never left. *)

\* send() waits while the buffers are full.
Send ==
  /\ sender = "send" /\ con[peer] \in {"open", "left"} /\ down[peer] < Cap
  /\ down' = [down EXCEPT ![peer] = @ + 1]
  /\ sender' = "sleep"
  /\ UNCHANGED <<con, sent, up, peer, main, taker, msg, speed, alive>>

\* The first send() after a reset may report the reset ...
SendFails ==
  /\ sender = "send" /\ con[peer] = "reset"
  /\ con' = [con EXCEPT ![peer] = "broken"]
  /\ sender' = "sleep"
  /\ UNCHANGED <<sent, up, down, peer, main, taker, msg, speed, alive>>

\* A plausible error: SIGPIPE is ignored and the result of send() as well.
SendGoesOn ==
  /\ sender = "send" /\ con[peer] \in {"reset", "broken"}
  /\ sender' = "sleep"
  /\ UNCHANGED <<net, peer, main, taker, msg, speed, alive>>

\* ... or raise SIGPIPE, which ends the process, as every later one does.
SendKills ==
  /\ sender = "send" /\ con[peer] \in {"reset", "broken"}
  /\ alive' = FALSE
  /\ UNCHANGED <<net, threads>>

Sleep ==
  /\ sender = "sleep" /\ sender' = "send"
  /\ UNCHANGED <<net, peer, main, taker, msg, speed, alive>>

-----------------------------------------------------------------------------
(* threadRecv *)

\* recv() takes all that has come; the thread looks at msg[0] only.
RecvData ==
  /\ taker = "recv" /\ up[peer] # <<>>
  /\ \E k \in 1..Len(up[peer]) : up' = [up EXCEPT ![peer] = SubSeq(@, k + 1, Len(@))]
  /\ msg' = Head(up[peer])
  /\ taker' = "apply"
  /\ UNCHANGED <<con, sent, down, peer, main, sender, speed, alive>>

\* It returns 0, or -1, and msg is what it was; the loop goes on.
RecvEnd ==
  /\ taker = "recv" /\ con[peer] \in {"left", "reset", "broken"}
  /\ con[peer] = "left" => up[peer] = <<>>
  /\ taker' = "apply"
  /\ UNCHANGED <<net, peer, main, sender, msg, speed, alive>>

\* A plausible error: msg[0] is not replaced by c.
ApplyKept ==
  /\ taker = "apply" /\ taker' = "recv"
  /\ speed' = CASE msg = "u" -> speed - 1 [] msg = "d" -> speed + 1 [] OTHER -> speed
  /\ UNCHANGED <<net, peer, main, sender, msg, alive>>

Apply ==
  /\ taker = "apply" /\ taker' = "recv"
  /\ speed' = CASE msg = "u" -> speed - 1 [] msg = "d" -> speed + 1 [] OTHER -> speed
  /\ msg' = "c"
  /\ UNCHANGED <<net, peer, main, sender, alive>>

Next ==
  /\ alive
  /\ \/ \E c \in Clients : Connect(c) \/ (\E k \in Keys : Command(c, k))
                           \/ Read(c) \/ Leave(c) \/ Reset(c) \/ Accept(c)
     \/ Create \/ Send \/ SendFails \/ SendKills \/ Sleep \/ RecvData \/ RecvEnd \/ Apply

(* The threads keep running, and the network delivers.  A client need do   *)
(* nothing.                                                                *)
Fairness ==
  /\ \A c \in Clients : WF_vars(alive /\ Accept(c)) /\ WF_vars(alive /\ Reset(c))
  /\ WF_vars(alive /\ Create)
  /\ WF_vars(alive /\ (Send \/ SendFails \/ SendKills \/ Sleep))
  /\ WF_vars(alive /\ (RecvData \/ RecvEnd \/ Apply))

Spec == Init /\ [][Next]_vars /\ Fairness

-----------------------------------------------------------------------------

TypeOK ==
  /\ con \in [Clients -> {"out", "queued", "open", "left", "reset", "broken"}]
  /\ sent \in [Clients -> Seq(Keys)] /\ up \in [Clients -> Seq(Keys)]
  /\ down \in [Clients -> 0..Cap]
  /\ peer \in Clients \union {NoClient} /\ (peer = NoClient <=> main = "accept")
  /\ main \in {"accept", "create", "join"}
  /\ sender \in {"none", "send", "sleep"} /\ taker \in {"none", "recv", "apply"}
  /\ msg \in Keys \union {"c"} /\ speed \in Int /\ alive \in BOOLEAN
  /\ main = "join" <=> taker # "none"

Number(s, k) == Cardinality({i \in DOMAIN s : s[i] = k})

\* Every step of speed has a command of its own, the first one excepted: it
\* may be what msg happened to hold when recv() failed at once.
SpeedCommanded ==
  peer # NoClient =>
    /\ speed <= Number(sent[peer], "d") + 1
    /\ -speed <= Number(sent[peer], "u") + 1

\* A client that leaves ends the server, and with it everybody who waits.
LeaverEnds == (\E c \in Clients : con[c] \in {"left", "reset"}) ~> ~alive
=============================================================================
