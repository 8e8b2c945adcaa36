------------------------------ MODULE OneShot ------------------------------
(***************************************************************************)
(* The servers that answer each client once, with their clients.  A        *)
(* behaviour is about one of the four, chosen at the start.                *)
(***************************************************************************)
EXTENDS EchoServers, PortServer, LineServer

vars == <<clientVars, echoVars, portVars, lineVars>>

Sequential == program \in {"ports", "lines"}

Init ==
  /\ program \in {"fork", "threads", "ports", "lines"}
  /\ ClientInit /\ EchoInit /\ PortInit /\ LineInit
  /\ Sequential => \A p \in MaxWorkers : p <= places  \* it is not used there

EchoServer == program \in {"fork", "threads"} /\ UNCHANGED <<program, portVars, lineVars>>
EchoMain == EchoServer /\ (MainStep \/ \E c \in Clients : EchoAccept(c))
EchoWorker(w) == EchoServer /\ Worker(w)

OneByOne ==
  /\ UNCHANGED <<program, echoVars>>
  /\ \/ program = "ports" /\ PortNext /\ UNCHANGED lineVars
     \/ program = "lines" /\ LineNext /\ UNCHANGED portVars

OfClient(A) == A /\ UNCHANGED <<echoVars, portVars, lineVars>>

Next ==
  \/ EchoMain \/ OneByOne
  \/ \E c \in Clients :
       \/ EchoWorker(c)
       \/ OfClient(Connect(c) \/ Refused(c) \/ Progress(c) \/ Kill(c) \/ Caster(c))

(* Whoever can go on does.  Nobody need connect, say anything or be killed. *)
Fairness ==
  /\ WF_vars(EchoMain) /\ WF_vars(OneByOne)
  /\ \A c \in Clients : WF_vars(EchoWorker(c)) /\ WF_vars(OfClient(Progress(c)))
                         /\ WF_vars(OfClient(Caster(c)))

Spec == Init /\ [][Next]_vars /\ Fairness

-----------------------------------------------------------------------------

\* What may come back when k pieces of the message of c were received.
Answers(c, k) ==
  LET msg == SubSeq(Message[c], 1, k) IN
  CASE program = "lines" -> {Line(Atoi(msg))}
    [] program = "ports" -> {msg}
    [] OTHER -> {msg, msg \o <<Junk>>}

\* Nobody is sent what belongs to somebody else, or to an earlier request,
\* and what is multicast is the start of what the client received.
OwnAnswer ==
  \A c \in Clients :
    /\ got[c] \o down[c] # <<>> =>
         \E k \in 1..Len(Message[c]) :
           \E a \in Answers(c, k) : IsPrefix(got[c] \o down[c], a)
    /\ IsPrefix(cast[c], got[c])

Served(c) ==
  \/ worker[c] \in {"recv", "send", "close"}
  \/ newclient = c /\ main \in {"start", "close"}

NoThread(c) ==
  program = "threads" /\ server[c] = "open" /\ ~Served(c) /\ worker[c] = "none"

\* A connection is open in the server while somebody works on it and no
\* longer, but for server2: a client that leaves without a word, and one that
\* no thread could be made for, cost a descriptor.
NothingLeft ==
  program \in {"fork", "threads"} =>
    \A c \in Clients :
      /\ server[c] = "open" <=> held[c] # {}
      /\ held[c] # {} =>
           \/ Served(c) \/ NoThread(c)
           \/ /\ program = "threads" /\ worker[c] = "ended"
              /\ up[c] = <<>> /\ got[c] = <<>> /\ client[c] \in Over

Asked(c) == client[c] = "recv" /\ Message[c] # <<>>
Finished(c) == client[c] \in Over /\ caster[c] \in {"none", "gone"}

\* How much of what c said was read.
Read(c) == Len(Message[c]) - Len(up[c])

\* fork() failed before it was the turn of c: server1 has ended.
Deserted(c) == main = "exit" /\ worker[c] = "none"

\* The server read a part of what c said, answered that and closed: the rest
\* makes it a reset, which may overtake the answer.
CutOff(c) == server[c] = "rst" /\ Read(c) \in 1..(Len(Message[c]) - 1)

\* The answer is an empty line.
NoLine(c) == program = "lines" /\ <<>> \in Answers(c, Read(c))

\* The thread of esameSNP08 waits for one that says nothing and stays.
HeldUp == program = "ports" /\ thread = "recv" /\ Message[conn] = <<>>

\* A client that has asked is sent a reply, or is killed: whatever the others
\* do, it does not wait for ever, and does not leave with nothing but where
\* server1 ended, where only a part of its request was read, and where it
\* asked for a line behind the last.  It does wait for ever where no thread
\* could be made for it, and where the thread of esameSNP08 is held up for ever.
Answered ==
  \A c \in Clients :
    \/ Asked(c) ~>
         /\ Finished(c)
         /\ got[c] # <<>> \/ client[c] = "killed" \/ Deserted(c) \/ CutOff(c) \/ NoLine(c)
    \/ <>[]HeldUp
    \/ <>[]NoThread(c)
=============================================================================
