------------------------------- MODULE PassFd -------------------------------
(***************************************************************************)
(* esameSNP38/lib: a descriptor is asked for and passed over a UNIX domain *)
(* socket (servlisten.c, servaccept.c, cliconn.c, sendfd.c, senderr.c,     *)
(* writen.c, recvfd.c).  A client binds a name of its own, made from its   *)
(* process number, for the server to look at; the server answers each      *)
(* client in turn with some text and then a descriptor, or an error.  No   *)
(* program of the repository calls these routines: server and clients here *)
(* only call them in the order their comments give.                        *)
(***************************************************************************)
EXTENDS Integers, Sequences

CONSTANTS
  Clients,
  MAXLINE,  \* size of the buffer of recv_fd()
  Texts,    \* lengths of the text the server sends first
  Errors,   \* the errcode it gives send_err()
  Passed,   \* a descriptor: no number
  Nothing

VARIABLES
  server,   \* "down", "listens", "answers", or "answered" with all of it sent
  bound,    \* the server's name: "none", "old" (nobody listens) or "bound"
  queue,    \* connections not accepted
  job,      \* whom the server answers, and the text it has to write
  meant,    \* its answer to each client, and all of the text
  wire,     \* what waits for each client: bytes of text, and what follows them;
            \* and whether the server's end of its connection is open
  at,       \* where each client stands
  name,     \* what its name is: "none", "private", or "unfit": no socket, or one
            \* open to others or older than STALE seconds
  received, \* bytes of text recv_fd() has passed on
  ret       \* what it returned

vars == <<server, bound, queue, job, meant, wire, at, name, received, ret>>

Silent == [text |-> 0, tail |-> << >>, open |-> TRUE]

Init ==
  /\ server = "down" /\ bound \in {"none", "old"}
  /\ queue = << >> /\ job = Nothing
  /\ meant = [c \in Clients |-> Nothing] /\ wire = [c \in Clients |-> Silent]
  /\ at = [c \in Clients |-> "start"]
  /\ name \in [Clients -> {"none", "unfit"}]
  /\ received = [c \in Clients |-> 0] /\ ret = [c \in Clients |-> Nothing]

Queued(c) == \E i \in DOMAIN queue : queue[i] = c

\* The server is at the connection of client c.
Answered(c) == IF job = Nothing THEN FALSE ELSE job.client = c

-----------------------------------------------------------------------------
(* The server *)

\* serv_listen(): the old name is removed first.
Listen ==
  /\ server = "down"
  /\ server' = "listens" /\ bound' = "bound"
  /\ UNCHANGED <<queue, job, meant, wire, at, name, received, ret>>

\* bind() or listen() fails.
ListenFails ==
  /\ server = "down" /\ bound' \in {"none", "old"}
  /\ UNCHANGED <<server, queue, job, meant, wire, at, name, received, ret>>

\* The next connection of the queue.
Accepts(c) ==
  /\ server = "listens" /\ queue # << >> /\ c = Head(queue)
  /\ queue' = Tail(queue)

\* serv_accept(): the name is as it should be, and no longer needed.
Accept(c) ==
  /\ Accepts(c) /\ name[c] = "private"
  /\ name' = [name EXCEPT ![c] = "none"]
  /\ \E n \in Texts, answer \in {Passed} \union Errors :
       /\ job' = [client |-> c, text |-> n]
       /\ meant' = [meant EXCEPT ![c] = [answer |-> answer, all |-> n]]
  /\ server' = "answers"
  /\ UNCHANGED <<bound, wire, at, received, ret>>

\* A plausible error: the early return forgets the connection.
RefuseOpen(c) ==
  /\ Accepts(c) /\ name[c] # "private"
  /\ UNCHANGED <<server, bound, job, meant, wire, at, name, received, ret>>

\* The name is not there or unfit: the connection is closed, the name stays.
Refuse(c) ==
  /\ Accepts(c) /\ name[c] # "private"
  /\ wire' = [wire EXCEPT ![c].open = FALSE]
  /\ UNCHANGED <<server, bound, job, meant, at, name, received, ret>>

\* writen(): some of the text is taken by the socket, and at last all of it.
Write ==
  /\ server = "answers" /\ at[job.client] = "recv"
  /\ \E k \in 1..job.text :
       /\ job' = [job EXCEPT !.text = @ - k]
       /\ wire' = [wire EXCEPT ![job.client].text = @ + k]
  /\ UNCHANGED <<server, bound, queue, meant, at, name, received, ret>>

\* A plausible error: a multiple of 256 is sent as it is.
StatusPlain(answer) ==
  IF answer = Passed THEN 0
  ELSE IF answer >= 0 THEN 1
  ELSE (-answer) % 256

\* buf[1]: send_err() makes errcode negative, and send_fd() the byte not 0.
Status(answer) ==
  IF answer = Passed THEN 0
  ELSE IF answer >= 0 \/ answer % 256 = 0 THEN 1
  ELSE (-answer) % 256

\* send_fd(): two bytes, the descriptor with them.
SendFd ==
  /\ server = "answers" /\ job.text = 0 /\ at[job.client] = "recv"
  /\ wire' = [wire EXCEPT ![job.client].tail = <<0, Status(meant[job.client].answer)>>]
  /\ server' = "answered"
  /\ UNCHANGED <<bound, queue, job, meant, at, name, received, ret>>

\* The answer is sent, or the client is no more: the server closes the
\* connection and goes on.
NextClient ==
  /\ server = "answered" \/ (server = "answers" /\ at[job.client] # "recv")
  /\ server' = "listens" /\ job' = Nothing
  /\ wire' = [wire EXCEPT ![job.client].open = FALSE]
  /\ UNCHANGED <<bound, queue, meant, at, name, received, ret>>

\* The kernel closes all connections, where what was sent can still be read;
\* the name of the server stays.
ServerDies ==
  /\ server # "down" /\ server' = "down" /\ bound' = "old"
  /\ queue' = << >> /\ job' = Nothing
  /\ wire' = [c \in Clients |->
                IF Answered(c) \/ Queued(c) THEN [wire[c] EXCEPT !.open = FALSE] ELSE wire[c]]
  /\ UNCHANGED <<meant, at, name, received, ret>>

-----------------------------------------------------------------------------
(* cli_conn() *)

Client(c, from, to) == at[c] = from /\ at' = [at EXCEPT ![c] = to]

\* A name left by an earlier process of this number is removed; the mode of the
\* new one comes from the umask.
Bind(c) ==
  /\ \/ Client(c, "start", "chmod") /\ name' = [name EXCEPT ![c] = "unfit"]
     \/ Client(c, "start", "failed") /\ name' = [name EXCEPT ![c] = "none"]
  /\ UNCHANGED <<server, bound, queue, job, meant, wire, received, ret>>

\* A plausible error: no do_unlink.
ChmodKept(c) ==
  /\ \/ Client(c, "chmod", "connect") /\ name' = [name EXCEPT ![c] = "private"]
     \/ Client(c, "chmod", "failed") /\ UNCHANGED name
  /\ UNCHANGED <<server, bound, queue, job, meant, wire, received, ret>>

Chmod(c) ==
  /\ \/ Client(c, "chmod", "connect") /\ name' = [name EXCEPT ![c] = "private"]
     \/ Client(c, "chmod", "failed") /\ name' = [name EXCEPT ![c] = "none"]
  /\ UNCHANGED <<server, bound, queue, job, meant, wire, received, ret>>

Connect(c) ==
  /\ \/ /\ server # "down" /\ Client(c, "connect", "recv")
        /\ queue' = Append(queue, c) /\ UNCHANGED name
     \/ /\ Client(c, "connect", "failed")
        /\ name' = [name EXCEPT ![c] = "none"] /\ UNCHANGED queue
  /\ UNCHANGED <<server, bound, job, meant, wire, received, ret>>

-----------------------------------------------------------------------------
(* recv_fd() *)

\* The bytes a recvmsg() gets: Nr of them, the last ones of the tail.
Waiting(c) == wire[c].text + Len(wire[c].tail)
Nr(c) == IF Waiting(c) < MAXLINE THEN Waiting(c) ELSE MAXLINE
TextRead(c) == IF wire[c].text < Nr(c) THEN wire[c].text ELSE Nr(c)

\* Text only: it is passed on.
RecvText(c) ==
  /\ at[c] = "recv" /\ Nr(c) > 0 /\ TextRead(c) = Nr(c)
  /\ wire' = [wire EXCEPT ![c].text = @ - Nr(c)]
  /\ received' = [received EXCEPT ![c] = @ + Nr(c)]
  /\ UNCHANGED <<server, bound, queue, job, meant, at, name, ret>>

\* The null byte is the last but one, and the descriptor came with status 0; else
\* err_dump(): the null byte may be the last one that fits.
RecvLast(c) ==
  LET status == wire[c].tail[2] IN
  /\ at[c] = "recv" /\ TextRead(c) < Nr(c)
  /\ IF Nr(c) - TextRead(c) = 2 /\ (status = 0 => meant[c].answer = Passed)
     THEN /\ at' = [at EXCEPT ![c] = "returned"]
          /\ ret' = [ret EXCEPT ![c] = IF status = 0 THEN Passed ELSE -status]
          /\ received' = [received EXCEPT ![c] = @ + TextRead(c)]
     ELSE at' = [at EXCEPT ![c] = "aborted"] /\ UNCHANGED <<received, ret>>
  /\ wire' = [wire EXCEPT ![c].text = 0, ![c].tail = << >>]
  /\ UNCHANGED <<server, bound, queue, job, meant, name>>

\* Nothing more comes: "connection closed by server", or an error.
RecvEnd(c) ==
  /\ Client(c, "recv", "closed") /\ ~wire[c].open /\ Nr(c) = 0
  /\ UNCHANGED <<server, bound, queue, job, meant, wire, name, received, ret>>

-----------------------------------------------------------------------------

Ended == {"failed", "returned", "aborted", "closed", "killed"}

\* What waits for it is lost.
Kill(c) ==
  /\ at[c] \notin Ended /\ at' = [at EXCEPT ![c] = "killed"]
  /\ wire' = [wire EXCEPT ![c].text = 0, ![c].tail = << >>]
  /\ UNCHANGED <<server, bound, queue, job, meant, name, received, ret>>

\* A client waits in the queue: half a minute passes, or somebody is at its name.
Disturb(c) ==
  /\ at[c] = "recv" /\ name[c] = "private"
  /\ \E n \in {"none", "unfit"} : name' = [name EXCEPT ![c] = n]
  /\ UNCHANGED <<server, bound, queue, job, meant, wire, at, received, ret>>

\* A later process of the same number, with a connection of its own.
Again(c) ==
  /\ at[c] \in Ended /\ ~Queued(c) /\ ~Answered(c)
  /\ at' = [at EXCEPT ![c] = "start"]
  /\ meant' = [meant EXCEPT ![c] = Nothing] /\ wire' = [wire EXCEPT ![c] = Silent]
  /\ received' = [received EXCEPT ![c] = 0] /\ ret' = [ret EXCEPT ![c] = Nothing]
  /\ UNCHANGED <<server, bound, queue, job, name>>

ServerStep == \/ Listen \/ Write \/ SendFd \/ NextClient
              \/ \E c \in Clients : Accept(c) \/ Refuse(c)
ClientStep(c) == \/ Bind(c) \/ Chmod(c) \/ Connect(c)
                 \/ RecvText(c) \/ RecvLast(c) \/ RecvEnd(c)

Next == \/ ServerStep \/ ListenFails \/ ServerDies
        \/ \E c \in Clients : ClientStep(c) \/ Kill(c) \/ Disturb(c) \/ Again(c)

(* The server runs and comes back, and every client runs.                  *)
Fairness == WF_vars(ServerStep) /\ \A c \in Clients : WF_vars(ClientStep(c))

Spec == Init /\ [][Next]_vars /\ Fairness

-----------------------------------------------------------------------------

TypeOK ==
  /\ server \in {"down", "listens", "answers", "answered"} /\ bound \in {"none", "old", "bound"}
  /\ \A i \in DOMAIN queue : queue[i] \in Clients
  /\ at \in [Clients -> {"start", "chmod", "connect", "recv"} \union Ended]
  /\ name \in [Clients -> {"none", "private", "unfit"}]
  /\ server \in {"answers", "answered"} <=> job # Nothing

\* A client that returns does so with what the server meant for it and all of
\* its text, whatever became of the server meanwhile: the descriptor, or minus
\* the low byte of the error, 1 for 0.  recv_fd() only gives up on a text that
\* may fill its buffer up to the null byte.
AnswerTrue ==
  \A c \in Clients :
    /\ at[c] = "returned" =>
         /\ meant[c] # Nothing /\ received[c] = meant[c].all
         /\ ret[c] = Passed <=> meant[c].answer = Passed
         /\ meant[c].answer # Passed =>
              /\ ret[c] \in -255..-1
              /\ \/ (ret[c] - meant[c].answer) % 256 = 0
                 \/ ret[c] = -1 /\ (meant[c].answer % 256 = 0 \/ meant[c].answer > 0)
    /\ at[c] = "aborted" => meant[c] # Nothing /\ meant[c].all >= MAXLINE - 1

\* No client leaves its name behind, unless it was killed, or the server ended
\* or refused it.
NamesGo ==
  \A c \in Clients : at[c] \in {"failed", "returned", "aborted"} => name[c] = "none"

\* Every call ends, also when the server dies in the middle and starts again.
CallsEnd == \A c \in Clients : []<>(at[c] \in Ended \union {"start"})
=============================================================================
