---------------------------- MODULE PlayersServer ----------------------------
(***************************************************************************)
(* esameSNP12/src/server.c: the main thread accepts clients and starts a   *)
(* thread for each; the threads keep a linked list of players and a set of *)
(* sockets, and one more thread sends the whole list to every socket of    *)
(* the set.  Nothing is locked.                                            *)
(*                                                                         *)
(* A step is one access to the memory the threads share.  A node that is   *)
(* freed keeps its next field until malloc() hands it out again (the       *)
(* allocator of glibc keeps its own data in the first 16 bytes, where the  *)
(* coordinates and the id are).  Where a player stands is PlayersMap's.    *)
(* Descriptors and threads are taken to suffice: main, which looks at      *)
(* nothing that accept() and pthread_create() return, waits here where     *)
(* they would fail.                                                        *)
(***************************************************************************)
EXTENDS Naturals, Sequences, FiniteSets

CONSTANTS
  Clients,  \* who may connect
  Fds,      \* descriptors accept() can return, the lowest free one first
  Watched,  \* how many of them the writer's select() and loop reach
  Threads,  \* threads that can serve clients at one time
  Nodes,    \* chunks malloc() can return for a player
  Spacings  \* what may come one at a time: "arrivals", "departures" or both

ASSUME PlayersAssumption ==
  /\ Fds \subseteq Nat \ {0} /\ Watched \in Nat /\ Threads \subseteq Nat
  /\ IsFiniteSet(Nodes) /\ 0 \notin Nodes
  /\ Spacings \subseteq SUBSET {"arrivals", "departures"}

Null == 0    \* no node
NoFd == 0

VARIABLES
  spaced,     \* which of the clients' arrivals and departures come one at a time
  con,        \* the connection of each client
  open,       \* the client behind each open descriptor
  main,       \* where the main thread stands
  newclient,  \* its variable, whose address the threads are given
  thr,        \* where each serving thread stands, and its variables
  players,    \* the head of the list
  mem,        \* the nodes
  master,     \* the sockets to send to
  w,          \* where the writer stands, and its variables
  alive       \* the process runs

net == <<spaced, con, open>>
listener == <<main, newclient>>
list == <<players, mem>>
vars == <<net, listener, thr, list, master, w, alive>>

Idle == [pc |-> "idle", sock |-> NoFd, node |-> Null, prev |-> Null, cur |-> Null, word |-> {}]

\* Where clients leave whenever they like the writer, who only reads, is left
\* out.
Init ==
  /\ spaced \in Spacings
  /\ con = [c \in Clients |-> "out"]
  /\ open = [f \in {} |-> NoFd]
  /\ main = "accept" /\ newclient = NoFd
  /\ thr = [t \in Threads |-> Idle]
  /\ players = Null
  /\ mem = [n \in Nodes |-> [id |-> NoFd, next |-> Null, live |-> FALSE]]
  /\ master = {}
  /\ w = [pc |-> IF "departures" \in spaced THEN "copy" ELSE "none", fds |-> {}, i |-> NoFd, p |-> Null]
  /\ alive = TRUE

-----------------------------------------------------------------------------
(* The clients.  One that leaves before it is accepted is no different, to *)
(* the server, from one that leaves just after.                            *)

\* Nobody is on the way in or out.
Quiet ==
  /\ main = "accept"
  /\ \A t \in Threads : thr[t].pc \in {"idle", "recv"}
  /\ \A c \in Clients : con[c] \in {"out", "open"}

Connect(c) ==
  /\ "arrivals" \in spaced => Quiet
  /\ con[c] = "out"
  /\ con' = [con EXCEPT ![c] = "queued"]
  /\ UNCHANGED <<spaced, open, listener, thr, list, master, w, alive>>

\* The key q, or the end of the client.
Leave(c) ==
  /\ "departures" \in spaced => Quiet
  /\ con[c] = "open"
  /\ con' = [con EXCEPT ![c] = "left"]
  /\ UNCHANGED <<spaced, open, listener, thr, list, master, w, alive>>

-----------------------------------------------------------------------------
(* The main thread. *)

FreeFds == Fds \ DOMAIN open

Lowest(S) == {n \in S : \A k \in S : n <= k}

Accept(c) ==
  /\ main = "accept" /\ con[c] = "queued"
  /\ \E f \in Lowest(FreeFds) :
       /\ newclient' = f
       /\ open' = [g \in DOMAIN open \union {f} |-> IF g = f THEN c ELSE open[g]]
  /\ con' = [con EXCEPT ![c] = "open"]
  /\ main' = "create"
  /\ UNCHANGED <<spaced, thr, list, master, w, alive>>

\* pthread_create(&tid, NULL, &thread_client, &newclient)
Create ==
  /\ main = "create"
  /\ \E t \in Lowest({u \in Threads : thr[u].pc = "idle"}) :
       thr' = [thr EXCEPT ![t].pc = "start"]
  /\ main' = "accept"
  /\ UNCHANGED <<net, newclient, list, master, w, alive>>

-----------------------------------------------------------------------------
(* A thread that serves a client, in add_player, in its loop and in        *)
(* delete_player.                                                          *)

\* Thread t passes the point from, with r for its variables.
Step(t, from, r) ==
  /\ thr[t].pc = from
  /\ thr' = [thr EXCEPT ![t] = r]
  /\ UNCHANGED <<spaced, open, listener, w>>

\* It only reads what others share.
Local(t, from, r) == Step(t, from, r) /\ UNCHANGED <<con, list, master, alive>>

OnList(t, from, r) == Step(t, from, r) /\ UNCHANGED <<con, master>>

\* int socket = *((int *) args);
Start(t) == Local(t, "start", [thr[t] EXCEPT !.pc = "malloc", !.sock = newclient])

Malloc(t) ==
  /\ \E n \in Nodes :
       /\ ~mem[n].live
       /\ mem' = [mem EXCEPT ![n] = [id |-> thr[t].sock, next |-> Null, live |-> TRUE]]
       /\ OnList(t, "malloc", [thr[t] EXCEPT !.pc = "add", !.node = n])
  /\ UNCHANGED <<players, alive>>

\* players is read for the test, and again for the loop.
AddTest(t) == Local(t, "add", [thr[t] EXCEPT !.pc = IF players = Null THEN "head" ELSE "first"])

AddHead(t) ==
  /\ OnList(t, "head", [thr[t] EXCEPT !.pc = "greet"])
  /\ players' = thr[t].node
  /\ UNCHANGED <<mem, alive>>

AddFirst(t) == Local(t, "first", [thr[t] EXCEPT !.pc = "walk", !.cur = players])

\* prev = current; current = current->next
Onward(r) == [r EXCEPT !.prev = r.cur, !.cur = mem[r.cur].next]

AddWalk(t) == thr[t].cur # Null /\ Local(t, "walk", Onward(thr[t]))

AddLink(t) ==
  /\ thr[t].cur = Null /\ thr[t].prev # Null
  /\ OnList(t, "walk", [thr[t] EXCEPT !.pc = "seal", !.prev = Null])
  /\ mem' = [mem EXCEPT ![thr[t].prev].next = thr[t].node]
  /\ UNCHANGED <<players, alive>>

\* The list became empty between test and loop: prev->next with prev NULL.
AddCrash(t) ==
  /\ thr[t].cur = Null /\ thr[t].prev = Null
  /\ OnList(t, "walk", thr[t])
  /\ alive' = FALSE
  /\ UNCHANGED list

\* current->next = NULL, once more, after the node is linked.
AddSeal(t) ==
  /\ OnList(t, "seal", [thr[t] EXCEPT !.pc = "greet"])
  /\ mem' = [mem EXCEPT ![thr[t].node].next = Null]
  /\ UNCHANGED <<players, alive>>

\* send() over descriptor f: nothing happens if it is closed; a client that
\* left resets the connection, and a later send() raises SIGPIPE.
Deliver(f) ==
  /\ alive' \in IF f \in DOMAIN open /\ con[open[f]] = "left" THEN BOOLEAN ELSE {TRUE}
  /\ UNCHANGED con

\* "your id:%d"
Greet(t) ==
  /\ Step(t, "greet", [thr[t] EXCEPT !.pc = "set"])
  /\ Deliver(thr[t].sock)
  /\ UNCHANGED <<list, master>>

\* FD_SET and FD_CLR read a word of the set and write it back.
ReadWord(t, from, to) == Local(t, from, [thr[t] EXCEPT !.pc = to, !.word = master])

WriteWord(t, from, to, word) ==
  /\ Step(t, from, [thr[t] EXCEPT !.pc = to, !.word = {}])
  /\ master' = word
  /\ UNCHANGED <<con, list, alive>>

SetWord(t) == WriteWord(t, "set word", "recv", thr[t].word \union {thr[t].sock})

\* recv() returns 0, after -1 if the connection was reset.  A key it returns
\* moves the player, which the variables here do not show.
RecvEnd(t) ==
  /\ thr[t].sock \in DOMAIN open /\ con[open[thr[t].sock]] = "left"
  /\ Local(t, "recv", [thr[t] EXCEPT !.pc = "clear"])

\* A plausible error: the socket stays in the set.
ClearWordDropped(t) == WriteWord(t, "clear word", "delete", master)

ClearWord(t) == WriteWord(t, "clear word", "delete", thr[t].word \ {thr[t].sock})

DeleteFirst(t) == Local(t, "delete", [thr[t] EXCEPT !.pc = "find", !.cur = players])

\* The id of a node that is freed may be what it was, or malloc()'s data.
Matches(t, n) ==
  IF mem[n].id # thr[t].sock THEN {FALSE} ELSE IF mem[n].live THEN {TRUE} ELSE BOOLEAN

DeletePass(t) ==
  /\ thr[t].cur # Null /\ FALSE \in Matches(t, thr[t].cur)
  /\ Local(t, "find", Onward(thr[t]))

\* A plausible error: the node is taken for the first.
DeleteUnlinkFirst(t) ==
  /\ thr[t].cur # Null /\ TRUE \in Matches(t, thr[t].cur)
  /\ OnList(t, "find", [thr[t] EXCEPT !.pc = "free"])
  /\ players' = mem[thr[t].cur].next
  /\ UNCHANGED <<mem, alive>>

DeleteUnlink(t) ==
  LET r == thr[t] IN
  /\ r.cur # Null /\ TRUE \in Matches(t, r.cur)
  /\ OnList(t, "find", [r EXCEPT !.pc = "free"])
  /\ IF r.prev = Null THEN players' = mem[r.cur].next /\ UNCHANGED mem
     ELSE mem' = [mem EXCEPT ![r.prev].next = mem[r.cur].next] /\ UNCHANGED players
  /\ UNCHANGED alive

\* free(current), where the allocator stops the process if it is free
\* already; then the loop goes on from the node just freed.
DeleteFree(t) ==
  /\ OnList(t, "free", [Onward(thr[t]) EXCEPT !.pc = "find"])
  /\ alive' = mem[thr[t].cur].live
  /\ mem' = [mem EXCEPT ![thr[t].cur].live = FALSE]
  /\ UNCHANGED players

\* A plausible error: the thread ends without close().
CloseForgotten(t) == thr[t].cur = Null /\ Local(t, "find", Idle)

\* close(socket) and the end of the thread.
Close(t) ==
  LET f == thr[t].sock IN
  /\ thr[t].pc = "find" /\ thr[t].cur = Null
  /\ thr' = [thr EXCEPT ![t] = Idle]
  /\ con' = IF f \in DOMAIN open THEN [con EXCEPT ![open[f]] = "out"] ELSE con
  /\ open' = [g \in DOMAIN open \ {f} |-> open[g]]
  /\ UNCHANGED <<spaced, listener, list, master, w, alive>>

Thread(t) ==
  \/ Start(t) \/ Malloc(t)
  \/ AddTest(t) \/ AddHead(t) \/ AddFirst(t) \/ AddWalk(t) \/ AddLink(t)
  \/ AddCrash(t) \/ AddSeal(t) \/ Greet(t)
  \/ ReadWord(t, "set", "set word") \/ SetWord(t)
  \/ RecvEnd(t)
  \/ ReadWord(t, "clear", "clear word") \/ ClearWord(t)
  \/ DeleteFirst(t) \/ DeletePass(t) \/ DeleteUnlink(t) \/ DeleteFree(t) \/ Close(t)

-----------------------------------------------------------------------------
(* The writer.  All clients read, so select() keeps every socket of the    *)
(* set: it fails, and changes nothing, when one of them is closed.         *)

Write(from, r) ==
  /\ w.pc = from /\ w' = r
  /\ UNCHANGED <<spaced, open, listener, thr, list, master>>

WriterCopy ==
  /\ Write("copy", [w EXCEPT !.pc = "next", !.fds = master \intersect 1..Watched])
  /\ UNCHANGED <<con, alive>>

\* The next socket of the set, and the head of the list; or the next round.
WriterNext ==
  /\ \/ w.fds = {} /\ Write("next", [w EXCEPT !.pc = "copy", !.i = NoFd])
     \/ \E f \in Lowest(w.fds) :
          Write("next", [pc |-> "list", fds |-> w.fds \ {f}, i |-> f, p |-> players])
  /\ UNCHANGED <<con, alive>>

WriterSend ==
  /\ w.p # Null
  /\ Write("list", [w EXCEPT !.pc = "sent"])
  /\ Deliver(w.i)

\* A plausible error: the list is not followed.
WriterOnwardNot ==
  /\ Write("sent", [w EXCEPT !.pc = "list", !.p = Null])
  /\ UNCHANGED <<con, alive>>

WriterOnward ==
  /\ Write("sent", [w EXCEPT !.pc = "list", !.p = mem[w.p].next])
  /\ UNCHANGED <<con, alive>>

WriterEnd ==
  /\ w.p = Null
  /\ Write("list", [w EXCEPT !.pc = "next"])
  /\ UNCHANGED <<con, alive>>

Writer == WriterCopy \/ WriterNext \/ WriterSend \/ WriterOnward \/ WriterEnd

-----------------------------------------------------------------------------

Next ==
  /\ alive
  /\ \/ \E c \in Clients : Connect(c) \/ Leave(c) \/ Accept(c)
     \/ Create \/ (\E t \in Threads : Thread(t)) \/ Writer

(* Every thread keeps running; clients come and go as they like.           *)
Fairness ==
  /\ WF_vars(alive /\ \E c \in Clients : Accept(c)) /\ WF_vars(alive /\ Create)
  /\ \A t \in Threads : WF_vars(alive /\ Thread(t))
  /\ WF_vars(alive /\ Writer)

Spec == Init /\ [][Next]_vars /\ Fairness

-----------------------------------------------------------------------------

Pointers == Nodes \union {Null}

TypeOK ==
  /\ con \in [Clients -> {"out", "queued", "open", "left"}]
  /\ DOMAIN open \subseteq Fds /\ \A f, g \in DOMAIN open : open[f] = open[g] => f = g
  /\ \A f \in DOMAIN open : open[f] \in Clients /\ con[open[f]] \in {"open", "left"}
  /\ main \in {"accept", "create"} /\ newclient \in Fds \union {NoFd}
  /\ players \in Pointers
  /\ mem \in [Nodes -> [id : Fds \union {NoFd}, next : Pointers, live : BOOLEAN]]
  /\ master \subseteq Fds

\* Where following next from players leads, for a number of nodes.
Walks ==
  LET n == Cardinality(Nodes)
  IN {s \in UNION {[1..k -> Nodes] : k \in 0..n} :
        \A k \in DOMAIN s : s[k] = IF k = 1 THEN players ELSE mem[s[k - 1]].next}

\* The nodes in the order of the list, as far as there are nodes.
Chain == CHOOSE s \in Walks : \A r \in Walks : Len(r) <= Len(s)

Ids == [k \in DOMAIN Chain |-> mem[Chain[k]].id]

\* Arrivals and departures both come one at a time.
Calm == {"arrivals", "departures"} \subseteq spaced

Abstract == INSTANCE PlayerList WITH Ids <- Fds, list <- Ids

\* README: whoever connects gets a node at the end of the list, and whoever
\* closes the connection has it removed: as long as nobody leaves while somebody
\* else comes or leaves.
Implements == Abstract!Init /\ [][Calm => Abstract!Next]_Ids

Serving == {t \in Threads : thr[t].pc = "recv"}

\* README: a node is freed when its client leaves, so once nobody is on the
\* way the memory in use is that of the players, and the updates go to them.
NothingLeft ==
  /\ TypeOK
  /\ Calm /\ alive /\ Quiet =>
       /\ {n \in Nodes : mem[n].live} = {thr[t].node : t \in Serving}
       /\ master = {thr[t].sock : t \in Serving} /\ master = DOMAIN open

\* The writer tells c where d is.
Telling(c, d) ==
  /\ w.pc = "sent" /\ w.i \in DOMAIN open /\ open[w.i] = c
  /\ mem[w.p].live /\ mem[w.p].id \in DOMAIN open /\ open[mem[w.p].id] = d

\* README: the position of each client is sent to all of them.  Once nobody
\* comes or leaves any more the writer tells everybody of everybody, again and
\* again, whatever it was left with by those who did.
Told ==
  <>[][UNCHANGED con]_vars
    => \A c, d \in Clients :
         []<>(~Calm \/ Telling(c, d) \/ con[c] # "open" \/ con[d] # "open" \/ ~alive)

\* README and exercise: each client has a thread of its own for its commands,
\* from the pthread_create that follows accept() to the close().
OwnThread ==
  /\ \A t, u \in Threads : thr[t].sock # NoFd /\ thr[t].sock = thr[u].sock => t = u
  /\ \A f \in DOMAIN open :
       \/ \E t \in Threads : thr[t].sock = f
       \/ newclient = f /\ (main = "create" \/ \E t \in Threads : thr[t].pc = "start")
  /\ \A t \in Threads : thr[t].sock # NoFd => thr[t].sock \in DOMAIN open
=============================================================================
