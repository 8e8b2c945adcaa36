---------------------------- MODULE PlayersProofs ----------------------------
(***************************************************************************)
(* Proofs about PlayersServer and PlayersMap.                              *)
(*                                                                         *)
(* PlayersServer: where arrivals are spaced each connection has one        *)
(* thread, whoever leaves meanwhile.  Where departures are spaced too the  *)
(* nodes that follow one another from players are a sequence with no node  *)
(* twice, which the steps of whoever comes or goes change as the README    *)
(* says: by one more at the end, or by one less.                           *)
(*                                                                         *)
(* PlayersMap: what is read of nodes in use and sent to a client says what *)
(* the coordinates of the players were, in the order they had them, and is *)
(* not older than the client's map.                                        *)
(***************************************************************************)
EXTENDS PlayersServer, PlayersMap, SequenceTheorems, FiniteSetTheorems, WellFoundedInduction, TLAPS

\* Where a thread stands while it adds its player, and while it removes it.
Adding == {"start", "malloc", "add", "head", "first", "walk", "seal", "greet", "set", "set word"}
Removing == {"clear", "clear word", "delete", "find", "free"}
Busy == Adding \union Removing
Away == {"idle", "start"}

Thr == [pc : Busy \union {"idle", "recv"}, sock : Fds \union {NoFd}, node : Pointers,
        prev : Pointers, cur : Pointers, word : SUBSET Fds]
Node == [id : Fds \union {NoFd}, next : Pointers, live : BOOLEAN]

\* A thread has its socket once it has started, and a node to free when it frees one.
Typed ==
  /\ TypeOK /\ spaced \in Spacings
  /\ thr \in [Threads -> Thr]
  /\ \A t \in Threads :
       /\ thr[t].sock = NoFd <=> thr[t].pc \in Away
       /\ thr[t].pc \in Away => thr[t] = [Idle EXCEPT !.pc = thr[t].pc]
       /\ thr[t].pc = "free" => thr[t].cur # Null
       /\ thr[t].pc = "start" => newclient # NoFd
  /\ main = "create" => newclient # NoFd

\* What the steps of a thread between its start and its close() have in common.
Turn(t, r) ==
  /\ thr[t].pc \notin Away /\ r.pc \notin Away /\ r.sock = thr[t].sock
  /\ r \in Thr /\ thr' = [thr EXCEPT ![t] = r]
  /\ r.pc = "free" => r.cur # Null
  /\ UNCHANGED <<spaced, open, main, newclient, w>>
  /\ con' = con /\ players' \in Pointers /\ mem' \in [Nodes -> Node] /\ master' \subseteq Fds

\* The types of one thread, and of what it points to.
LEMMA ThrTypes ==
  ASSUME Typed, NEW t \in Threads
  PROVE  /\ thr[t] \in Thr /\ thr \in [Threads -> Thr]
         /\ thr[t].sock \in Fds \union {NoFd} /\ thr[t].node \in Pointers
         /\ thr[t].cur \in Pointers /\ thr[t].prev \in Pointers /\ thr[t].word \subseteq Fds
         /\ thr[t].pc \in Busy \union {"idle", "recv"}
         /\ thr[t].pc \notin Away => thr[t].sock \in Fds
         /\ mem \in [Nodes -> Node] /\ players \in Pointers /\ master \subseteq Fds
         /\ thr[t].cur # Null => mem[thr[t].cur].next \in Pointers
BY DEF Typed, TypeOK, Thr, Pointers, Node

\* A step that leaves the memory alone.
LEMMA LocalTurn ==
  ASSUME Typed, NEW t \in Threads, NEW from, from \notin Away, NEW r \in Thr, Local(t, from, r),
         r.pc \notin Away, r.sock = thr[t].sock, r.pc = "free" => r.cur # Null
  PROVE  Turn(t, r)
BY ThrTypes DEF Local, Step, Turn, listener, list

\* A step that leaves the set alone.
LEMMA ListTurn ==
  ASSUME Typed, NEW t \in Threads, NEW from, from \notin Away, NEW r \in Thr, OnList(t, from, r),
         r.pc \notin Away, r.sock = thr[t].sock, r.pc = "free" => r.cur # Null,
         players' \in Pointers, mem' \in [Nodes -> Node]
  PROVE  Turn(t, r)
BY ThrTypes DEF OnList, Step, Turn, listener, list

\* Following next leads to a node or to none.
LEMMA OnwardTyped ==
  ASSUME Typed, NEW t \in Threads, thr[t].cur # Null
  PROVE  /\ Onward(thr[t]) \in Thr /\ Onward(thr[t]).sock = thr[t].sock /\ Onward(thr[t]).pc = thr[t].pc
         /\ Onward(thr[t]).node = thr[t].node /\ Onward(thr[t]).word = thr[t].word
         /\ Onward(thr[t]).prev = thr[t].cur /\ Onward(thr[t]).cur = mem[thr[t].cur].next
         /\ [Onward(thr[t]) EXCEPT !.pc = "find"] \in Thr
BY ThrTypes DEF Onward, Thr, Busy, Removing

\* A field of a node that is changed.
LEMMA NodeTyped ==
  ASSUME Typed, NEW n
  PROVE  /\ \A p \in Pointers : [mem EXCEPT ![n].next = p] \in [Nodes -> Node]
         /\ [mem EXCEPT ![n].live = FALSE] \in [Nodes -> Node]
<1>1. mem \in [Nodes -> Node]
  BY DEF Typed, TypeOK, Node
<1>2. CASE n \in Nodes
  BY <1>1, <1>2 DEF Node
<1>3. CASE n \notin Nodes
  BY <1>1, <1>3
<1> QED
  BY <1>2, <1>3

\* Each step of a thread is such a step, but the first and the last.
LEMMA TurnLemma ==
  ASSUME Typed, NEW t \in Threads, Thread(t)
  PROVE  Start(t) \/ Close(t) \/ \E r \in Thr : Turn(t, r)
<1> USE DEF Away, Busy, Adding, Removing
<1> DEFINE r0 == thr[t]
<1>1. r0 \in Thr /\ r0.sock \in Fds \union {NoFd}
  BY ThrTypes
<1>2. \A x \in {"head", "first", "greet", "set", "clear", "free"} :
         /\ [r0 EXCEPT !.pc = x] \in Thr /\ [r0 EXCEPT !.pc = x].pc = x
         /\ [r0 EXCEPT !.pc = x].sock = r0.sock /\ [r0 EXCEPT !.pc = x].cur = r0.cur
  BY <1>1 DEF Thr
<1>3. CASE Malloc(t)
  <2>1. PICK n \in Nodes : /\ mem' = [mem EXCEPT ![n] = [id |-> r0.sock, next |-> Null, live |-> TRUE]]
                           /\ OnList(t, "malloc", [r0 EXCEPT !.pc = "add", !.node = n])
    BY <1>3 DEF Malloc
  <2>2. [id |-> r0.sock, next |-> Null, live |-> TRUE] \in Node
    BY <1>1 DEF Node, Pointers
  <2>3. mem' \in [Nodes -> Node] /\ players' \in Pointers
    BY <1>3, <2>1, <2>2, ThrTypes DEF Malloc
  <2>4. [r0 EXCEPT !.pc = "add", !.node = n] \in Thr
    BY <1>1 DEF Thr, Pointers
  <2>5. [r0 EXCEPT !.pc = "add", !.node = n].pc = "add" /\ [r0 EXCEPT !.pc = "add", !.node = n].sock = r0.sock
    BY <1>1 DEF Thr
  <2> QED
    BY <2>1, <2>3, <2>4, <2>5, ListTurn
<1>4. CASE AddTest(t)
  <2> DEFINE x == IF players = Null THEN "head" ELSE "first"
  <2>1. x \in {"head", "first"}
    OBVIOUS
  <2>2. Local(t, "add", [r0 EXCEPT !.pc = x])
    BY <1>4 DEF AddTest
  <2> HIDE DEF x
  <2> QED
    BY <1>2, <2>1, <2>2, LocalTurn
<1>5. CASE AddHead(t)
  <2>1. OnList(t, "head", [r0 EXCEPT !.pc = "greet"]) /\ mem' \in [Nodes -> Node] /\ players' \in Pointers
    BY <1>5, ThrTypes DEF AddHead
  <2>2. [r0 EXCEPT !.pc = "greet"] \in Thr /\ [r0 EXCEPT !.pc = "greet"].pc = "greet"
        /\ [r0 EXCEPT !.pc = "greet"].sock = r0.sock
    BY <1>2
  <2> QED
    BY <2>1, <2>2, ListTurn
<1>6. CASE AddFirst(t)
  <2>1. [r0 EXCEPT !.pc = "walk", !.cur = players] \in Thr
    BY <1>1, ThrTypes DEF Thr
  <2>2. [r0 EXCEPT !.pc = "walk", !.cur = players].pc = "walk" /\ [r0 EXCEPT !.pc = "walk", !.cur = players].sock = r0.sock
    BY <1>1 DEF Thr
  <2> QED
    BY <1>6, <2>1, <2>2, LocalTurn DEF AddFirst
<1>7. CASE AddWalk(t)
  <2>1. r0.cur # Null /\ r0.pc = "walk" /\ Local(t, "walk", Onward(r0))
    BY <1>7 DEF AddWalk, Local, Step
  <2> QED
    BY <2>1, OnwardTyped, LocalTurn
<1>8. CASE AddLink(t)
  <2>1. [r0 EXCEPT !.pc = "seal", !.prev = Null] \in Thr
    BY <1>1 DEF Thr, Pointers
  <2>2. [r0 EXCEPT !.pc = "seal", !.prev = Null].pc = "seal" /\ [r0 EXCEPT !.pc = "seal", !.prev = Null].sock = r0.sock
    BY <1>1 DEF Thr
  <2>3. mem' \in [Nodes -> Node] /\ players' \in Pointers
    BY <1>8, ThrTypes, NodeTyped DEF AddLink
  <2> QED
    BY <1>8, <2>1, <2>2, <2>3, ListTurn DEF AddLink
<1>9. CASE AddCrash(t)
  <2>1. r0.pc = "walk" /\ OnList(t, "walk", r0) /\ UNCHANGED <<players, mem>>
    BY <1>9 DEF AddCrash, OnList, Step, list
  <2> QED
    BY <1>1, <2>1, ThrTypes, ListTurn
<1>10. CASE AddSeal(t)
  <2>1. mem' \in [Nodes -> Node] /\ players' \in Pointers
    BY <1>10, ThrTypes, NodeTyped DEF AddSeal, Pointers
  <2>2. [r0 EXCEPT !.pc = "greet"] \in Thr /\ [r0 EXCEPT !.pc = "greet"].pc = "greet"
        /\ [r0 EXCEPT !.pc = "greet"].sock = r0.sock
    BY <1>2
  <2>3. OnList(t, "seal", [r0 EXCEPT !.pc = "greet"])
    BY <1>10 DEF AddSeal
  <2> QED
    BY <2>1, <2>2, <2>3, ListTurn
<1>11. CASE Greet(t)
  <2>1. Step(t, "greet", [r0 EXCEPT !.pc = "set"]) /\ UNCHANGED <<con, players, mem, master>>
    BY <1>11 DEF Greet, Deliver, list
  <2>2. [r0 EXCEPT !.pc = "set"] \in Thr /\ [r0 EXCEPT !.pc = "set"].pc = "set"
        /\ [r0 EXCEPT !.pc = "set"].sock = r0.sock
    BY <1>2
  <2>3. Turn(t, [r0 EXCEPT !.pc = "set"])
    BY <2>1, <2>2, ThrTypes DEF Step, Turn, listener
  <2> QED
    BY <2>2, <2>3
<1>12. ASSUME NEW from \in {"set", "clear"}, NEW to \in {"set word", "clear word"}, ReadWord(t, from, to)
       PROVE  \E r \in Thr : Turn(t, r)
  <2>1. Local(t, from, [r0 EXCEPT !.pc = to, !.word = master])
    BY <1>12 DEF ReadWord
  <2>2. [r0 EXCEPT !.pc = to, !.word = master] \in Thr
    BY <1>1, ThrTypes DEF Thr
  <2>3. [r0 EXCEPT !.pc = to, !.word = master].pc = to /\ [r0 EXCEPT !.pc = to, !.word = master].sock = r0.sock
    BY <1>1 DEF Thr
  <2> QED
    BY <2>1, <2>2, <2>3, LocalTurn
<1>13. ASSUME NEW from \in {"set word", "clear word"}, NEW to \in {"recv", "delete"}, NEW word,
              word \subseteq Fds, WriteWord(t, from, to, word)
       PROVE  \E r \in Thr : Turn(t, r)
  <2>1. [r0 EXCEPT !.pc = to, !.word = {}] \in Thr
    BY <1>1 DEF Thr
  <2>2. [r0 EXCEPT !.pc = to, !.word = {}].pc = to /\ [r0 EXCEPT !.pc = to, !.word = {}].sock = r0.sock
    BY <1>1 DEF Thr
  <2>3. /\ r0.pc = from /\ thr' = [thr EXCEPT ![t] = [r0 EXCEPT !.pc = to, !.word = {}]]
        /\ UNCHANGED <<spaced, open, main, newclient, w, con, players, mem>> /\ master' = word
    BY <1>13 DEF WriteWord, Step, listener, list
  <2> QED
    BY <1>13, <2>1, <2>2, <2>3, ThrTypes DEF Turn
<1>14. CASE SetWord(t)
  <2>1. r0.pc = "set word"
    BY <1>14 DEF SetWord, WriteWord, Step
  <2>2. r0.word \union {r0.sock} \subseteq Fds
    BY <2>1, ThrTypes
  <2> QED
    BY <1>13, <1>14, <2>2 DEF SetWord
<1>15. CASE ClearWord(t)
  <2>1. r0.word \ {r0.sock} \subseteq Fds
    BY ThrTypes
  <2> QED
    BY <1>13, <1>15, <2>1 DEF ClearWord
<1>16. CASE RecvEnd(t)
  <2>1. Local(t, "recv", [r0 EXCEPT !.pc = "clear"])
    BY <1>16 DEF RecvEnd
  <2>2. [r0 EXCEPT !.pc = "clear"] \in Thr /\ [r0 EXCEPT !.pc = "clear"].pc = "clear"
        /\ [r0 EXCEPT !.pc = "clear"].sock = r0.sock
    BY <1>2
  <2> QED
    BY <2>1, <2>2, LocalTurn
<1>17. CASE DeleteFirst(t)
  <2>1. [r0 EXCEPT !.pc = "find", !.cur = players] \in Thr
    BY <1>1, ThrTypes DEF Thr
  <2>2. [r0 EXCEPT !.pc = "find", !.cur = players].pc = "find" /\ [r0 EXCEPT !.pc = "find", !.cur = players].sock = r0.sock
    BY <1>1 DEF Thr
  <2> QED
    BY <1>17, <2>1, <2>2, LocalTurn DEF DeleteFirst
<1>18. CASE DeletePass(t)
  <2>1. r0.cur # Null /\ r0.pc = "find" /\ Local(t, "find", Onward(r0))
    BY <1>18 DEF DeletePass, Local, Step
  <2> QED
    BY <2>1, OnwardTyped, LocalTurn
<1>19. CASE DeleteUnlink(t)
  <2>1. r0.cur # Null /\ OnList(t, "find", [r0 EXCEPT !.pc = "free"])
    BY <1>19 DEF DeleteUnlink
  <2>2. mem[r0.cur].next \in Pointers
    BY <2>1, ThrTypes
  <2>3. mem' \in [Nodes -> Node] /\ players' \in Pointers
    <3>1. CASE r0.prev = Null
      <4>1. players' = mem[r0.cur].next /\ mem' = mem
        BY <1>19, <3>1 DEF DeleteUnlink
      <4> QED
        BY <2>2, <4>1, ThrTypes
    <3>2. CASE r0.prev # Null
      <4>1. mem' = [mem EXCEPT ![r0.prev].next = mem[r0.cur].next] /\ players' = players
        BY <1>19, <3>2 DEF DeleteUnlink
      <4> QED
        BY <2>2, <4>1, ThrTypes, NodeTyped
    <3> QED
      BY <3>1, <3>2
  <2>4. [r0 EXCEPT !.pc = "free"] \in Thr /\ [r0 EXCEPT !.pc = "free"].pc = "free"
        /\ [r0 EXCEPT !.pc = "free"].sock = r0.sock /\ [r0 EXCEPT !.pc = "free"].cur # Null
    BY <1>2, <2>1
  <2> QED
    BY <2>1, <2>3, <2>4, ListTurn
<1>20. CASE DeleteFree(t)
  <2>1. r0.pc = "free" /\ OnList(t, "free", [Onward(r0) EXCEPT !.pc = "find"])
    BY <1>20 DEF DeleteFree, OnList, Step
  <2>2. r0.cur # Null
    BY <2>1 DEF Typed
  <2>3. /\ [Onward(r0) EXCEPT !.pc = "find"].pc = "find" /\ [Onward(r0) EXCEPT !.pc = "find"].sock = r0.sock
        /\ [Onward(r0) EXCEPT !.pc = "find"] \in Thr
    BY <2>2, OnwardTyped DEF Thr
  <2>4. mem' \in [Nodes -> Node] /\ players' \in Pointers
    BY <1>20, ThrTypes, NodeTyped DEF DeleteFree
  <2> QED
    BY <2>1, <2>3, <2>4, ListTurn
<1>21. CASE ReadWord(t, "set", "set word") \/ ReadWord(t, "clear", "clear word")
  BY <1>12, <1>21
<1> QED
  BY <1>3, <1>4, <1>5, <1>6, <1>7, <1>8, <1>9, <1>10, <1>11, <1>14, <1>15, <1>16, <1>17,
     <1>18, <1>19, <1>20, <1>21 DEF Thread

-----------------------------------------------------------------------------
(* Types *)

\* Nothing has been used.
LEMMA TypedInit == Init => Typed
<1> SUFFICES ASSUME Init PROVE Typed
  OBVIOUS
<1>1. Idle \in Thr /\ Idle.pc = "idle" /\ Idle.sock = NoFd /\ Idle = [Idle EXCEPT !.pc = "idle"]
  BY DEF Idle, Thr, Pointers, Busy
<1>2. TypeOK
  BY DEF Init, TypeOK, Pointers
<1>3. thr \in [Threads -> Thr] /\ \A t \in Threads : thr[t] = Idle
  BY <1>1 DEF Init
<1> QED
  BY <1>1, <1>2, <1>3 DEF Init, Typed, Away

\* Those of a thread between its start and its close().
LEMMA TypedTurn ==
  ASSUME Typed, NEW t \in Threads, NEW r \in Thr, Turn(t, r)
  PROVE  Typed'
<1>1. TypeOK'
  BY DEF Typed, TypeOK, Turn, Node
<1>2. thr' \in [Threads -> Thr] /\ thr'[t] = r /\ \A u \in Threads : u # t => thr'[u] = thr[u]
  BY DEF Typed, Turn
<1>3. ASSUME NEW u \in Threads
      PROVE  /\ thr'[u].sock = NoFd <=> thr'[u].pc \in Away
             /\ thr'[u].pc \in Away => thr'[u] = [Idle EXCEPT !.pc = thr'[u].pc]
             /\ thr'[u].pc = "free" => thr'[u].cur # Null
             /\ thr'[u].pc = "start" => newclient' # NoFd
  <2>1. CASE u # t
    BY <1>2, <2>1 DEF Typed, Turn
  <2>2. CASE u = t
    BY <1>2, <2>2 DEF Typed, Turn, Away
  <2> QED
    BY <2>1, <2>2
<1> QED
  BY <1>1, <1>2, <1>3 DEF Typed, Turn

\* accept() returns a descriptor that is not in use.
LEMMA AcceptFacts ==
  ASSUME Typed, NEW c \in Clients, Accept(c)
  PROVE  /\ newclient' \in Fds /\ newclient' \notin DOMAIN open
         /\ open' = [g \in DOMAIN open \union {newclient'} |-> IF g = newclient' THEN c ELSE open[g]]
         /\ con' = [con EXCEPT ![c] = "open"] /\ con[c] = "queued"
         /\ main = "accept" /\ main' = "create"
         /\ UNCHANGED <<spaced, thr, players, mem, master, w>>
BY DEF Accept, Lowest, FreeFds, list

\* A thread that is idle is given to the client that was accepted.
LEMMA CreateFacts ==
  ASSUME Typed, Create
  PROVE  /\ main = "create" /\ main' = "accept"
         /\ UNCHANGED <<spaced, con, open, newclient, players, mem, master, w>>
         /\ \E t \in Threads : /\ thr[t] = Idle
                               /\ thr' = [thr EXCEPT ![t] = [Idle EXCEPT !.pc = "start"]]
<1>1. PICK t \in Threads : thr[t].pc = "idle" /\ thr' = [thr EXCEPT ![t] = [thr[t] EXCEPT !.pc = "start"]]
  BY DEF Create, Lowest
<1>2. thr[t] = Idle
  BY <1>1 DEF Typed, Away, Idle
<1> QED
  BY <1>1, <1>2 DEF Create, net, list

\* A thread that starts reads the descriptor of its client.
LEMMA StartFacts ==
  ASSUME Typed, NEW t \in Threads, Start(t)
  PROVE  /\ thr[t].pc = "start" /\ newclient \in Fds
         /\ thr' = [thr EXCEPT ![t] = [Idle EXCEPT !.pc = "malloc", !.sock = newclient]]
         /\ UNCHANGED <<spaced, con, open, main, newclient, players, mem, master, w>>
<1>1. thr[t].pc = "start" /\ thr' = [thr EXCEPT ![t] = [thr[t] EXCEPT !.pc = "malloc", !.sock = newclient]]
  BY DEF Start, Local, Step
<1>2. thr[t] = [Idle EXCEPT !.pc = "start"] /\ newclient \in Fds
  BY <1>1 DEF Typed, TypeOK, Away
<1> QED
  BY <1>1, <1>2 DEF Start, Local, Step, listener, list, Idle

\* close() frees the descriptor, and with it the client.
LEMMA CloseFacts ==
  ASSUME Typed, NEW t \in Threads, Close(t)
  PROVE  /\ thr[t].pc = "find" /\ thr[t].cur = Null /\ thr[t].sock \in Fds
         /\ thr' = [thr EXCEPT ![t] = Idle]
         /\ con' = IF thr[t].sock \in DOMAIN open THEN [con EXCEPT ![open[thr[t].sock]] = "out"] ELSE con
         /\ open' = [g \in DOMAIN open \ {thr[t].sock} |-> open[g]]
         /\ UNCHANGED <<spaced, main, newclient, players, mem, master, w>>
BY ThrTypes DEF Close, listener, list, Away

\* The writer changes nothing that others read.
LEMMA WriterFacts ==
  ASSUME Writer
  PROVE  UNCHANGED <<spaced, con, open, main, newclient, thr, players, mem, master>>
BY DEF Writer, WriterCopy, WriterNext, WriterSend, WriterOnward, WriterEnd, Write, Deliver, listener, list

\* The types, whatever step is taken.
LEMMA TypedStep == Typed /\ [Next]_vars => Typed'
<1> SUFFICES ASSUME Typed, [Next]_vars PROVE Typed'
  OBVIOUS
<1>1. CASE UNCHANGED vars
  BY <1>1 DEF vars, net, listener, list, Typed, TypeOK
<1>2. ASSUME NEW c \in Clients, Connect(c) \/ Leave(c) PROVE Typed'
  <2>1. UNCHANGED <<spaced, open, main, newclient, thr, players, mem, master>>
    BY <1>2 DEF Connect, Leave, listener, list
  <2>2. (con' = [con EXCEPT ![c] = "queued"] /\ con[c] = "out") \/ con' = [con EXCEPT ![c] = "left"]
    BY <1>2 DEF Connect, Leave
  <2>3. TypeOK'
    BY <2>1, <2>2 DEF Typed, TypeOK
  <2> QED
    BY <2>1, <2>3 DEF Typed
<1>3. ASSUME NEW c \in Clients, Accept(c) PROVE Typed'
  <2>1. \A f \in DOMAIN open : open[f] # c
    BY <1>3, AcceptFacts DEF Typed, TypeOK
  <2>2. TypeOK'
    BY <1>3, <2>1, AcceptFacts DEF Typed, TypeOK
  <2>3. newclient' # NoFd
    BY <1>3, AcceptFacts, PlayersAssumption DEF NoFd
  <2> QED
    BY <1>3, <2>2, <2>3, AcceptFacts DEF Typed
<1>4. CASE Create
  <2>1. PICK t \in Threads : thr[t] = Idle /\ thr' = [thr EXCEPT ![t] = [Idle EXCEPT !.pc = "start"]]
    BY <1>4, CreateFacts
  <2>2. TypeOK'
    BY <1>4, CreateFacts DEF Typed, TypeOK
  <2>3. /\ [Idle EXCEPT !.pc = "start"] \in Thr /\ [Idle EXCEPT !.pc = "start"].pc = "start"
        /\ [Idle EXCEPT !.pc = "start"].sock = NoFd
        /\ [Idle EXCEPT !.pc = "start"] = [Idle EXCEPT !.pc = [Idle EXCEPT !.pc = "start"].pc]
    BY DEF Idle, Thr, Pointers, Busy, Adding
  <2>4. newclient' # NoFd
    BY <1>4, CreateFacts DEF Typed
  <2>5. thr' \in [Threads -> Thr]
    BY <2>1, <2>3 DEF Typed
  <2>6. thr'[t] = [Idle EXCEPT !.pc = "start"] /\ \A u \in Threads : u # t => thr'[u] = thr[u]
    BY <2>1 DEF Typed
  <2> HIDE DEF Idle
  <2> QED
    BY <1>4, <2>2, <2>3, <2>4, <2>5, <2>6, CreateFacts DEF Typed, Away
<1>5. ASSUME NEW t \in Threads, Start(t) PROVE Typed'
  <2> DEFINE r == [Idle EXCEPT !.pc = "malloc", !.sock = newclient]
  <2>1. newclient \in Fds /\ newclient # NoFd
    BY <1>5, StartFacts, PlayersAssumption DEF NoFd
  <2>2. r \in Thr /\ r.pc = "malloc" /\ r.sock = newclient
    BY <2>1 DEF Idle, Thr, Pointers, Busy, Adding
  <2> HIDE DEF r
  <2>3. thr' = [thr EXCEPT ![t] = r]
    BY <1>5, StartFacts DEF r
  <2>4. thr' \in [Threads -> Thr] /\ thr'[t] = r /\ \A u \in Threads : u # t => thr'[u] = thr[u]
    BY <2>2, <2>3 DEF Typed
  <2>5. TypeOK'
    BY <1>5, StartFacts DEF Typed, TypeOK
  <2> QED
    BY <1>5, <2>1, <2>2, <2>4, <2>5, StartFacts DEF Typed, Away
<1>6. ASSUME NEW t \in Threads, Close(t) PROVE Typed'
  <2> DEFINE f == thr[t].sock
  <2>1. Idle \in Thr /\ Idle.pc = "idle" /\ Idle.sock = NoFd /\ Idle = [Idle EXCEPT !.pc = Idle.pc]
    BY DEF Idle, Thr, Pointers, Busy
  <2>2. thr' \in [Threads -> Thr] /\ thr'[t] = Idle /\ \A u \in Threads : u # t => thr'[u] = thr[u]
    <3>1. thr \in [Threads -> Thr] /\ thr' = [thr EXCEPT ![t] = Idle]
      BY <1>6, CloseFacts DEF Typed
    <3> HIDE DEF Idle
    <3> QED
      BY <2>1, <3>1
  <2>3. TypeOK'
    <3>1. /\ con \in [Clients -> {"out", "queued", "open", "left"}]
          /\ DOMAIN open \subseteq Fds /\ \A g, h \in DOMAIN open : open[g] = open[h] => g = h
          /\ \A g \in DOMAIN open : open[g] \in Clients /\ con[open[g]] \in {"open", "left"}
      BY DEF Typed, TypeOK
    <3>2. /\ open' = [g \in DOMAIN open \ {f} |-> open[g]] /\ UNCHANGED <<main, newclient, players, mem, master>>
          /\ con' = IF f \in DOMAIN open THEN [con EXCEPT ![open[f]] = "out"] ELSE con
      BY <1>6, CloseFacts
    <3>3. DOMAIN open' = DOMAIN open \ {f} /\ \A g \in DOMAIN open' : open'[g] = open[g]
      BY <3>2
    <3>4. con' \in [Clients -> {"out", "queued", "open", "left"}]
      BY <3>1, <3>2
    <3>5. ASSUME NEW g \in DOMAIN open' PROVE con'[open[g]] = con[open[g]]
      <4>1. g \in DOMAIN open /\ g # f
        BY <3>3
      <4>2. f \in DOMAIN open => open[g] # open[f] /\ open[g] \in Clients
        BY <3>1, <4>1
      <4> QED
        BY <3>1, <3>2, <4>2
    <3> HIDE DEF f
    <3>6. DOMAIN open' \subseteq Fds /\ (\A g, h \in DOMAIN open' : open'[g] = open'[h] => g = h)
      BY <3>1, <3>3
    <3>7. \A g \in DOMAIN open' : open'[g] \in Clients /\ con'[open'[g]] \in {"open", "left"}
      BY <3>1, <3>3, <3>5
    <3> QED
      BY <3>2, <3>4, <3>6, <3>7 DEF Typed, TypeOK
  <2> HIDE DEF Idle
  <2>4. spaced' = spaced /\ main' = main /\ newclient' = newclient
    BY <1>6, CloseFacts
  <2>5. ASSUME NEW u \in Threads
        PROVE  /\ thr'[u].sock = NoFd <=> thr'[u].pc \in Away
               /\ thr'[u].pc \in Away => thr'[u] = [Idle EXCEPT !.pc = thr'[u].pc]
               /\ thr'[u].pc = "free" => thr'[u].cur # Null
               /\ thr'[u].pc = "start" => newclient' # NoFd
    <3>1. CASE u = t
      BY <2>1, <2>2, <3>1 DEF Away
    <3>2. CASE u # t
      BY <2>2, <2>4, <3>2 DEF Typed
    <3> QED
      BY <3>1, <3>2
  <2>6. main' = "create" => newclient' # NoFd
    BY <2>4 DEF Typed
  <2>7. spaced' \in Spacings
    BY <2>4 DEF Typed
  <2> QED
    BY <2>2, <2>3, <2>5, <2>6, <2>7 DEF Typed
<1>7. ASSUME NEW t \in Threads, Thread(t) PROVE Typed'
  BY <1>5, <1>6, <1>7, TurnLemma, TypedTurn
<1>8. CASE Writer
  BY <1>8, WriterFacts DEF Typed, TypeOK
<1> QED
  BY <1>1, <1>2, <1>3, <1>4, <1>7, <1>8 DEF Next

-----------------------------------------------------------------------------
(* A thread for each connection *)

\* The socket that was accepted is read by the one thread that starts.
HandOver ==
  main = "create" \/ (\E t \in Threads : thr[t].pc = "start")
    => newclient \in DOMAIN open /\ \A t \in Threads : thr[t].sock # newclient

\* One arrival at a time.
OneArrival ==
  /\ \A c, d \in Clients : con[c] = "queued" /\ con[d] = "queued" => c = d
  /\ \A t, u \in Threads : thr[t].pc = "start" /\ thr[u].pc = "start" => t = u
  /\ \A t \in Threads : thr[t].pc = "start" => main = "accept"
  /\ \A c \in Clients : con[c] = "queued" =>
       main = "accept" /\ \A t \in Threads : thr[t].pc # "start"

Arrivals == OwnThread /\ HandOver /\ OneArrival

ArrivalInv == Typed /\ ("arrivals" \in spaced => Arrivals)

\* Nobody has come.
LEMMA ArrivalInit == Init => ArrivalInv
BY TypedInit DEF Init, ArrivalInv, Arrivals, OwnThread, HandOver, OneArrival, Idle

\* No step gives a socket to two threads, or leaves one without.
LEMMA ArrivalStep == ArrivalInv /\ [Next]_vars => ArrivalInv'
<1> SUFFICES ASSUME ArrivalInv, [Next]_vars, "arrivals" \in spaced' PROVE Arrivals'
  BY TypedStep DEF ArrivalInv
<1>1. Typed /\ Typed' /\ NoFd \notin Fds
  BY TypedStep, PlayersAssumption DEF ArrivalInv, NoFd
<1>2. spaced' = spaced
  BY DEF Next, vars, net, Connect, Leave, Accept, Create, Thread, Start, Malloc, AddTest, AddHead, AddFirst, AddWalk, AddLink,
         AddCrash, AddSeal, Greet, ReadWord, SetWord, WriteWord, RecvEnd, ClearWord, DeleteFirst, DeletePass,
         DeleteUnlink, DeleteFree, Close, Local, OnList, Step, Writer, WriterCopy, WriterNext, WriterSend,
         WriterOnward, WriterEnd, Write
<1>3. OwnThread /\ HandOver /\ OneArrival
  BY <1>2 DEF ArrivalInv, Arrivals
<1>4. \A t \in Threads : thr[t].sock = NoFd <=> thr[t].pc \in Away
  BY <1>1 DEF Typed
<1>5. \A t \in Threads : thr'[t].sock = NoFd <=> thr'[t].pc \in Away
  BY <1>1 DEF Typed
<1>6. CASE UNCHANGED vars
  BY <1>6, <1>3 DEF vars, net, listener, Arrivals, OwnThread, HandOver, OneArrival
<1>7. ASSUME NEW c \in Clients, Connect(c) PROVE Arrivals'
  <2>1. Quiet /\ UNCHANGED <<spaced, open, main, newclient, thr>> /\ con' = [con EXCEPT ![c] = "queued"]
    BY <1>7, <1>2 DEF Connect, listener
  <2>2. /\ main = "accept" /\ \A t \in Threads : thr[t].pc # "start"
        /\ \A d \in Clients : con[d] # "queued"
    BY <2>1 DEF Quiet
  <2>3. con \in [Clients -> {"out", "queued", "open", "left"}]
    BY <1>1 DEF Typed, TypeOK
  <2>4. \A d \in Clients : con'[d] = "queued" => d = c
    BY <2>1, <2>2, <2>3
  <2> QED
    BY <1>3, <2>1, <2>2, <2>4 DEF Arrivals, OwnThread, HandOver, OneArrival
<1>8. ASSUME NEW c \in Clients, Leave(c) PROVE Arrivals'
  <2>1. UNCHANGED <<open, main, newclient, thr>> /\ con' = [con EXCEPT ![c] = "left"]
    BY <1>8 DEF Leave, listener
  <2>2. \A d \in Clients : con'[d] = "queued" => con[d] = "queued"
    BY <1>1, <2>1 DEF Typed, TypeOK
  <2> QED
    BY <1>3, <2>1, <2>2 DEF Arrivals, OwnThread, HandOver, OneArrival
<1>9. ASSUME NEW c \in Clients, Accept(c) PROVE Arrivals'
  <2>1. /\ newclient' \notin DOMAIN open /\ con' = [con EXCEPT ![c] = "open"] /\ con[c] = "queued"
        /\ thr' = thr /\ DOMAIN open' = DOMAIN open \union {newclient'} /\ main' = "create" /\ newclient' \in Fds
    BY <1>1, <1>9, AcceptFacts
  <2>2. /\ \A d \in Clients : con'[d] # "queued"
        /\ \A t \in Threads : thr[t].pc # "start"
    BY <1>1, <1>3, <2>1 DEF Typed, TypeOK, OneArrival
  <2>3. \A t \in Threads : thr[t].sock # newclient'
    BY <1>1, <1>3, <2>1 DEF OwnThread
  <2>4. OwnThread'
    <3>1. ASSUME NEW f \in DOMAIN open PROVE \E t \in Threads : thr[t].sock = f
      <4>1. main = "accept"
        BY <1>1, <1>9, AcceptFacts
      <4> QED
        BY <1>3, <2>2, <4>1 DEF OwnThread
    <3> QED
      BY <1>3, <2>1, <3>1 DEF OwnThread
  <2> QED
    BY <2>1, <2>2, <2>3, <2>4 DEF Arrivals, HandOver, OneArrival
<1>10. CASE Create
  <2>1. PICK t \in Threads : thr[t] = Idle /\ thr' = [thr EXCEPT ![t] = [Idle EXCEPT !.pc = "start"]]
    BY <1>1, <1>10, CreateFacts
  <2>2. /\ main = "create" /\ main' = "accept" /\ UNCHANGED <<con, open, newclient>>
    BY <1>1, <1>10, CreateFacts
  <2>3. /\ thr'[t].pc = "start" /\ thr'[t].sock = NoFd /\ thr[t].sock = NoFd
        /\ \A u \in Threads : u # t => thr'[u] = thr[u]
    BY <1>1, <2>1 DEF Typed, Idle
  <2>4. \A u \in Threads : thr'[u].sock = thr[u].sock
    BY <2>3
  <2>5. newclient \in DOMAIN open /\ \A u \in Threads : thr[u].sock # newclient
    BY <1>3, <2>2 DEF HandOver
  <2>6. /\ \A u \in Threads : thr[u].pc # "start"
        /\ \A c \in Clients : con[c] # "queued"
    BY <1>3, <2>2 DEF OneArrival
  <2>7. OwnThread'
    BY <1>3, <2>2, <2>3, <2>4 DEF OwnThread
  <2> QED
    BY <2>2, <2>3, <2>4, <2>5, <2>6, <2>7 DEF Arrivals, HandOver, OneArrival
<1>11. ASSUME NEW t \in Threads, Start(t) PROVE Arrivals'
  <2>1. /\ thr[t].pc = "start" /\ thr' = [thr EXCEPT ![t] = [Idle EXCEPT !.pc = "malloc", !.sock = newclient]]
        /\ UNCHANGED <<con, open, main, newclient>>
    BY <1>1, <1>11, StartFacts
  <2>2. /\ thr'[t].pc = "malloc" /\ thr'[t].sock = newclient
        /\ \A u \in Threads : u # t => thr'[u] = thr[u]
    BY <1>1, <2>1 DEF Typed, Idle
  <2>3. newclient \in DOMAIN open /\ \A u \in Threads : thr[u].sock # newclient
    BY <1>3, <2>1 DEF HandOver
  <2>4. \A u \in Threads : u # t => thr[u].pc # "start"
    BY <1>3, <2>1 DEF OneArrival
  <2>5. main = "accept"
    BY <1>3, <2>1 DEF OneArrival
  <2>6. \A u \in Threads : thr'[u].pc # "start"
    BY <2>2, <2>4
  <2>7. thr[t].sock = NoFd
    BY <1>4, <2>1 DEF Away
  <2>8. OwnThread'
    <3>1. \A u, v \in Threads : thr'[u].sock # NoFd /\ thr'[u].sock = thr'[v].sock => u = v
      BY <1>3, <2>2, <2>3 DEF OwnThread
    <3>2. \A f \in DOMAIN open : \E u \in Threads : thr'[u].sock = f
      <4> SUFFICES ASSUME NEW f \in DOMAIN open PROVE \E u \in Threads : thr'[u].sock = f
        OBVIOUS
      <4>1. CASE newclient = f
        BY <2>2, <4>1
      <4>2. CASE newclient # f
        <5>1. PICK u \in Threads : thr[u].sock = f
          BY <1>3, <4>2 DEF OwnThread
        <5>2. f \in Fds
          BY <1>1 DEF Typed, TypeOK
        <5>3. u # t
          BY <1>1, <2>7, <5>1, <5>2
        <5> QED
          BY <2>2, <5>1, <5>3
      <4> QED
        BY <4>1, <4>2
    <3>3. \A u \in Threads : thr'[u].sock # NoFd => thr'[u].sock \in DOMAIN open
      BY <1>3, <2>2, <2>3 DEF OwnThread
    <3> QED
      BY <2>1, <3>1, <3>2, <3>3 DEF OwnThread
  <2> QED
    BY <1>3, <2>1, <2>5, <2>6, <2>8 DEF Arrivals, HandOver, OneArrival
<1>12. ASSUME NEW t \in Threads, Close(t) PROVE Arrivals'
  <2>1. /\ thr[t].pc = "find" /\ thr[t].sock \in Fds /\ thr' = [thr EXCEPT ![t] = Idle]
        /\ DOMAIN open' = DOMAIN open \ {thr[t].sock} /\ main' = main /\ newclient' = newclient
    BY <1>1, <1>12, CloseFacts
  <2>2. \A c \in Clients : con'[c] = "queued" => con[c] = "queued"
    <3>1. con' = con \/ \E d \in Clients : con' = [con EXCEPT ![d] = "out"]
      BY <1>1, <1>12, CloseFacts DEF Typed, TypeOK
    <3> QED
      BY <1>1, <3>1 DEF Typed, TypeOK
  <2>3. /\ thr'[t].pc = "idle" /\ thr'[t].sock = NoFd
        /\ \A u \in Threads : u # t => thr'[u] = thr[u]
    BY <1>1, <2>1 DEF Typed, Idle
  <2>4. \A u \in Threads : thr'[u].pc = "start" <=> thr[u].pc = "start"
    BY <2>1, <2>3
  <2>5. \A u \in Threads : u # t => thr[u].sock # thr[t].sock
    BY <1>1, <1>3, <2>1 DEF OwnThread
  <2>6. OwnThread'
    <3>1. \A u, v \in Threads : thr'[u].sock # NoFd /\ thr'[u].sock = thr'[v].sock => u = v
      BY <1>3, <2>3 DEF OwnThread
    <3>2. \A u \in Threads : thr'[u].sock # NoFd => thr'[u].sock \in DOMAIN open'
      BY <1>3, <2>1, <2>3, <2>5 DEF OwnThread
    <3>3. ASSUME NEW f \in DOMAIN open'
          PROVE  \/ \E u \in Threads : thr'[u].sock = f
                 \/ newclient = f /\ (main = "create" \/ \E u \in Threads : thr'[u].pc = "start")
      <4>1. f \in DOMAIN open /\ f # thr[t].sock
        BY <2>1
      <4>2. CASE \E u \in Threads : thr[u].sock = f
        BY <2>3, <4>1, <4>2
      <4>3. CASE newclient = f /\ (main = "create" \/ \E u \in Threads : thr[u].pc = "start")
        BY <2>4, <4>3
      <4> QED
        BY <1>3, <4>1, <4>2, <4>3 DEF OwnThread
    <3> QED
      BY <2>1, <3>1, <3>2, <3>3 DEF OwnThread
  <2>7. HandOver'
    <3> SUFFICES ASSUME main = "create" \/ (\E u \in Threads : thr[u].pc = "start")
                 PROVE  newclient \in DOMAIN open' /\ \A u \in Threads : thr'[u].sock # newclient
      BY <2>1, <2>4 DEF HandOver
    <3>1. newclient \in DOMAIN open /\ \A u \in Threads : thr[u].sock # newclient
      BY <1>3 DEF HandOver
    <3>2. newclient \in Fds
      BY <1>1, <3>1 DEF Typed, TypeOK
    <3> QED
      BY <1>1, <2>1, <2>3, <3>1, <3>2
  <2>8. OneArrival'
    BY <1>3, <2>1, <2>2, <2>4 DEF OneArrival
  <2> QED
    BY <2>6, <2>7, <2>8 DEF Arrivals
<1>13. ASSUME NEW t \in Threads, NEW r \in Thr, Turn(t, r) PROVE Arrivals'
  <2>1. \A u \in Threads : thr'[u].sock = thr[u].sock /\ (thr'[u].pc = "start" <=> thr[u].pc = "start")
    BY <1>1, <1>13 DEF Turn, Typed, Away
  <2>2. UNCHANGED <<con, open, main, newclient>>
    BY <1>13 DEF Turn
  <2> QED
    BY <1>3, <2>1, <2>2 DEF Arrivals, OwnThread, HandOver, OneArrival
<1>14. CASE Writer
  BY <1>3, <1>14, WriterFacts DEF Arrivals, OwnThread, HandOver, OneArrival
<1>15. ASSUME NEW t \in Threads, Thread(t) PROVE Arrivals'
  BY <1>1, <1>11, <1>12, <1>13, <1>15, TurnLemma
<1> QED
  BY <1>6, <1>7, <1>8, <1>9, <1>10, <1>14, <1>15 DEF Next

\* Where nobody comes before the one before is served, each connection has one
\* thread and each thread a connection of its own, whoever leaves meanwhile.
THEOREM OwnThreadHolds == Spec => []("arrivals" \in spaced => OwnThread)
<1>1. ArrivalInv => ("arrivals" \in spaced => OwnThread)
  BY DEF ArrivalInv, Arrivals
<1> QED
  BY <1>1, ArrivalInit, ArrivalStep, PTL DEF Spec

-----------------------------------------------------------------------------
(* The list, where clients come and leave one at a time *)

Moving == {c \in Clients : con[c] \in {"queued", "left"}}

\* One arrival or departure at a time.
OneAtATime ==
  /\ \A c, d \in Moving : c = d
  /\ \A t, u \in Threads : thr[t].pc \in Busy /\ thr[u].pc \in Busy => t = u
  /\ main = "create" => Moving = {} /\ \A t \in Threads : thr[t].pc \notin Busy
  /\ \A t \in Threads :
       /\ thr[t].pc \in Busy => \A c \in Clients : con[c] # "queued"
       /\ thr[t].pc \in Adding => Moving = {}
       /\ thr[t].pc \in Removing => con[open[thr[t].sock]] = "left"

Served == {"recv", "clear", "clear word"}

\* The set has the sockets of those who are served, and between the reading and
\* the writing of a word of it nobody else writes.
MasterTrue ==
  /\ master = {thr[t].sock : t \in {u \in Threads : thr[u].pc \in Served}}
  /\ \A t \in Threads : thr[t].pc \in {"set word", "clear word"} => thr[t].word = master

HasNode(t) == thr[t].pc \notin {"idle", "start", "malloc"}

\* Each thread has its node, and a node in use has its thread.
Owners ==
  /\ \A t \in Threads : HasNode(t) =>
       /\ thr[t].node \in Nodes
       /\ thr[t].pc = "find" \/ mem[thr[t].node].live
       /\ mem[thr[t].node].live => mem[thr[t].node].id = thr[t].sock
  /\ \A t, u \in Threads : HasNode(t) /\ HasNode(u) /\ thr[t].node = thr[u].node => t = u
  /\ \A n \in Nodes : mem[n].live => \E t \in Threads : HasNode(t) /\ thr[t].node = n

Linked(t) ==
  /\ HasNode(t) /\ mem[thr[t].node].live
  /\ thr[t].pc \notin {"add", "head", "first", "walk", "free"}

\* s is the list.
IsList(s) ==
  /\ s \in Seq(Nodes)
  /\ players = IF s = <<>> THEN Null ELSE s[1]
  /\ \A i \in 1..Len(s) : mem[s[i]].next = IF i = Len(s) THEN Null ELSE s[i + 1]
  /\ \A i, j \in 1..Len(s) : s[i] = s[j] => i = j
  /\ \A i \in 1..Len(s) : \E t \in Threads : Linked(t) /\ thr[t].node = s[i]
  /\ \A t \in Threads : Linked(t) => \E i \in 1..Len(s) : thr[t].node = s[i]

\* Thread t looks at place i of s.
At(t, s, i) ==
  /\ thr[t].cur = IF i <= Len(s) THEN s[i] ELSE Null
  /\ thr[t].prev = IF i = 1 THEN Null ELSE s[i - 1]

\* Where a thread has come in s.
InWalk(t, s) ==
  /\ thr[t].pc \notin {"walk", "find", "free"} => thr[t].prev = Null
  /\ thr[t].pc \in {"add", "head", "first", "walk"} => mem[thr[t].node].next = Null
  /\ thr[t].pc = "head" => s = <<>>
  /\ thr[t].pc \in {"first", "walk"} => s # <<>>
  /\ thr[t].pc = "walk" => \E i \in 1..(Len(s) + 1) : At(t, s, i)
  /\ thr[t].pc = "seal" => s # <<>> /\ thr[t].node = s[Len(s)]
  /\ thr[t].pc = "find" /\ mem[thr[t].node].live =>
       \E i, j \in 1..Len(s) : At(t, s, i) /\ thr[t].node = s[j] /\ i <= j
  /\ thr[t].pc = "free" =>
       thr[t].cur = thr[t].node /\ mem[thr[t].node].next \in {s[i] : i \in 1..Len(s)} \union {Null}
  /\ thr[t].pc = "find" /\ ~mem[thr[t].node].live =>
       thr[t].cur \in {s[i] : i \in 1..Len(s)} \union {Null}

Listed(s) == IsList(s) /\ \A t \in Threads : InWalk(t, s)

Ready(s) == ArrivalInv /\ Calm /\ OneAtATime /\ MasterTrue /\ Owners /\ Listed(s)

Without(s, k) == SubSeq(s, 1, k - 1) \o SubSeq(s, k + 1, Len(s))

\* A node that is in use comes to the end of the list, or one leaves it.
Evolves(s, z) ==
  \/ z = s
  \/ \E n \in Nodes : mem[n].live /\ (\A i \in 1..Len(s) : s[i] # n) /\ z = Append(s, n)
  \/ \E k \in 1..Len(s) : z = Without(s, k)

After(s) ==
  /\ OneAtATime' /\ MasterTrue' /\ Owners' /\ \E z : Listed(z)' /\ Evolves(s, z)
  /\ \A n \in Nodes : mem[n].live => mem'[n].id = mem[n].id

\* What is known of each thread.
LEMMA ReadyFacts ==
  ASSUME NEW s, Ready(s)
  PROVE  /\ Typed /\ OwnThread /\ HandOver /\ OneArrival /\ "arrivals" \in spaced
         /\ Null \notin Nodes /\ NoFd \notin Fds
BY PlayersAssumption DEF Ready, ArrivalInv, Arrivals, Calm, Null, NoFd

\* While one thread comes or goes the others wait.
LEMMA OthersWait ==
  ASSUME NEW s, Ready(s), NEW t \in Threads, thr[t].pc \in Busy, NEW u \in Threads, u # t
  PROVE  thr[u].pc \in {"idle", "recv"}
BY ReadyFacts, ThrTypes DEF Ready, OneAtATime

\* A thread goes on as it began, to the recv() or to the close().
Proceeds(t, r) ==
  \/ thr[t].pc \in Adding /\ r.pc \in Adding \union {"recv"}
  \/ thr[t].pc \in Removing /\ r.pc \in Removing
  \/ thr[t].pc = "recv" /\ r.pc = "clear" /\ con[open[thr[t].sock]] = "left"

\* The values of one thread after such a step, and of the others.
LEMMA TurnFacts ==
  ASSUME Typed, NEW t \in Threads, NEW r \in Thr, Turn(t, r)
  PROVE  /\ thr'[t] = r /\ \A u \in Threads : u # t => thr'[u] = thr[u]
         /\ UNCHANGED <<spaced, con, open, main, newclient>>
         /\ r.pc \notin Away /\ thr[t].pc \notin Away /\ r.sock = thr[t].sock
BY DEF Typed, Turn

LEMMA OneAtATimeTurn ==
  ASSUME NEW s, Ready(s), NEW t \in Threads, NEW r \in Thr, Turn(t, r), Proceeds(t, r)
  PROVE  OneAtATime' /\ \A u \in Threads : u # t => thr[u].pc \in {"idle", "recv"}
<1>1. /\ thr'[t] = r /\ \A u \in Threads : u # t => thr'[u] = thr[u]
      /\ UNCHANGED <<spaced, con, open, main, newclient>>
      /\ r.pc \notin Away /\ thr[t].pc \notin Away /\ r.sock = thr[t].sock
  BY ReadyFacts, TurnFacts
<1>2. OneAtATime
  BY DEF Ready
<1>3. \A u \in Threads : u # t => thr[u].pc \in {"idle", "recv"}
  <2>1. CASE thr[t].pc \in Busy
    BY <2>1, OthersWait
  <2>2. CASE thr[t].pc = "recv" /\ con[open[thr[t].sock]] = "left"
    <3> SUFFICES ASSUME NEW u \in Threads, u # t, thr[u].pc \in Busy PROVE FALSE
      BY ReadyFacts, ThrTypes
    <3>1. thr[t].sock \in DOMAIN open /\ thr[t].sock # NoFd
      BY <1>1, ReadyFacts, ThrTypes DEF OwnThread
    <3>2. open[thr[t].sock] \in Moving
      BY <2>2, <3>1, ReadyFacts DEF Moving, Typed, TypeOK
    <3>3. thr[u].pc \in Removing
      BY <1>2, <3>2 DEF OneAtATime, Busy
    <3>4. con[open[thr[u].sock]] = "left" /\ thr[u].pc \notin Away
      BY <1>2, <3>3 DEF OneAtATime, Removing, Away
    <3>5. thr[u].sock \in DOMAIN open
      BY <3>4, ReadyFacts, ThrTypes DEF OwnThread
    <3>6. open[thr[u].sock] \in Moving
      BY <3>4, <3>5, ReadyFacts DEF Moving, Typed, TypeOK
    <3>7. open[thr[u].sock] = open[thr[t].sock]
      BY <1>2, <3>2, <3>6 DEF OneAtATime
    <3>8. thr[u].sock = thr[t].sock
      BY <3>1, <3>5, <3>7, ReadyFacts DEF Typed, TypeOK
    <3> QED
      BY <3>1, <3>8, ReadyFacts DEF OwnThread
  <2> QED
    BY <2>1, <2>2 DEF Proceeds, Busy
<1>4. Moving' = Moving
  BY <1>1 DEF Moving
<1>5. \A u \in Threads : u # t => thr'[u].pc \notin Busy
  BY <1>1, <1>3 DEF Busy, Adding, Removing
<1>6. r.pc \in Busy => main # "create" /\ \A c \in Clients : con[c] # "queued"
  <2>1. CASE thr[t].pc \in Busy
    BY <1>2, <2>1 DEF OneAtATime
  <2>2. CASE thr[t].pc = "recv" /\ con[open[thr[t].sock]] = "left"
    <3>1. thr[t].sock \in DOMAIN open
      BY <1>1, ReadyFacts, ThrTypes DEF OwnThread
    <3>2. open[thr[t].sock] \in Moving
      BY <2>2, <3>1, ReadyFacts DEF Moving, Typed, TypeOK
    <3>3. \A c \in Clients : con[c] = "queued" => c = open[thr[t].sock]
      BY <1>2, <3>2 DEF OneAtATime, Moving
    <3> QED
      BY <1>2, <2>2, <3>2, <3>3 DEF OneAtATime
  <2> QED
    BY <2>1, <2>2 DEF Proceeds, Busy
<1>7. r.pc \in Adding => Moving = {}
  BY <1>2 DEF OneAtATime, Proceeds, Adding, Removing
<1>8. r.pc \in Removing => con[open[r.sock]] = "left"
  BY <1>1, <1>2 DEF OneAtATime, Proceeds, Adding, Removing
<1>9. main = "create" => Moving = {} /\ r.pc \notin Busy
  BY <1>2, <1>6 DEF OneAtATime
<1>10. OneAtATime'
  <2>1. \A c, d \in Moving' : c = d
    BY <1>2, <1>4 DEF OneAtATime
  <2>2. \A u, v \in Threads : thr'[u].pc \in Busy /\ thr'[v].pc \in Busy => u = v
    BY <1>5
  <2>3. main' = "create" => Moving' = {} /\ \A u \in Threads : thr'[u].pc \notin Busy
    BY <1>1, <1>4, <1>5, <1>9
  <2>4. ASSUME NEW u \in Threads
        PROVE  /\ thr'[u].pc \in Busy => \A c \in Clients : con'[c] # "queued"
               /\ thr'[u].pc \in Adding => Moving' = {}
               /\ thr'[u].pc \in Removing => con'[open'[thr'[u].sock]] = "left"
    BY <1>1, <1>4, <1>5, <1>6, <1>7, <1>8 DEF Busy
  <2> QED
    BY <2>1, <2>2, <2>3, <2>4 DEF OneAtATime
<1> QED
  BY <1>3, <1>10

\* The set stays true so long as nobody comes into it or leaves it.
LEMMA MasterTurn ==
  ASSUME NEW s, Ready(s), NEW t \in Threads, NEW r \in Thr, Turn(t, r), master' = master,
         r.pc \in Served <=> thr[t].pc \in Served,
         r.pc \in {"set word", "clear word"} => r.word = master
  PROVE  MasterTrue'
<1>1. thr'[t] = r /\ (\A u \in Threads : u # t => thr'[u] = thr[u]) /\ r.sock = thr[t].sock
  BY ReadyFacts, TurnFacts
<1>2. \A u \in Threads : thr'[u].sock = thr[u].sock /\ (thr'[u].pc \in Served <=> thr[u].pc \in Served)
  BY <1>1
<1>3. MasterTrue
  BY DEF Ready
<1>4. {thr'[u].sock : u \in {v \in Threads : thr'[v].pc \in Served}} = {thr[u].sock : u \in {v \in Threads : thr[v].pc \in Served}}
  BY <1>2
<1>5. \A u \in Threads : thr'[u].pc \in {"set word", "clear word"} => thr'[u].word = master
  BY <1>1, <1>3 DEF MasterTrue
<1> QED
  BY <1>3, <1>4, <1>5 DEF MasterTrue

\* Nothing is allocated or freed, and no thread takes or gives up its node.
LEMMA OwnersTurn ==
  ASSUME NEW s, Ready(s), NEW t \in Threads, NEW r \in Thr, Turn(t, r), r.node = thr[t].node,
         HasNode(t), r.pc # "malloc", thr[t].pc = "find" => r.pc = "find",
         \A n \in Nodes : mem'[n].live = mem[n].live /\ mem'[n].id = mem[n].id
  PROVE  /\ Owners' /\ \A u \in Threads : thr'[u].node = thr[u].node /\ (HasNode(u)' <=> HasNode(u))
         /\ \A n \in Nodes : mem[n].live => mem'[n].id = mem[n].id
<1>1. /\ thr'[t] = r /\ (\A u \in Threads : u # t => thr'[u] = thr[u]) /\ r.sock = thr[t].sock
      /\ r.pc \notin Away
  BY ReadyFacts, TurnFacts
<1>2. \A u \in Threads : /\ thr'[u].sock = thr[u].sock /\ thr'[u].node = thr[u].node
                         /\ (HasNode(u)' <=> HasNode(u)) /\ (thr[u].pc = "find" => thr'[u].pc = "find")
  BY <1>1 DEF HasNode, Away
<1>3. Owners
  BY DEF Ready
<1>4. ASSUME NEW u \in Threads, HasNode(u)
      PROVE  /\ thr'[u].node \in Nodes
             /\ thr'[u].pc = "find" \/ mem'[thr'[u].node].live
             /\ mem'[thr'[u].node].live => mem'[thr'[u].node].id = thr'[u].sock
  BY <1>2, <1>3, <1>4 DEF Owners
<1>5. \A u, v \in Threads : HasNode(u) /\ HasNode(v) /\ thr'[u].node = thr'[v].node => u = v
  BY <1>2, <1>3 DEF Owners
<1>6. \A n \in Nodes : mem'[n].live => \E u \in Threads : HasNode(u) /\ thr'[u].node = n
  BY <1>2, <1>3 DEF Owners
<1> QED
  BY <1>2, <1>4, <1>5, <1>6 DEF Owners

\* A thread that waits has not come anywhere.
LEMMA WaitingPlace ==
  ASSUME NEW u \in Threads, NEW z, thr[u].pc \in {"idle", "recv"}
  PROVE  InWalk(u, z) <=> thr[u].prev = Null
BY DEF InWalk

\* The others are where they were.
LEMMA PlaceOthers ==
  ASSUME NEW s, Ready(s), NEW t \in Threads, \A u \in Threads : u # t => thr'[u] = thr[u],
         \A u \in Threads : u # t => thr[u].pc \in {"idle", "recv"}
  PROVE  \A z : \A u \in Threads : u # t => InWalk(u, z)'
<1> SUFFICES ASSUME NEW z, NEW u \in Threads, u # t PROVE InWalk(u, z)'
  OBVIOUS
<1>1. thr'[u] = thr[u] /\ thr[u].pc \in {"idle", "recv"}
  OBVIOUS
<1>2. InWalk(u, s)
  BY DEF Ready, Listed
<1>3. thr[u].prev = Null
  BY <1>1, <1>2, WaitingPlace
<1> QED
  BY <1>1, <1>3 DEF InWalk

\* The list stays while nothing of it is written.
LEMMA ListTurns ==
  ASSUME NEW s, Ready(s), NEW t \in Threads, UNCHANGED <<players, mem>>,
         \A u \in Threads : thr'[u].node = thr[u].node,
         \A u \in Threads : Linked(u)' <=> Linked(u)
  PROVE  IsList(s)'
<1>1. IsList(s)
  BY DEF Ready, Listed
<1>2. \A i \in 1..Len(s) : \E u \in Threads : Linked(u)' /\ thr'[u].node = s[i]
  BY <1>1 DEF IsList
<1>3. \A u \in Threads : Linked(u)' => \E i \in 1..Len(s) : thr'[u].node = s[i]
  BY <1>1 DEF IsList
<1> QED
  BY <1>1, <1>2, <1>3 DEF IsList

\* A step that writes neither the list nor the set.
LEMMA LocalCalm ==
  ASSUME NEW s, Ready(s), NEW t \in Threads, NEW r \in Thr, Turn(t, r), Proceeds(t, r),
         UNCHANGED <<players, mem>>, MasterTrue', r.node = thr[t].node,
         HasNode(t), r.pc # "malloc", thr[t].pc = "find" => r.pc = "find",
         r.pc \in {"add", "head", "first", "walk", "free"} <=> thr[t].pc \in {"add", "head", "first", "walk", "free"},
         InWalk(t, s)'
  PROVE  After(s)
<1>1. /\ thr'[t] = r /\ (\A u \in Threads : u # t => thr'[u] = thr[u]) /\ r.sock = thr[t].sock
      /\ r.pc \notin Away
  BY ReadyFacts, TurnFacts
<1>2. OneAtATime' /\ \A u \in Threads : u # t => thr[u].pc \in {"idle", "recv"}
  BY OneAtATimeTurn
<1>3. /\ Owners' /\ \A u \in Threads : thr'[u].node = thr[u].node /\ (HasNode(u)' <=> HasNode(u))
      /\ \A n \in Nodes : mem[n].live => mem'[n].id = mem[n].id
  BY OwnersTurn
<1>4. \A u \in Threads : Linked(u)' <=> Linked(u)
  <2> SUFFICES ASSUME NEW u \in Threads PROVE Linked(u)' <=> Linked(u)
    OBVIOUS
  <2>1. CASE u = t
    BY <1>1, <1>3, <2>1 DEF Linked
  <2>2. CASE u # t
    BY <1>1, <1>3, <2>2 DEF Linked
  <2> QED
    BY <2>1, <2>2
<1>5. IsList(s)'
  BY <1>3, <1>4, ListTurns
<1>6. \A u \in Threads : InWalk(u, s)'
  BY <1>1, <1>2, PlaceOthers
<1>7. Listed(s)'
  BY <1>5, <1>6 DEF Listed
<1> QED
  BY <1>2, <1>3, <1>7 DEF After, Evolves

\* The list as numbers and places.
LEMMA ListFacts ==
  ASSUME NEW s, Ready(s)
  PROVE  /\ s \in Seq(Nodes) /\ Len(s) \in Nat /\ \A i \in 1..Len(s) : s[i] \in Nodes /\ s[i] # Null
         /\ s = <<>> <=> Len(s) = 0
         /\ s = <<>> <=> players = Null
         /\ s # <<>> => players = s[1] /\ 1 \in 1..Len(s) /\ Len(s) \in 1..Len(s)
         /\ IsList(s) /\ \A t \in Threads : InWalk(t, s)
<1>1. IsList(s) /\ (\A t \in Threads : InWalk(t, s)) /\ s \in Seq(Nodes)
  BY DEF Ready, Listed, IsList
<1>2. Len(s) \in Nat /\ (s = <<>> <=> Len(s) = 0) /\ \A i \in 1..Len(s) : s[i] \in Nodes
  BY <1>1, EmptySeq, LenProperties, ElementOfSeq
<1>3. s # <<>> => 1 \in 1..Len(s) /\ Len(s) \in 1..Len(s)
  BY <1>2
<1>4. players = IF s = <<>> THEN Null ELSE s[1]
  BY <1>1 DEF IsList
<1> QED
  BY <1>1, <1>2, <1>3, <1>4, ReadyFacts

\* What a thread becomes that takes a step.
LEMMA StepFacts ==
  ASSUME Typed, NEW t \in Threads, NEW from, NEW q, Step(t, from, q)
  PROVE  thr[t].pc = from /\ thr'[t] = q
BY DEF Typed, Step

\* A step of a thread in its middle.
LEMMA TurnThere ==
  ASSUME NEW s, Ready(s), NEW t \in Threads, Thread(t), ~Start(t), ~Close(t)
  PROVE  \E r \in Thr : Turn(t, r) /\ thr'[t] = r
BY ReadyFacts, TurnLemma, TurnFacts

\* players is read for the test ...
LEMMA AddTestCalm == ASSUME NEW s, Ready(s), NEW t \in Threads, AddTest(t) PROVE After(s)
<1>1. PICK x \in {"head", "first"} : /\ Local(t, "add", [thr[t] EXCEPT !.pc = x])
                                     /\ x = "head" <=> players = Null
  BY DEF AddTest
<1>2. thr[t].pc = "add" /\ thr'[t] = [thr[t] EXCEPT !.pc = x] /\ UNCHANGED <<players, mem, master>>
  BY <1>1, ReadyFacts, StepFacts DEF Local, list
<1>3. ~Start(t) /\ ~Close(t)
  BY <1>2 DEF Start, Local, Step, Close
<1>4. PICK r \in Thr : Turn(t, r) /\ thr'[t] = r
  BY <1>3, TurnThere DEF Thread
<1>5. r.pc = x /\ r.node = thr[t].node /\ r.prev = thr[t].prev
  BY <1>2, <1>4, ReadyFacts, ThrTypes DEF Thr
<1>6. InWalk(t, s)
  BY ListFacts
<1>7. InWalk(t, s)'
  BY <1>1, <1>2, <1>4, <1>5, <1>6, ListFacts DEF InWalk
<1>8. MasterTrue'
  BY <1>2, <1>4, <1>5, MasterTurn DEF Served
<1> QED
  BY <1>2, <1>4, <1>5, <1>7, <1>8, LocalCalm DEF Proceeds, Adding, HasNode

\* ... and again for the loop.
LEMMA AddFirstCalm == ASSUME NEW s, Ready(s), NEW t \in Threads, AddFirst(t) PROVE After(s)
<1>1. Local(t, "first", [thr[t] EXCEPT !.pc = "walk", !.cur = players])
  BY DEF AddFirst
<1>2. /\ thr[t].pc = "first" /\ thr'[t] = [thr[t] EXCEPT !.pc = "walk", !.cur = players]
      /\ UNCHANGED <<players, mem, master>>
  BY <1>1, ReadyFacts, StepFacts DEF Local, list
<1>3. ~Start(t) /\ ~Close(t)
  BY <1>2 DEF Start, Local, Step, Close
<1>4. PICK r \in Thr : Turn(t, r) /\ thr'[t] = r
  BY <1>3, TurnThere DEF Thread
<1>5. r.pc = "walk" /\ r.node = thr[t].node /\ r.prev = thr[t].prev /\ r.cur = players
  BY <1>2, <1>4, ReadyFacts, ThrTypes DEF Thr
<1>6. InWalk(t, s) /\ s # <<>> /\ thr[t].prev = Null
  BY <1>2, ListFacts DEF InWalk
<1>7. At(t, s, 1)'
  BY <1>4, <1>5, <1>6, ListFacts DEF At
<1>8. 1 \in 1..(Len(s) + 1)
  BY ListFacts
<1>9. InWalk(t, s)'
  BY <1>2, <1>4, <1>5, <1>6, <1>7, <1>8 DEF InWalk
<1>10. MasterTrue'
  BY <1>2, <1>4, <1>5, MasterTurn DEF Served
<1> QED
  BY <1>2, <1>4, <1>5, <1>9, <1>10, LocalCalm DEF Proceeds, Adding, HasNode

\* One place on: from a node of the list to the next one, or past the end.
LEMMA OnwardAt ==
  ASSUME NEW s, Ready(s), NEW t \in Threads, NEW i \in 1..(Len(s) + 1), At(t, s, i), thr[t].cur # Null
  PROVE  /\ i \in 1..Len(s) /\ i + 1 \in 1..(Len(s) + 1) /\ thr[t].cur = s[i]
         /\ mem[thr[t].cur].next = IF i + 1 <= Len(s) THEN s[i + 1] ELSE Null
<1>1. i \in 1..Len(s) /\ i + 1 \in 1..(Len(s) + 1) /\ (i = Len(s) <=> ~(i + 1 <= Len(s)))
  BY ListFacts DEF At
<1>2. thr[t].cur = s[i]
  BY <1>1 DEF At
<1>3. mem[s[i]].next = IF i = Len(s) THEN Null ELSE s[i + 1]
  BY <1>1, ListFacts DEF IsList
<1> QED
  BY <1>1, <1>2, <1>3

\* The walk to the end.
LEMMA AddWalkCalm == ASSUME NEW s, Ready(s), NEW t \in Threads, AddWalk(t) PROVE After(s)
<1>1. Local(t, "walk", Onward(thr[t])) /\ thr[t].cur # Null
  BY DEF AddWalk
<1>2. thr[t].pc = "walk" /\ thr'[t] = Onward(thr[t]) /\ UNCHANGED <<players, mem, master>>
  BY <1>1, ReadyFacts, StepFacts DEF Local, list
<1>3. ~Start(t) /\ ~Close(t)
  BY <1>2 DEF Start, Local, Step, Close
<1>4. PICK r \in Thr : Turn(t, r) /\ thr'[t] = r
  BY <1>3, TurnThere DEF Thread
<1>5. r.pc = "walk" /\ r.node = thr[t].node /\ r.prev = thr[t].cur /\ r.cur = mem[thr[t].cur].next
  BY <1>1, <1>2, <1>4, ReadyFacts, OnwardTyped
<1>6. InWalk(t, s) /\ s # <<>>
  BY <1>2, ListFacts DEF InWalk
<1>7. PICK i \in 1..(Len(s) + 1) : At(t, s, i)
  BY <1>2, <1>6 DEF InWalk
<1>8. /\ i \in 1..Len(s) /\ i + 1 \in 1..(Len(s) + 1) /\ thr[t].cur = s[i]
      /\ mem[thr[t].cur].next = IF i + 1 <= Len(s) THEN s[i + 1] ELSE Null
  BY <1>1, <1>7, OnwardAt
<1>9. At(t, s, i + 1)'
  <2>1. i + 1 # 1 /\ (i + 1) - 1 = i
    BY <1>8
  <2> QED
    BY <1>4, <1>5, <1>8, <2>1 DEF At
<1>10. InWalk(t, s)'
  BY <1>2, <1>4, <1>5, <1>6, <1>8, <1>9 DEF InWalk
<1>11. MasterTrue'
  BY <1>2, <1>4, <1>5, MasterTurn DEF Served
<1> QED
  BY <1>2, <1>4, <1>5, <1>10, <1>11, LocalCalm DEF Proceeds, Adding, HasNode

\* The list does not become empty between the test and the loop.
LEMMA AddCrashCalm == ASSUME NEW s, Ready(s), NEW t \in Threads, AddCrash(t) PROVE FALSE
<1>1. thr[t].pc = "walk" /\ thr[t].cur = Null /\ thr[t].prev = Null
  BY DEF AddCrash, OnList, Step
<1>2. s # <<>> /\ \E i \in 1..(Len(s) + 1) : At(t, s, i)
  BY <1>1, ListFacts DEF InWalk
<1>3. PICK i \in 1..(Len(s) + 1) : At(t, s, i)
  BY <1>2
<1>4. ~(i <= Len(s))
  BY <1>1, <1>3, ListFacts DEF At
<1>5. i # 1 /\ i - 1 \in 1..Len(s)
  BY <1>2, <1>4, ListFacts
<1> QED
  BY <1>1, <1>3, <1>5, ListFacts DEF At

\* "your id:%d" goes to the client, and its socket into the set.
LEMMA GreetCalm == ASSUME NEW s, Ready(s), NEW t \in Threads, Greet(t) PROVE After(s)
<1>1. Step(t, "greet", [thr[t] EXCEPT !.pc = "set"])
  BY DEF Greet
<1>2. thr[t].pc = "greet" /\ thr'[t] = [thr[t] EXCEPT !.pc = "set"] /\ UNCHANGED <<players, mem, master>>
  BY <1>1, ReadyFacts, StepFacts DEF Greet, list
<1>3. ~Start(t) /\ ~Close(t)
  BY <1>2 DEF Start, Local, Step, Close
<1>4. PICK r \in Thr : Turn(t, r) /\ thr'[t] = r
  BY <1>3, TurnThere DEF Thread
<1>5. r.pc = "set" /\ r.node = thr[t].node /\ r.prev = thr[t].prev
  BY <1>2, <1>4, ReadyFacts, ThrTypes DEF Thr
<1>6. InWalk(t, s)'
  BY <1>2, <1>4, <1>5, ListFacts DEF InWalk
<1>7. MasterTrue'
  BY <1>2, <1>4, <1>5, MasterTurn DEF Served
<1> QED
  BY <1>2, <1>4, <1>5, <1>6, <1>7, LocalCalm DEF Proceeds, Adding, HasNode

\* A word of the set is read.
LEMMA ReadWordCalm ==
  ASSUME NEW s, Ready(s), NEW t \in Threads, Thread(t), NEW from, NEW to, ReadWord(t, from, to),
         (from = "set" /\ to = "set word") \/ (from = "clear" /\ to = "clear word")
  PROVE  After(s)
<1>1. Local(t, from, [thr[t] EXCEPT !.pc = to, !.word = master])
  BY DEF ReadWord
<1>2. /\ thr[t].pc = from /\ thr'[t] = [thr[t] EXCEPT !.pc = to, !.word = master]
      /\ UNCHANGED <<players, mem, master>>
  BY <1>1, ReadyFacts, StepFacts DEF Local, list
<1>3. ~Start(t) /\ ~Close(t)
  BY <1>2 DEF Start, Local, Step, Close
<1>4. PICK r \in Thr : Turn(t, r) /\ thr'[t] = r
  BY <1>3, TurnThere
<1>5. r.pc = to /\ r.node = thr[t].node /\ r.prev = thr[t].prev /\ r.word = master
  BY <1>2, <1>4, ReadyFacts, ThrTypes DEF Thr
<1>6. InWalk(t, s)'
  BY <1>2, <1>4, <1>5, ListFacts DEF InWalk
<1>7. MasterTrue'
  BY <1>2, <1>4, <1>5, MasterTurn DEF Served
<1> QED
  BY <1>2, <1>4, <1>5, <1>6, <1>7, LocalCalm DEF Proceeds, Adding, Removing, HasNode

\* It is written with the socket in it ...
LEMMA SetWordCalm == ASSUME NEW s, Ready(s), NEW t \in Threads, SetWord(t) PROVE After(s)
<1>1. /\ Step(t, "set word", [thr[t] EXCEPT !.pc = "recv", !.word = {}])
      /\ master' = thr[t].word \union {thr[t].sock} /\ UNCHANGED <<players, mem>>
  BY DEF SetWord, WriteWord, list
<1>2. thr[t].pc = "set word" /\ thr'[t] = [thr[t] EXCEPT !.pc = "recv", !.word = {}]
  BY <1>1, ReadyFacts, StepFacts
<1>3. ~Start(t) /\ ~Close(t)
  BY <1>2 DEF Start, Local, Step, Close
<1>4. PICK r \in Thr : Turn(t, r) /\ thr'[t] = r
  BY <1>3, TurnThere DEF Thread
<1>5. r.pc = "recv" /\ r.node = thr[t].node /\ r.prev = thr[t].prev /\ r.sock = thr[t].sock
  BY <1>2, <1>4, ReadyFacts, ThrTypes DEF Thr
<1>6. InWalk(t, s)'
  BY <1>2, <1>4, <1>5, ListFacts DEF InWalk
<1>7. \A u \in Threads : u # t => thr'[u] = thr[u] /\ thr[u].pc \in {"idle", "recv"}
  BY <1>2, <1>4, ReadyFacts, TurnFacts, OthersWait DEF Busy, Adding
<1>8. MasterTrue'
  <2>1. MasterTrue
    BY DEF Ready
  <2>2. master' = master \union {r.sock}
    BY <1>1, <1>2, <1>5, <2>1 DEF MasterTrue
  <2>3. \A u \in Threads : thr'[u].pc \in Served <=> thr[u].pc \in Served \/ u = t
    BY <1>2, <1>4, <1>5, <1>7 DEF Served
  <2>4. \A u \in Threads : thr'[u].sock = thr[u].sock
    BY <1>4, <1>5, <1>7
  <2>5. master' = {thr'[u].sock : u \in {v \in Threads : thr'[v].pc \in Served}}
    BY <2>1, <2>2, <2>3, <2>4, <1>5 DEF MasterTrue
  <2>6. \A u \in Threads : thr'[u].pc \notin {"set word", "clear word"}
    BY <1>4, <1>5, <1>7
  <2> QED
    BY <2>5, <2>6 DEF MasterTrue
<1> QED
  BY <1>1, <1>2, <1>4, <1>5, <1>6, <1>8, LocalCalm DEF Proceeds, Adding, HasNode

\* ... or without it.
LEMMA ClearWordCalm == ASSUME NEW s, Ready(s), NEW t \in Threads, ClearWord(t) PROVE After(s)
<1>1. /\ Step(t, "clear word", [thr[t] EXCEPT !.pc = "delete", !.word = {}])
      /\ master' = thr[t].word \ {thr[t].sock} /\ UNCHANGED <<players, mem>>
  BY DEF ClearWord, WriteWord, list
<1>2. thr[t].pc = "clear word" /\ thr'[t] = [thr[t] EXCEPT !.pc = "delete", !.word = {}]
  BY <1>1, ReadyFacts, StepFacts
<1>3. ~Start(t) /\ ~Close(t)
  BY <1>2 DEF Start, Local, Step, Close
<1>4. PICK r \in Thr : Turn(t, r) /\ thr'[t] = r
  BY <1>3, TurnThere DEF Thread
<1>5. r.pc = "delete" /\ r.node = thr[t].node /\ r.prev = thr[t].prev /\ r.sock = thr[t].sock
  BY <1>2, <1>4, ReadyFacts, ThrTypes DEF Thr
<1>6. InWalk(t, s)'
  BY <1>2, <1>4, <1>5, ListFacts DEF InWalk
<1>7. \A u \in Threads : u # t => thr'[u] = thr[u] /\ thr[u].pc \in {"idle", "recv"}
  BY <1>2, <1>4, ReadyFacts, TurnFacts, OthersWait DEF Busy, Removing
<1>8. MasterTrue'
  <2>1. MasterTrue
    BY DEF Ready
  <2>2. master' = master \ {thr[t].sock}
    BY <1>1, <1>2, <2>1 DEF MasterTrue
  <2>3. \A u \in Threads : thr'[u].pc \in Served <=> thr[u].pc \in Served /\ u # t
    BY <1>2, <1>4, <1>5, <1>7 DEF Served
  <2>4. \A u \in Threads : thr'[u].sock = thr[u].sock
    BY <1>4, <1>5, <1>7
  <2>5. \A u \in Threads : u # t => thr[u].sock # thr[t].sock
    BY <1>2, ReadyFacts, ThrTypes DEF OwnThread, Away
  <2>6. master' = {thr'[u].sock : u \in {v \in Threads : thr'[v].pc \in Served}}
    <3>1. master = {thr[u].sock : u \in {v \in Threads : thr[v].pc \in Served}}
      BY <2>1 DEF MasterTrue
    <3>2. {v \in Threads : thr'[v].pc \in Served} = {v \in Threads : thr[v].pc \in Served} \ {t}
      BY <2>3
    <3> HIDE <1>1, <1>2
    <3> QED
      BY <2>2, <2>4, <2>5, <3>1, <3>2
  <2>7. \A u \in Threads : thr'[u].pc \notin {"set word", "clear word"}
    BY <1>4, <1>5, <1>7
  <2> QED
    BY <2>6, <2>7 DEF MasterTrue
<1> QED
  BY <1>1, <1>2, <1>4, <1>5, <1>6, <1>8, LocalCalm DEF Proceeds, Removing, HasNode

\* recv() returns nothing more.
LEMMA RecvEndCalm == ASSUME NEW s, Ready(s), NEW t \in Threads, RecvEnd(t) PROVE After(s)
<1>1. Local(t, "recv", [thr[t] EXCEPT !.pc = "clear"]) /\ con[open[thr[t].sock]] = "left"
  BY DEF RecvEnd
<1>2. thr[t].pc = "recv" /\ thr'[t] = [thr[t] EXCEPT !.pc = "clear"] /\ UNCHANGED <<players, mem, master>>
  BY <1>1, ReadyFacts, StepFacts DEF Local, list
<1>3. ~Start(t) /\ ~Close(t)
  BY <1>2 DEF Start, Local, Step, Close
<1>4. PICK r \in Thr : Turn(t, r) /\ thr'[t] = r
  BY <1>3, TurnThere DEF Thread
<1>5. r.pc = "clear" /\ r.node = thr[t].node /\ r.prev = thr[t].prev
  BY <1>2, <1>4, ReadyFacts, ThrTypes DEF Thr
<1>6. InWalk(t, s)'
  BY <1>2, <1>4, <1>5, ListFacts DEF InWalk
<1>7. MasterTrue'
  BY <1>2, <1>4, <1>5, MasterTurn DEF Served
<1> QED
  BY <1>1, <1>2, <1>4, <1>5, <1>6, <1>7, LocalCalm DEF Proceeds, HasNode

\* A node that is in use and not being added is in the list.
LEMMA InList ==
  ASSUME NEW s, Ready(s), NEW t \in Threads, Linked(t)
  PROVE  s # <<>> /\ \E j \in 1..Len(s) : thr[t].node = s[j]
BY ListFacts DEF IsList

\* players is read to find the node.
LEMMA DeleteFirstCalm == ASSUME NEW s, Ready(s), NEW t \in Threads, DeleteFirst(t) PROVE After(s)
<1>1. Local(t, "delete", [thr[t] EXCEPT !.pc = "find", !.cur = players])
  BY DEF DeleteFirst
<1>2. /\ thr[t].pc = "delete" /\ thr'[t] = [thr[t] EXCEPT !.pc = "find", !.cur = players]
      /\ UNCHANGED <<players, mem, master>>
  BY <1>1, ReadyFacts, StepFacts DEF Local, list
<1>3. ~Start(t) /\ ~Close(t)
  BY <1>2 DEF Start, Local, Step, Close
<1>4. PICK r \in Thr : Turn(t, r) /\ thr'[t] = r
  BY <1>3, TurnThere DEF Thread
<1>5. r.pc = "find" /\ r.node = thr[t].node /\ r.prev = thr[t].prev /\ r.cur = players
  BY <1>2, <1>4, ReadyFacts, ThrTypes DEF Thr
<1>6. thr[t].prev = Null
  BY <1>2, ListFacts DEF InWalk
<1>7. mem[thr[t].node].live /\ Linked(t)
  BY <1>2 DEF Ready, Owners, HasNode, Linked
<1>8. PICK j \in 1..Len(s) : thr[t].node = s[j]
  BY <1>7, InList
<1>9. s # <<>> /\ 1 \in 1..Len(s) /\ 1 <= j /\ 1 <= Len(s)
  BY <1>7, InList, ListFacts
<1>10. At(t, s, 1)'
  BY <1>4, <1>5, <1>6, <1>9, ListFacts DEF At
<1>11. InWalk(t, s)'
  BY <1>2, <1>4, <1>5, <1>7, <1>8, <1>9, <1>10 DEF InWalk
<1>12. MasterTrue'
  BY <1>2, <1>4, <1>5, MasterTurn DEF Served
<1> QED
  BY <1>2, <1>4, <1>5, <1>11, <1>12, LocalCalm DEF Proceeds, Removing, HasNode

\* current->next = NULL, where it is NULL already.
LEMMA AddSealCalm == ASSUME NEW s, Ready(s), NEW t \in Threads, AddSeal(t) PROVE After(s)
<1>1. /\ OnList(t, "seal", [thr[t] EXCEPT !.pc = "greet"]) /\ UNCHANGED <<players, master>>
      /\ mem' = [mem EXCEPT ![thr[t].node].next = Null]
  BY DEF AddSeal, OnList
<1>2. thr[t].pc = "seal" /\ thr'[t] = [thr[t] EXCEPT !.pc = "greet"]
  BY <1>1, ReadyFacts, StepFacts DEF OnList
<1>3. ~Start(t) /\ ~Close(t)
  BY <1>2 DEF Start, Local, Step, Close
<1>4. PICK r \in Thr : Turn(t, r) /\ thr'[t] = r
  BY <1>3, TurnThere DEF Thread
<1>5. r.pc = "greet" /\ r.node = thr[t].node /\ r.prev = thr[t].prev
  BY <1>2, <1>4, ReadyFacts, ThrTypes DEF Thr
<1>6. thr[t].node = s[Len(s)] /\ Len(s) \in 1..Len(s) /\ thr[t].node \in Nodes
  BY <1>2, ListFacts DEF InWalk
<1>7. mem[thr[t].node].next = Null
  BY <1>6, ListFacts DEF IsList
<1>8. mem' = mem
  BY <1>1, <1>6, <1>7, ReadyFacts, ThrTypes DEF Node
<1>9. InWalk(t, s)'
  BY <1>2, <1>4, <1>5, ListFacts DEF InWalk
<1>10. MasterTrue'
  BY <1>1, <1>2, <1>4, <1>5, MasterTurn DEF Served
<1> QED
  BY <1>1, <1>2, <1>4, <1>5, <1>8, <1>9, <1>10, LocalCalm DEF Proceeds, Adding, HasNode

\* The list with one more node.
LEMMA AppendList ==
  ASSUME NEW s, Ready(s), NEW t \in Threads, HasNode(t), ~Linked(t),
         NEW n, n = thr[t].node, mem[n].next = Null, n \in Nodes,
         players' = IF s = <<>> THEN n ELSE players,
         \A m \in Nodes : mem'[m].next = IF s # <<>> /\ m = s[Len(s)] THEN n ELSE mem[m].next,
         \A u \in Threads : thr'[u].node = thr[u].node,
         \A u \in Threads : Linked(u)' <=> Linked(u) \/ u = t
  PROVE  IsList(Append(s, n))' /\ \A i \in 1..Len(s) : s[i] # n
<1> DEFINE z == Append(s, n)
           m == Len(s)
<1>1. /\ s \in Seq(Nodes) /\ m \in Nat /\ \A i \in 1..m : s[i] \in Nodes
      /\ s = <<>> <=> m = 0
      /\ IsList(s)
  BY ListFacts
<1>2. z \in Seq(Nodes) /\ Len(z) = m + 1 /\ (\A i \in 1..m : z[i] = s[i]) /\ z[m + 1] = n
  BY <1>1, AppendProperties
<1>3. \A i \in 1..m : s[i] # n
  <2> SUFFICES ASSUME NEW i \in 1..m, s[i] = n PROVE FALSE
    OBVIOUS
  <2>1. PICK u \in Threads : Linked(u) /\ thr[u].node = n
    BY <1>1 DEF IsList
  <2> QED
    BY <2>1 DEF Ready, Owners, Linked
<1> HIDE DEF z, m
<1>4. \A i \in 1..(m + 1) : i \in 1..m \/ i = m + 1
  BY <1>1
<1>5. players' = IF z = <<>> THEN Null ELSE z[1]
  <2>1. z # <<>>
    BY <1>1, <1>2, EmptySeq
  <2>2. CASE s = <<>>
    BY <1>1, <1>2, <2>1, <2>2
  <2>3. CASE s # <<>>
    <3>1. 1 \in 1..m /\ players = s[1]
      BY <1>1, <2>3 DEF IsList
    <3> QED
      BY <1>2, <2>1, <2>3, <3>1
  <2> QED
    BY <2>2, <2>3
<1>6. \A i \in 1..(m + 1) : mem'[z[i]].next = IF i = m + 1 THEN Null ELSE z[i + 1]
  <2> SUFFICES ASSUME NEW i \in 1..(m + 1) PROVE mem'[z[i]].next = IF i = m + 1 THEN Null ELSE z[i + 1]
    OBVIOUS
  <2>1. CASE i = m + 1
    <3>1. ~(s # <<>> /\ n = s[Len(s)])
      BY <1>1, <1>3, ListFacts DEF m
    <3> QED
      BY <1>2, <2>1, <3>1
  <2>2. CASE i \in 1..m /\ i = m
    <3>1. s # <<>> /\ z[i] = s[Len(s)] /\ z[i] \in Nodes /\ i # m + 1 /\ z[i + 1] = n
      BY <1>1, <1>2, <2>2 DEF m
    <3> QED
      BY <3>1
  <2>3. CASE i \in 1..m /\ i # m
    <3>1. i + 1 \in 1..m /\ i # m + 1 /\ m \in 1..m
      BY <1>1, <2>3
    <3>2. z[i] = s[i] /\ z[i + 1] = s[i + 1] /\ s[i] \in Nodes
      BY <1>1, <1>2, <2>3, <3>1
    <3>3. s[i] # s[m] /\ mem[s[i]].next = s[i + 1]
      BY <1>1, <2>3, <3>1 DEF IsList, m
    <3> QED
      BY <3>1, <3>2, <3>3 DEF m
  <2> QED
    BY <1>4, <2>1, <2>2, <2>3
<1>7. \A i, j \in 1..(m + 1) : z[i] = z[j] => i = j
  <2>1. \A i, j \in 1..m : s[i] = s[j] => i = j
    BY <1>1 DEF IsList, m
  <2> QED
    BY <1>2, <1>3, <1>4, <2>1
<1>8. \A i \in 1..(m + 1) : \E u \in Threads : Linked(u)' /\ thr'[u].node = z[i]
  <2>1. \A i \in 1..m : \E u \in Threads : Linked(u) /\ thr[u].node = s[i]
    BY <1>1 DEF IsList, m
  <2> QED
    BY <1>2, <1>4, <2>1
<1>9. \A u \in Threads : Linked(u)' => \E i \in 1..(m + 1) : thr'[u].node = z[i]
  <2> SUFFICES ASSUME NEW u \in Threads, Linked(u)' PROVE \E i \in 1..(m + 1) : thr'[u].node = z[i]
    OBVIOUS
  <2>1. CASE u = t
    <3>1. m + 1 \in 1..(m + 1)
      BY <1>1
    <3> QED
      BY <1>2, <2>1, <3>1
  <2>2. CASE Linked(u)
    <3>1. PICK i \in 1..m : thr[u].node = s[i]
      BY <1>1, <2>2 DEF IsList, m
    <3>2. i \in 1..(m + 1) /\ z[i] = s[i]
      BY <1>1, <1>2
    <3> QED
      BY <3>1, <3>2
  <2> QED
    BY <2>1, <2>2
<1>10. IsList(z)'
  BY <1>2, <1>5, <1>6, <1>7, <1>8, <1>9 DEF IsList
<1> QED
  BY <1>3, <1>10 DEF z, m

\* A node that is linked is in the list from then on.
LEMMA AppendCalm ==
  ASSUME NEW s, Ready(s), NEW t \in Threads, NEW r \in Thr, Turn(t, r),
         thr[t].pc \in {"head", "walk"}, r.pc \in {"greet", "seal"}, r.node = thr[t].node, r.prev = Null,
         master' = master,
         players' = IF s = <<>> THEN thr[t].node ELSE players,
         \A m \in Nodes : mem'[m].next = IF s # <<>> /\ m = s[Len(s)] THEN thr[t].node ELSE mem[m].next,
         \A m \in Nodes : mem'[m].live = mem[m].live /\ mem'[m].id = mem[m].id
  PROVE  After(s)
<1>1. thr'[t] = r /\ (\A u \in Threads : u # t => thr'[u] = thr[u])
  BY ReadyFacts, TurnFacts
<1>2. OneAtATime' /\ \A u \in Threads : u # t => thr[u].pc \in {"idle", "recv"}
  BY OneAtATimeTurn DEF Proceeds, Adding
<1>3. MasterTrue'
  BY MasterTurn DEF Served
<1>4. HasNode(t) /\ thr[t].pc # "find" /\ r.pc # "malloc"
  BY DEF HasNode
<1>5. /\ Owners' /\ \A u \in Threads : thr'[u].node = thr[u].node /\ (HasNode(u)' <=> HasNode(u))
      /\ \A n \in Nodes : mem[n].live => mem'[n].id = mem[n].id
  BY <1>4, OwnersTurn
<1>6. thr[t].node \in Nodes /\ mem[thr[t].node].live
  BY <1>4 DEF Ready, Owners
<1>7. mem[thr[t].node].next = Null
  BY ListFacts DEF InWalk
<1>8. \A u \in Threads : HasNode(u) => thr[u].node \in Nodes
  BY DEF Ready, Owners
<1>9. \A u \in Threads : Linked(u)' <=> Linked(u) \/ u = t
  <2> SUFFICES ASSUME NEW u \in Threads PROVE Linked(u)' <=> Linked(u) \/ u = t
    OBVIOUS
  <2>1. CASE u = t
    BY <1>1, <1>4, <1>5, <1>6, <2>1 DEF Linked
  <2>2. CASE u # t
    <3>1. HasNode(u) => mem'[thr'[u].node].live = mem[thr[u].node].live
      BY <1>5, <1>8
    <3> QED
      BY <1>1, <1>5, <2>2, <3>1 DEF Linked
  <2> QED
    BY <2>1, <2>2
<1>10. ~Linked(t)
  BY DEF Linked
<1>11. PICK n : n = thr[t].node
  OBVIOUS
<1>12. IsList(Append(s, n))' /\ \A i \in 1..Len(s) : s[i] # n
  BY <1>4, <1>5, <1>6, <1>7, <1>9, <1>10, <1>11, AppendList
<1>13. PICK z : z = Append(s, n)
  OBVIOUS
<1>14. z # <<>> /\ z[Len(z)] = n
  BY <1>6, <1>11, <1>13, ListFacts, AppendProperties, EmptySeq
<1>15. InWalk(t, z)'
  BY <1>1, <1>11, <1>14 DEF InWalk
<1>16. Listed(z)'
  BY <1>1, <1>2, <1>12, <1>13, <1>15, PlaceOthers DEF Listed
<1>17. Evolves(s, z)
  BY <1>6, <1>11, <1>12, <1>13 DEF Evolves
<1> QED
  BY <1>2, <1>3, <1>5, <1>16, <1>17 DEF After

\* The first node ...
LEMMA AddHeadCalm == ASSUME NEW s, Ready(s), NEW t \in Threads, AddHead(t) PROVE After(s)
<1>1. /\ OnList(t, "head", [thr[t] EXCEPT !.pc = "greet"]) /\ UNCHANGED <<mem, master>>
      /\ players' = thr[t].node
  BY DEF AddHead, OnList
<1>2. thr[t].pc = "head" /\ thr'[t] = [thr[t] EXCEPT !.pc = "greet"]
  BY <1>1, ReadyFacts, StepFacts DEF OnList
<1>3. ~Start(t) /\ ~Close(t)
  BY <1>2 DEF Start, Local, Step, Close
<1>4. PICK r \in Thr : Turn(t, r) /\ thr'[t] = r
  BY <1>3, TurnThere DEF Thread
<1>5. r.pc = "greet" /\ r.node = thr[t].node /\ r.prev = thr[t].prev
  BY <1>2, <1>4, ReadyFacts, ThrTypes DEF Thr
<1>6. s = <<>> /\ thr[t].prev = Null
  BY <1>2, ListFacts DEF InWalk
<1> QED
  BY <1>1, <1>2, <1>4, <1>5, <1>6, AppendCalm

\* ... or one more behind the last.
LEMMA AddLinkCalm == ASSUME NEW s, Ready(s), NEW t \in Threads, AddLink(t) PROVE After(s)
<1>1. /\ OnList(t, "walk", [thr[t] EXCEPT !.pc = "seal", !.prev = Null]) /\ UNCHANGED <<players, master>>
      /\ mem' = [mem EXCEPT ![thr[t].prev].next = thr[t].node]
      /\ thr[t].cur = Null /\ thr[t].prev # Null
  BY DEF AddLink, OnList
<1>2. thr[t].pc = "walk" /\ thr'[t] = [thr[t] EXCEPT !.pc = "seal", !.prev = Null]
  BY <1>1, ReadyFacts, StepFacts DEF OnList
<1>3. ~Start(t) /\ ~Close(t)
  BY <1>2 DEF Start, Local, Step, Close
<1>4. PICK r \in Thr : Turn(t, r) /\ thr'[t] = r
  BY <1>3, TurnThere DEF Thread
<1>5. r.pc = "seal" /\ r.node = thr[t].node /\ r.prev = Null
  BY <1>2, <1>4, ReadyFacts, ThrTypes DEF Thr
<1>6. s # <<>> /\ \E i \in 1..(Len(s) + 1) : At(t, s, i)
  BY <1>2, ListFacts DEF InWalk
<1>7. PICK i \in 1..(Len(s) + 1) : At(t, s, i)
  BY <1>6
<1>8. ~(i <= Len(s)) /\ i # 1
  BY <1>1, <1>7, ListFacts DEF At
<1>9. i - 1 = Len(s)
  BY <1>8, ListFacts
<1>10. thr[t].prev = s[Len(s)]
  BY <1>7, <1>8, <1>9 DEF At
<1>11. s[Len(s)] \in Nodes /\ mem \in [Nodes -> Node]
  BY <1>6, ListFacts, ReadyFacts, ThrTypes
<1>12. \A m \in Nodes : /\ mem'[m].next = IF s # <<>> /\ m = s[Len(s)] THEN thr[t].node ELSE mem[m].next
                        /\ mem'[m].live = mem[m].live /\ mem'[m].id = mem[m].id
  BY <1>1, <1>6, <1>10, <1>11 DEF Node
<1> QED
  BY <1>1, <1>2, <1>4, <1>5, <1>6, <1>12, AppendCalm

\* A chunk that is free comes into use.
LEMMA MallocCalm == ASSUME NEW s, Ready(s), NEW t \in Threads, Malloc(t) PROVE After(s)
<1>1. PICK n \in Nodes :
        /\ ~mem[n].live /\ mem' = [mem EXCEPT ![n] = [id |-> thr[t].sock, next |-> Null, live |-> TRUE]]
        /\ OnList(t, "malloc", [thr[t] EXCEPT !.pc = "add", !.node = n])
  BY DEF Malloc
<1>2. /\ thr[t].pc = "malloc" /\ thr'[t] = [thr[t] EXCEPT !.pc = "add", !.node = n]
      /\ UNCHANGED <<players, master>>
  BY <1>1, ReadyFacts, StepFacts DEF Malloc, OnList
<1>3. ~Start(t) /\ ~Close(t)
  BY <1>2 DEF Start, Local, Step, Close
<1>4. PICK r \in Thr : Turn(t, r) /\ thr'[t] = r
  BY <1>3, TurnThere DEF Thread
<1>5. r.pc = "add" /\ r.node = n /\ r.prev = thr[t].prev /\ r.sock = thr[t].sock
  BY <1>2, <1>4, ReadyFacts, ThrTypes DEF Thr
<1>6. \A u \in Threads : u # t => thr'[u] = thr[u]
  BY <1>4, ReadyFacts, TurnFacts
<1>7. OneAtATime' /\ \A u \in Threads : u # t => thr[u].pc \in {"idle", "recv"}
  BY <1>2, <1>4, <1>5, OneAtATimeTurn DEF Proceeds, Adding
<1>8. MasterTrue'
  BY <1>2, <1>4, <1>5, MasterTurn DEF Served
<1>9. /\ mem'[n].live /\ mem'[n].id = thr[t].sock /\ mem'[n].next = Null
      /\ \A m \in Nodes : m # n => mem'[m] = mem[m]
  BY <1>1, ReadyFacts, ThrTypes
<1>10. \A u \in Threads : u # t /\ HasNode(u) => thr[u].node \in Nodes /\ thr[u].node # n /\ mem[thr[u].node].live
  BY <1>1, <1>7 DEF Ready, Owners, HasNode
<1>11. ~HasNode(t) /\ HasNode(t)' /\ thr'[t].node = n
  BY <1>2, <1>4, <1>5 DEF HasNode
<1>12. \A u \in Threads : u # t => (HasNode(u)' <=> HasNode(u))
  BY <1>6 DEF HasNode
<1>13. Owners'
  <2>1. ASSUME NEW u \in Threads, HasNode(u)'
        PROVE  /\ thr'[u].node \in Nodes
               /\ thr'[u].pc = "find" \/ mem'[thr'[u].node].live
               /\ mem'[thr'[u].node].live => mem'[thr'[u].node].id = thr'[u].sock
    <3>1. CASE u = t
      BY <1>4, <1>5, <1>9, <1>11, <3>1
    <3>2. CASE u # t
      BY <1>6, <1>9, <1>10, <1>12, <2>1, <3>2 DEF Ready, Owners
    <3> QED
      BY <3>1, <3>2
  <2>2. \A u, v \in Threads : HasNode(u)' /\ HasNode(v)' /\ thr'[u].node = thr'[v].node => u = v
    BY <1>6, <1>10, <1>11, <1>12 DEF Ready, Owners
  <2>3. ASSUME NEW m \in Nodes, mem'[m].live PROVE \E u \in Threads : HasNode(u)' /\ thr'[u].node = m
    <3>1. CASE m = n
      BY <1>11, <3>1
    <3>2. CASE m # n
      <4>1. PICK u \in Threads : HasNode(u) /\ thr[u].node = m
        BY <1>9, <2>3, <3>2 DEF Ready, Owners
      <4> QED
        BY <1>6, <1>11, <1>12, <4>1
    <3> QED
      BY <3>1, <3>2
  <2> QED
    BY <2>1, <2>2, <2>3 DEF Owners
<1>14. \A u \in Threads : Linked(u)' <=> Linked(u)
  <2> SUFFICES ASSUME NEW u \in Threads PROVE Linked(u)' <=> Linked(u)
    OBVIOUS
  <2>1. CASE u = t
    BY <1>4, <1>5, <1>11, <2>1 DEF Linked
  <2>2. CASE u # t
    BY <1>6, <1>9, <1>10, <1>12, <2>2 DEF Linked
  <2> QED
    BY <2>1, <2>2
<1>15. \A i \in 1..Len(s) : mem'[s[i]] = mem[s[i]]
  <2> SUFFICES ASSUME NEW i \in 1..Len(s) PROVE mem'[s[i]] = mem[s[i]]
    OBVIOUS
  <2>1. PICK u \in Threads : Linked(u) /\ thr[u].node = s[i]
    BY ListFacts DEF IsList
  <2> QED
    BY <1>1, <1>9, <2>1, ListFacts DEF Linked
<1>16. IsList(s)'
  <2>1. IsList(s)
    BY ListFacts
  <2>2. \A i \in 1..Len(s) : \E u \in Threads : Linked(u)' /\ thr'[u].node = s[i]
    <3> SUFFICES ASSUME NEW i \in 1..Len(s) PROVE \E u \in Threads : Linked(u)' /\ thr'[u].node = s[i]
      OBVIOUS
    <3>1. PICK u \in Threads : Linked(u) /\ thr[u].node = s[i]
      BY <2>1 DEF IsList
    <3> QED
      BY <1>6, <1>11, <1>14, <3>1 DEF Linked
  <2>3. \A u \in Threads : Linked(u)' => \E i \in 1..Len(s) : thr'[u].node = s[i]
    <3> SUFFICES ASSUME NEW u \in Threads, Linked(u) PROVE \E i \in 1..Len(s) : thr'[u].node = s[i]
      BY <1>14
    <3> QED
      BY <1>6, <1>11, <2>1 DEF Linked, IsList
  <2> QED
    BY <1>2, <1>15, <2>1, <2>2, <2>3 DEF IsList
<1>17. InWalk(t, s)'
  <2>1. thr[t].prev = Null
    BY <1>2, ListFacts DEF InWalk
  <2> QED
    BY <1>4, <1>5, <1>9, <2>1 DEF InWalk
<1>18. Listed(s)'
  BY <1>6, <1>7, <1>16, <1>17, PlaceOthers DEF Listed
<1>19. \A m \in Nodes : mem[m].live => mem'[m].id = mem[m].id
  BY <1>1, <1>9
<1> QED
  BY <1>7, <1>8, <1>13, <1>18, <1>19 DEF After, Evolves

-----------------------------------------------------------------------------
(* The removal *)

\* The id of a node of the list is that of its player: the comparison is true for
\* the thread's own node and for no other.
LEMMA MatchLemma ==
  ASSUME NEW s, Ready(s), NEW t \in Threads, thr[t].pc = "find", thr[t].cur # Null
  PROVE  /\ \E i \in 1..Len(s) : thr[t].cur = s[i]
         /\ TRUE \in Matches(t, thr[t].cur) <=> thr[t].cur = thr[t].node
         /\ FALSE \in Matches(t, thr[t].cur) <=> thr[t].cur # thr[t].node
         /\ thr[t].cur = thr[t].node => mem[thr[t].node].live
<1>1. InWalk(t, s) /\ IsList(s) /\ HasNode(t)
  BY ListFacts DEF HasNode
<1>2. \E i \in 1..Len(s) : thr[t].cur = s[i]
  <2>1. CASE mem[thr[t].node].live
    BY <1>1, <2>1, ListFacts DEF InWalk, At
  <2>2. CASE ~mem[thr[t].node].live
    BY <1>1, <2>2 DEF InWalk
  <2> QED
    BY <2>1, <2>2
<1>3. PICK i \in 1..Len(s) : thr[t].cur = s[i]
  BY <1>2
<1>4. PICK u \in Threads : Linked(u) /\ thr[u].node = s[i]
  BY <1>1 DEF IsList
<1>5. mem[s[i]].live /\ mem[s[i]].id = thr[u].sock /\ HasNode(u)
  BY <1>4 DEF Ready, Owners, Linked
<1>6. thr[u].sock = thr[t].sock <=> u = t
  <2>1. thr[t].sock # NoFd
    BY ReadyFacts, ThrTypes DEF Away
  <2> QED
    BY <2>1, ReadyFacts DEF OwnThread
<1>7. s[i] = thr[t].node <=> u = t
  BY <1>1, <1>4, <1>5 DEF Ready, Owners
<1>8. Matches(t, thr[t].cur) = IF u = t THEN {TRUE} ELSE {FALSE}
  BY <1>3, <1>5, <1>6 DEF Matches
<1> QED
  BY <1>2, <1>3, <1>5, <1>7, <1>8

\* A node that is not the thread's is passed.
LEMMA DeletePassCalm == ASSUME NEW s, Ready(s), NEW t \in Threads, DeletePass(t) PROVE After(s)
<1>1. Local(t, "find", Onward(thr[t])) /\ thr[t].cur # Null /\ FALSE \in Matches(t, thr[t].cur)
  BY DEF DeletePass
<1>2. thr[t].pc = "find" /\ thr'[t] = Onward(thr[t]) /\ UNCHANGED <<players, mem, master>>
  BY <1>1, ReadyFacts, StepFacts DEF Local, list
<1>3. ~Start(t) /\ ~Close(t)
  BY <1>1, <1>2 DEF Start, Local, Step, Close
<1>4. PICK r \in Thr : Turn(t, r) /\ thr'[t] = r
  BY <1>3, TurnThere DEF Thread
<1>5. r.pc = "find" /\ r.node = thr[t].node /\ r.prev = thr[t].cur /\ r.cur = mem[thr[t].cur].next
  BY <1>1, <1>2, <1>4, ReadyFacts, OnwardTyped
<1>6. thr[t].cur # thr[t].node
  BY <1>1, <1>2, MatchLemma
<1>7. CASE mem[thr[t].node].live
  <2>1. PICK i, j \in 1..Len(s) : At(t, s, i) /\ thr[t].node = s[j] /\ i <= j
    BY <1>2, <1>7, ListFacts DEF InWalk
  <2>2. i \in 1..(Len(s) + 1)
    BY ListFacts
  <2>3. /\ thr[t].cur = s[i]
        /\ mem[thr[t].cur].next = IF i + 1 <= Len(s) THEN s[i + 1] ELSE Null
    BY <1>1, <2>1, <2>2, OnwardAt
  <2>4. i # j
    BY <1>6, <2>1, <2>3
  <2>5. i + 1 <= j /\ i + 1 \in 1..Len(s) /\ i + 1 <= Len(s) /\ i + 1 # 1 /\ (i + 1) - 1 = i
    BY <2>1, <2>4, ListFacts
  <2>6. At(t, s, i + 1)'
    BY <1>4, <1>5, <2>3, <2>5 DEF At
  <2>7. InWalk(t, s)'
    BY <1>2, <1>4, <1>5, <1>7, <2>1, <2>5, <2>6 DEF InWalk
  <2>8. MasterTrue'
    BY <1>2, <1>4, <1>5, MasterTurn DEF Served
  <2> QED
    BY <1>2, <1>4, <1>5, <2>7, <2>8, LocalCalm DEF Proceeds, Removing, HasNode
<1>8. CASE ~mem[thr[t].node].live
  <2>1. PICK i \in 1..Len(s) : thr[t].cur = s[i]
    BY <1>1, <1>2, MatchLemma
  <2>2. mem[s[i]].next = IF i = Len(s) THEN Null ELSE s[i + 1]
    BY ListFacts DEF IsList
  <2>3. i # Len(s) => i + 1 \in 1..Len(s)
    BY ListFacts
  <2>4. r.cur \in {s[k] : k \in 1..Len(s)} \union {Null}
    BY <1>5, <2>1, <2>2, <2>3
  <2>5. InWalk(t, s)'
    BY <1>2, <1>4, <1>5, <1>8, <2>4 DEF InWalk
  <2>6. MasterTrue'
    BY <1>2, <1>4, <1>5, MasterTurn DEF Served
  <2> QED
    BY <1>2, <1>4, <1>5, <2>5, <2>6, LocalCalm DEF Proceeds, Removing, HasNode
<1> QED
  BY <1>7, <1>8

\* A sequence without its k-th element.
LEMMA WithoutFacts ==
  ASSUME NEW S, NEW s \in Seq(S), NEW k \in 1..Len(s)
  PROVE  /\ Without(s, k) \in Seq(S) /\ Len(Without(s, k)) = Len(s) - 1 /\ Len(s) - 1 \in Nat
         /\ \A i \in 1..(Len(s) - 1) : Without(s, k)[i] = IF i < k THEN s[i] ELSE s[i + 1]
<1> DEFINE a == SubSeq(s, 1, k - 1)
           b == SubSeq(s, k + 1, Len(s))
<1>1. Len(s) \in Nat /\ k \in Nat /\ k >= 1 /\ k <= Len(s) /\ \A i \in 1..Len(s) : s[i] \in S
  BY LenProperties, ElementOfSeq
<1>2. a \in Seq(S) /\ Len(a) = k - 1 /\ \A i \in 1..(k - 1) : a[i] = s[i]
  <2>1. \A i \in 1..(k - 1) : s[i] \in S
    BY <1>1
  <2>2. 1 \in Int /\ k - 1 \in Int
    BY <1>1
  <2>3. /\ a \in Seq(S) /\ Len(a) = IF 1 <= k - 1 THEN (k - 1) - 1 + 1 ELSE 0
        /\ \A i \in 1..((k - 1) - 1 + 1) : a[i] = s[1 + i - 1]
    BY <2>1, <2>2, SubSeqProperties
  <2> HIDE DEF a
  <2> QED
    BY <1>1, <2>3
<1>3. b \in Seq(S) /\ Len(b) = Len(s) - k /\ \A i \in 1..(Len(s) - k) : b[i] = s[k + i]
  <2>1. \A i \in (k + 1)..Len(s) : s[i] \in S
    BY <1>1
  <2>2. k + 1 \in Int /\ Len(s) \in Int
    BY <1>1
  <2>3. /\ b \in Seq(S) /\ Len(b) = IF k + 1 <= Len(s) THEN Len(s) - (k + 1) + 1 ELSE 0
        /\ \A i \in 1..(Len(s) - (k + 1) + 1) : b[i] = s[(k + 1) + i - 1]
    BY <2>1, <2>2, SubSeqProperties
  <2> HIDE DEF b
  <2> QED
    BY <1>1, <2>3
<1> HIDE DEF a, b
<1>4. /\ a \o b \in Seq(S) /\ Len(a \o b) = Len(a) + Len(b)
      /\ \A i \in 1..(Len(a) + Len(b)) : (a \o b)[i] = IF i <= Len(a) THEN a[i] ELSE b[i - Len(a)]
  BY <1>2, <1>3, ConcatProperties
<1>5. Without(s, k) = a \o b
  BY DEF Without, a, b
<1>6. ASSUME NEW i \in 1..(Len(s) - 1) PROVE Without(s, k)[i] = IF i < k THEN s[i] ELSE s[i + 1]
  <2>1. CASE i < k
    BY <1>1, <1>2, <1>3, <1>4, <1>5, <2>1
  <2>2. CASE ~(i < k)
    <3>1. i - (k - 1) \in 1..(Len(s) - k) /\ k + (i - (k - 1)) = i + 1 /\ ~(i <= k - 1)
      BY <1>1, <2>2
    <3>2. i \in 1..(Len(a) + Len(b)) /\ ~(i <= Len(a)) /\ i - Len(a) = i - (k - 1)
      BY <1>1, <1>2, <1>3, <3>1
    <3>3. (a \o b)[i] = b[i - (k - 1)]
      BY <1>4, <3>2
    <3>4. b[i - (k - 1)] = s[k + (i - (k - 1))]
      BY <1>3, <3>1
    <3> QED
      BY <1>5, <2>2, <3>1, <3>3, <3>4
  <2> QED
    BY <2>1, <2>2
<1> QED
  <2>1. Len(s) - 1 \in Nat /\ Len(a) + Len(b) = Len(s) - 1
    BY <1>1, <1>2, <1>3
  <2> QED
    BY <1>4, <1>5, <1>6, <2>1

\* A node is taken out of the list.
LEMMA WithoutList ==
  ASSUME NEW s, Ready(s), NEW t \in Threads, HasNode(t), NEW k \in 1..Len(s), thr[t].node = s[k],
         players' = IF k = 1 THEN mem[s[1]].next ELSE players,
         \A m \in Nodes : mem'[m].next = IF k # 1 /\ m = s[k - 1] THEN mem[s[k]].next ELSE mem[m].next,
         \A u \in Threads : thr'[u].node = thr[u].node,
         \A u \in Threads : Linked(u)' <=> Linked(u) /\ u # t
  PROVE  IsList(Without(s, k))'
<1>1. PICK z : z = Without(s, k)
  OBVIOUS
<1>2. PICK m \in Nat : m = Len(s)
  BY ListFacts
<1>3. /\ s \in Seq(Nodes) /\ k \in Nat /\ k >= 1 /\ k <= m
      /\ \A i \in 1..m : s[i] \in Nodes
      /\ s # <<>> /\ IsList(s)
  BY <1>2, ListFacts
<1>4. z \in Seq(Nodes) /\ Len(z) = m - 1 /\ \A i \in 1..(m - 1) : z[i] = IF i < k THEN s[i] ELSE s[i + 1]
  BY <1>1, <1>2, <1>3, WithoutFacts
<1>5. /\ players = s[1]
      /\ \A i \in 1..m : mem[s[i]].next = IF i = m THEN Null ELSE s[i + 1]
      /\ \A i, j \in 1..m : s[i] = s[j] => i = j
      /\ \A i \in 1..m : \E u \in Threads : Linked(u) /\ thr[u].node = s[i]
      /\ \A u \in Threads : Linked(u) => \E i \in 1..m : thr[u].node = s[i]
  BY <1>2, <1>3 DEF IsList
<1>6. \A i, j \in 1..m : s[i] = s[j] => i = j
  BY <1>5
<1>7. \A i \in 1..m : mem[s[i]].next = IF i = m THEN Null ELSE s[i + 1]
  BY <1>5
<1>8. players' = IF z = <<>> THEN Null ELSE z[1]
  <2>1. z = <<>> <=> m = 1
    BY <1>3, <1>4, EmptySeq
  <2>2. CASE m = 1
    <3>1. k = 1 /\ 1 \in 1..m
      BY <1>3, <2>2
    <3> QED
      BY <1>5, <2>1, <2>2, <3>1
  <2>3. CASE m # 1 /\ k = 1
    <3>1. 1 \in 1..m /\ 1 \in 1..(m - 1) /\ ~(1 < k) /\ 1 + 1 = 2
      BY <1>3, <2>3
    <3>2. z[1] = s[2] /\ mem[s[1]].next = s[2]
      BY <1>4, <1>5, <2>3, <3>1
    <3> QED
      BY <2>1, <2>3, <3>2
  <2>4. CASE k # 1
    <3>1. 1 \in 1..(m - 1) /\ 1 < k /\ m # 1
      BY <1>3, <2>4
    <3> QED
      BY <1>4, <1>5, <2>1, <2>4, <3>1
  <2> QED
    BY <2>2, <2>3, <2>4
<1>9. \A i \in 1..(m - 1) : mem'[z[i]].next = IF i = m - 1 THEN Null ELSE z[i + 1]
  <2> SUFFICES ASSUME NEW i \in 1..(m - 1) PROVE mem'[z[i]].next = IF i = m - 1 THEN Null ELSE z[i + 1]
    OBVIOUS
  <2>1. i \in Nat /\ i >= 1 /\ i <= m - 1 /\ i \in 1..m /\ i + 1 \in 1..m /\ (i + 1) + 1 = i + 2
    BY <1>2
  <2>2. CASE i + 1 < k
    <3>1. i < k /\ i # m /\ i # m - 1 /\ i + 1 \in 1..(m - 1) /\ k - 1 \in 1..m /\ i # k - 1
      BY <1>3, <2>1, <2>2
    <3>2. z[i] = s[i] /\ z[i + 1] = s[i + 1] /\ s[i] \in Nodes
      BY <1>3, <1>4, <2>1, <2>2, <3>1
    <3>3. s[i] # s[k - 1] /\ mem[s[i]].next = s[i + 1]
      BY <1>5, <2>1, <3>1
    <3> QED
      BY <3>1, <3>2, <3>3
  <2>3. CASE i + 1 = k
    <3>1. i < k /\ k # 1 /\ i = k - 1 /\ k \in 1..m /\ (k = m <=> i = m - 1) /\ ~(i + 1 < k)
      BY <1>3, <2>1, <2>3
    <3>2. z[i] = s[i] /\ s[i] \in Nodes
      BY <1>3, <1>4, <2>1, <3>1
    <3>3. mem'[z[i]].next = mem[s[k]].next
      BY <3>1, <3>2
    <3>4. mem[s[k]].next = IF k = m THEN Null ELSE s[k + 1]
      BY <1>5, <3>1
    <3>5. i # m - 1 => i + 1 \in 1..(m - 1) /\ z[i + 1] = s[k + 1]
      <4> SUFFICES ASSUME i # m - 1 PROVE i + 1 \in 1..(m - 1) /\ z[i + 1] = s[k + 1]
        OBVIOUS
      <4>1. i + 1 \in 1..(m - 1)
        BY <1>2, <2>1
      <4> QED
        BY <1>4, <2>3, <3>1, <4>1
    <3> QED
      BY <3>1, <3>3, <3>4, <3>5
  <2>4. CASE i >= k
    <3>1. ~(i < k) /\ ~(i + 1 < k) /\ (i + 1 = m <=> i = m - 1)
      BY <1>3, <2>1, <2>4
    <3>2. z[i] = s[i + 1] /\ s[i + 1] \in Nodes
      BY <1>3, <1>4, <2>1, <3>1
    <3>3. k # 1 => k - 1 \in 1..m /\ i + 1 # k - 1
      BY <1>3, <2>1, <2>4
    <3>4. k # 1 => s[i + 1] # s[k - 1]
      BY <1>5, <2>1, <3>3
    <3>5. mem'[z[i]].next = mem[s[i + 1]].next
      BY <3>2, <3>4
    <3>6. mem[s[i + 1]].next = IF i + 1 = m THEN Null ELSE s[i + 2]
      BY <1>7, <2>1
    <3>7. i # m - 1 => z[i + 1] = s[i + 2]
      <4> SUFFICES ASSUME i # m - 1 PROVE z[i + 1] = s[i + 2]
        OBVIOUS
      <4>1. i + 1 \in 1..(m - 1)
        BY <1>2, <2>1
      <4> QED
        BY <1>4, <2>1, <3>1, <4>1
    <3> QED
      BY <3>1, <3>5, <3>6, <3>7
  <2> QED
    BY <1>3, <2>1, <2>2, <2>3, <2>4
<1>10. \A i \in 1..(m - 1) : \E j \in 1..m : j # k /\ z[i] = s[j] /\ j = (IF i < k THEN i ELSE i + 1)
  BY <1>3, <1>4
<1>11. \A j \in 1..m : j # k => \E i \in 1..(m - 1) : z[i] = s[j]
  <2> SUFFICES ASSUME NEW j \in 1..m, j # k PROVE \E i \in 1..(m - 1) : z[i] = s[j]
    OBVIOUS
  <2>1. CASE j < k
    <3>1. j \in 1..(m - 1)
      BY <1>3, <2>1
    <3> QED
      BY <1>4, <2>1, <3>1
  <2>2. CASE j > k
    <3>1. j - 1 \in 1..(m - 1) /\ ~(j - 1 < k) /\ (j - 1) + 1 = j
      BY <1>3, <2>2
    <3> QED
      BY <1>4, <3>1
  <2> QED
    BY <1>3, <2>1, <2>2
<1>12. \A i, j \in 1..(m - 1) : z[i] = z[j] => i = j
  <2> SUFFICES ASSUME NEW i \in 1..(m - 1), NEW j \in 1..(m - 1), z[i] = z[j] PROVE i = j
    OBVIOUS
  <2>1. PICK a \in 1..m : a # k /\ z[i] = s[a] /\ a = (IF i < k THEN i ELSE i + 1)
    BY <1>10
  <2>2. PICK b \in 1..m : b # k /\ z[j] = s[b] /\ b = (IF j < k THEN j ELSE j + 1)
    BY <1>10
  <2>3. a = b
    BY <1>6, <2>1, <2>2
  <2> QED
    BY <1>3, <2>1, <2>2, <2>3
<1>13. \A i \in 1..(m - 1) : \E u \in Threads : Linked(u)' /\ thr'[u].node = z[i]
  <2> SUFFICES ASSUME NEW i \in 1..(m - 1) PROVE \E u \in Threads : Linked(u)' /\ thr'[u].node = z[i]
    OBVIOUS
  <2>1. PICK j \in 1..m : j # k /\ z[i] = s[j]
    BY <1>10
  <2>2. PICK u \in Threads : Linked(u) /\ thr[u].node = s[j]
    BY <1>5
  <2>3. u # t
    BY <1>2, <1>6, <2>1, <2>2
  <2> QED
    BY <2>1, <2>2, <2>3
<1>14. \A u \in Threads : Linked(u)' => \E i \in 1..(m - 1) : thr'[u].node = z[i]
  <2> SUFFICES ASSUME NEW u \in Threads, Linked(u), u # t PROVE \E i \in 1..(m - 1) : thr[u].node = z[i]
    OBVIOUS
  <2>1. PICK j \in 1..m : thr[u].node = s[j]
    BY <1>5
  <2>2. PICK v \in Threads : Linked(v) /\ thr[v].node = s[k]
    BY <1>2, <1>5
  <2>3. j # k
    <3> SUFFICES ASSUME j = k PROVE FALSE
      OBVIOUS
    <3>1. thr[u].node = thr[t].node /\ thr[u].node = thr[v].node /\ HasNode(u) /\ HasNode(v)
      BY <2>1, <2>2 DEF Linked
    <3>2. u = v /\ Linked(u)
      BY <3>1 DEF Ready, Owners
    <3>3. HasNode(t)
      BY <2>2, <3>1
    <3> QED
      BY <3>1, <3>2, <3>3 DEF Ready, Owners
  <2>4. PICK i \in 1..(m - 1) : z[i] = s[j]
    BY <1>11, <2>3
  <2> QED
    BY <2>1, <2>4
<1>15. IsList(z)'
  BY <1>4, <1>8, <1>9, <1>12, <1>13, <1>14 DEF IsList
<1> QED
  BY <1>1, <1>15

\* The thread's own node is taken out of the list.
LEMMA DeleteUnlinkCalm == ASSUME NEW s, Ready(s), NEW t \in Threads, DeleteUnlink(t) PROVE After(s)
<1>1. /\ thr[t].cur # Null /\ TRUE \in Matches(t, thr[t].cur)
      /\ OnList(t, "find", [thr[t] EXCEPT !.pc = "free"]) /\ UNCHANGED master
      /\ IF thr[t].prev = Null THEN players' = mem[thr[t].cur].next /\ UNCHANGED mem
         ELSE mem' = [mem EXCEPT ![thr[t].prev].next = mem[thr[t].cur].next] /\ UNCHANGED players
  BY DEF DeleteUnlink, OnList
<1>2. thr[t].pc = "find" /\ thr'[t] = [thr[t] EXCEPT !.pc = "free"]
  BY <1>1, ReadyFacts, StepFacts DEF OnList
<1>3. ~Start(t) /\ ~Close(t)
  BY <1>1, <1>2 DEF Start, Local, Step, Close
<1>4. PICK r \in Thr : Turn(t, r) /\ thr'[t] = r
  BY <1>3, TurnThere DEF Thread
<1>5. /\ r.pc = "free" /\ r.node = thr[t].node /\ r.prev = thr[t].prev /\ r.cur = thr[t].cur
      /\ r.sock = thr[t].sock
  BY <1>2, <1>4, ReadyFacts, ThrTypes DEF Thr
<1>6. thr[t].cur = thr[t].node /\ mem[thr[t].node].live
  BY <1>1, <1>2, MatchLemma
<1>7. PICK k \in 1..Len(s) : At(t, s, k) /\ thr[t].node = s[k]
  <2>1. PICK i, j \in 1..Len(s) : At(t, s, i) /\ thr[t].node = s[j] /\ i <= j
    BY <1>2, <1>6, ListFacts DEF InWalk
  <2>2. thr[t].cur = s[i]
    BY <2>1, ListFacts DEF At
  <2> QED
    BY <1>6, <2>1, <2>2
<1>8. /\ thr[t].cur = s[k] /\ thr[t].prev = IF k = 1 THEN Null ELSE s[k - 1]
      /\ k # 1 => k - 1 \in 1..Len(s) /\ s[k - 1] \in Nodes /\ s[k - 1] # Null /\ s[k - 1] # s[k]
      /\ s[k] \in Nodes
  <2>1. k # 1 => k - 1 \in 1..Len(s) /\ k - 1 # k
    BY ListFacts
  <2>2. \A i, j \in 1..Len(s) : s[i] = s[j] => i = j
    BY ListFacts DEF IsList
  <2>3. thr[t].cur = s[k] /\ thr[t].prev = IF k = 1 THEN Null ELSE s[k - 1]
    BY <1>7, ListFacts DEF At
  <2> QED
    BY <2>1, <2>2, <2>3, ListFacts
<1>9. /\ players' = IF k = 1 THEN mem[s[1]].next ELSE players
      /\ \A m \in Nodes : /\ mem'[m].next = IF k # 1 /\ m = s[k - 1] THEN mem[s[k]].next ELSE mem[m].next
                          /\ mem'[m].live = mem[m].live /\ mem'[m].id = mem[m].id
  <2>1. CASE k = 1
    BY <1>1, <1>8, <2>1
  <2>2. CASE k # 1
    <3>1. mem' = [mem EXCEPT ![s[k - 1]].next = mem[s[k]].next] /\ players' = players
      BY <1>1, <1>8, <2>2
    <3>2. mem \in [Nodes -> Node]
      BY ReadyFacts, ThrTypes
    <3> QED
      BY <1>8, <2>2, <3>1, <3>2 DEF Node
  <2> QED
    BY <2>1, <2>2
<1>10. \A u \in Threads : u # t => thr'[u] = thr[u]
  BY <1>4, ReadyFacts, TurnFacts
<1>11. OneAtATime' /\ \A u \in Threads : u # t => thr[u].pc \in {"idle", "recv"}
  BY <1>2, <1>4, <1>5, OneAtATimeTurn DEF Proceeds, Removing
<1>12. MasterTrue'
  BY <1>1, <1>2, <1>4, <1>5, MasterTurn DEF Served
<1>13. \A u \in Threads : thr'[u].node = thr[u].node /\ (HasNode(u)' <=> HasNode(u)) /\ thr'[u].sock = thr[u].sock
  <2> SUFFICES ASSUME NEW u \in Threads
               PROVE  thr'[u].node = thr[u].node /\ (HasNode(u)' <=> HasNode(u)) /\ thr'[u].sock = thr[u].sock
    OBVIOUS
  <2>1. CASE u = t
    BY <1>2, <1>4, <1>5, <2>1 DEF HasNode
  <2>2. CASE u # t
    BY <1>10, <2>2 DEF HasNode
  <2> QED
    BY <2>1, <2>2
<1>14. Owners'
  <2>1. ASSUME NEW u \in Threads, HasNode(u)
        PROVE  /\ thr'[u].node \in Nodes
               /\ thr'[u].pc = "find" \/ mem'[thr'[u].node].live
               /\ mem'[thr'[u].node].live => mem'[thr'[u].node].id = thr'[u].sock
    <3>1. /\ thr[u].node \in Nodes
          /\ thr[u].pc = "find" \/ mem[thr[u].node].live
          /\ mem[thr[u].node].live => mem[thr[u].node].id = thr[u].sock
      BY <2>1 DEF Ready, Owners
    <3>2. u # t => thr'[u].pc = thr[u].pc
      BY <1>10
    <3> QED
      BY <1>6, <1>9, <1>13, <3>1, <3>2
  <2>2. \A u, v \in Threads : HasNode(u) /\ HasNode(v) /\ thr'[u].node = thr'[v].node => u = v
    BY <1>13 DEF Ready, Owners
  <2>3. \A n \in Nodes : mem'[n].live => \E u \in Threads : HasNode(u) /\ thr'[u].node = n
    BY <1>9, <1>13 DEF Ready, Owners
  <2> QED
    BY <1>13, <2>1, <2>2, <2>3 DEF Owners
<1>15. \A u \in Threads : Linked(u)' <=> Linked(u) /\ u # t
  <2> SUFFICES ASSUME NEW u \in Threads PROVE Linked(u)' <=> Linked(u) /\ u # t
    OBVIOUS
  <2>1. CASE u = t
    BY <1>4, <1>5, <2>1 DEF Linked
  <2>2. CASE u # t
    <3>1. HasNode(u) => mem'[thr'[u].node].live = mem[thr[u].node].live
      BY <1>9, <1>13 DEF Ready, Owners
    <3> QED
      BY <1>10, <1>13, <2>2, <3>1 DEF Linked
  <2> QED
    BY <2>1, <2>2
<1>16. HasNode(t)
  BY <1>2 DEF HasNode
<1>17. IsList(Without(s, k))'
  BY <1>7, <1>9, <1>13, <1>15, <1>16, WithoutList
<1>18. PICK z : z = Without(s, k)
  OBVIOUS
<1>19. InWalk(t, z)'
  <2>1. mem'[s[k]].next = IF k = Len(s) THEN Null ELSE s[k + 1]
    BY <1>8, <1>9, ListFacts DEF IsList
  <2>2. k # Len(s) => k \in 1..Len(z) /\ z[k] = s[k + 1]
    <3>1. s \in Seq(Nodes) /\ Len(s) \in Nat
      BY ListFacts
    <3>2. Len(z) = Len(s) - 1 /\ \A i \in 1..(Len(s) - 1) : z[i] = IF i < k THEN s[i] ELSE s[i + 1]
      BY <1>18, <3>1, WithoutFacts
    <3>3. k # Len(s) => k \in 1..(Len(s) - 1) /\ ~(k < k)
      BY <3>1
    <3> QED
      BY <3>2, <3>3
  <2>3. mem'[s[k]].next \in {z[i] : i \in 1..Len(z)} \union {Null}
    BY <2>1, <2>2
  <2> QED
    BY <1>4, <1>5, <1>6, <1>7, <2>3 DEF InWalk
<1>20. Listed(z)'
  BY <1>10, <1>11, <1>17, <1>18, <1>19, PlaceOthers DEF Listed
<1>21. Evolves(s, z)
  BY <1>18 DEF Evolves
<1> QED
  BY <1>9, <1>11, <1>12, <1>14, <1>20, <1>21 DEF After

\* It is freed, and the thread goes on from there: from the node that came after.
LEMMA DeleteFreeCalm == ASSUME NEW s, Ready(s), NEW t \in Threads, DeleteFree(t) PROVE After(s)
<1>1. /\ OnList(t, "free", [Onward(thr[t]) EXCEPT !.pc = "find"]) /\ UNCHANGED <<players, master>>
      /\ mem' = [mem EXCEPT ![thr[t].cur].live = FALSE]
  BY DEF DeleteFree, OnList
<1>2. thr[t].pc = "free" /\ thr'[t] = [Onward(thr[t]) EXCEPT !.pc = "find"] /\ thr[t].cur # Null
  BY <1>1, ReadyFacts, StepFacts DEF OnList, Typed
<1>3. ~Start(t) /\ ~Close(t)
  BY <1>2 DEF Start, Local, Step, Close
<1>4. PICK r \in Thr : Turn(t, r) /\ thr'[t] = r
  BY <1>3, TurnThere DEF Thread
<1>5. /\ r.pc = "find" /\ r.node = thr[t].node /\ r.cur = mem[thr[t].cur].next
      /\ r.sock = thr[t].sock
  BY <1>2, <1>4, ReadyFacts, OnwardTyped DEF Thr
<1>6. /\ thr[t].cur = thr[t].node /\ thr[t].node \in Nodes /\ HasNode(t)
      /\ mem[thr[t].node].next \in {s[i] : i \in 1..Len(s)} \union {Null}
  BY <1>2, ListFacts DEF InWalk, Ready, Owners, HasNode
<1>7. /\ ~mem'[thr[t].node].live
      /\ \A m \in Nodes : /\ mem'[m].next = mem[m].next /\ mem'[m].id = mem[m].id
                          /\ m # thr[t].node => mem'[m].live = mem[m].live
  <2>1. mem \in [Nodes -> Node]
    BY ReadyFacts, ThrTypes
  <2> QED
    BY <1>1, <1>6, <2>1 DEF Node
<1>8. \A u \in Threads : u # t => thr'[u] = thr[u]
  BY <1>4, ReadyFacts, TurnFacts
<1>9. OneAtATime' /\ \A u \in Threads : u # t => thr[u].pc \in {"idle", "recv"}
  BY <1>2, <1>4, <1>5, OneAtATimeTurn DEF Proceeds, Removing
<1>10. MasterTrue'
  BY <1>1, <1>2, <1>4, <1>5, MasterTurn DEF Served
<1>11. \A u \in Threads : thr'[u].node = thr[u].node /\ (HasNode(u)' <=> HasNode(u)) /\ thr'[u].sock = thr[u].sock
  <2> SUFFICES ASSUME NEW u \in Threads
               PROVE  thr'[u].node = thr[u].node /\ (HasNode(u)' <=> HasNode(u)) /\ thr'[u].sock = thr[u].sock
    OBVIOUS
  <2>1. CASE u = t
    BY <1>2, <1>4, <1>5, <2>1 DEF HasNode
  <2>2. CASE u # t
    BY <1>8, <2>2 DEF HasNode
  <2> QED
    BY <2>1, <2>2
<1>12. \A u \in Threads : u # t /\ HasNode(u) =>
         thr[u].node \in Nodes /\ thr[u].node # thr[t].node /\ mem'[thr[u].node].live = mem[thr[u].node].live
  BY <1>6, <1>7 DEF Ready, Owners
<1>13. Owners'
  <2>1. ASSUME NEW u \in Threads, HasNode(u)
        PROVE  /\ thr'[u].node \in Nodes
               /\ thr'[u].pc = "find" \/ mem'[thr'[u].node].live
               /\ mem'[thr'[u].node].live => mem'[thr'[u].node].id = thr'[u].sock
    <3>1. CASE u = t
      BY <1>4, <1>5, <1>6, <1>7, <1>11, <3>1
    <3>2. CASE u # t
      BY <1>7, <1>8, <1>12, <2>1, <3>2 DEF Ready, Owners
    <3> QED
      BY <3>1, <3>2
  <2>2. \A u, v \in Threads : HasNode(u) /\ HasNode(v) /\ thr'[u].node = thr'[v].node => u = v
    BY <1>11 DEF Ready, Owners
  <2>3. \A n \in Nodes : mem'[n].live => \E u \in Threads : HasNode(u) /\ thr'[u].node = n
    BY <1>7, <1>11 DEF Ready, Owners
  <2> QED
    BY <1>11, <2>1, <2>2, <2>3 DEF Owners
<1>14. \A u \in Threads : Linked(u)' <=> Linked(u)
  <2> SUFFICES ASSUME NEW u \in Threads PROVE Linked(u)' <=> Linked(u)
    OBVIOUS
  <2>1. CASE u = t
    BY <1>2, <1>7, <1>11, <2>1 DEF Linked
  <2>2. CASE u # t
    BY <1>8, <1>11, <1>12, <2>2 DEF Linked
  <2> QED
    BY <2>1, <2>2
<1>15. IsList(s)'
  <2>1. IsList(s)
    BY ListFacts
  <2>2. \A i \in 1..Len(s) : mem'[s[i]].next = mem[s[i]].next
    BY <1>7, ListFacts
  <2>3. \A i \in 1..Len(s) : \E u \in Threads : Linked(u)' /\ thr'[u].node = s[i]
    BY <1>11, <1>14, <2>1 DEF IsList
  <2>4. \A u \in Threads : Linked(u)' => \E i \in 1..Len(s) : thr'[u].node = s[i]
    BY <1>11, <1>14, <2>1 DEF IsList
  <2> QED
    BY <1>1, <2>1, <2>2, <2>3, <2>4 DEF IsList
<1>16. InWalk(t, s)'
  BY <1>4, <1>5, <1>6, <1>7 DEF InWalk
<1>17. Listed(s)'
  BY <1>8, <1>9, <1>15, <1>16, PlaceOthers DEF Listed
<1> QED
  BY <1>7, <1>9, <1>10, <1>13, <1>17 DEF After, Evolves

-----------------------------------------------------------------------------
(* The clients, the main thread and the writer *)

\* A step that writes nothing of the threads that serve, of the list or of the set.
LEMMA StillCalm ==
  ASSUME NEW s, Ready(s), OneAtATime', UNCHANGED <<thr, players, mem, master>>
  PROVE  After(s)
<1>1. MasterTrue'
  BY DEF Ready, MasterTrue
<1>2. Owners'
  BY DEF Ready, Owners, HasNode
<1>3. Listed(s)'
  BY DEF Ready, Listed, IsList, InWalk, At, Linked, HasNode
<1> QED
  BY <1>1, <1>2, <1>3 DEF After, Evolves

\* A client comes, or leaves, while nobody else does.
LEMMA ClientCalm ==
  ASSUME NEW s, Ready(s), NEW c \in Clients, Connect(c) \/ Leave(c)
  PROVE  After(s)
<1>1. /\ Quiet /\ UNCHANGED <<main, open, thr, players, mem, master>>
      /\ con' = [con EXCEPT ![c] = "queued"] \/ con' = [con EXCEPT ![c] = "left"]
  BY DEF Ready, Calm, Connect, Leave, listener, list
<1>2. main = "accept" /\ (\A t \in Threads : thr[t].pc \notin Busy) /\ \A d \in Clients : con[d] \in {"out", "open"}
  BY <1>1 DEF Quiet, Busy, Adding, Removing
<1>3. \A d \in Moving' : d = c
  BY <1>1, <1>2, ReadyFacts DEF Moving, Typed, TypeOK
<1>4. OneAtATime'
  BY <1>1, <1>2, <1>3 DEF OneAtATime, Busy
<1> QED
  BY <1>1, <1>4, StillCalm

\* It is accepted.
LEMMA AcceptCalm == ASSUME NEW s, Ready(s), NEW c \in Clients, Accept(c) PROVE After(s)
<1>1. /\ con' = [con EXCEPT ![c] = "open"] /\ con[c] = "queued"
      /\ UNCHANGED <<thr, players, mem, master>>
  BY ReadyFacts, AcceptFacts
<1>2. OneAtATime
  BY DEF Ready
<1>3. c \in Moving /\ \A d \in Moving : d = c
  BY <1>1, <1>2 DEF OneAtATime, Moving
<1>4. Moving' = {}
  BY <1>1, <1>3, ReadyFacts DEF Moving, Typed, TypeOK
<1>5. \A t \in Threads : thr[t].pc \notin Busy
  BY <1>1, <1>2 DEF OneAtATime
<1>6. OneAtATime'
  BY <1>1, <1>4, <1>5 DEF OneAtATime, Busy
<1> QED
  BY <1>1, <1>6, StillCalm

\* What the writer does shows nowhere.
LEMMA WriterCalm == ASSUME NEW s, Ready(s), Writer PROVE After(s)
<1>1. UNCHANGED <<con, open, main, thr, players, mem, master>>
  BY WriterFacts
<1>2. OneAtATime'
  BY <1>1 DEF Ready, OneAtATime, Moving
<1> QED
  BY <1>1, <1>2, StillCalm

\* A thread that has no node in use, before and after.
LEMMA NodelessCalm ==
  ASSUME NEW s, Ready(s), NEW t \in Threads, OneAtATime', UNCHANGED <<players, mem, master>>,
         \A u \in Threads : u # t => thr'[u] = thr[u] /\ thr[u].pc \in {"idle", "recv"},
         thr[t].pc \in {"idle", "start"} \/ (thr[t].pc = "find" /\ ~mem[thr[t].node].live),
         thr'[t].pc \in {"idle", "start", "malloc"}, thr'[t].prev = Null
  PROVE  After(s)
<1>1. MasterTrue'
  <2>1. {thr'[u].sock : u \in {v \in Threads : thr'[v].pc \in Served}} = {thr[u].sock : u \in {v \in Threads : thr[v].pc \in Served}}
    <3>1. {v \in Threads : thr'[v].pc \in Served} = {v \in Threads : thr[v].pc \in Served}
      BY DEF Served
    <3>2. \A v \in Threads : thr[v].pc \in Served => thr'[v].sock = thr[v].sock
      BY DEF Served
    <3> QED
      BY <3>1, <3>2
  <2>2. \A u \in Threads : thr'[u].pc \notin {"set word", "clear word"}
    OBVIOUS
  <2> QED
    BY <2>1, <2>2 DEF Ready, MasterTrue
<1>2. ~HasNode(t)' /\ (HasNode(t) => ~mem[thr[t].node].live)
  BY DEF HasNode
<1>3. \A u \in Threads : u # t => (HasNode(u)' <=> HasNode(u))
  BY DEF HasNode
<1>4. Owners'
  <2>1. ASSUME NEW u \in Threads, HasNode(u)'
        PROVE  /\ thr'[u].node \in Nodes
               /\ thr'[u].pc = "find" \/ mem'[thr'[u].node].live
               /\ mem'[thr'[u].node].live => mem'[thr'[u].node].id = thr'[u].sock
    BY <1>2, <1>3, <2>1 DEF Ready, Owners
  <2>2. \A u, v \in Threads : HasNode(u)' /\ HasNode(v)' /\ thr'[u].node = thr'[v].node => u = v
    BY <1>2, <1>3 DEF Ready, Owners
  <2>3. ASSUME NEW n \in Nodes, mem'[n].live PROVE \E u \in Threads : HasNode(u)' /\ thr'[u].node = n
    <3>1. PICK u \in Threads : HasNode(u) /\ thr[u].node = n
      BY <2>3 DEF Ready, Owners
    <3>2. u # t
      BY <1>2, <2>3, <3>1
    <3> QED
      BY <1>3, <3>1, <3>2
  <2> QED
    BY <2>1, <2>2, <2>3 DEF Owners
<1>5. \A u \in Threads : /\ Linked(u)' <=> Linked(u)
                         /\ Linked(u) => thr'[u].node = thr[u].node
  <2> SUFFICES ASSUME NEW u \in Threads
               PROVE  /\ Linked(u)' <=> Linked(u)
                      /\ Linked(u) => thr'[u].node = thr[u].node
    OBVIOUS
  <2>1. CASE u = t
    BY <1>2, <2>1 DEF Linked
  <2>2. CASE u # t
    BY <1>3, <2>2 DEF Linked
  <2> QED
    BY <2>1, <2>2
<1>6. IsList(s)'
  <2>1. IsList(s)
    BY ListFacts
  <2>2. \A i \in 1..Len(s) : \E u \in Threads : Linked(u)' /\ thr'[u].node = s[i]
    <3> SUFFICES ASSUME NEW i \in 1..Len(s) PROVE \E u \in Threads : Linked(u)' /\ thr'[u].node = s[i]
      OBVIOUS
    <3>1. PICK u \in Threads : Linked(u) /\ thr[u].node = s[i]
      BY <2>1 DEF IsList
    <3> QED
      BY <1>5, <3>1
  <2>3. \A u \in Threads : Linked(u)' => \E i \in 1..Len(s) : thr'[u].node = s[i]
    <3> SUFFICES ASSUME NEW u \in Threads, Linked(u) PROVE \E i \in 1..Len(s) : thr'[u].node = s[i]
      BY <1>5
    <3>1. PICK i \in 1..Len(s) : thr[u].node = s[i]
      BY <2>1 DEF IsList
    <3> QED
      BY <1>5, <3>1
  <2> QED
    BY <2>1, <2>2, <2>3 DEF IsList
<1>7. InWalk(t, s)'
  BY DEF InWalk
<1>8. Listed(s)'
  BY <1>6, <1>7, PlaceOthers DEF Listed
<1> QED
  BY <1>1, <1>4, <1>8 DEF After, Evolves

\* A thread is created for the one who came.
LEMMA CreateCalm == ASSUME NEW s, Ready(s), Create PROVE After(s)
<1>1. PICK t \in Threads : thr[t] = Idle /\ thr' = [thr EXCEPT ![t] = [Idle EXCEPT !.pc = "start"]]
  BY ReadyFacts, CreateFacts
<1>2. main = "create" /\ main' = "accept" /\ UNCHANGED <<con, open, players, mem, master>>
  BY ReadyFacts, CreateFacts
<1>3. /\ thr'[t].pc = "start" /\ thr'[t].prev = Null /\ thr[t].pc = "idle"
      /\ \A u \in Threads : u # t => thr'[u] = thr[u]
  BY <1>1, ReadyFacts DEF Typed, Idle
<1>4. Moving = {} /\ \A u \in Threads : thr[u].pc \notin Busy
  BY <1>2 DEF Ready, OneAtATime
<1>5. \A u \in Threads : thr[u].pc \in {"idle", "recv"}
  BY <1>4, ReadyFacts, ThrTypes
<1>6. Moving' = {} /\ \A c \in Clients : con'[c] # "queued"
  BY <1>2, <1>4 DEF Moving
<1>7. OneAtATime'
  <2>1. "start" \in Adding /\ "start" \notin Removing
    BY DEF Adding, Removing
  <2>2. \A u \in Threads : u # t => thr'[u].pc \notin Busy
    BY <1>3, <1>4
  <2> QED
    BY <1>2, <1>3, <1>6, <2>1, <2>2 DEF OneAtATime, Busy
<1> QED
  BY <1>2, <1>3, <1>5, <1>7, NodelessCalm

\* It reads the socket.
LEMMA StartCalm == ASSUME NEW s, Ready(s), NEW t \in Threads, Start(t) PROVE After(s)
<1>1. /\ thr[t].pc = "start" /\ thr' = [thr EXCEPT ![t] = [Idle EXCEPT !.pc = "malloc", !.sock = newclient]]
      /\ UNCHANGED <<con, open, main, players, mem, master>>
  BY ReadyFacts, StartFacts
<1>2. /\ thr'[t].pc = "malloc" /\ thr'[t].prev = Null
      /\ \A u \in Threads : u # t => thr'[u] = thr[u]
  BY <1>1, ReadyFacts DEF Typed, Idle
<1>3. \A u \in Threads : u # t => thr[u].pc \in {"idle", "recv"}
  BY <1>1, OthersWait DEF Busy, Adding
<1>4. Moving = {} /\ main # "create" /\ \A c \in Clients : con[c] # "queued"
  BY <1>1 DEF Ready, OneAtATime, Busy, Adding
<1>5. OneAtATime'
  <2>1. "malloc" \in Adding /\ "malloc" \notin Removing
    BY DEF Adding, Removing
  <2>2. \A u \in Threads : u # t => thr'[u].pc \notin Busy
    BY <1>2, <1>3 DEF Busy, Adding, Removing
  <2>3. Moving' = {} /\ main' # "create" /\ \A c \in Clients : con'[c] # "queued"
    BY <1>1, <1>4 DEF Moving
  <2> QED
    BY <1>2, <2>1, <2>2, <2>3 DEF OneAtATime, Busy
<1> QED
  BY <1>1, <1>2, <1>3, <1>5, NodelessCalm

\* The end of the list is the end of the thread: its node is freed by then.
LEMMA CloseCalm == ASSUME NEW s, Ready(s), NEW t \in Threads, Close(t) PROVE After(s)
<1>1. /\ thr[t].pc = "find" /\ thr[t].cur = Null /\ thr' = [thr EXCEPT ![t] = Idle]
      /\ con' = IF thr[t].sock \in DOMAIN open THEN [con EXCEPT ![open[thr[t].sock]] = "out"] ELSE con
      /\ UNCHANGED <<main, players, mem, master>>
  BY ReadyFacts, CloseFacts
<1>2. /\ thr'[t].pc = "idle" /\ thr'[t].prev = Null
      /\ \A u \in Threads : u # t => thr'[u] = thr[u]
  BY <1>1, ReadyFacts DEF Typed, Idle
<1>3. \A u \in Threads : u # t => thr[u].pc \in {"idle", "recv"}
  BY <1>1, OthersWait DEF Busy, Removing
<1>4. ~mem[thr[t].node].live
  <2> SUFFICES ASSUME mem[thr[t].node].live PROVE FALSE
    OBVIOUS
  <2>1. PICK i, j \in 1..Len(s) : At(t, s, i)
    BY <1>1, ListFacts DEF InWalk
  <2>2. thr[t].cur = s[i] /\ s[i] # Null
    BY <2>1, ListFacts DEF At
  <2> QED
    BY <1>1, <2>2
<1>5. thr[t].sock \in DOMAIN open
  BY <1>1, ReadyFacts, ThrTypes DEF OwnThread, Away
<1>6. open[thr[t].sock] \in Moving
  <2>1. con[open[thr[t].sock]] = "left"
    BY <1>1 DEF Ready, OneAtATime, Removing
  <2> QED
    BY <1>5, <2>1, ReadyFacts DEF Moving, Typed, TypeOK
<1>7. \A c \in Moving : c = open[thr[t].sock]
  BY <1>6 DEF Ready, OneAtATime
<1>8. Moving' = {}
  BY <1>1, <1>5, <1>6, <1>7, ReadyFacts DEF Moving, Typed, TypeOK
<1>9. OneAtATime'
  <2>1. \A u \in Threads : thr'[u].pc \notin Busy
    BY <1>2, <1>3 DEF Busy, Adding, Removing
  <2> QED
    BY <1>8, <2>1 DEF OneAtATime, Busy
<1> QED
  BY <1>1, <1>2, <1>3, <1>4, <1>9, NodelessCalm

-----------------------------------------------------------------------------
(* All steps *)

LEMMA CalmStep == ASSUME NEW s, Ready(s), [Next]_vars PROVE After(s)
<1>1. CASE UNCHANGED vars
  <2>1. UNCHANGED <<con, open, main, thr, players, mem, master>>
    BY <1>1 DEF vars, net, listener, list
  <2>2. OneAtATime'
    BY <2>1 DEF Ready, OneAtATime, Moving
  <2> QED
    BY <2>1, <2>2, StillCalm
<1>2. ASSUME NEW c \in Clients, Connect(c) \/ Leave(c) \/ Accept(c) PROVE After(s)
  BY <1>2, ClientCalm, AcceptCalm
<1>3. ASSUME NEW t \in Threads, Thread(t) PROVE After(s)
  <2>1. Start(t) \/ Malloc(t) \/ Greet(t) \/ RecvEnd(t) \/ Close(t) => After(s)
    BY StartCalm, MallocCalm, GreetCalm, RecvEndCalm, CloseCalm
  <2>2. AddTest(t) \/ AddHead(t) \/ AddFirst(t) \/ AddWalk(t) => After(s)
    BY AddTestCalm, AddHeadCalm, AddFirstCalm, AddWalkCalm
  <2>3. AddLink(t) \/ AddCrash(t) \/ AddSeal(t) => After(s)
    BY AddLinkCalm, AddCrashCalm, AddSealCalm
  <2>4. ReadWord(t, "set", "set word") \/ ReadWord(t, "clear", "clear word") => After(s)
    BY <1>3, ReadWordCalm
  <2>5. SetWord(t) \/ ClearWord(t) => After(s)
    BY SetWordCalm, ClearWordCalm
  <2>6. DeleteFirst(t) \/ DeletePass(t) \/ DeleteUnlink(t) \/ DeleteFree(t) => After(s)
    BY DeleteFirstCalm, DeletePassCalm, DeleteUnlinkCalm, DeleteFreeCalm
  <2> QED
    BY <1>3, <2>1, <2>2, <2>3, <2>4, <2>5, <2>6 DEF Thread
<1> QED
  BY <1>1, <1>2, <1>3, CreateCalm, WriterCalm DEF Next

PlayersInv ==
  /\ ArrivalInv
  /\ Calm => OneAtATime /\ MasterTrue /\ Owners /\ \E s : Listed(s)

LEMMA PlayersInit == Init => PlayersInv
<1> SUFFICES ASSUME Init PROVE PlayersInv
  OBVIOUS
<1>1. \A t \in Threads : thr[t] = Idle
  BY DEF Init
<1>2. ArrivalInv
  BY ArrivalInit
<1>3. OneAtATime /\ Moving = {}
  BY <1>1 DEF Init, OneAtATime, Moving, Idle, Busy, Adding, Removing
<1>4. MasterTrue
  BY <1>1 DEF Init, MasterTrue, Idle, Served
<1>5. Owners
  BY <1>1 DEF Init, Owners, Idle, HasNode
<1>6. <<>> \in Seq(Nodes) /\ Len(<<>>) = 0 /\ \A i \in 1..0 : FALSE
  OBVIOUS
<1>7. IsList(<<>>)
  BY <1>1, <1>6 DEF Init, IsList, Linked, HasNode, Idle
<1>8. \A t \in Threads : InWalk(t, <<>>)
  BY <1>1 DEF InWalk, Idle
<1> QED
  BY <1>2, <1>3, <1>4, <1>5, <1>7, <1>8 DEF PlayersInv, Listed

\* No step changes what comes one at a time.
LEMMA CalmStays == Typed /\ [Next]_vars => spaced' = spaced
<1> SUFFICES ASSUME Typed, [Next]_vars PROVE spaced' = spaced
  OBVIOUS
<1>1. CASE UNCHANGED vars
  BY <1>1 DEF vars, net
<1>2. ASSUME NEW c \in Clients, Connect(c) \/ Leave(c) \/ Accept(c) PROVE spaced' = spaced
  BY <1>2 DEF Connect, Leave, Accept
<1>3. ASSUME NEW t \in Threads, Thread(t) PROVE spaced' = spaced
  BY <1>3, TurnLemma, StartFacts, CloseFacts DEF Turn
<1> QED
  BY <1>1, <1>2, <1>3, CreateFacts, WriterFacts DEF Next

LEMMA PlayersStep == PlayersInv /\ [Next]_vars => PlayersInv'
<1> SUFFICES ASSUME PlayersInv, [Next]_vars PROVE PlayersInv'
  OBVIOUS
<1>1. ArrivalInv'
  BY ArrivalStep DEF PlayersInv
<1>2. spaced' = spaced
  BY CalmStays DEF PlayersInv, ArrivalInv
<1>3. ASSUME Calm PROVE OneAtATime' /\ MasterTrue' /\ Owners' /\ \E z : Listed(z)'
  <2>1. PICK s : Ready(s)
    BY <1>3 DEF PlayersInv, Ready
  <2> QED
    BY <2>1, CalmStep DEF After
<1> QED
  BY <1>1, <1>2, <1>3 DEF PlayersInv, Calm

\* Once nobody is on the way the nodes in use are those of the players, and the
\* set has the sockets of their connections.
LEMMA QuietLemma ==
  ASSUME NEW s, Ready(s), Quiet
  PROVE  /\ {n \in Nodes : mem[n].live} = {thr[t].node : t \in Serving}
         /\ master = {thr[t].sock : t \in Serving} /\ master = DOMAIN open
<1>1. \A t \in Threads : thr[t].pc \in {"idle", "recv"}
  BY DEF Quiet
<1>2. \A t \in Threads : HasNode(t) <=> t \in Serving
  BY <1>1 DEF HasNode, Serving
<1>3. {n \in Nodes : mem[n].live} = {thr[t].node : t \in Serving}
  <2>1. \A t \in Serving : thr[t].node \in Nodes /\ mem[thr[t].node].live
    BY <1>2 DEF Ready, Owners, Serving
  <2>2. \A n \in Nodes : mem[n].live => \E t \in Serving : thr[t].node = n
    BY <1>2 DEF Ready, Owners
  <2> QED
    BY <2>1, <2>2
<1>4. master = {thr[t].sock : t \in Serving}
  <2>1. {u \in Threads : thr[u].pc \in Served} = Serving
    BY <1>1 DEF Served, Serving
  <2> QED
    BY <2>1 DEF Ready, MasterTrue
<1>5. \A t \in Serving : thr[t].sock \in DOMAIN open
  BY ReadyFacts, ThrTypes DEF OwnThread, Serving, Away
<1>6. ASSUME NEW f \in DOMAIN open PROVE \E t \in Serving : thr[t].sock = f
  <2>1. f # NoFd
    BY ReadyFacts DEF Typed, TypeOK
  <2>2. PICK t \in Threads : thr[t].sock = f
    BY <1>1 DEF Ready, ArrivalInv, Arrivals, Calm, OwnThread, Quiet
  <2>3. thr[t].pc \notin Away
    BY <2>1, <2>2, ReadyFacts DEF Typed
  <2> QED
    BY <1>1, <2>2, <2>3 DEF Serving, Away
<1> QED
  BY <1>3, <1>4, <1>5, <1>6

\* Where clients come and leave one at a time, a node is freed when its client
\* leaves and the updates go to the players, however many have come and gone.
THEOREM NothingLeftHolds == Spec => []NothingLeft
<1>1. PlayersInv => NothingLeft
  <2> SUFFICES ASSUME PlayersInv PROVE NothingLeft
    OBVIOUS
  <2>1. TypeOK
    BY DEF PlayersInv, ArrivalInv, Typed
  <2>2. ASSUME Calm PROVE \E s : Ready(s)
    BY <2>2 DEF PlayersInv, Ready
  <2> QED
    BY <2>1, <2>2, QuietLemma DEF NothingLeft
<1> QED
  BY <1>1, PlayersInit, PlayersStep, PTL DEF Spec

-----------------------------------------------------------------------------
(* The list the README describes *)

\* A set of numbers has a least one.
LEMMA Least ==
  ASSUME NEW T, T \subseteq Nat, T # {}
  PROVE  \E x \in T : \A y \in T : x <= y
<1> DEFINE R == StrictSubsetOrdering(Nat)
           U == {0..n : n \in T}
<1>1. U \subseteq FiniteSubsetsOf(Nat)
  <2>1. \A n \in T : IsFiniteSet(0..n)
    BY FS_Interval
  <2> QED
    BY <2>1 DEF FiniteSubsetsOf
<1>2. IsWellFoundedOn(R, FiniteSubsetsOf(Nat))
  BY FS_StrictSubsetOrderingWellFounded
<1>3. U # {}
  OBVIOUS
<1> HIDE DEF R, U
<1>4. PICK u \in U : \A v \in U : ~(<<v, u>> \in R)
  BY <1>1, <1>2, <1>3, WFMin, Zenon
<1>5. PICK x \in T : u = 0..x
  BY DEF U
<1>6. ASSUME NEW y \in T, y < x PROVE FALSE
  <2>1. 0..y \in U
    BY DEF U
  <2>2. 0..y \subseteq 0..x /\ 0..y # 0..x /\ 0..x \subseteq Nat /\ 0..y \subseteq Nat
    BY <1>6
  <2>3. IsFiniteSet(0..x) /\ IsFiniteSet(0..y)
    BY FS_Interval
  <2>4. <<0..y, 0..x>> \in R
    BY <2>2, <2>3 DEF R, StrictSubsetOrdering
  <2> QED
    BY <2>1, <2>4, <1>4, <1>5
<1> QED
  BY <1>6

\* Walks follow the list, and none is longer.
LEMMA WalkFacts ==
  ASSUME NEW s, IsList(s), Null \notin Nodes, NEW r \in Walks
  PROVE  Len(r) <= Len(s) /\ (Len(r) = Len(s) => r = s)
<1>1. PICK k \in Nat : r \in [1..k -> Nodes] /\ \A i \in 1..k : r[i] = IF i = 1 THEN players ELSE mem[r[i - 1]].next
  <2>1. PICK k \in 0..Cardinality(Nodes) : r \in [1..k -> Nodes]
    BY DEF Walks
  <2>2. k \in Nat /\ DOMAIN r = 1..k
    BY <2>1, PlayersAssumption, FS_CardinalityType
  <2> QED
    BY <2>1, <2>2 DEF Walks
<1>2. PICK m \in Nat : m = Len(s)
  BY LenProperties DEF IsList
<1>3. /\ s \in Seq(Nodes) /\ players = IF s = <<>> THEN Null ELSE s[1]
      /\ s = <<>> <=> m = 0
      /\ \A i \in 1..m : mem[s[i]].next = IF i = m THEN Null ELSE s[i + 1]
  BY <1>2, EmptySeq DEF IsList
<1> DEFINE Off == {i \in 1..k : ~(i <= m /\ r[i] = s[i])}
<1>4. Off = {}
  <2> SUFFICES ASSUME Off # {} PROVE FALSE
    OBVIOUS
  <2>1. Off \subseteq Nat
    OBVIOUS
  <2>2. PICK x \in Off : \A y \in Off : x <= y
    <3> HIDE DEF Off
    <3> QED
      BY <2>1, Least
  <2>3. x \in 1..k /\ ~(x <= m /\ r[x] = s[x])
    OBVIOUS
  <2>4. CASE x = 1
    <3>1. r[1] = players /\ r[1] \in Nodes
      BY <1>1, <2>3, <2>4
    <3> QED
      BY <1>3, <2>3, <2>4, <3>1
  <2>5. CASE x # 1
    <3>1. x - 1 \in 1..k /\ x - 1 < x /\ (x - 1) + 1 = x
      BY <2>3, <2>5
    <3>2. x - 1 \notin Off
      BY <2>2, <3>1
    <3>3. x - 1 <= m /\ r[x - 1] = s[x - 1] /\ x - 1 \in 1..m
      BY <3>1, <3>2
    <3>4. r[x] = mem[s[x - 1]].next /\ r[x] \in Nodes
      BY <1>1, <2>3, <2>5, <3>3
    <3>5. mem[s[x - 1]].next = IF x - 1 = m THEN Null ELSE s[x]
      BY <1>3, <3>1, <3>3
    <3>6. x - 1 # m
      BY <3>4, <3>5
    <3> QED
      BY <2>3, <3>3, <3>4, <3>5, <3>6
  <2> QED
    BY <2>4, <2>5
<1>5. \A i \in 1..k : i <= m /\ r[i] = s[i]
  BY <1>4
<1>6. Len(r) = k /\ r \in Seq(Nodes)
  BY <1>1
<1>7. k <= m
  <2>1. k # 0 => k \in 1..k
    OBVIOUS
  <2> QED
    BY <1>2, <1>5, <2>1
<1>8. k = m => r = s
  BY <1>2, <1>3, <1>5, <1>6
<1> QED
  BY <1>2, <1>6, <1>7, <1>8

\* So the list is what is found by following next from players.
LEMMA ChainLemma == \A s : IsList(s) => Chain = s
<1> SUFFICES ASSUME NEW s, IsList(s) PROVE Chain = s
  OBVIOUS
<1>1. Null \notin Nodes
  BY PlayersAssumption DEF Null
<1>2. PICK m \in Nat : m = Len(s)
  BY LenProperties DEF IsList
<1>3. s \in Seq(Nodes) /\ s \in [1..m -> Nodes] /\ DOMAIN s = 1..m
  BY <1>2, LenProperties DEF IsList
<1>4. m <= Cardinality(Nodes) /\ Cardinality(Nodes) \in Nat
  <2>1. IsFiniteSet(Nodes)
    BY PlayersAssumption
  <2>2. \A i, j \in 1..m : s[i] = s[j] => i = j
    BY <1>2 DEF IsList
  <2>3. s \in Injection(1..m, Nodes)
    BY <1>3, <2>2 DEF Injection, IsInjective
  <2>4. Cardinality(1..m) <= Cardinality(Nodes) /\ Cardinality(1..m) = m
    BY <2>1, <2>3, FS_Injection, FS_Interval
  <2> QED
    BY <2>1, <2>4, FS_CardinalityType
<1>5. \A i \in 1..m : s[i] = IF i = 1 THEN players ELSE mem[s[i - 1]].next
  <2> SUFFICES ASSUME NEW i \in 1..m PROVE s[i] = IF i = 1 THEN players ELSE mem[s[i - 1]].next
    OBVIOUS
  <2>1. s # <<>>
    BY <1>2, EmptySeq
  <2>2. players = s[1]
    BY <2>1 DEF IsList
  <2>3. CASE i # 1
    <3>1. i - 1 \in 1..m /\ i - 1 # m /\ (i - 1) + 1 = i
      BY <2>3
    <3>2. mem[s[i - 1]].next = IF i - 1 = m THEN Null ELSE s[(i - 1) + 1]
      BY <1>2, <3>1 DEF IsList
    <3> QED
      BY <2>3, <3>1, <3>2
  <2> QED
    BY <2>2, <2>3
<1>6. s \in Walks
  BY <1>3, <1>4, <1>5 DEF Walks
<1>7. \A r \in Walks : Len(r) <= Len(s) /\ (Len(r) = Len(s) => r = s)
  BY <1>1, WalkFacts
<1>8. Chain \in Walks /\ Len(s) <= Len(Chain)
  BY <1>6, <1>7 DEF Chain
<1>9. Len(Chain) \in Nat
  BY <1>8 DEF Walks
<1> QED
  BY <1>2, <1>7, <1>8, <1>9

\* The ids, by the list.
IdsOfList == \A s : IsList(s) => Ids = [k \in 1..Len(s) |-> mem[s[k]].id]

LEMMA IdsLemma == IdsOfList
<1> SUFFICES ASSUME NEW s, IsList(s) PROVE Ids = [k \in 1..Len(s) |-> mem[s[k]].id]
  BY DEF IdsOfList
<1>1. Chain = s
  BY ChainLemma
<1>2. DOMAIN s = 1..Len(s)
  BY LenProperties DEF IsList
<1> QED
  BY <1>1, <1>2 DEF Ids

\* Each is the socket of one connection, and no two are the same.
LEMMA IdFacts ==
  ASSUME NEW s, Ready(s)
  PROVE  /\ \A n \in Nodes : mem[n].live => mem[n].id \in Fds
         /\ \A m, n \in Nodes : mem[m].live /\ mem[n].live /\ mem[m].id = mem[n].id => m = n
         /\ \A k \in 1..Len(s) : s[k] \in Nodes /\ mem[s[k]].live
<1>1. \A n \in Nodes : mem[n].live =>
        \E t \in Threads : thr[t].node = n /\ mem[n].id = thr[t].sock /\ thr[t].sock \in Fds
  <2> SUFFICES ASSUME NEW n \in Nodes, mem[n].live
               PROVE  \E t \in Threads : thr[t].node = n /\ mem[n].id = thr[t].sock /\ thr[t].sock \in Fds
    OBVIOUS
  <2>1. PICK t \in Threads : HasNode(t) /\ thr[t].node = n
    BY DEF Ready, Owners
  <2>2. thr[t].pc \notin Away
    BY <2>1 DEF HasNode, Away
  <2>3. mem[n].id = thr[t].sock
    BY <2>1 DEF Ready, Owners
  <2> QED
    BY <2>1, <2>2, <2>3, ReadyFacts, ThrTypes
<1>2. \A t, u \in Threads : thr[t].sock \in Fds /\ thr[t].sock = thr[u].sock => t = u
  BY ReadyFacts DEF OwnThread
<1>3. \A k \in 1..Len(s) : s[k] \in Nodes /\ mem[s[k]].live
  <2> SUFFICES ASSUME NEW k \in 1..Len(s) PROVE s[k] \in Nodes /\ mem[s[k]].live
    OBVIOUS
  <2>1. PICK t \in Threads : Linked(t) /\ thr[t].node = s[k]
    BY ListFacts DEF IsList
  <2> QED
    BY <2>1, ListFacts DEF Linked
<1>4. ASSUME NEW m \in Nodes, NEW n \in Nodes, mem[m].live, mem[n].live, mem[m].id = mem[n].id PROVE m = n
  <2>1. PICK t \in Threads : thr[t].node = m /\ mem[m].id = thr[t].sock /\ thr[t].sock \in Fds
    BY <1>1, <1>4
  <2>2. PICK u \in Threads : thr[u].node = n /\ mem[n].id = thr[u].sock
    BY <1>1, <1>4
  <2> QED
    BY <1>2, <1>4, <2>1, <2>2
<1> QED
  BY <1>1, <1>3, <1>4

\* As the list evolves its ids do what the README says of them.
LEMMA IdsStep ==
  ASSUME NEW s, Ready(s), After(s)
  PROVE  Ids' = Ids \/ Abstract!Next
<1>1. PICK z : IsList(z)' /\ Evolves(s, z)
  BY DEF After, Listed
<1>2. \A n \in Nodes : mem[n].live => mem'[n].id = mem[n].id
  BY DEF After
<1>3. PICK m \in Nat : m = Len(s)
  BY ListFacts
<1>4. s \in Seq(Nodes) /\ \A k \in 1..m : s[k] \in Nodes /\ mem[s[k]].live /\ mem[s[k]].id \in Fds
  BY <1>3, IdFacts, ListFacts
<1>5. Ids = [k \in 1..m |-> mem[s[k]].id]
  BY <1>3, IdsLemma, ListFacts DEF IdsOfList
<1>6. Ids' = [k \in 1..Len(z) |-> mem'[z[k]].id]
  <2>1. IdsOfList'
    BY IdsLemma, PTL
  <2> QED
    BY <1>1, <2>1 DEF IdsOfList
<1>7. Ids \in Seq(Fds) /\ Len(Ids) = m /\ DOMAIN Ids = 1..m /\ \A k \in 1..m : Ids[k] = mem[s[k]].id
  BY <1>4, <1>5
<1>8. \A k \in 1..m : mem'[s[k]].id = Ids[k]
  BY <1>2, <1>4, <1>7
<1>9. CASE z = s
  BY <1>3, <1>4, <1>5, <1>6, <1>8, <1>9, <1>2
<1>10. CASE \E n \in Nodes : mem[n].live /\ (\A i \in 1..Len(s) : s[i] # n) /\ z = Append(s, n)
  <2>1. PICK n \in Nodes : mem[n].live /\ (\A i \in 1..m : s[i] # n) /\ z = Append(s, n)
    BY <1>3, <1>10
  <2>2. PICK p : p = mem[n].id
    OBVIOUS
  <2>3. p \in Fds /\ mem'[n].id = p
    BY <1>2, <2>1, <2>2, IdFacts
  <2>4. \A k \in 1..m : Ids[k] # p
    BY <1>4, <1>7, <2>1, <2>2, IdFacts
  <2>5. Len(z) = m + 1 /\ (\A k \in 1..m : z[k] = s[k]) /\ z[m + 1] = n
    BY <1>3, <1>4, <2>1, AppendProperties
  <2>6. PICK y : y = Append(Ids, p)
    OBVIOUS
  <2>7. y \in Seq(Fds) /\ Len(y) = m + 1 /\ (\A k \in 1..m : y[k] = Ids[k]) /\ y[m + 1] = p
    BY <1>7, <2>3, <2>6, AppendProperties
  <2>8. \A k \in 1..(m + 1) : mem'[z[k]].id = y[k]
    <3>1. \A k \in 1..(m + 1) : k \in 1..m \/ k = m + 1
      OBVIOUS
    <3> QED
      BY <1>8, <2>3, <2>5, <2>7, <3>1
  <2>9. Ids' = Append(Ids, p)
    <3>1. y = [k \in 1..(m + 1) |-> y[k]]
      BY <2>7
    <3> QED
      BY <1>6, <2>5, <2>8, <2>6, <3>1
  <2>10. p \notin Abstract!Listed
    BY <1>7, <2>4 DEF Abstract!Listed
  <2> QED
    BY <2>3, <2>9, <2>10 DEF Abstract!Next, Abstract!Join
<1>11. CASE \E k \in 1..Len(s) : z = Without(s, k)
  <2>1. PICK k \in 1..m : z = Without(s, k)
    BY <1>3, <1>11
  <2>2. m - 1 \in Nat /\ Len(z) = m - 1 /\ \A i \in 1..(m - 1) : z[i] = IF i < k THEN s[i] ELSE s[i + 1]
    BY <1>3, <1>4, <2>1, WithoutFacts
  <2>3. PICK y : y = Without(Ids, k)
    OBVIOUS
  <2>4. y \in Seq(Fds) /\ Len(y) = m - 1 /\ \A i \in 1..(m - 1) : y[i] = IF i < k THEN Ids[i] ELSE Ids[i + 1]
    BY <1>7, <2>1, <2>3, WithoutFacts
  <2>5. \A i \in 1..(m - 1) : mem'[z[i]].id = y[i]
    <3> SUFFICES ASSUME NEW i \in 1..(m - 1) PROVE mem'[z[i]].id = y[i]
      OBVIOUS
    <3>1. i \in 1..m /\ i + 1 \in 1..m
      OBVIOUS
    <3> QED
      BY <1>8, <2>2, <2>4, <3>1
  <2>6. Ids' = y
    <3>1. y = [i \in 1..(m - 1) |-> y[i]]
      BY <2>4
    <3> QED
      BY <1>6, <2>2, <2>5, <3>1
  <2>7. Ids' = SubSeq(Ids, 1, k - 1) \o SubSeq(Ids, k + 1, Len(Ids)) /\ k \in DOMAIN Ids /\ Ids[k] \in Fds
    BY <1>4, <1>7, <2>3, <2>6 DEF Without
  <2> QED
    BY <2>7 DEF Abstract!Next, Abstract!Leave
<1> QED
  BY <1>1, <1>9, <1>10, <1>11 DEF Evolves

\* Where clients come and leave one at a time, whoever comes is linked at the end
\* of the list and whoever leaves is taken out of it, and nothing else changes it.
THEOREM ImplementsHolds == Spec => Implements
<1>1. Init => Abstract!Init
  <2> SUFFICES ASSUME Init PROVE Ids = <<>>
    BY DEF Abstract!Init
  <2>1. \A t \in Threads : ~Linked(t)
    BY DEF Init, Linked, HasNode, Idle
  <2>2. IsList(<<>>)
    BY <2>1 DEF Init, IsList
  <2> QED
    BY <2>2, IdsLemma DEF IdsOfList
<1>2. PlayersInv /\ [Next]_vars => [Calm => Abstract!Next]_Ids
  <2> SUFFICES ASSUME PlayersInv, [Next]_vars, Calm PROVE Ids' = Ids \/ Abstract!Next
    OBVIOUS
  <2>1. PICK s : Ready(s)
    BY DEF PlayersInv, Ready
  <2> QED
    BY <2>1, CalmStep, IdsStep
<1> QED
  BY <1>1, <1>2, PlayersInit, PlayersStep, PTL DEF Spec, Implements

-----------------------------------------------------------------------------
(* Where the players stand *)

Places == [x : 0..Edge, y : 0..Edge]

ServerTyped ==
  /\ status \in [Players -> {"in", "reset", "ending", "out"}] /\ status[Me] = "in"
  /\ trail \in [Players -> Seq(Places)] /\ \A p \in Players : trail[p] # <<>>
  /\ buf \in [Players -> Keys \union {NoKey}]

Lines == [id : Int, x : 0..Edge, y : 0..Edge, nx : Nat, ny : Nat, sound : BOOLEAN]

SentTyped == stream \in Seq([part : {1}, of : Lines]) /\ Len(stream) <= Cap

\* A sound line says where its player was, and when.
TrueLine(l, places) ==
  l.sound =>
    /\ l.id \in Players
    /\ l.nx \in 1..Len(places[l.id]) /\ l.x = places[l.id][l.nx].x
    /\ l.ny \in 1..Len(places[l.id]) /\ l.y = places[l.id][l.ny].y

\* The lines under way and those that are drawn.
Known == {stream[i].of : i \in 1..Len(stream)} \union {map[p] : p \in DOMAIN map}

KnownTrue == \A l \in Known : l \in Lines /\ TrueLine(l, trail)

NotBefore(l, m) == l.sound /\ m.sound /\ l.id = m.id => l.nx <= m.nx /\ l.ny <= m.ny

\* What is under way is in the order it was read, and not older than the map.
Ordered ==
  /\ \A i, j \in 1..Len(stream) : i < j => NotBefore(stream[i].of, stream[j].of)
  /\ \A p \in DOMAIN map :
       map[p].id = p /\ \A i \in 1..Len(stream) : NotBefore(map[p], stream[i].of)

\* What the writer has read of a player's node is true, and not older than any
\* line of that player.
XTrue ==
  "x" \in got =>
    /\ line.nx \in 1..Len(trail[turn]) /\ line.x = trail[turn][line.nx].x
    /\ \A l \in Known : l.sound /\ l.id = turn => l.nx <= line.nx

YTrue ==
  "y" \in got =>
    /\ line.ny \in 1..Len(trail[turn]) /\ line.y = trail[turn][line.ny].y
    /\ \A l \in Known : l.sound /\ l.id = turn => l.ny <= line.ny

LineTrue ==
  /\ turn \in Players /\ got \subseteq {"x", "y"} /\ line \in Lines
  /\ line.sound => (got # {} => line.id = turn) /\ XTrue /\ YTrue

ClientTyped == pressed \in 0..MaxMoves /\ typed \in Keys \union {NoKey} /\ up \in Seq(Keys)

MapInv == ServerTyped /\ SentTyped /\ KnownTrue /\ Ordered /\ LineTrue /\ ClientTyped

\* What MapTrue and NeverBack say of a step of the map.
Grows ==
  \A p \in DOMAIN map :
    /\ p \in DOMAIN map'
    /\ map[p].sound /\ map'[p].sound => map'[p].nx >= map[p].nx /\ map'[p].ny >= map[p].ny

\* The players are numbered from 1.
LEMMA PlayersFacts ==
  /\ Players \subseteq Nat /\ 1 \in Players /\ Me \in Players
  /\ Edge \in Nat /\ Edge > 0 /\ MaxMoves \in Nat /\ Cap \in Nat /\ 1 <= Cap
<1>1. Me \in Players /\ Me \in Nat \ {0} /\ 1..Me \subseteq Players
  BY MapAssumption
<1>2. 1 \in 1..Me
  BY <1>1
<1> QED
  BY <1>1, <1>2, MapAssumption

LEMMA BlankLine == Blank \in Lines /\ Nobody \in Lines /\ Nobody.sound = FALSE
<1>1. 0 \in 0..Edge /\ 0 \in Int /\ 0 \in Nat
  BY PlayersFacts
<1> QED
  BY <1>1 DEF Unread, Blank, Nobody, Lines

LEMMA MapInvInit == Parts = 1 /\ MapInit => MapInv
<1> SUFFICES ASSUME Parts = 1, MapInit PROVE MapInv
  OBVIOUS
<1>1. 1 \in Players /\ Me \in Players /\ Edge \in Nat /\ MaxMoves \in Nat /\ Cap \in Nat
  BY PlayersFacts
<1>2. ServerTyped
  <2>1. \A pos \in [x : 0..(Edge - 1), y : 0..(Edge - 1)] : pos \in Places /\ <<pos>> \in Seq(Places) /\ <<pos>> # <<>>
    BY <1>1 DEF Places
  <2>2. trail \in [Players -> {<<pos>> : pos \in [x : 0..(Edge - 1), y : 0..(Edge - 1)]}]
    BY DEF MapInit
  <2> DEFINE S == {<<pos>> : pos \in [x : 0..(Edge - 1), y : 0..(Edge - 1)]}
  <2>3. \A s \in S : s \in Seq(Places) /\ s # <<>>
    BY <2>1
  <2>4. trail \in [Players -> S]
    BY <2>2
  <2> HIDE DEF S
  <2>5. trail \in [Players -> Seq(Places)] /\ \A p \in Players : trail[p] # <<>>
    BY <2>3, <2>4
  <2> QED
    BY <1>1, <2>5 DEF MapInit, ServerTyped
<1>3. stream = <<>> /\ DOMAIN map = {} /\ turn = 1 /\ got = {} /\ line = Blank
  BY DEF MapInit
<1>4. Len(stream) = 0 /\ SentTyped
  BY <1>1, <1>3 DEF SentTyped
<1>5. Known = {} /\ KnownTrue /\ Ordered
  BY <1>3, <1>4 DEF Known, KnownTrue, Ordered
<1>6. LineTrue
  BY <1>1, <1>3, BlankLine DEF LineTrue, XTrue, YTrue
<1>7. ClientTyped
  BY <1>1 DEF MapInit, ClientTyped
<1> QED
  BY <1>2, <1>4, <1>5, <1>6, <1>7 DEF MapInv

\* A move stays on the map.
LEMMA MovedFacts ==
  ASSUME NEW pos \in Places, NEW key
  PROVE  Moved(pos, key) \in Places
<1>1. /\ pos.x \in 0..Edge /\ pos.y \in 0..Edge
      /\ Less(pos.x) \in 0..Edge /\ More(pos.x) \in 0..Edge
      /\ Less(pos.y) \in 0..Edge /\ More(pos.y) \in 0..Edge
  BY PlayersFacts DEF Places, Less, More
<1> QED
  BY <1>1 DEF Moved, Places

Grown(s, t) == \A i \in 1..Len(s) : i \in 1..Len(t) /\ t[i] = s[i]

LEMMA PlaceFacts ==
  ASSUME ServerTyped, NEW p \in Players
  PROVE  Len(trail[p]) \in Nat /\ Len(trail[p]) \in 1..Len(trail[p]) /\ Place(p) \in Places
<1>1. trail[p] \in Seq(Places) /\ trail[p] # <<>>
  BY DEF ServerTyped
<1>2. Len(trail[p]) \in Nat /\ Len(trail[p]) # 0
  BY <1>1, EmptySeq, LenProperties
<1>3. Len(trail[p]) \in 1..Len(trail[p])
  BY <1>2
<1> QED
  BY <1>1, <1>2, <1>3, ElementOfSeq DEF Place

\* A player that moves may have one place more; the places it had stay.
LEMMA MoveFacts ==
  ASSUME ServerTyped, NEW p \in Players, NEW key, Move(p, key)
  PROVE  /\ trail' \in [Players -> Seq(Places)] /\ \A q \in Players : trail'[q] # <<>>
         /\ \A q \in Players : Grown(trail[q], trail'[q])
<1>1. trail \in [Players -> Seq(Places)] /\ trail[p] \in Seq(Places) /\ \A q \in Players : trail[q] # <<>>
  BY DEF ServerTyped
<1>2. PICK pos : pos = Moved(Place(p), key)
  OBVIOUS
<1>3. pos \in Places
  BY <1>2, MovedFacts, PlaceFacts
<1>4. trail' = trail \/ trail' = [trail EXCEPT ![p] = Append(trail[p], pos)]
  BY <1>2 DEF Move
<1>5. CASE trail' = trail
  BY <1>1, <1>5 DEF Grown
<1>6. CASE trail' = [trail EXCEPT ![p] = Append(trail[p], pos)]
  <2>1. /\ Append(trail[p], pos) \in Seq(Places) /\ Len(Append(trail[p], pos)) = Len(trail[p]) + 1
        /\ \A i \in 1..Len(trail[p]) : Append(trail[p], pos)[i] = trail[p][i]
    BY <1>1, <1>3, AppendProperties
  <2>2. Len(trail[p]) \in Nat
    BY PlaceFacts
  <2>3. Append(trail[p], pos) # <<>> /\ Grown(trail[p], Append(trail[p], pos))
    BY <2>1, <2>2 DEF Grown
  <2>4. trail'[p] = Append(trail[p], pos) /\ \A q \in Players : q # p => trail'[q] = trail[q]
    BY <1>1, <1>6
  <2>5. trail' \in [Players -> Seq(Places)]
    BY <1>1, <1>6, <2>1
  <2> QED
    BY <1>1, <2>3, <2>4, <2>5 DEF Grown
<1> QED
  BY <1>4, <1>5, <1>6

\* What was true stays true.
LEMMA Stays ==
  ASSUME MapInv, UNCHANGED <<stream, map, turn, got, line>>,
         \A q \in Players : Grown(trail[q], trail'[q])
  PROVE  SentTyped' /\ KnownTrue' /\ Ordered' /\ LineTrue'
<1>1. Known' = Known
  BY DEF Known
<1>2. KnownTrue'
  BY <1>1 DEF MapInv, KnownTrue, TrueLine, Grown
<1>3. XTrue => XTrue'
  BY <1>1 DEF MapInv, LineTrue, XTrue, Grown
<1>4. YTrue => YTrue'
  BY <1>1 DEF MapInv, LineTrue, YTrue, Grown
<1>5. LineTrue'
  BY <1>3, <1>4 DEF MapInv, LineTrue
<1> QED
  BY <1>2, <1>5 DEF MapInv, SentTyped, Ordered

LEMMA StaysSame ==
  ASSUME MapInv, UNCHANGED <<trail, stream, map, turn, got, line>>
  PROVE  SentTyped' /\ KnownTrue' /\ Ordered' /\ LineTrue'
<1>1. \A q \in Players : Grown(trail[q], trail'[q])
  BY DEF Grown
<1> QED
  BY <1>1, Stays

\* A step of a player's thread that moves the player.
LEMMA MoveStep ==
  ASSUME MapInv, NEW p \in Players, NEW key, Move(p, key),
         status' \in [Players -> {"in", "reset", "ending", "out"}], status'[Me] = "in",
         buf' \in [Players -> Keys \union {NoKey}],
         UNCHANGED <<stream, map, turn, got, line>>
  PROVE  ServerTyped' /\ SentTyped' /\ KnownTrue' /\ Ordered' /\ LineTrue'
<1>1. ServerTyped
  BY DEF MapInv
<1>2. /\ trail' \in [Players -> Seq(Places)] /\ \A q \in Players : trail'[q] # <<>>
      /\ \A q \in Players : Grown(trail[q], trail'[q])
  BY <1>1, MoveFacts
<1> QED
  BY <1>2, Stays DEF ServerTyped

LEMMA RecvStep ==
  ASSUME MapInv, NEW p \in Players, NEW key \in Keys, Recv(p, key)
  PROVE  /\ ServerTyped' /\ SentTyped' /\ KnownTrue' /\ Ordered' /\ LineTrue'
         /\ UNCHANGED <<typed, map>>
<1>1. /\ Move(p, key) /\ buf' = [buf EXCEPT ![p] = key]
      /\ UNCHANGED <<status, turn, got, line, stream, typed, map>>
  BY DEF Recv, writer, client
<1>2. buf' \in [Players -> Keys \union {NoKey}]
  BY <1>1 DEF MapInv, ServerTyped
<1>3. status' \in [Players -> {"in", "reset", "ending", "out"}] /\ status'[Me] = "in"
  BY <1>1 DEF MapInv, ServerTyped
<1> QED
  BY <1>1, <1>2, <1>3, MoveStep

\* A reset or the end of another player's connection.
LEMMA EndStep ==
  ASSUME MapInv, NEW p \in Players, RecvReset(p) \/ RecvLast(p)
  PROVE  MapInv' /\ UNCHANGED map
<1>1. /\ p # Me /\ Move(p, buf[p])
      /\ status' = [status EXCEPT ![p] = "reset"] \/ status' = [status EXCEPT ![p] = "ending"]
      /\ UNCHANGED <<buf, pressed, up, turn, got, line, stream, typed, map>>
  BY DEF RecvReset, RecvLast, writer, client
<1>2. buf' \in [Players -> Keys \union {NoKey}]
  BY <1>1 DEF MapInv, ServerTyped
<1>3. status' \in [Players -> {"in", "reset", "ending", "out"}] /\ status'[Me] = "in"
  <2>1. status \in [Players -> {"in", "reset", "ending", "out"}] /\ status[Me] = "in"
    BY DEF MapInv, ServerTyped
  <2>2. CASE status' = [status EXCEPT ![p] = "reset"]
    BY <1>1, <2>1, <2>2
  <2>3. CASE status' = [status EXCEPT ![p] = "ending"]
    BY <1>1, <2>1, <2>3
  <2> QED
    BY <1>1, <2>2, <2>3
<1>4. ServerTyped' /\ SentTyped' /\ KnownTrue' /\ Ordered' /\ LineTrue'
  BY <1>1, <1>2, <1>3, MoveStep
<1> QED
  BY <1>1, <1>4 DEF MapInv, ClientTyped

\* A player that is out stays where it was.
LEMMA DeleteStep ==
  ASSUME MapInv, NEW p \in Players, Delete(p)
  PROVE  MapInv' /\ UNCHANGED map
<1>1. /\ status[p] = "ending" /\ status' = [status EXCEPT ![p] = "out"]
      /\ UNCHANGED <<trail, buf, pressed, up, turn, got, line, stream, typed, map>>
  BY DEF Delete, writer, client
<1>2. p # Me
  BY <1>1 DEF MapInv, ServerTyped
<1>3. ServerTyped'
  BY <1>1, <1>2 DEF MapInv, ServerTyped
<1> QED
  BY <1>1, <1>3, StaysSame DEF MapInv, ClientTyped

\* A coordinate that is read of a node in use is the newest.
LEMMA ReadStep ==
  ASSUME MapInv, ReadX \/ ReadY
  PROVE  MapInv' /\ UNCHANGED map
<1>1. ServerTyped /\ KnownTrue /\ LineTrue
  BY DEF MapInv
<1>2. UNCHANGED <<status, trail, buf, pressed, up, turn, stream, typed, map>>
  BY DEF ReadX, ReadY, Read, server, client
<1>3. Known' = Known
  BY <1>2 DEF Known
<1>4. turn \in Players /\ got \subseteq {"x", "y"} /\ line \in Lines
  BY <1>1 DEF LineTrue
<1>5. PICK n \in Nat : n = Len(trail[turn]) /\ n \in 1..n
  BY <1>1, <1>4, PlaceFacts
<1>6. PICK pos \in Places : pos = Place(turn) /\ pos = trail[turn][n]
  BY <1>1, <1>4, <1>5, PlaceFacts DEF Place
<1>7. \A l \in Known : l.sound /\ l.id = turn => l.nx <= n /\ l.ny <= n
  BY <1>1, <1>5 DEF KnownTrue, TrueLine
<1>8. ASSUME ~InUse(turn) PROVE LineTrue'
  <2>1. PICK id \in Junk \union {turn} : line' = [Nobody EXCEPT !.id = id]
    BY <1>8 DEF ReadX, ReadY, Read
  <2>2. id \in Int
    BY <1>4, <2>1, PlayersFacts, MapAssumption
  <2>3. line' \in Lines /\ line'.sound = FALSE
    BY <2>1, <2>2, BlankLine DEF Lines
  <2>4. got' \subseteq {"x", "y"}
    BY <1>4 DEF ReadX, ReadY, Read
  <2> QED
    BY <1>2, <1>4, <2>3, <2>4 DEF LineTrue
<1>9. ASSUME InUse(turn), ReadX PROVE LineTrue'
  <2>1. got' = got \union {"x"} /\ line' = [line EXCEPT !.x = pos.x, !.nx = n, !.id = turn]
    BY <1>4, <1>5, <1>6, <1>9 DEF ReadX, Read, Lines
  <2>2. /\ line' \in Lines /\ line'.sound = line.sound /\ line'.id = turn
        /\ line'.x = pos.x /\ line'.nx = n /\ line'.y = line.y /\ line'.ny = line.ny
    <3>1. line' = [id |-> turn, x |-> pos.x, y |-> line.y, nx |-> n, ny |-> line.ny, sound |-> line.sound]
      BY <1>4, <2>1 DEF Lines
    <3>2. turn \in Int /\ pos.x \in 0..Edge
      BY <1>4, <1>6, PlayersFacts DEF Places
    <3> QED
      BY <1>4, <3>1, <3>2 DEF Lines
  <2>3. XTrue'
    BY <1>2, <1>3, <1>5, <1>6, <1>7, <2>2 DEF XTrue
  <2>4. YTrue => YTrue'
    BY <1>2, <1>3, <2>1, <2>2 DEF YTrue
  <2> QED
    BY <1>1, <1>2, <1>4, <2>1, <2>2, <2>3, <2>4 DEF LineTrue
<1>10. ASSUME InUse(turn), ReadY PROVE LineTrue'
  <2>1. got' = got \union {"y"} /\ line' = [line EXCEPT !.y = pos.y, !.ny = n, !.id = turn]
    BY <1>4, <1>5, <1>6, <1>10 DEF ReadY, Read, Lines
  <2>2. /\ line' \in Lines /\ line'.sound = line.sound /\ line'.id = turn
        /\ line'.y = pos.y /\ line'.ny = n /\ line'.x = line.x /\ line'.nx = line.nx
    <3>1. line' = [id |-> turn, x |-> line.x, y |-> pos.y, nx |-> line.nx, ny |-> n, sound |-> line.sound]
      BY <1>4, <2>1 DEF Lines
    <3>2. turn \in Int /\ pos.y \in 0..Edge
      BY <1>4, <1>6, PlayersFacts DEF Places
    <3> QED
      BY <1>4, <3>1, <3>2 DEF Lines
  <2>3. YTrue'
    BY <1>2, <1>3, <1>5, <1>6, <1>7, <2>2 DEF YTrue
  <2>4. XTrue => XTrue'
    BY <1>2, <1>3, <2>1, <2>2 DEF XTrue
  <2> QED
    BY <1>1, <1>2, <1>4, <2>1, <2>2, <2>3, <2>4 DEF LineTrue
<1>11. LineTrue'
  BY <1>8, <1>9, <1>10
<1>12. ServerTyped' /\ SentTyped' /\ KnownTrue' /\ Ordered' /\ ClientTyped'
  BY <1>2, <1>3 DEF MapInv, ServerTyped, SentTyped, KnownTrue, Ordered, ClientTyped
<1> QED
  BY <1>2, <1>11, <1>12 DEF MapInv

\* A line more, which is not older than any that is known.
LEMMA SendStep ==
  ASSUME Parts = 1, MapInv, SendLine
  PROVE  MapInv' /\ UNCHANGED map
<1>1. /\ got = {"x", "y"} /\ Len(stream) + 1 <= Cap
      /\ stream' = stream \o [part \in 1..1 |-> [part |-> part, of |-> line]]
      /\ turn' \in Players /\ got' = {} /\ line' = Blank
      /\ UNCHANGED <<status, trail, buf, pressed, up, typed, map>>
  BY DEF SendLine, server, client
<1>2. ServerTyped /\ SentTyped /\ KnownTrue /\ Ordered /\ LineTrue
  BY DEF MapInv
<1> DEFINE one == [part \in 1..1 |-> [part |-> part, of |-> line]]
           L == [part : {1}, of : Lines]
<1>3. line \in Lines /\ TrueLine(line, trail) /\ \A l \in Known : NotBefore(l, line)
  BY <1>1, <1>2 DEF LineTrue, XTrue, YTrue, TrueLine, NotBefore
<1>4. one \in Seq(L) /\ Len(one) = 1 /\ one[1].of = line
  <2>1. \A i \in 1..1 : i = 1
    OBVIOUS
  <2> DEFINE r == [part |-> 1, of |-> line]
  <2>2. one = <<r>>
    BY <2>1
  <2>3. r \in L /\ r.of = line
    BY <1>3
  <2> HIDE DEF r
  <2>4. <<r>> \in Seq(L) /\ Len(<<r>>) = 1 /\ <<r>>[1] = r
    BY <2>3
  <2> QED
    BY <2>2, <2>3, <2>4
<1> HIDE DEF one
<1>5. PICK m \in Nat : m = Len(stream)
  BY <1>2, LenProperties DEF SentTyped
<1>6. /\ stream' \in Seq(L) /\ Len(stream') = m + 1 /\ stream'[m + 1].of = line
      /\ \A i \in 1..m : stream'[i] = stream[i]
  <2>1. stream \in Seq(L)
    BY <1>2 DEF SentTyped
  <2>2. /\ stream' \in Seq(L) /\ Len(stream') = m + 1
        /\ \A i \in 1..(m + 1) : stream'[i] = IF i <= m THEN stream[i] ELSE one[i - m]
    BY <1>1, <1>4, <1>5, <2>1, ConcatProperties DEF one
  <2>3. m + 1 \in 1..(m + 1) /\ ~(m + 1 <= m) /\ m + 1 - m = 1
    BY <1>5
  <2>4. \A i \in 1..m : i \in 1..(m + 1) /\ i <= m
    BY <1>5
  <2>5. stream'[m + 1].of = line
    <3>1. stream'[m + 1] = one[m + 1 - m]
      BY <2>2, <2>3
    <3> QED
      BY <1>4, <2>3, <3>1
  <2>6. \A i \in 1..m : stream'[i] = stream[i]
    BY <2>2, <2>4
  <2> QED
    BY <2>2, <2>5, <2>6
<1>7. \A i \in 1..(m + 1) : i \in 1..m \/ i = m + 1
  BY <1>5
<1>8. \A i \in 1..m : stream[i].of \in Known
  BY <1>5 DEF Known
<1>9. Known' \subseteq Known \union {line}
  <2>1. \A i \in 1..(m + 1) : stream'[i].of \in Known \union {line}
    BY <1>6, <1>7, <1>8
  <2>2. \A p \in DOMAIN map : map[p] \in Known
    BY DEF Known
  <2> QED
    BY <1>1, <1>6, <2>1, <2>2 DEF Known
<1>10. KnownTrue'
  BY <1>1, <1>2, <1>3, <1>9 DEF KnownTrue
<1>11. \A i, j \in 1..(m + 1) : i < j => NotBefore(stream'[i].of, stream'[j].of)
  <2> SUFFICES ASSUME NEW i \in 1..(m + 1), NEW j \in 1..(m + 1), i < j
               PROVE  NotBefore(stream'[i].of, stream'[j].of)
    OBVIOUS
  <2>1. i \in 1..m
    BY <1>5
  <2>2. CASE j \in 1..m
    BY <1>2, <1>5, <1>6, <2>1, <2>2 DEF Ordered
  <2>3. CASE j = m + 1
    BY <1>3, <1>6, <1>8, <2>1, <2>3
  <2> QED
    BY <1>7, <2>2, <2>3
<1>12. \A p \in DOMAIN map : map[p].id = p /\ \A i \in 1..(m + 1) : NotBefore(map[p], stream'[i].of)
  <2> SUFFICES ASSUME NEW p \in DOMAIN map, NEW i \in 1..(m + 1)
               PROVE  map[p].id = p /\ NotBefore(map[p], stream'[i].of)
    BY <1>7
  <2>1. map[p] \in Known
    BY DEF Known
  <2>2. map[p].id = p
    BY <1>2 DEF Ordered
  <2>3. CASE i \in 1..m
    BY <1>2, <1>5, <1>6, <2>2, <2>3 DEF Ordered
  <2>4. CASE i = m + 1
    BY <1>3, <1>6, <2>1, <2>2, <2>4
  <2> QED
    BY <1>7, <2>3, <2>4
<1>13. Ordered'
  BY <1>1, <1>6, <1>11, <1>12 DEF Ordered
<1>14. SentTyped'
  BY <1>1, <1>5, <1>6 DEF SentTyped
<1>15. LineTrue'
  BY <1>1, BlankLine DEF LineTrue, XTrue, YTrue
<1>16. ServerTyped' /\ ClientTyped'
  BY <1>1 DEF MapInv, ServerTyped, ClientTyped
<1> QED
  BY <1>1, <1>10, <1>13, <1>14, <1>15, <1>16 DEF MapInv

\* What the client takes from the stream, with lines that arrive whole, is
\* the line it starts with.
LEMMA TakeFacts ==
  ASSUME Parts = 1, MapInv, ClientRecv
  PROVE  \E k \in 1..Len(stream) :
           /\ stream' = SubSeq(stream, k + 1, Len(stream))
           /\ parsed' = stream[1].of
<1>1. PICK k \in 1..Batch :
        /\ k <= Len(stream)
        /\ parsed' = Scan(SubSeq(stream, 1, k))
        /\ stream' = SubSeq(stream, k + 1, Len(stream))
  BY DEF ClientRecv
<1>2. k \in Nat /\ 1 <= k /\ Len(stream) \in Nat
  BY <1>1, LenProperties, MapAssumption DEF MapInv, SentTyped
<1> DEFINE L == [part : {1}, of : Lines]
<1>3. stream \in Seq(L)
  BY DEF MapInv, SentTyped
<1>4. \A i \in 1..k : stream[i] \in L
  <2>1. \A i \in 1..k : i \in 1..Len(stream)
    BY <1>1, <1>2
  <2> QED
    BY <1>3, <2>1, ElementOfSeq
<1>5. /\ Len(SubSeq(stream, 1, k)) = IF 1 <= k THEN k - 1 + 1 ELSE 0
      /\ \A i \in 1..(k - 1 + 1) : SubSeq(stream, 1, k)[i] = stream[1 + i - 1]
  BY <1>2, <1>4, SubSeqProperties
<1>6. Len(SubSeq(stream, 1, k)) = k /\ SubSeq(stream, 1, k)[1] = stream[1]
  <2>1. k - 1 + 1 = k /\ 1 \in 1..k /\ 1 + 1 - 1 = 1
    BY <1>2
  <2> QED
    BY <1>2, <1>5, <2>1
<1>7. stream[1].part = 1
  BY <1>2, <1>4
<1>8. Scan(SubSeq(stream, 1, k)) = stream[1].of
  BY <1>2, <1>6, <1>7 DEF Scan
<1>9. k \in 1..Len(stream)
  BY <1>1, <1>2
<1> QED
  BY <1>1, <1>8, <1>9

\* The map is given a line that is true and not older than what it shows.
LEMMA DrawStep ==
  ASSUME Parts = 1, MapInv, ClientRecv
  PROVE  MapInv' /\ Grows
<1>1. PICK k \in 1..Len(stream) :
        /\ stream' = SubSeq(stream, k + 1, Len(stream))
        /\ parsed' = stream[1].of
  BY TakeFacts
<1>2. UNCHANGED <<status, trail, buf, pressed, typed, up, turn, got, line>>
  BY DEF ClientRecv, server, writer
<1>3. ServerTyped /\ SentTyped /\ KnownTrue /\ Ordered /\ LineTrue
  BY DEF MapInv
<1> DEFINE L == [part : {1}, of : Lines]
           u == stream[1].of
<1>4. PICK m \in Nat : m = Len(stream)
  BY <1>3, LenProperties DEF SentTyped
<1>5. k \in 1..m /\ m > 0 /\ 1 \in 1..m
  BY <1>1, <1>4
<1>6. stream \in Seq(L) /\ \A i \in 1..m : stream[i] \in L
  BY <1>3, <1>4, ElementOfSeq DEF SentTyped
<1>7. /\ DOMAIN map' = DOMAIN map \union {u.id} /\ map'[u.id] = u
      /\ \A p \in DOMAIN map : p # u.id => map'[p] = map[p]
  BY <1>1 DEF ClientRecv, Update
<1>8. /\ stream' \in Seq(L) /\ Len(stream') = m - k
      /\ \A i \in 1..(m - k) : k + i \in 1..m /\ stream'[i] = stream[k + i]
  <2>1. \A i \in (k + 1)..m : stream[i] \in L
    BY <1>5, <1>6
  <2>2. /\ stream' \in Seq(L) /\ Len(stream') = IF k + 1 <= m THEN m - (k + 1) + 1 ELSE 0
        /\ \A i \in 1..(m - (k + 1) + 1) : stream'[i] = stream[k + 1 + i - 1]
    BY <1>1, <1>4, <1>5, <2>1, SubSeqProperties
  <2>3. m - (k + 1) + 1 = m - k /\ \A i \in 1..(m - k) : k + 1 + i - 1 = k + i /\ k + i \in 1..m
    BY <1>5
  <2>4. Len(stream') = m - k
    BY <1>5, <2>2
  <2> QED
    BY <2>2, <2>3, <2>4
<1>9. u \in Known
  BY <1>4, <1>5 DEF Known
<1>10. Known' \subseteq Known
  <2>1. \A i \in 1..Len(stream') : stream'[i].of \in Known
    BY <1>4, <1>8 DEF Known
  <2>2. \A p \in DOMAIN map' : map'[p] \in Known
    BY <1>7, <1>9 DEF Known
  <2> QED
    BY <2>1, <2>2 DEF Known
<1>11. KnownTrue'
  BY <1>2, <1>3, <1>10 DEF KnownTrue
<1>12. LineTrue'
  <2>1. (XTrue => XTrue') /\ (YTrue => YTrue')
    BY <1>2, <1>10 DEF XTrue, YTrue
  <2> QED
    BY <1>2, <1>3, <2>1 DEF LineTrue
<1>13. \A i, j \in 1..(m - k) : i < j => NotBefore(stream'[i].of, stream'[j].of)
  <2> SUFFICES ASSUME NEW i \in 1..(m - k), NEW j \in 1..(m - k), i < j
               PROVE  NotBefore(stream'[i].of, stream'[j].of)
    OBVIOUS
  <2>1. k + i \in 1..m /\ k + j \in 1..m /\ k + i < k + j /\ stream'[i] = stream[k + i] /\ stream'[j] = stream[k + j]
    BY <1>5, <1>8
  <2> QED
    BY <1>3, <1>4, <2>1 DEF Ordered
<1>14. \A p \in DOMAIN map' : map'[p].id = p /\ \A i \in 1..(m - k) : NotBefore(map'[p], stream'[i].of)
  <2> SUFFICES ASSUME NEW p \in DOMAIN map'
               PROVE  map'[p].id = p /\ \A i \in 1..(m - k) : NotBefore(map'[p], stream'[i].of)
    OBVIOUS
  <2>1. \A i \in 1..(m - k) : k + i \in 1..m /\ 1 < k + i /\ stream'[i] = stream[k + i]
    BY <1>5, <1>8
  <2>2. CASE p = u.id
    BY <1>3, <1>4, <1>5, <1>7, <2>1, <2>2 DEF Ordered
  <2>3. CASE p # u.id
    <3>1. p \in DOMAIN map /\ map'[p] = map[p]
      BY <1>7, <2>3
    <3> QED
      BY <1>3, <1>4, <2>1, <3>1 DEF Ordered
  <2> QED
    BY <2>2, <2>3
<1>15. Ordered'
  BY <1>8, <1>13, <1>14 DEF Ordered
<1>16. SentTyped'
  <2>1. m <= Cap /\ Cap \in Nat
    BY <1>3, <1>4, PlayersFacts DEF SentTyped
  <2> QED
    BY <1>5, <1>8, <2>1 DEF SentTyped
<1>17. ServerTyped' /\ ClientTyped'
  BY <1>2 DEF MapInv, ServerTyped, ClientTyped
<1>18. Grows
  <2> SUFFICES ASSUME NEW p \in DOMAIN map, map[p].sound, map'[p].sound
               PROVE  map'[p].nx >= map[p].nx /\ map'[p].ny >= map[p].ny
    BY <1>7 DEF Grows
  <2>1. map[p] \in Lines /\ u \in Lines
    BY <1>3, <1>9 DEF KnownTrue, Known
  <2>2. CASE p = u.id
    <3>1. map[p].id = u.id /\ NotBefore(map[p], u)
      BY <1>3, <1>4, <1>5, <2>2 DEF Ordered
    <3>2. map[p].nx <= u.nx /\ map[p].ny <= u.ny
      BY <1>7, <2>2, <3>1 DEF NotBefore
    <3> QED
      BY <1>7, <2>1, <2>2, <3>2 DEF Lines
  <2>3. CASE p # u.id
    BY <1>7, <2>1, <2>3 DEF Lines
  <2> QED
    BY <2>2, <2>3
<1> QED
  BY <1>11, <1>12, <1>15, <1>16, <1>17, <1>18 DEF MapInv

\* Every step keeps the invariant, and the map never goes back.
LEMMA MapStep ==
  ASSUME Parts = 1, MapInv, [MapNext]_mapVars
  PROVE  MapInv' /\ [Grows]_mapVars
<1>1. UNCHANGED map => Grows
  BY DEF MapInv, KnownTrue, Known, Lines, Grows
<1>2. CASE RecvMe
  <2>1. up # <<>> /\ Recv(Me, Head(up)) /\ up' = Tail(up) /\ UNCHANGED pressed
    BY <1>2 DEF RecvMe
  <2>2. up \in Seq(Keys) /\ Head(up) \in Keys /\ Tail(up) \in Seq(Keys)
    BY <2>1, HeadTailProperties DEF MapInv, ClientTyped
  <2>3. /\ ServerTyped' /\ SentTyped' /\ KnownTrue' /\ Ordered' /\ LineTrue'
        /\ UNCHANGED <<typed, map>>
    BY <2>1, <2>2, RecvStep, PlayersFacts
  <2> QED
    BY <1>1, <2>1, <2>2, <2>3 DEF MapInv, ClientTyped
<1>3. ASSUME NEW p \in Players, RecvOther(p) PROVE MapInv' /\ Grows
  <2>1. PICK key \in Keys : Recv(p, key)
    BY <1>3 DEF RecvOther
  <2>2. pressed < MaxMoves /\ pressed' = pressed + 1 /\ UNCHANGED up
    BY <1>3 DEF RecvOther, Press
  <2>3. /\ ServerTyped' /\ SentTyped' /\ KnownTrue' /\ Ordered' /\ LineTrue'
        /\ UNCHANGED <<typed, map>>
    BY <2>1, RecvStep
  <2> QED
    BY <1>1, <2>2, <2>3, PlayersFacts DEF MapInv, ClientTyped
<1>4. ASSUME NEW p \in Players, RecvReset(p) \/ RecvLast(p) PROVE MapInv' /\ Grows
  BY <1>1, <1>4, EndStep
<1>5. ASSUME NEW p \in Players, Delete(p) PROVE MapInv' /\ Grows
  BY <1>1, <1>5, DeleteStep
<1>6. CASE MapWriter
  BY <1>1, <1>6, ReadStep, SendStep DEF MapWriter
<1>7. CASE ClientRecv
  BY <1>7, DrawStep
<1>8. CASE ClientKey
  <2>1. /\ typed # NoKey /\ up' = Append(up, typed) /\ typed' = NoKey
        /\ UNCHANGED <<status, trail, buf, pressed, turn, got, line, stream, map>>
    BY <1>8 DEF ClientKey, server, writer
  <2>2. up' \in Seq(Keys)
    BY <2>1, AppendProperties DEF MapInv, ClientTyped
  <2> QED
    BY <1>1, <2>1, <2>2, StaysSame DEF MapInv, ClientTyped, ServerTyped
<1>9. ASSUME NEW key \in Keys, Type(key) PROVE MapInv' /\ Grows
  <2>1. /\ typed' = key /\ pressed < MaxMoves /\ pressed' = pressed + 1
        /\ UNCHANGED <<status, trail, buf, up, turn, got, line, stream, map>>
    BY <1>9 DEF Type, Press, server, writer
  <2>2. pressed' \in 0..MaxMoves
    BY <2>1, PlayersFacts DEF MapInv, ClientTyped
  <2> QED
    BY <1>1, <2>1, <2>2, StaysSame DEF MapInv, ClientTyped, ServerTyped
<1>10. CASE UNCHANGED mapVars
  <2>1. UNCHANGED <<status, trail, buf, pressed, typed, up, turn, got, line, stream, map>>
    BY <1>10 DEF mapVars, server, writer, client
  <2> QED
    BY <2>1, StaysSame, <1>10 DEF MapInv, ClientTyped, ServerTyped
<1> QED
  BY <1>2, <1>3, <1>4, <1>5, <1>6, <1>7, <1>8, <1>9, <1>10 DEF MapNext, Client

LEMMA MapTyped == ASSUME MapInv PROVE MapTrue
<1>1. ServerTyped /\ SentTyped /\ KnownTrue /\ Ordered /\ LineTrue /\ ClientTyped
  BY DEF MapInv
<1>2. \A p \in Players : trail[p] \in Seq([x : 0..Edge, y : 0..Edge]) /\ DOMAIN trail[p] = 1..Len(trail[p])
  BY <1>1, LenProperties DEF ServerTyped, Places
<1>3. MapTypeOK
  BY <1>1, <1>2 DEF MapTypeOK, ServerTyped, SentTyped, LineTrue, ClientTyped
<1>4. \A p \in DOMAIN map : map[p].id = p /\ TrueLine(map[p], trail)
  BY <1>1 DEF Ordered, KnownTrue, Known
<1> QED
  BY <1>2, <1>3, <1>4 DEF MapTrue, TrueLine

\* README: the client's map is like the server's.  With lines that arrive
\* whole, whatever a client draws (update() in src/client.c) is a player of
\* the server at an x and a y to which thread_client had moved it, though not
\* always at both at once; unless the line was read of a node that was freed.
THEOREM MapTrueHolds == Parts = 1 /\ MapSpec => []MapTrue
<1> SUFFICES ASSUME Parts = 1 PROVE MapSpec => []MapTrue
  OBVIOUS
<1>1. MapInit => MapInv
  BY MapInvInit
<1>2. MapInv /\ [MapNext]_mapVars => MapInv'
  BY MapStep
<1>3. MapInv => MapTrue
  BY MapTyped
<1> QED
  BY <1>1, <1>2, <1>3, PTL DEF MapSpec

\* The lines of a player are sent and drawn in the order of its moves: neither
\* coordinate on the map goes back to one the player has left.
THEOREM NeverBackHolds == Parts = 1 /\ MapSpec => NeverBack
<1> SUFFICES ASSUME Parts = 1 PROVE MapSpec => NeverBack
  OBVIOUS
<1>1. MapInit => MapInv
  BY MapInvInit
<1>2. MapInv /\ [MapNext]_mapVars => MapInv' /\ [Grows]_mapVars
  BY MapStep
<1> QED
  BY <1>1, <1>2, PTL DEF MapSpec, NeverBack, Grows
=============================================================================
