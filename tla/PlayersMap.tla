----------------------------- MODULE PlayersMap -----------------------------
(***************************************************************************)
(* esameSNP12: where the players stand, from the keys their clients send   *)
(* over the server's updates to the map that one client, Me, draws.        *)
(* src/server.c moves a player in thread_client and sends all positions,   *)
(* line after line, in thread_writer, which reads x and y one by one and   *)
(* without a lock, from nodes that may be freed; src/client.c reads what   *)
(* has come, takes the line it starts with, and draws.                     *)
(***************************************************************************)
EXTENDS Integers, Sequences

CONSTANTS
  Players,  \* 1..N, in the order of the server's list
  Me,       \* the player whose client draws the map
  Edge,     \* the last value of each coordinate
  Keys,     \* keys that are pressed, of w, s, a and d
  Junk,     \* what the id of a freed node may read as
  Parts,    \* parts in which a line arrives, the id in the first
  Batch,    \* parts one recv() may return
  Cap,      \* parts the socket buffers hold
  MaxMoves  \* bound: keys that are pressed, by all players together

ASSUME MapAssumption ==
  /\ Me \in Players /\ Players \subseteq Nat \ {0} /\ \A p \in Players : 1..p \subseteq Players
  /\ Edge \in Nat \ {0} /\ Keys \subseteq {"w", "s", "a", "d"} /\ Junk \subseteq Int
  /\ Parts \in {1, 2} /\ Parts <= Cap
  /\ Batch \in Nat \ {0} /\ Cap \in Nat /\ MaxMoves \in Nat

NoKey == "none"

VARIABLES
  status,  \* "in", "reset", "ending" or "out" of the list, for each player
  trail,   \* the places it had one after the other; at the last one it stands
  buf,     \* buf[0] of each player's thread
  pressed, \* how many keys were pressed
  typed,   \* the key Me's user has pressed and Me's client has not read
  up,      \* the keys under way from Me
  turn,    \* the player whose node the writer is at
  got,     \* the coordinates it has read of it
  line,    \* what it read
  stream,  \* the parts under way to Me
  parsed,  \* id_u, x_u and y_u of the client
  map      \* the list of the client: what is drawn for an id

server == <<status, trail, buf>>
client == <<typed, parsed, map>>
writer == <<turn, got, line>>
mapVars == <<server, pressed, up, writer, stream, client>>

\* What a line says; which places of the trail its x and y are; and whether the
\* node was in use when they were read (sound).
Unread(sound) == [id |-> 0, x |-> 0, y |-> 0, nx |-> 0, ny |-> 0, sound |-> sound]
Blank == Unread(TRUE)
Nobody == Unread(FALSE)

\* The client has connected and has its id; the players are somewhere on the map.
\* recv() of "your id:%d" may leave a rest of the 4096 bytes for the next.
MapInit ==
  /\ status = [p \in Players |-> "in"]
  /\ trail \in [Players -> {<<pos>> : pos \in [x : 0..(Edge - 1), y : 0..(Edge - 1)]}]
  /\ buf = [p \in Players |-> NoKey]
  /\ pressed = 0 /\ typed = NoKey /\ up = <<>>
  /\ turn = 1 /\ got = {} /\ line = Blank
  /\ stream = IF Parts = 1 THEN <<>> ELSE <<[part |-> 2, of |-> Nobody]>>
  /\ parsed = Nobody
  /\ map = [p \in {} |-> Nobody]

Place(p) == trail[p][Len(trail[p])]

Less(v) == IF v = 0 THEN 0 ELSE v - 1
More(v) == IF v = Edge THEN Edge ELSE v + 1

\* switch (buf[0]), with the tests at the edges.  current->coord = coord stores
\* both fields, of which one has changed.
Moved(pos, key) ==
  CASE key = "w" -> [pos EXCEPT !.y = Less(@)]
    [] key = "s" -> [pos EXCEPT !.y = More(@)]
    [] key = "a" -> [pos EXCEPT !.x = Less(@)]
    [] key = "d" -> [pos EXCEPT !.x = More(@)]
    [] OTHER -> pos

Move(p, key) ==
  LET pos == Moved(Place(p), key)
  IN trail' = IF pos = Place(p) THEN trail ELSE [trail EXCEPT ![p] = Append(@, pos)]

-----------------------------------------------------------------------------
(* The server. *)

Recv(p, key) ==
  /\ status[p] = "in"
  /\ buf' = [buf EXCEPT ![p] = key]
  /\ Move(p, key)
  /\ UNCHANGED <<status, writer, stream, client>>

RecvMe == up # <<>> /\ Recv(Me, Head(up)) /\ up' = Tail(up) /\ UNCHANGED pressed

Press == pressed < MaxMoves /\ pressed' = pressed + 1

RecvOther(p) == p # Me /\ Press /\ (\E key \in Keys : Recv(p, key)) /\ UNCHANGED up

\* A reset of another player's connection: recv() returns -1, buf[0] is what it
\* was and moves the player once more.
RecvReset(p) ==
  /\ p # Me /\ status[p] = "in"
  /\ status' = [status EXCEPT ![p] = "reset"]
  /\ Move(p, buf[p])
  /\ UNCHANGED <<buf, pressed, up, writer, stream, client>>

\* 0, also after that: the same again, and the loop ends.
RecvLast(p) ==
  /\ p # Me /\ status[p] \in {"in", "reset"}
  /\ status' = [status EXCEPT ![p] = "ending"]
  /\ Move(p, buf[p])
  /\ UNCHANGED <<buf, pressed, up, writer, stream, client>>

\* delete_player(): the node is taken out of the list and freed.
Delete(p) ==
  /\ status[p] = "ending"
  /\ status' = [status EXCEPT ![p] = "out"]
  /\ UNCHANGED <<trail, buf, pressed, up, writer, stream, client>>

InUse(p) == status[p] # "out"

\* The arguments of sprintf(), in any order.  The id does not change while the
\* node is in use: it is taken with the second coordinate.  Coordinates from
\* memory that is freed are not told apart.
Read(field, reading) ==
  /\ field \notin got /\ got' = got \union {field}
  /\ IF InUse(turn) THEN line' = [reading EXCEPT !.id = turn]
     ELSE \E id \in Junk \union {turn} : line' = [Nobody EXCEPT !.id = id]
  /\ UNCHANGED <<server, pressed, up, turn, stream, client>>

ReadX == Read("x", [line EXCEPT !.x = Place(turn).x, !.nx = Len(trail[turn])])

ReadY == Read("y", [line EXCEPT !.y = Place(turn).y, !.ny = Len(trail[turn])])

\* A plausible error: the loop over the list stops at the last node.
FollowingShort(p, q) ==
  InUse(q) /\ IF p + 2 \in Players THEN q = p + 1 ELSE \A r \in Players : r < q => ~InUse(r)

\* After p the writer is at q, p->next, or the first of the list where that is
\* NULL.  A node taken out still leads to what followed it then.
Following(p, q) ==
  \/ q > p /\ (InUse(p) => InUse(q) /\ \A r \in Players : p < r /\ r < q => ~InUse(r))
  \/ /\ InUse(q) /\ \A r \in Players : r < q => ~InUse(r)
     /\ InUse(p) => \A r \in Players : r > p => ~InUse(r)

\* send() waits while the buffers are full.
SendLine ==
  /\ got = {"x", "y"} /\ Len(stream) + Parts <= Cap
  /\ stream' = stream \o [part \in 1..Parts |-> [part |-> part, of |-> line]]
  /\ \E q \in Players : Following(turn, q) /\ turn' = q
  /\ got' = {} /\ line' = Blank
  /\ UNCHANGED <<server, pressed, up, client>>

MapWriter == ReadX \/ ReadY \/ SendLine

-----------------------------------------------------------------------------
(* The client of Me.                                                       *)

Type(key) ==
  /\ typed = NoKey /\ Press
  /\ typed' = key
  /\ UNCHANGED <<server, up, writer, stream, parsed, map>>

\* sscanf: what the data does not say keeps its value.
Scan(data) ==
  IF data[1].part # 1 THEN parsed
  ELSE IF Len(data) < Parts THEN [parsed EXCEPT !.id = data[1].of.id]
  ELSE data[1].of

\* A plausible error: the position goes to every player of the list.
UpdateAll(u) == [p \in DOMAIN map \union {u.id} |-> u]

\* update(): the player's place, added to the list if it is not there.
Update(u) == [p \in DOMAIN map \union {u.id} |-> IF p = u.id THEN u ELSE map[p]]

\* The socket is looked at first; whatever recv() returned, one line is used.
ClientRecv ==
  /\ \E k \in 1..Batch :
       /\ k <= Len(stream)
       /\ parsed' = Scan(SubSeq(stream, 1, k))
       /\ stream' = SubSeq(stream, k + 1, Len(stream))
  /\ map' = Update(parsed')
  /\ UNCHANGED <<server, pressed, typed, up, writer>>

\* The else branch: select() found nothing but the terminal ready.
ClientKey ==
  /\ stream = <<>> /\ typed # NoKey
  /\ up' = Append(up, typed)
  /\ typed' = NoKey
  /\ UNCHANGED <<server, pressed, writer, stream, parsed, map>>

Client == ClientRecv \/ ClientKey

-----------------------------------------------------------------------------

MapNext ==
  \/ RecvMe \/ (\E p \in Players : RecvOther(p) \/ RecvReset(p) \/ RecvLast(p) \/ Delete(p))
  \/ MapWriter \/ Client \/ (\E key \in Keys : Type(key))

(* The threads of the server and the client keep running.                  *)
MapFairness ==
  /\ WF_mapVars(RecvMe) /\ \A p \in Players : WF_mapVars(Delete(p))
  /\ WF_mapVars(MapWriter) /\ WF_mapVars(Client)

MapSpec == MapInit /\ [][MapNext]_mapVars /\ MapFairness

-----------------------------------------------------------------------------

MapTypeOK ==
  /\ status \in [Players -> {"in", "reset", "ending", "out"}] /\ status[Me] = "in"
  /\ \A p \in Players :
       /\ trail[p] \in Seq([x : 0..Edge, y : 0..Edge]) /\ trail[p] # <<>>
       /\ buf[p] \in Keys \union {NoKey}
  /\ pressed \in 0..MaxMoves /\ typed \in Keys \union {NoKey} /\ up \in Seq(Keys)
  /\ turn \in Players /\ got \subseteq {"x", "y"} /\ Len(stream) <= Cap

\* README: the client's map is like the server's.  Whatever it draws is a player
\* of the server at values of x and y which that player had, though not always
\* both at once; unless the writer read a node that had been freed.
MapTrue ==
  /\ MapTypeOK
  /\ \A p \in DOMAIN map :
       map[p].sound =>
         /\ p \in Players
         /\ map[p].nx \in DOMAIN trail[p] /\ map[p].x = trail[p][map[p].nx].x
         /\ map[p].ny \in DOMAIN trail[p] /\ map[p].y = trail[p][map[p].ny].y

\* Neither coordinate of a player is ever moved back on the map to one already
\* left.
NeverBack ==
  [][\A p \in DOMAIN map :
       /\ p \in DOMAIN map'
       /\ map[p].sound /\ map'[p].sound => map'[p].nx >= map[p].nx /\ map'[p].ny >= map[p].ny]_mapVars

Shown(p) == p \in DOMAIN map /\ [x |-> map[p].x, y |-> map[p].y] = Place(p)

\* README: all players are drawn.  A client that from some time on gets no
\* more than one line from a recv() draws everybody who stays, and those who
\* stand still where they stand.
Current ==
  <>[][Len(stream') >= Len(stream) - Parts]_mapVars
    => \A p \in Players : []<>(status[p] # "in" \/ Shown(p))
=============================================================================
