-------------------------- MODULE SelectEchoProofs --------------------------
(***************************************************************************)
(* The server's recv() never blocks, and each connection is an EchoLink,   *)
(* for any connections, descriptors and sizes of messages and buffers.     *)
(***************************************************************************)
EXTENDS SelectEcho, SequenceTheorems, TLAPS

\* recv() on descriptor f would return at once.
Returns(f) ==
  f \in Fds /\ fdOf[f] # "free" /\ (up[fdOf[f]] # <<>> \/ Ended(fdOf[f]))

\* The descriptors in read_fds the loop has not come to are still ready.
StillReady ==
  /\ pos >= Listener /\ fdmax \in Nat
  /\ pc = "scan" => \A f \in readset : f >= pos => f = Listener \/ Returns(f)
  /\ pc = "send" => \A f \in readset : f > pos => Returns(f)
  /\ pc = "scan" /\ pos = Listener /\ Listener \in readset => backlog # <<>>
  /\ pc = "send" => buf # <<>> /\ pos \in Fds

\* A connection is at one place: it has not been made, waits for accept(), or
\* has a descriptor of its own.
OnePlace ==
  /\ \A f, g \in Fds : fdOf[f] # "free" /\ fdOf[f] = fdOf[g] => f = g
  /\ \A i, j \in 1..Len(backlog) : backlog[i] = backlog[j] => i = j
  /\ \A f \in Fds, i \in 1..Len(backlog) : fdOf[f] # backlog[i]
  /\ \A c \in Conns : client[c] = "idle" =>
       /\ \A f \in Fds : fdOf[f] # c
       /\ \A i \in 1..Len(backlog) : backlog[i] # c

IInv == TypeOK /\ StillReady /\ OnePlace

\* The parts of a message are parts of the connection.
LEMMA MessageLemma ==
  ASSUME NEW c \in Conns
  PROVE  Wire!Message(c) \in Seq(Wire!Part)
<1>1. Parts \in Nat
  BY SelectAssumption
<1>2. \A p \in 1..Parts : [from |-> c, part |-> p, upper |-> FALSE] \in Wire!Part
  BY DEF Wire!Part
<1> QED
  BY <1>1, <1>2 DEF Wire!Message

\* Upper case leaves parts as many parts.
LEMMA UpperCaseLemma ==
  ASSUME NEW s \in Seq(Wire!Part), s # <<>>
  PROVE  Wire!UpperCase(s) \in Seq(Wire!Part)
<1>1. 1 \in 1..Len(s) /\ s[1] \in Wire!Part
  BY LenProperties, EmptySeq
<1> DEFINE e == [s[1] EXCEPT !.upper = TRUE]
<1>2. e \in Wire!Part /\ Wire!UpperCase(s) = [s EXCEPT ![1] = e]
  BY <1>1 DEF Wire!Part, Wire!UpperCase
<1> HIDE DEF e
<1> QED
  BY <1>1, <1>2, ExceptSeq

\* What recv() takes is not nothing, and what it leaves are parts.
LEMMA ReadLemma ==
  ASSUME NEW s \in Seq(Wire!Part), NEW k \in Wire!Readable(s)
  PROVE  /\ Wire!Take(s, k) \in Seq(Wire!Part) /\ Wire!Take(s, k) # <<>>
         /\ Wire!Drop(s, k) \in Seq(Wire!Part)
<1>1. k \in 1..Len(s) /\ Len(s) \in Nat /\ \A i \in 1..Len(s) : s[i] \in Wire!Part
  BY SelectAssumption, LenProperties, ElementOfSeq DEF Wire!Readable
<1>2. Wire!Take(s, k) \in Seq(Wire!Part) /\ Len(Wire!Take(s, k)) = k
  BY <1>1, SubSeqProperties DEF Wire!Take
<1>3. Wire!Drop(s, k) \in Seq(Wire!Part)
  BY <1>1, SubSeqProperties DEF Wire!Drop
<1> QED
  BY <1>1, <1>2, <1>3, EmptySeq

\* The server starts with the listener alone.
LEMMA InitIInv == Init => IInv
<1> SUFFICES ASSUME Init PROVE IInv
  OBVIOUS
<1>1. TypeOK
  BY EmptySeq, SelectAssumption DEF Init, TypeOK, Listener, Fds
<1>2. StillReady /\ OnePlace
  BY EmptySeq, SelectAssumption DEF Init, StillReady, OnePlace, Listener
<1> QED
  BY <1>1, <1>2 DEF IInv

\* A client connects, sends, reads or closes: no descriptor becomes less ready.
LEMMA ClientIInv ==
  ASSUME IInv, NEW c \in Conns, Client(c)
  PROVE  IInv'
<1>1. CASE Connect(c)
  <2>1. /\ backlog' \in Seq(Conns) /\ Len(backlog') = Len(backlog) + 1 /\ Len(backlog) \in Nat
        /\ \A i \in 1..Len(backlog') : backlog'[i] = IF i = Len(backlog) + 1 THEN c ELSE backlog[i]
        /\ backlog' # <<>>
    BY <1>1, AppendProperties, LenProperties, EmptySeq DEF Connect, IInv, TypeOK
  <2>2. TypeOK'
    BY <1>1, <2>1 DEF Connect, IInv, TypeOK, serverVars
  <2>3. StillReady'
    BY <1>1, <2>1 DEF Connect, IInv, TypeOK, StillReady, Returns, Ended, serverVars
  <2>4. OnePlace'
    <3>1. /\ UNCHANGED fdOf /\ client[c] = "idle"
          /\ \A d \in Conns : client'[d] = "idle" => d # c /\ client[d] = "idle"
      BY <1>1 DEF Connect, IInv, TypeOK, serverVars
    <3>2. /\ \A f \in Fds : fdOf[f] # c
          /\ \A i \in 1..Len(backlog) : backlog[i] # c
      BY <3>1 DEF IInv, OnePlace
    <3>3. \A i, j \in 1..Len(backlog') : backlog'[i] = backlog'[j] => i = j
      BY <2>1, <3>2 DEF IInv, OnePlace
    <3>4. \A f \in Fds, i \in 1..Len(backlog') : fdOf[f] # backlog'[i]
      BY <2>1, <3>2 DEF IInv, OnePlace
    <3>5. \A d \in Conns : client'[d] = "idle" => \A i \in 1..Len(backlog') : backlog'[i] # d
      BY <2>1, <3>1 DEF IInv, OnePlace
    <3> QED
      BY <3>1, <3>3, <3>4, <3>5 DEF IInv, OnePlace
  <2> QED
    BY <2>2, <2>3, <2>4 DEF IInv
<1>2. CASE ClientSend(c)
  <2>1. /\ up' = [up EXCEPT ![c] = up[c] \o Wire!Message(c)]
        /\ up[c] \o Wire!Message(c) \in Seq(Wire!Part)
        /\ up[c] # <<>> => up[c] \o Wire!Message(c) # <<>>
    BY <1>2, MessageLemma, ConcatProperties, ConcatEqualIffEmpty DEF ClientSend, IInv, TypeOK
  <2>2. up' \in [Conns -> Seq(Wire!Part)] /\ \A d \in Conns : up[d] # <<>> => up'[d] # <<>>
    BY <2>1 DEF IInv, TypeOK
  <2>3. sent' \in [Conns -> 0..MaxSends]
    BY <1>2, SelectAssumption DEF ClientSend, IInv, TypeOK
  <2>4. TypeOK'
    BY <1>2, <2>2, <2>3 DEF ClientSend, IInv, TypeOK, serverVars
  <2>5. StillReady'
    BY <1>2, <2>2 DEF ClientSend, IInv, TypeOK, StillReady, Returns, Ended, serverVars
  <2>6. OnePlace'
    BY <1>2 DEF ClientSend, IInv, OnePlace, serverVars
  <2> QED
    BY <2>4, <2>5, <2>6 DEF IInv
<1>3. CASE ClientRecv(c)
  <2>1. PICK k \in Wire!Readable(down[c]) : down' = [down EXCEPT ![c] = Wire!Drop(down[c], k)]
    BY <1>3 DEF ClientRecv
  <2>2. down' \in [Conns -> Seq(Wire!Part)]
    BY <2>1, ReadLemma DEF IInv, TypeOK
  <2> QED
    BY <1>3, <2>2
    DEF ClientRecv, IInv, TypeOK, StillReady, OnePlace, Returns, Ended, clientVars, serverVars
<1>4. CASE ClientClose(c)
  <2>1. TypeOK'
    BY <1>4, EmptySeq DEF ClientClose, IInv, TypeOK, serverVars
  <2>2. StillReady'
    BY <1>4 DEF ClientClose, IInv, TypeOK, StillReady, Returns, Ended, serverVars
  <2>3. OnePlace'
    BY <1>4 DEF ClientClose, IInv, TypeOK, OnePlace, serverVars
  <2> QED
    BY <2>1, <2>2, <2>3 DEF IInv
<1> QED
  BY <1>1, <1>2, <1>3, <1>4 DEF Client

\* select() leaves what is ready, and the loop has one descriptor less to do.
LEMMA ScanIInv ==
  ASSUME IInv, Select \/ Skip \/ EndScan \/ AcceptFails
  PROVE  IInv'
<1>1. CASE Select
  <2>1. \A f \in readset' : (f = Listener /\ backlog # <<>>) \/ Returns(f)
    BY <1>1 DEF Select, Ready, Returns
  <2>2. TypeOK' /\ OnePlace'
    <3>1. readset' \subseteq Fds \union {Listener} /\ pos' = Listener /\ pc' = "scan"
      BY <1>1 DEF Select, Ready, IInv, TypeOK
    <3>2. TypeOK'
      BY <1>1, <3>1 DEF Select, IInv, TypeOK, clientVars, Listener
    <3>3. OnePlace'
      BY <1>1 DEF Select, IInv, OnePlace, clientVars
    <3> QED
      BY <3>2, <3>3
  <2>3. \A f \in readset' : f = Listener \/ Returns(f)'
    BY <1>1, <2>1 DEF Select, Returns, Ended, clientVars
  <2>4. StillReady'
    <3>1. Listener \in readset' => backlog' # <<>>
      BY <1>1, <2>1, SelectAssumption DEF Select, Returns, Listener, Fds
    <3>2. pos' = Listener /\ pc' = "scan" /\ Listener >= Listener /\ UNCHANGED fdmax
      BY <1>1 DEF Select, Listener
    <3> QED
      BY <2>3, <3>1, <3>2 DEF IInv, StillReady
  <2> QED
    BY <2>2, <2>4 DEF IInv
<1>2. CASE Skip
  BY <1>2 DEF Skip, IInv, TypeOK, StillReady, OnePlace, Returns, Ended, clientVars, Listener, Fds
<1>3. CASE EndScan
  BY <1>3 DEF EndScan, IInv, TypeOK, StillReady, OnePlace, Returns, Ended, clientVars, Listener, Fds
<1>4. CASE AcceptFails
  <2>1. TypeOK' /\ OnePlace'
    BY <1>4 DEF AcceptFails, IInv, TypeOK, OnePlace, clientVars
  <2>2. \A f \in readset : f >= pos => f = Listener \/ Returns(f)'
    BY <1>4 DEF AcceptFails, IInv, StillReady, Returns, Ended, clientVars
  <2>3. StillReady'
    BY <1>4, <2>2, SelectAssumption DEF AcceptFails, IInv, TypeOK, StillReady, Listener, Fds
  <2> QED
    BY <2>1, <2>3 DEF IInv
<1> QED
  BY <1>1, <1>2, <1>3, <1>4

\* accept() gives a descriptor that is free, so it is none of those in read_fds.
LEMMA AcceptIInv ==
  ASSUME IInv, Accept
  PROVE  IInv'
<1>1. PICK newfd \in FreeFds :
        /\ fdOf' = [fdOf EXCEPT ![newfd] = Head(backlog)]
        /\ master' = master \union {newfd}
        /\ fdmax' = IF newfd > fdmax THEN newfd ELSE fdmax
  BY DEF Accept
<1>2. newfd \in Fds /\ fdOf[newfd] = "free" /\ newfd \in Nat /\ newfd > Listener
  BY SelectAssumption DEF FreeFds, Fds, Listener
<1>3. /\ backlog # <<>> /\ backlog' = Tail(backlog) /\ pos = Listener /\ pos' = pos + 1 /\ pc' = "scan"
      /\ pc = "scan" /\ UNCHANGED <<client, sent, up, down, readset, buf>>
  BY DEF Accept, IInv, StillReady, clientVars
<1>4. /\ Head(backlog) \in Conns /\ Head(backlog) = backlog[1] /\ 1 \in 1..Len(backlog)
      /\ Tail(backlog) \in Seq(Conns) /\ Len(Tail(backlog)) = Len(backlog) - 1
      /\ Len(backlog) \in Nat
      /\ \A i \in 1..Len(Tail(backlog)) : Tail(backlog)[i] = backlog[i + 1]
  BY <1>3, HeadTailProperties, LenProperties, EmptySeq DEF IInv, TypeOK
<1>5. \A f \in Fds : fdOf'[f] = IF f = newfd THEN backlog[1] ELSE fdOf[f]
  BY <1>1, <1>2, <1>4 DEF IInv, TypeOK
<1>6. TypeOK'
  <2>1. fdOf' \in [Fds -> Conns \union {"free"}]
    BY <1>1, <1>2, <1>4 DEF IInv, TypeOK
  <2>2. master' = {Listener} \union {f \in Fds : fdOf'[f] # "free"}
    BY <1>1, <1>2, <1>4, <1>5, SelectAssumption DEF IInv, TypeOK
  <2>3. \A f \in master' : f <= fdmax'
    <3>1. \A f \in master : f <= fdmax /\ f \in Nat
      BY SelectAssumption DEF IInv, TypeOK, Fds, Listener
    <3> QED
      BY <1>1, <1>2, <3>1 DEF IInv, StillReady
  <2> QED
    BY <1>3, <1>4, <2>1, <2>2, <2>3 DEF IInv, TypeOK
<1>7. StillReady'
  <2>1. \A f \in readset : f >= pos' => Returns(f)'
    <3> SUFFICES ASSUME NEW f \in readset, f >= pos' PROVE Returns(f)'
      OBVIOUS
    <3>1. Returns(f) /\ f # newfd
      <4>1. f # Listener /\ f >= pos
        BY <1>3, SelectAssumption DEF IInv, TypeOK, Fds, Listener
      <4> QED
        BY <1>2, <1>3, <4>1 DEF IInv, StillReady, Returns
    <3> QED
      BY <1>3, <1>5, <3>1 DEF Returns, Ended
  <2>2. fdmax' \in Nat
    BY <1>1, <1>2 DEF IInv, StillReady
  <2> QED
    BY <1>3, <2>1, <2>2 DEF IInv, StillReady, Listener
<1>8. OnePlace'
  BY <1>2, <1>3, <1>4, <1>5, SelectAssumption DEF IInv, OnePlace
<1> QED
  BY <1>6, <1>7, <1>8 DEF IInv

\* recv() takes from a connection that has no other descriptor.
LEMMA RecvIInv ==
  ASSUME IInv, RecvData \/ RecvEnd
  PROVE  IInv'
<1>0. pc = "scan" /\ pos \in Fds /\ Returns(pos)
  <2>1. pc = "scan" /\ pos \in readset /\ pos # Listener /\ pos >= pos
    BY DEF RecvData, RecvEnd, AtReady, IInv, TypeOK
  <2> QED
    BY <2>1 DEF IInv, StillReady, Returns
<1>1. CASE RecvData
  <2>1. PICK c \in Conns : /\ fdOf[pos] = c
                           /\ \E k \in Wire!Readable(up[c]) :
                                /\ buf' = Wire!Take(up[c], k)
                                /\ up' = [up EXCEPT ![c] = Wire!Drop(up[c], k)]
    BY <1>1 DEF RecvData
  <2>2. /\ buf' \in Seq(Wire!Part) /\ buf' # <<>> /\ up' \in [Conns -> Seq(Wire!Part)]
        /\ \A d \in Conns : d # c => up'[d] = up[d]
    BY <2>1, ReadLemma DEF IInv, TypeOK
  <2>3. TypeOK' /\ OnePlace'
    BY <1>1, <2>2 DEF RecvData, IInv, TypeOK, OnePlace, clientVars
  <2>4. \A f \in readset : f > pos => Returns(f)'
    <3> SUFFICES ASSUME NEW f \in readset, f > pos PROVE Returns(f)'
      OBVIOUS
    <3>1. Returns(f) /\ fdOf[f] # c /\ fdOf[f] \in Conns
      <4>1. f # Listener /\ f >= pos
        BY <1>0, SelectAssumption DEF Fds, Listener, IInv, TypeOK
      <4> QED
        <5>1. Returns(f)
          BY <1>0, <4>1 DEF IInv, StillReady
        <5>2. f # pos /\ f \in Fds /\ fdOf[f] # "free" /\ fdOf[f] \in Conns
          BY <5>1, <1>0, SelectAssumption DEF Returns, IInv, TypeOK, Fds
        <5> QED
          BY <1>0, <2>1, <5>1, <5>2 DEF IInv, OnePlace
    <3> QED
      BY <1>1, <2>2, <3>1 DEF RecvData, Returns, Ended, clientVars
  <2>5. StillReady'
    BY <1>0, <1>1, <2>2, <2>4 DEF RecvData, IInv, StillReady
  <2> QED
    BY <2>3, <2>5 DEF IInv
<1>2. CASE RecvEnd
  <2>1. PICK c \in Conns : fdOf[pos] = c /\ up' = [up EXCEPT ![c] = <<>>]
    BY <1>2 DEF RecvEnd
  <2>2. /\ up' \in [Conns -> Seq(Wire!Part)] /\ \A d \in Conns : d # c => up'[d] = up[d]
        /\ fdOf' \in [Fds -> Conns \union {"free"}]
        /\ \A f \in Fds : fdOf'[f] = IF f = pos THEN "free" ELSE fdOf[f]
    BY <1>0, <1>2, <2>1, EmptySeq DEF RecvEnd, IInv, TypeOK
  <2>3. TypeOK'
    <3>1. master' = {Listener} \union {f \in Fds : fdOf'[f] # "free"}
      BY <1>0, <1>2, <2>2, SelectAssumption DEF RecvEnd, IInv, TypeOK, Fds, Listener
    <3> QED
      BY <1>2, <2>2, <3>1 DEF RecvEnd, IInv, TypeOK, clientVars
  <2>4. OnePlace'
    <3>1. \A i \in 1..Len(backlog) : backlog[i] \in Conns /\ backlog[i] # "free"
      BY ElementOfSeq, SelectAssumption DEF IInv, TypeOK
    <3>2. UNCHANGED <<client, backlog>>
      BY <1>2 DEF RecvEnd, clientVars
    <3>3. \A f \in Fds, i \in 1..Len(backlog) : fdOf'[f] # backlog[i]
      BY <2>2, <3>1 DEF IInv, OnePlace
    <3>4. \A f, g \in Fds : fdOf'[f] # "free" /\ fdOf'[f] = fdOf'[g] => f = g
      BY <2>2 DEF IInv, OnePlace
    <3>5. \A d \in Conns, f \in Fds : client[d] = "idle" => fdOf'[f] # d
      BY <2>2, SelectAssumption DEF IInv, OnePlace
    <3> QED
      BY <3>2, <3>3, <3>4, <3>5 DEF IInv, OnePlace
  <2>5. \A f \in readset : f >= pos + 1 => Returns(f)'
    <3> SUFFICES ASSUME NEW f \in readset, f >= pos + 1 PROVE Returns(f)'
      OBVIOUS
    <3>1. f # Listener /\ f >= pos /\ f # pos
      BY <1>0, SelectAssumption DEF Fds, Listener, IInv, TypeOK
    <3>2. Returns(f) /\ fdOf[f] # c /\ fdOf[f] \in Conns
      BY <1>0, <2>1, <3>1 DEF IInv, StillReady, OnePlace, Returns, TypeOK
    <3> QED
      BY <1>2, <2>2, <3>1, <3>2 DEF RecvEnd, Returns, Ended, clientVars
  <2>6. StillReady'
    BY <1>0, <1>2, <2>5 DEF RecvEnd, AtReady, IInv, TypeOK, StillReady, Listener
  <2> QED
    BY <2>3, <2>4, <2>6 DEF IInv
<1> QED
  BY <1>1, <1>2

\* send() leaves what has come from the others alone.
LEMMA SendIInv ==
  ASSUME IInv, SendReply \/ SendLost \/ SendKills
  PROVE  IInv'
<1>1. CASE SendReply
  <2>1. down' \in [Conns -> Seq(Wire!Part)]
    <3>1. PICK c \in Conns : down' = [down EXCEPT ![c] = down[c] \o Wire!UpperCase(buf)]
      BY <1>1 DEF SendReply
    <3>2. Wire!UpperCase(buf) \in Seq(Wire!Part)
      BY <1>1, UpperCaseLemma DEF SendReply, IInv, TypeOK, StillReady
    <3> QED
      BY <3>1, <3>2, ConcatProperties DEF IInv, TypeOK
  <2>2. TypeOK' /\ OnePlace'
    BY <1>1, <2>1, EmptySeq DEF SendReply, IInv, TypeOK, OnePlace, clientVars
  <2>3. StillReady'
    BY <1>1, SelectAssumption
    DEF SendReply, IInv, TypeOK, StillReady, Returns, Ended, clientVars, Fds, Listener
  <2> QED
    BY <2>2, <2>3 DEF IInv
<1>2. CASE SendLost
  <2>1. PICK c \in Conns : client' = [client EXCEPT ![c] = "reset"]
    BY <1>2 DEF SendLost
  <2>2. TypeOK' /\ OnePlace'
    BY <1>2, <2>1, EmptySeq DEF SendLost, IInv, TypeOK, OnePlace
  <2>3. StillReady'
    BY <1>2, <2>1, SelectAssumption
    DEF SendLost, IInv, TypeOK, StillReady, Returns, Ended, Fds, Listener
  <2> QED
    BY <2>2, <2>3 DEF IInv
<1>3. CASE SendKills
  BY <1>3, EmptySeq DEF SendKills, IInv, TypeOK, StillReady, OnePlace, clientVars
<1> QED
  BY <1>1, <1>2, <1>3

\* The invariant is one.
LEMMA NextIInv == IInv /\ [Next]_vars => IInv'
<1>1. IInv /\ UNCHANGED vars => IInv'
  BY DEF vars, clientVars, serverVars, IInv, TypeOK, StillReady, OnePlace, Returns, Ended
<1> QED
  BY <1>1, ClientIInv, ScanIInv, AcceptIInv, RecvIInv, SendIInv DEF Next, Server

\* The server calls recv() only on a descriptor that is open, belongs to the
\* connection select() found, and has something to return: accept() and
\* close() between select() and recv() do not matter.
THEOREM RecvNeverBlocksHolds == Spec => []RecvNeverBlocks
<1>1. IInv /\ [Next]_vars => IInv'
  BY NextIInv
<1>2. IInv => RecvNeverBlocks
  <2>1. IInv /\ AtReady => pos \in readset /\ pos # Listener /\ pos >= pos /\ pc = "scan"
    BY DEF IInv, TypeOK, AtReady
  <2> QED
    BY <2>1 DEF IInv, StillReady, Returns, RecvNeverBlocks
<1> QED
  BY <1>1, <1>2, InitIInv, PTL DEF Spec
-----------------------------------------------------------------------------
(* Each connection is an EchoLink. *)

\* What the buffers hold: nothing before the client connects, and in buf what
\* one recv() takes at most.
Sizes ==
  /\ \A c \in Conns : Len(up[c]) <= Cap /\ Len(down[c]) <= Cap
  /\ \A c \in Conns : client[c] = "idle" => up[c] = <<>> /\ down[c] = <<>>
  /\ pc = "send" => Len(buf) <= Parts

\* A message has Parts parts.
LEMMA MessageLen == ASSUME NEW c \in Conns PROVE Len(Wire!Message(c)) = Parts
<1>1. DOMAIN Wire!Message(c) = 1..Parts /\ Parts \in Nat
  BY SelectAssumption DEF Wire!Message
<1> QED
  BY <1>1, MessageLemma, LenProperties

\* What recv() takes and what it leaves are the whole.
LEMMA SplitLemma ==
  ASSUME NEW s \in Seq(Wire!Part), NEW k \in Wire!Readable(s)
  PROVE  /\ Wire!Take(s, k) \o Wire!Drop(s, k) = s
         /\ Len(Wire!Take(s, k)) = k /\ Len(Wire!Drop(s, k)) <= Len(s)
<1>1. k \in 1..Len(s) /\ Len(s) \in Nat /\ \A i \in 1..Len(s) : s[i] \in Wire!Part
  BY SelectAssumption, LenProperties, ElementOfSeq DEF Wire!Readable
<1>2. SubSeq(s, 1, k) \o SubSeq(s, k + 1, Len(s)) = SubSeq(s, 1, Len(s))
  BY <1>1, ConcatAdjacentSubSeq
<1>3. SubSeq(s, 1, Len(s)) = s
  BY SubSeqFull
<1>4. Len(SubSeq(s, 1, k)) = k
  BY <1>1, SubSeqProperties
<1>5. Len(SubSeq(s, k + 1, Len(s))) <= Len(s)
  BY <1>1, SubSeqProperties
<1> QED
  BY <1>2, <1>3, <1>4, <1>5 DEF Wire!Take, Wire!Drop

\* Taking the first of two sequences leaves the second.
LEMMA TakeFirst ==
  ASSUME NEW s \in Seq(Wire!Part), NEW t \in Seq(Wire!Part), s # <<>>
  PROVE  Wire!Take(s \o t, Len(s)) = s /\ Wire!Drop(s \o t, Len(s)) = t
<1>1. /\ Len(s) \in Nat \ {0} /\ Len(t) \in Nat
      /\ s \o t \in Seq(Wire!Part) /\ Len(s \o t) = Len(s) + Len(t)
  BY EmptySeq, LenProperties, ConcatProperties
<1>2. SubSeq(s \o t, 1, Len(s)) = SubSeq(s, 1, Len(s))
  BY <1>1, SubSeqOfConcat1
<1>3. SubSeq(s \o t, Len(s) + 1, Len(s \o t)) = t
  <2>1. CASE t = <<>>
    <3>1. Len(t) = 0
      BY <2>1, EmptySeq
    <3> QED
      BY <1>1, <2>1, <3>1, SubSeqEmpty
  <2>2. CASE t # <<>>
    <3>1. Len(t) > 0
      BY <2>2, EmptySeq, <1>1
    <3>2. /\ Len(s) + 1 \in Len(s) + 1 .. Len(s) + Len(t)
          /\ Len(s) + Len(t) \in Len(s) + 1 .. Len(s) + Len(t)
      BY <1>1, <3>1
    <3>3. SubSeq(s \o t, Len(s) + 1, Len(s) + Len(t)) = SubSeq(t, Len(s) + 1 - Len(s), Len(s) + Len(t) - Len(s))
      BY <3>2, SubSeqOfConcat2
    <3>4. Len(s) + 1 - Len(s) = 1 /\ Len(s) + Len(t) - Len(s) = Len(t)
      BY <1>1
    <3> QED
      BY <1>1, <3>3, <3>4, SubSeqFull
  <2> QED
    BY <2>1, <2>2
<1> QED
  BY <1>2, <1>3, SubSeqFull DEF Wire!Take, Wire!Drop

\* What is put behind adds its parts.
LEMMA JoinLemma ==
  ASSUME NEW s \in Seq(Wire!Part), NEW t \in Seq(Wire!Part)
  PROVE  /\ s \o t \in Seq(Wire!Part) /\ Len(s \o t) = Len(s) + Len(t)
         /\ Len(s) \in Nat /\ Len(t) \in Nat
         /\ \A u \in Seq(Wire!Part) : (s \o t) \o u = s \o (t \o u)
<1>1. s \o t \in Seq(Wire!Part) /\ Len(s \o t) = Len(s) + Len(t)
  BY ConcatProperties
<1>2. Len(s) \in Nat /\ Len(t) \in Nat
  BY LenProperties
<1>3. ASSUME NEW u \in Seq(Wire!Part) PROVE (s \o t) \o u = s \o (t \o u)
  BY ConcatAssociative
<1> QED
  BY <1>1, <1>2, <1>3

\* Upper case leaves the number of parts.
LEMMA UpperCaseLen ==
  ASSUME NEW s \in Seq(Wire!Part), s # <<>>
  PROVE  Len(Wire!UpperCase(s)) = Len(s)
<1>1. 1 \in 1..Len(s) /\ s[1] \in Wire!Part
  BY LenProperties, EmptySeq
<1> DEFINE e == [s[1] EXCEPT !.upper = TRUE]
<1>2. e \in Wire!Part /\ Wire!UpperCase(s) = [s EXCEPT ![1] = e]
  BY <1>1 DEF Wire!Part, Wire!UpperCase
<1> HIDE DEF e
<1> QED
  BY <1>1, <1>2, ExceptSeq

\* The buffers start empty.
LEMMA InitSizes == Init => Sizes
<1> SUFFICES ASSUME Init PROVE Sizes
  OBVIOUS
<1> QED
  BY EmptySeq, SelectAssumption DEF Init, Sizes

\* send() waits for room, and recv() takes no more than it is asked for.
LEMMA StepSizes ==
  ASSUME IInv, Sizes, [Next]_vars
  PROVE  Sizes'
<1> USE DEF Sizes
<1>0. /\ Cap \in Nat /\ Parts \in Nat \ {0} /\ Parts <= Cap
      /\ Len(<<>>) = 0
      /\ \A c \in Conns : up[c] \in Seq(Wire!Part) /\ down[c] \in Seq(Wire!Part)
      /\ \A c \in Conns : Len(up[c]) \in Nat /\ Len(down[c]) \in Nat
  BY SelectAssumption, EmptySeq, LenProperties DEF IInv, TypeOK
<1>1. CASE UNCHANGED vars
  BY <1>1 DEF vars, clientVars, serverVars
<1>2. ASSUME NEW c \in Conns, Connect(c) PROVE Sizes'
  BY <1>2 DEF Connect, serverVars, IInv, TypeOK
<1>3. ASSUME NEW c \in Conns, ClientSend(c) PROVE Sizes'
  <2>1. up' = [up EXCEPT ![c] = up[c] \o Wire!Message(c)]
    BY <1>3 DEF ClientSend
  <2>2. Len(up[c] \o Wire!Message(c)) = Len(up[c]) + Parts
    <3>1. up[c] \in Seq(Wire!Part) /\ Wire!Message(c) \in Seq(Wire!Part) /\ Len(Wire!Message(c)) = Parts
      BY <1>0, MessageLemma, MessageLen
    <3> QED
      BY <3>1, JoinLemma
  <2> QED
    BY <1>0, <1>3, <2>1, <2>2 DEF ClientSend, serverVars, IInv, TypeOK
<1>4. ASSUME NEW c \in Conns, ClientRecv(c) PROVE Sizes'
  <2>1. PICK k \in Wire!Readable(down[c]) : down' = [down EXCEPT ![c] = Wire!Drop(down[c], k)]
    BY <1>4 DEF ClientRecv
  <2>2. Len(Wire!Drop(down[c], k)) <= Len(down[c]) /\ Wire!Drop(down[c], k) \in Seq(Wire!Part)
    BY <1>0, SplitLemma, ReadLemma
  <2>3. Len(Wire!Drop(down[c], k)) \in Nat
    BY <2>2, LenProperties
  <2> QED
    BY <1>0, <1>4, <2>1, <2>2, <2>3 DEF ClientRecv, serverVars, clientVars, IInv, TypeOK
<1>5. ASSUME NEW c \in Conns, ClientClose(c) PROVE Sizes'
  BY <1>0, <1>5 DEF ClientClose, serverVars, IInv, TypeOK
<1>6. CASE Select \/ Skip \/ EndScan \/ Accept \/ AcceptFails \/ SendKills
  BY <1>6 DEF Select, Skip, EndScan, Accept, AcceptFails, SendKills, clientVars
<1>7. CASE RecvData
  <2>1. PICK c \in Conns : /\ fdOf[pos] = c
                           /\ \E k \in Wire!Readable(up[c]) :
                                /\ buf' = Wire!Take(up[c], k)
                                /\ up' = [up EXCEPT ![c] = Wire!Drop(up[c], k)]
    BY <1>7 DEF RecvData
  <2>2. PICK k \in Wire!Readable(up[c]) : /\ buf' = Wire!Take(up[c], k)
                                          /\ up' = [up EXCEPT ![c] = Wire!Drop(up[c], k)]
    BY <2>1
  <2>3. /\ Len(Wire!Drop(up[c], k)) <= Len(up[c]) /\ Wire!Drop(up[c], k) \in Seq(Wire!Part)
        /\ Len(Wire!Take(up[c], k)) = k /\ k \in 1..Parts
        /\ k <= Len(up[c])
    BY <1>0, SplitLemma, ReadLemma DEF Wire!Readable
  <2>4. Len(Wire!Drop(up[c], k)) \in Nat
    BY <2>3, LenProperties
  <2>5. client[c] # "idle"
    <3>1. Len(up[c]) > 0
      BY <1>0, <2>3
    <3> QED
      BY <1>0, <3>1
  <2>6. /\ \A d \in Conns : up'[d] = IF d = c THEN Wire!Drop(up[c], k) ELSE up[d]
        /\ UNCHANGED <<client, down>>
    BY <1>7, <2>2 DEF RecvData, clientVars, IInv, TypeOK
  <2>7. Len(buf') <= Parts
    BY <1>0, <2>2, <2>3
  <2>8. \A d \in Conns : Len(up'[d]) <= Cap
    BY <1>0, <2>3, <2>4, <2>6
  <2> QED
    BY <2>5, <2>6, <2>7, <2>8
<1>8. CASE RecvEnd
  BY <1>0, <1>8 DEF RecvEnd, clientVars, IInv, TypeOK
<1>9. CASE SendReply
  <2>1. PICK c \in Conns : /\ client[c] = "open" /\ Len(down[c]) + Len(buf) <= Cap
                           /\ down' = [down EXCEPT ![c] = down[c] \o Wire!UpperCase(buf)]
    BY <1>9 DEF SendReply
  <2>2. Wire!UpperCase(buf) \in Seq(Wire!Part) /\ Len(Wire!UpperCase(buf)) = Len(buf)
    BY <1>9, UpperCaseLemma, UpperCaseLen DEF SendReply, IInv, TypeOK, StillReady
  <2>3. Len(down[c] \o Wire!UpperCase(buf)) = Len(down[c]) + Len(buf)
    <3>1. down[c] \in Seq(Wire!Part)
      BY <1>0
    <3>2. Len(down[c] \o Wire!UpperCase(buf)) = Len(down[c]) + Len(Wire!UpperCase(buf))
      BY <2>2, <3>1, JoinLemma
    <3> QED
      BY <2>2, <3>2
  <2> QED
    BY <1>0, <1>9, <2>1, <2>3 DEF SendReply, clientVars, IInv, TypeOK
<1>10. CASE SendLost
  BY <1>0, <1>10 DEF SendLost, IInv, TypeOK
<1> QED
  BY <1>1, <1>2, <1>3, <1>4, <1>5, <1>6, <1>7, <1>8, <1>9, <1>10 DEF Next, Server, Client

\* What does not change what the client sees is no step of its connection.
LEMMA LinkStutters ==
  ASSUME NEW d \in Conns, UNCHANGED <<LinkUp(d), LinkDown(d)>>
  PROVE  [Link(d)!Next]_(Link(d)!vars)
BY DEF Link!vars

\* The clients send to and receive from the connection, or end it.
LEMMA ClientRefines ==
  ASSUME IInv, Sizes, NEW c \in Conns, Client(c), NEW d \in Conns
  PROVE  [Link(d)!Next]_(Link(d)!vars)
<1>0. /\ Cap \in Nat /\ Parts \in Nat \ {0}
      /\ \A e \in Conns : up[e] \in Seq(Wire!Part) /\ down[e] \in Seq(Wire!Part)
      /\ buf \in Seq(Wire!Part)
  BY SelectAssumption DEF IInv, TypeOK
<1>1. CASE Connect(c)
  <2>1. up[c] = <<>> /\ down[c] = <<>> /\ ~Serving(c)
    BY <1>1, <1>0 DEF Connect, Sizes, Serving, IInv, OnePlace, StillReady
  <2>2. UNCHANGED <<LinkUp(d), LinkDown(d)>>
    <3>1. LinkUp(c)' = <<>> \o <<>> /\ LinkDown(c)' = <<>> /\ LinkUp(c) = <<>> /\ LinkDown(c) = <<>>
      BY <1>1, <2>1 DEF Connect, LinkUp, LinkDown, Serving, IInv, TypeOK, serverVars
    <3>2. d # c => UNCHANGED <<LinkUp(d), LinkDown(d)>>
      BY <1>1 DEF Connect, LinkUp, LinkDown, Serving, IInv, TypeOK, serverVars
    <3>3. <<>> \o <<>> = <<>>
      BY ConcatEmptySeq, EmptySeq
    <3> QED
      BY <3>1, <3>2, <3>3
  <2> QED
    BY <2>2, LinkStutters
<1>2. CASE ClientSend(c)
  <2>1. CASE d # c
    <3>1. UNCHANGED <<LinkUp(d), LinkDown(d)>>
      BY <1>2, <2>1 DEF ClientSend, LinkUp, LinkDown, Serving, IInv, TypeOK, serverVars
    <3> QED
      BY <3>1, LinkStutters
  <2>2. CASE d = c
    <3> DEFINE own == IF Serving(c) THEN buf ELSE <<>>
    <3>1. own \in Seq(Wire!Part) /\ Len(own) \in 0..Parts
      <4>1. own \in Seq(Wire!Part)
        BY <1>0, EmptySeq
      <4>2. Len(own) <= Parts
        BY <1>0, EmptySeq DEF Sizes, Serving
      <4> QED
        BY <1>0, <4>1, <4>2, LenProperties
    <3>2. /\ LinkUp(c) = own \o up[c] /\ LinkUp(c)' = own \o (up[c] \o Wire!Message(c))
          /\ UNCHANGED LinkDown(c)
      BY <1>2 DEF ClientSend, LinkUp, LinkDown, Serving, IInv, TypeOK, serverVars
    <3> HIDE DEF own
    <3>3. LinkUp(c)' = LinkUp(c) \o Wire!Message(c)
      <4>1. up[c] \in Seq(Wire!Part) /\ Wire!Message(c) \in Seq(Wire!Part)
        BY <1>0, MessageLemma
      <4>2. (own \o up[c]) \o Wire!Message(c) = own \o (up[c] \o Wire!Message(c))
        BY <3>1, <4>1, JoinLemma
      <4> QED
        BY <3>2, <4>2
    <3>4. Len(LinkUp(c)) + Parts <= Cap + Parts
      <4>1. Len(own \o up[c]) = Len(own) + Len(up[c]) /\ Len(up[c]) \in Nat
        BY <1>0, <3>1, JoinLemma
      <4>2. Len(up[c]) + Parts <= Cap
        BY <1>2 DEF ClientSend
      <4> QED
        BY <1>0, <3>1, <3>2, <4>1, <4>2
    <3>5. Link(c)!Send(c)
      BY <3>2, <3>3, <3>4 DEF Link!Send, Link!Message, Wire!Message
    <3> QED
      BY <2>2, <3>5 DEF Link!Next
  <2> QED
    BY <2>1, <2>2
<1>3. CASE ClientRecv(c)
  <2>1. CASE d # c
    <3>1. UNCHANGED <<LinkUp(d), LinkDown(d)>>
      BY <1>3, <2>1 DEF ClientRecv, LinkUp, LinkDown, Serving, IInv, TypeOK, serverVars, clientVars
    <3> QED
      BY <3>1, LinkStutters
  <2>2. CASE d = c
    <3>1. PICK k \in Wire!Readable(down[c]) : down' = [down EXCEPT ![c] = Wire!Drop(down[c], k)]
      BY <1>3 DEF ClientRecv
    <3>2. /\ LinkDown(c) = down[c] /\ LinkDown(c)' = Wire!Drop(down[c], k) /\ UNCHANGED LinkUp(c)
      BY <1>3, <3>1 DEF ClientRecv, LinkUp, LinkDown, Serving, IInv, TypeOK, serverVars, clientVars
    <3>3. Link(c)!Receive(k) /\ k \in 1..Parts
      BY <3>2 DEF Link!Receive, Link!Readable, Wire!Readable, Link!Drop, Wire!Drop
    <3> QED
      BY <2>2, <3>3 DEF Link!Next
  <2> QED
    BY <2>1, <2>2
<1>4. CASE ClientClose(c)
  <2>1. CASE d # c
    <3>1. UNCHANGED <<LinkUp(d), LinkDown(d)>>
      BY <1>4, <2>1 DEF ClientClose, LinkUp, LinkDown, Serving, IInv, TypeOK, serverVars
    <3> QED
      BY <3>1, LinkStutters
  <2>2. CASE d = c
    <3>1. Link(c)!Cut
      BY <1>4 DEF ClientClose, LinkUp, LinkDown, IInv, TypeOK, Link!Cut
    <3> QED
      BY <2>2, <3>1 DEF Link!Next
  <2> QED
    BY <2>1, <2>2
<1> QED
  BY <1>1, <1>2, <1>3, <1>4 DEF Client

\* What the server receives stays under way until it is sent back, to the
\* client it came from.
LEMMA ServerRefines ==
  ASSUME IInv, Sizes, Server, NEW d \in Conns
  PROVE  [Link(d)!Next]_(Link(d)!vars)
<1>0. /\ Cap \in Nat /\ Parts \in Nat \ {0}
      /\ \A e \in Conns : up[e] \in Seq(Wire!Part) /\ down[e] \in Seq(Wire!Part)
      /\ buf \in Seq(Wire!Part)
  BY SelectAssumption DEF IInv, TypeOK
<1>1. CASE Select \/ Skip \/ EndScan \/ Accept \/ AcceptFails
  <2>1. pc # "send" /\ pc' # "send" /\ UNCHANGED <<client, up, down>>
    BY <1>1 DEF Select, Skip, EndScan, Accept, AcceptFails, clientVars
  <2>2. UNCHANGED <<LinkUp(d), LinkDown(d)>>
    BY <2>1 DEF LinkUp, LinkDown, Serving
  <2> QED
    BY <2>2, LinkStutters
<1>2. CASE RecvData
  <2>0. PICK c \in Conns :
          /\ fdOf[pos] = c
          /\ \E k \in Wire!Readable(up[c]) :
               buf' = Wire!Take(up[c], k) /\ up' = [up EXCEPT ![c] = Wire!Drop(up[c], k)]
    BY <1>2 DEF RecvData
  <2>1. PICK k \in Wire!Readable(up[c]) :
          buf' = Wire!Take(up[c], k) /\ up' = [up EXCEPT ![c] = Wire!Drop(up[c], k)]
    BY <2>0
  <2>2. pc = "scan" /\ pc' = "send" /\ UNCHANGED <<client, down, fdOf, pos>>
    BY <1>2 DEF RecvData, AtReady, clientVars
  <2>3. buf' \o up'[c] = up[c]
    BY <1>0, <2>1, SplitLemma DEF IInv, TypeOK
  <2>4. <<>> \o up[d] = up[d]
    BY <1>0, ConcatEmptySeq
  <2>5. LinkUp(d) = IF client[d] = "open" THEN up[d] ELSE <<>>
    BY <2>2, <2>4 DEF LinkUp, Serving
  <2>6. LinkUp(d)' = IF client[d] = "open" THEN up[d] ELSE <<>>
    BY <2>0, <2>1, <2>2, <2>3, <2>4 DEF LinkUp, Serving, IInv, TypeOK
  <2>7. UNCHANGED LinkDown(d)
    BY <2>2 DEF LinkDown
  <2> QED
    BY <2>5, <2>6, <2>7, LinkStutters
<1>3. CASE RecvEnd
  <2>1. PICK c \in Conns : Ended(c) /\ up' = [up EXCEPT ![c] = <<>>]
    BY <1>3 DEF RecvEnd
  <2>2. pc = "scan" /\ pc' = "scan" /\ UNCHANGED <<client, down>>
    BY <1>3 DEF RecvEnd, AtReady, clientVars
  <2>3. UNCHANGED <<LinkUp(d), LinkDown(d)>>
    BY <2>1, <2>2 DEF LinkUp, LinkDown, Serving, Ended, IInv, TypeOK
  <2> QED
    BY <2>3, LinkStutters
<1>4. CASE SendReply
  <2>1. PICK c \in Conns : /\ fdOf[pos] = c /\ client[c] = "open"
                           /\ Len(down[c]) + Len(buf) <= Cap
                           /\ down' = [down EXCEPT ![c] = down[c] \o Wire!UpperCase(buf)]
    BY <1>4 DEF SendReply
  <2>2. pc = "send" /\ pc' = "scan" /\ buf # <<>> /\ UNCHANGED <<client, up>>
    BY <1>4 DEF SendReply, clientVars, IInv, StillReady
  <2>3. <<>> \o up[d] = up[d]
    BY <1>0, ConcatEmptySeq
  <2>4. CASE d # c
    <3>1. UNCHANGED <<LinkUp(d), LinkDown(d)>>
      BY <2>1, <2>2, <2>4 DEF LinkUp, LinkDown, Serving, IInv, TypeOK
    <3> QED
      BY <3>1, LinkStutters
  <2>5. CASE d = c
    <3>1. /\ LinkUp(c) = buf \o up[c] /\ LinkUp(c)' = up[c]
          /\ LinkDown(c) = down[c] /\ LinkDown(c)' = down[c] \o Wire!UpperCase(buf)
      BY <2>1, <2>2, <2>3, <2>5 DEF LinkUp, LinkDown, Serving, IInv, TypeOK
    <3>2. Wire!Take(LinkUp(c), Len(buf)) = buf /\ Wire!Drop(LinkUp(c), Len(buf)) = up[c]
      BY <1>0, <2>2, <3>1, TakeFirst
    <3>3. Len(buf) \in 1..Parts /\ Len(buf) <= Len(LinkUp(c))
      <4>1. Len(buf) \in Nat \ {0} /\ Len(up[c]) \in Nat
        BY <1>0, <2>2, EmptySeq, LenProperties
      <4>2. Len(buf \o up[c]) = Len(buf) + Len(up[c])
        BY <1>0, JoinLemma
      <4>3. Len(buf) <= Parts
        BY <2>2 DEF Sizes
      <4> QED
        BY <1>0, <3>1, <4>1, <4>2, <4>3
    <3>4. Len(LinkDown(c)) + Len(buf) <= Cap + Parts
      <4>1. Len(buf) \in Nat /\ Len(down[c]) \in Nat
        BY <1>0, LenProperties
      <4> QED
        BY <1>0, <2>1, <3>1, <4>1
    <3>5. Link(c)!Echo
      BY <3>1, <3>2, <3>3, <3>4
      DEF Link!Echo, Link!Readable, Link!Take, Link!Drop, Link!UpperCase, Wire!Take, Wire!Drop, Wire!UpperCase
    <3> QED
      BY <2>5, <3>5 DEF Link!Next
  <2> QED
    BY <2>4, <2>5
<1>5. CASE SendLost
  <2>1. PICK c \in Conns : fdOf[pos] = c /\ Ended(c) /\ client' = [client EXCEPT ![c] = "reset"]
    BY <1>5 DEF SendLost
  <2>2. pc = "send" /\ pc' = "scan" /\ UNCHANGED <<up, down>>
    BY <1>5 DEF SendLost
  <2>3. UNCHANGED <<LinkUp(d), LinkDown(d)>>
    BY <2>1, <2>2 DEF LinkUp, LinkDown, Serving, Ended, IInv, TypeOK
  <2> QED
    BY <2>3, LinkStutters
<1>6. CASE SendKills
  <2>1. PICK c \in Conns : fdOf[pos] = c /\ client[c] = "reset"
    BY <1>6 DEF SendKills
  <2>2. pc = "send" /\ pc' = "dead" /\ UNCHANGED <<client, up, down>>
    BY <1>6 DEF SendKills, clientVars
  <2>3. UNCHANGED <<LinkUp(d), LinkDown(d)>>
    BY <2>1, <2>2 DEF LinkUp, LinkDown, Serving
  <2> QED
    BY <2>3, LinkStutters
<1> QED
  BY <1>1, <1>2, <1>3, <1>4, <1>5, <1>6 DEF Server

\* Nothing is under way before a client connects.
LEMMA InitRefines == Init => \A c \in Conns : Link(c)!Init
BY DEF Init, Link!Init, LinkUp, LinkDown

\* The server keeps the promise of EchoLink to each client at once: its own
\* messages come back to it, in order and in upper case, and nobody else's,
\* whatever connections, sends and closes of the others come in between.
THEOREM ImplementsHolds == Spec => Implements
<1>1. IInv /\ Sizes /\ [Next]_vars => IInv' /\ Sizes'
  BY NextIInv, StepSizes
<1>2. IInv /\ Sizes /\ [Next]_vars => [\A c \in Conns : [Link(c)!Next]_(Link(c)!vars)]_vars
  BY ClientRefines, ServerRefines DEF Next
<1> QED
  BY <1>1, <1>2, InitIInv, InitSizes, InitRefines, PTL DEF Spec, Implements
=============================================================================
