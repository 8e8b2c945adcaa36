-------------------------- MODULE TwoThreadsProofs --------------------------
(***************************************************************************)
(* The two programs whose processes have two threads and a mutex each.     *)
(* esameSNP04: if a message arrives whole, the two threads of the client   *)
(* never overlap their accesses to the server, whatever the socket buffers *)
(* hold.  esameSNP06: no signal thread takes its mutex without a SIGUSR2   *)
(* that will let it go.                                                    *)
(***************************************************************************)
EXTENDS TurnClient, SignalHandshake, SequenceTheorems, TLAPS

\* The thread that waits for its reply has its one message under way, in one
\* direction or the other, and nothing else is.
OneExchange ==
  /\ \A t \in Threads : pc[t] = "recv" =>
       \/ Len(up) = 1 /\ up[1].from = t /\ down = <<>>
       \/ up = <<>> /\ Len(down) = 1 /\ down[1].from = t
  /\ (\A t \in Threads : pc[t] # "recv") => up = <<>> /\ down = <<>>

OwnReplies == \A t \in Threads : \A i \in DOMAIN reply[t] : reply[t][i].from = t

IInv == TypeOK /\ OneExchange /\ OwnReplies

\* A message is Parts parts, each from its sender.
LEMMA MessageLemma ==
  ASSUME NEW t \in Threads
  PROVE  /\ Link!Message(t) \in Seq(Link!Part)
         /\ Len(Link!Message(t)) = Parts
         /\ \A i \in 1..Parts : Link!Message(t)[i].from = t
<1>1. Parts \in Nat
  BY TurnAssumption
<1>2. \A p \in 1..Parts : [from |-> t, part |-> p, upper |-> FALSE] \in Link!Part
  BY DEF Link!Part
<1> QED BY <1>1, <1>2 DEF Link!Message

\* The conversion to upper case keeps the parts and their senders.
LEMMA UpperCaseLemma ==
  ASSUME NEW s \in Seq(Link!Part), Len(s) # 0
  PROVE  /\ Link!UpperCase(s) \in Seq(Link!Part)
         /\ Len(Link!UpperCase(s)) = Len(s)
         /\ \A i \in 1..Len(s) : Link!UpperCase(s)[i].from = s[i].from
<1>1. 1 \in 1..Len(s) /\ s[1] \in Link!Part
  BY LenProperties
<1> DEFINE e == [s[1] EXCEPT !.upper = TRUE]
<1>2. e \in Link!Part /\ e.from = s[1].from
  BY <1>1 DEF Link!Part
<1>3. Link!UpperCase(s) = [s EXCEPT ![1] = e]
  BY <1>1 DEF Link!UpperCase
<1> HIDE DEF e
<1> QED BY <1>1, <1>2, <1>3, ExceptSeq

\* What recv() takes and what it leaves.
LEMMA TakeDropLemma ==
  ASSUME NEW s \in Seq(Link!Part), NEW k \in Link!Readable(s)
  PROVE  /\ k \in 1..Parts /\ k <= Len(s) /\ Len(s) \in Nat
         /\ Link!Take(s, k) \in Seq(Link!Part) /\ Len(Link!Take(s, k)) = k
         /\ \A i \in 1..k : Link!Take(s, k)[i] = s[i]
         /\ Link!Drop(s, k) \in Seq(Link!Part) /\ Len(Link!Drop(s, k)) = Len(s) - k
<1>1. k \in 1..Parts /\ k <= Len(s) /\ Len(s) \in Nat /\ k \in Int /\ k + 1 \in Int /\ Len(s) \in Int
  BY LenProperties, TurnAssumption DEF Link!Readable
<1>2. \A i \in 1..Len(s) : s[i] \in Link!Part
  BY ElementOfSeq
<1>3. /\ SubSeq(s, 1, k) \in Seq(Link!Part) /\ Len(SubSeq(s, 1, k)) = k
      /\ \A i \in 1..k : SubSeq(s, 1, k)[i] = s[i]
  BY <1>1, <1>2, SubSeqProperties
<1>4. /\ SubSeq(s, k + 1, Len(s)) \in Seq(Link!Part)
      /\ Len(SubSeq(s, k + 1, Len(s))) = Len(s) - k
  BY <1>1, <1>2, SubSeqProperties
<1> QED BY <1>1, <1>3, <1>4 DEF Link!Take, Link!Drop

\* A message that arrives whole is taken whole.
LEMMA WholeLemma ==
  ASSUME Parts = 1, NEW s \in Seq(Link!Part), NEW k \in Link!Readable(s)
  PROVE  /\ k = 1 /\ Len(s) >= 1 /\ Len(Link!Take(s, 1)) = 1
         /\ Link!Take(s, 1)[1] = s[1] /\ Link!Take(s, 1) \in Seq(Link!Part)
         /\ Link!Drop(s, 1) \in Seq(Link!Part) /\ Len(Link!Drop(s, 1)) = Len(s) - 1
<1>1. k \in 1..1
  BY TakeDropLemma
<1>2. k = 1
  BY <1>1
<1>3. 1 \in 1..1 /\ 1 \in Link!Readable(s)
  BY <1>2
<1> QED BY <1>2, <1>3, TakeDropLemma

\* Where the threads can stand.
PCs == [f1 : {"sleep", "lock", "send", "recv", "unlock", "signal"},
        f2 : {"lock", "wait", "waiting", "relock", "send", "recv", "unlock"}]

LEMMA InitInv == Init => IInv
<1> SUFFICES ASSUME Init PROVE IInv
  OBVIOUS
<1>1. up = <<>> /\ down = <<>> /\ reply = [t \in Threads |-> <<>>]
  BY DEF Init, Link!Init
<1>2. <<>> \in Seq(Link!Part)
  BY EmptySeq
<1>3. up \in Seq(Link!Part) /\ down \in Seq(Link!Part) /\ reply \in [Threads -> Seq(Link!Part)]
  BY <1>1, <1>2
<1>4. \A t \in Threads : mtx = t <=> pc[t] \in Held[t]
  BY DEF Init, Held, Threads
<1>5. mtx \in Threads \union {"none"}
      /\ pc \in [f1 : {"sleep", "lock", "send", "recv", "unlock", "signal"},
                 f2 : {"lock", "wait", "waiting", "relock", "send", "recv", "unlock"}]
  BY DEF Init, Threads
<1>6. OneExchange /\ OwnReplies
  BY <1>1 DEF Init, OneExchange, OwnReplies, Threads
<1> QED BY <1>3, <1>4, <1>5, <1>6 DEF IInv, TypeOK

\* Each step keeps the types and the holder of the mutex.
LEMMA TypeStep == TypeOK /\ [Next]_vars => TypeOK'
<1> SUFFICES ASSUME TypeOK, [Next]_vars PROVE TypeOK'
  OBVIOUS
<1> USE DEF TypeOK, Held, Threads, Goto
<1>1. CASE UNCHANGED vars
  BY <1>1 DEF vars
<1>2. ASSUME NEW t \in Threads, Send(t) PROVE TypeOK'
  <2>1. up' = up \o Link!Message(t) /\ UNCHANGED <<mtx, down, reply>>
    BY <1>2 DEF Send, Link!Send
  <2>2. up' \in Seq(Link!Part)
    BY <2>1, MessageLemma, ConcatProperties
  <2>3. pc[t] = "send" /\ pc' = [pc EXCEPT ![t] = "recv"]
    BY <1>2 DEF Send
  <2>4. pc' \in PCs /\ mtx' = mtx
    BY <2>1, <2>3 DEF PCs
  <2>5. \A u \in Threads : pc'[u] \in Held[u] <=> pc[u] \in Held[u]
    BY <2>3
  <2> HIDE DEF Held, Threads
  <2> QED BY <2>1, <2>2, <2>4, <2>5 DEF PCs
<1>3. ASSUME NEW t \in Threads, Recv(t) PROVE TypeOK'
  <2>1. PICK k \in Link!Readable(down) :
          Link!Receive(k) /\ reply' = [reply EXCEPT ![t] = Link!Take(down, k)]
    BY <1>3 DEF Recv
  <2>2. Link!Take(down, k) \in Seq(Link!Part) /\ Link!Drop(down, k) \in Seq(Link!Part)
    BY TakeDropLemma
  <2>3. down' \in Seq(Link!Part) /\ up' = up
    BY <2>1, <2>2 DEF Link!Receive
  <2>4. reply' \in [Threads -> Seq(Link!Part)]
    BY <2>1, <2>2
  <2>5. pc[t] = "recv" /\ pc' = [pc EXCEPT ![t] = "unlock"] /\ mtx' = mtx
    BY <1>3 DEF Recv
  <2>6. pc' \in PCs
    BY <2>5 DEF PCs
  <2>7. \A u \in Threads : pc'[u] \in Held[u] <=> pc[u] \in Held[u]
    BY <2>5
  <2> HIDE DEF Held, Threads
  <2> QED BY <2>3, <2>4, <2>5, <2>6, <2>7 DEF PCs
<1>4. CASE F1Sleep \/ F1Signal \/ F2Spurious
  BY <1>4 DEF F1Sleep, F1Signal, F2Spurious
<1>5. CASE F1Lock \/ F2Lock \/ F2Relock
  BY <1>5 DEF F1Lock, F2Lock, F2Relock, Lock
<1>6. CASE F1Unlock \/ F2Unlock \/ F2Wait
  BY <1>6 DEF F1Unlock, F2Unlock, F2Wait, Unlock
<1>7. CASE Server
  <2>1. PICK k \in Link!Readable(up) :
          /\ down' = down \o Link!UpperCase(Link!Take(up, k))
          /\ up' = Link!Drop(up, k)
    BY <1>7 DEF Server, Link!Echo
  <2>2. /\ Link!Take(up, k) \in Seq(Link!Part) /\ Len(Link!Take(up, k)) # 0
        /\ Link!Drop(up, k) \in Seq(Link!Part)
    BY TakeDropLemma
  <2>3. down' \in Seq(Link!Part) /\ up' \in Seq(Link!Part)
    BY <2>1, <2>2, UpperCaseLemma, ConcatProperties
  <2> QED BY <1>7, <2>3 DEF Server
<1> QED BY <1>1, <1>2, <1>3, <1>4, <1>5, <1>6, <1>7 DEF Next, F1, F2, F1Send

\* Each step keeps one exchange at a time, if a message arrives whole.
LEMMA InvStep == Parts = 1 /\ IInv /\ [Next]_vars => IInv'
<1> SUFFICES ASSUME Parts = 1, IInv, [Next]_vars PROVE IInv'
  OBVIOUS
<1> USE DEF IInv
<1>0. TypeOK'
  BY TypeStep
<1>1. CASE UNCHANGED vars
  BY <1>0, <1>1 DEF vars, OneExchange, OwnReplies
<1>2. ASSUME NEW t \in Threads, Send(t) PROVE IInv'
  <2>1. /\ pc[t] = "send" /\ pc' = [pc EXCEPT ![t] = "recv"]
        /\ up' = up \o Link!Message(t) /\ UNCHANGED <<down, reply>>
    BY <1>2 DEF Send, Link!Send, Goto
  <2>2. \A u \in Threads : pc[u] # "recv"
    BY <2>1 DEF TypeOK, Held, Threads
  <2>3. up = <<>> /\ down = <<>>
    BY <2>2 DEF OneExchange
  <2>4. Len(up') = 1 /\ up'[1].from = t
    BY <2>1, <2>3, MessageLemma, ConcatEmptySeq
  <2>5. OneExchange'
    BY <2>1, <2>2, <2>3, <2>4 DEF OneExchange, TypeOK, Threads
  <2> QED BY <1>0, <2>1, <2>5 DEF OwnReplies
<1>3. ASSUME NEW t \in Threads, Recv(t) PROVE IInv'
  <2>1. PICK k \in Link!Readable(down) :
          Link!Receive(k) /\ reply' = [reply EXCEPT ![t] = Link!Take(down, k)]
    BY <1>3 DEF Recv
  <2>2. /\ k = 1 /\ Len(down) >= 1 /\ Len(Link!Take(down, 1)) = 1
        /\ Link!Take(down, 1)[1] = down[1] /\ Link!Take(down, 1) \in Seq(Link!Part)
        /\ Link!Drop(down, 1) \in Seq(Link!Part) /\ Len(Link!Drop(down, 1)) = Len(down) - 1
    BY WholeLemma DEF TypeOK
  <2>3. pc[t] = "recv" /\ pc' = [pc EXCEPT ![t] = "unlock"] /\ up' = up
    BY <1>3, <2>1 DEF Recv, Goto, Link!Receive
  <2>4. up = <<>> /\ Len(down) = 1 /\ down[1].from = t
    BY <2>2, <2>3, EmptySeq DEF OneExchange
  <2>5. down' = Link!Drop(down, 1)
    BY <2>1, <2>2 DEF Link!Receive
  <2>6. down' = <<>>
    BY <2>2, <2>4, <2>5, EmptySeq
  <2>7. \A u \in Threads : pc'[u] # "recv"
    BY <2>3 DEF TypeOK, Held, Threads
  <2>8. OneExchange'
    BY <2>3, <2>4, <2>6, <2>7 DEF OneExchange
  <2>9. OwnReplies'
    <3> SUFFICES ASSUME NEW u \in Threads, NEW i \in DOMAIN reply'[u]
                 PROVE  reply'[u][i].from = u
      BY DEF OwnReplies
    <3>1. CASE u = t
      <4>1. reply'[u] = Link!Take(down, 1)
        BY <2>1, <2>2, <3>1 DEF TypeOK
      <4>2. i = 1
        BY <2>2, <4>1, LenProperties
      <4> QED BY <2>2, <2>4, <3>1, <4>1, <4>2
    <3>2. CASE u # t
      BY <2>1, <3>2 DEF TypeOK, OwnReplies
    <3> QED BY <3>1, <3>2
  <2> QED BY <1>0, <2>8, <2>9
<1>4. CASE Server
  <2>1. PICK k \in Link!Readable(up) :
          /\ down' = down \o Link!UpperCase(Link!Take(up, k))
          /\ up' = Link!Drop(up, k)
    BY <1>4 DEF Server, Link!Echo
  <2>2. /\ k = 1 /\ Len(up) >= 1 /\ Len(Link!Take(up, 1)) = 1
        /\ Link!Take(up, 1)[1] = up[1] /\ Link!Take(up, 1) \in Seq(Link!Part)
        /\ Link!Drop(up, 1) \in Seq(Link!Part) /\ Len(Link!Drop(up, 1)) = Len(up) - 1
    BY WholeLemma DEF TypeOK
  <2>3. UNCHANGED <<pc, reply>>
    BY <1>4 DEF Server
  <2>4. PICK t \in Threads : pc[t] = "recv" /\ up[1].from = t
    BY <2>2, EmptySeq DEF OneExchange
  <2>5. Len(up) = 1 /\ down = <<>>
    BY <2>2, <2>4, EmptySeq DEF OneExchange
  <2>6. up' = <<>>
    BY <2>1, <2>2, <2>5, EmptySeq
  <2>7. /\ Link!UpperCase(Link!Take(up, 1)) \in Seq(Link!Part)
        /\ Len(Link!UpperCase(Link!Take(up, 1))) = 1
        /\ Link!UpperCase(Link!Take(up, 1))[1].from = t
    BY <2>2, <2>4, UpperCaseLemma
  <2>8. down' = Link!UpperCase(Link!Take(up, 1))
    BY <2>1, <2>2, <2>5, <2>7, ConcatEmptySeq
  <2>9. \A u \in Threads : u # t => pc[u] # "recv"
    BY <2>4 DEF TypeOK, Held, Threads
  <2>10. OneExchange'
    BY <2>3, <2>4, <2>6, <2>7, <2>8, <2>9 DEF OneExchange
  <2> QED BY <1>0, <2>3, <2>10 DEF OwnReplies
<1>5. CASE F1Sleep \/ F1Signal \/ F2Spurious \/ F1Lock \/ F2Lock \/ F2Relock
  <2>1. UNCHANGED <<up, down, reply>> /\ \A t \in Threads : pc'[t] = "recv" <=> pc[t] = "recv"
    BY <1>5 DEF F1Sleep, F1Signal, F2Spurious, F1Lock, F2Lock, F2Relock, Lock, Goto, TypeOK, Threads
  <2> QED BY <1>0, <2>1 DEF OneExchange, OwnReplies
<1>6. CASE F1Unlock \/ F2Unlock \/ F2Wait
  <2>1. UNCHANGED <<up, down, reply>> /\ \A t \in Threads : pc'[t] = "recv" <=> pc[t] = "recv"
    BY <1>6 DEF F1Unlock, F2Unlock, F2Wait, Unlock, Goto, TypeOK, Threads
  <2> QED BY <1>0, <2>1 DEF OneExchange, OwnReplies
<1> QED BY <1>1, <1>2, <1>3, <1>4, <1>5, <1>6 DEF Next, F1, F2, F1Send, Threads

\* One exchange at a time is what NoOverlap says of the parts under way.
LEMMA InvImplies == IInv => NoOverlap
<1> SUFFICES ASSUME IInv PROVE NoOverlap
  OBVIOUS
<1>1. ASSUME NEW m \in InFlight PROVE mtx = m.from /\ pc[m.from] = "recv"
  <2>1. DOMAIN up = 1..Len(up) /\ DOMAIN down = 1..Len(down)
    BY LenProperties DEF IInv, TypeOK
  <2>2. Len(<<>>) = 0
    BY EmptySeq
  <2>3. PICK t \in Threads : pc[t] = "recv"
    BY <2>1, <2>2 DEF InFlight, IInv, OneExchange
  <2>4. m.from = t
    BY <2>1, <2>2, <2>3 DEF InFlight, IInv, OneExchange
  <2>5. mtx = t
    BY <2>3 DEF IInv, TypeOK, Held, Threads
  <2> QED BY <2>3, <2>4, <2>5
<1> QED BY <1>1 DEF NoOverlap, IInv, OwnReplies

\* Types are kept, and the mutex is held by exactly the thread between its
\* lock and its unlock or wait, for every number of parts and every capacity.
THEOREM TypeCorrect == Spec => []TypeOK
<1>1. Init => TypeOK
  BY InitInv DEF IInv
<1> QED BY <1>1, TypeStep, PTL DEF Spec

\* If a message arrives whole, the accesses of the two threads never overlap,
\* whatever the socket buffers hold, and each thread reads its own reply.
THEOREM Exclusive == ASSUME Parts = 1 PROVE Spec => []NoOverlap
<1>1. IInv /\ [Next]_vars => IInv'
  BY InvStep
<1> QED BY InitInv, <1>1, InvImplies, PTL DEF Spec

-----------------------------------------------------------------------------
(* esameSNP06 *)

\* The flag is set between the start and the loop, and only the signal thread
\* clears it.
FlagTrue ==
  \A p \in Procs :
    /\ main[p] \in {"start", "setrun"} =>
         ~run[p] /\ holder[p] = "none" /\ handler[p] \in {"none", "check", "done"}
    /\ handler[p] \in {"sigwait", "lock", "unlock", "stop"} => run[p]

\* A signal thread that has the mutex has not come to its end, nor will before
\* it has let go of it.
HandlerHas ==
  \A p \in Procs :
    holder[p] = "handler" => handler[p] \notin {"none", "done"} /\ (handler[p] = "check" => run[p])

\* A process that has exited has no threads and no signals.
Gone == \A p \in Procs : main[p] = "exited" => handler[p] = "done" /\ pending[p] = {}

\* Whoever announces a write is still to write or has said that it wrote.
Announced ==
  \A p \in Procs :
    "USR1" \in pending[p] => Writing(Other(p)) \/ "USR2" \in pending[p]

HandshakeInv == FlagTrue /\ HandlerHas /\ Gone /\ Announced /\ ReleaseIsComing

\* Nothing is held, pending or running before the start.
LEMMA HandshakeInit == ShakeInit => HandshakeInv
BY DEF ShakeInit, HandshakeInv, FlagTrue, HandlerHas, Gone, Announced, ReleaseIsComing,
       ShakeTypeOK, Procs, Other, Signals, Writing

\* There are two processes.
LEMMA OtherProcess ==
  \A p \in Procs : /\ Other(p) \in Procs /\ Other(p) # p
                         /\ Other(Other(p)) = p
                         /\ \A q \in Procs : q # p => q = Other(p)
BY DEF Procs, Other

\* What main does.
LEMMA MainStep ==
  ASSUME HandshakeInv, NEW p \in Procs, Main(p)
  PROVE  HandshakeInv'
<1> USE OtherProcess DEF HandshakeInv, FlagTrue, HandlerHas, Gone, Announced, ReleaseIsComing, ShakeTypeOK,
        Signals, Writing, MainGoto, HandlerGoto, TakeMutex, FreeMutex, Kill
<1>1. CASE Start(p)
  BY <1>1 DEF Start
<1>2. CASE SetRun(p)
  BY <1>2 DEF SetRun
<1>3. CASE CheckRun(p)
  BY <1>3 DEF CheckRun
<1>4. CASE Find(p)
  BY <1>4 DEF Find
<1>5. CASE MainLock(p)
  BY <1>5 DEF MainLock
<1>6. CASE SendUsr1(p)
  BY <1>6 DEF SendUsr1
<1>7. CASE SendUsr2(p)
  BY <1>7 DEF SendUsr2
<1>8. CASE MainUnlock(p)
  BY <1>8 DEF MainUnlock
<1>9. CASE Join(p)
  BY <1>9 DEF Join
<1> QED
  BY <1>1, <1>2, <1>3, <1>4, <1>5, <1>6, <1>7, <1>8, <1>9 DEF Main

\* What the signal thread does.
LEMMA HandlerStep ==
  ASSUME HandshakeInv, NEW p \in Procs, Handler(p)
  PROVE  HandshakeInv'
<1> USE OtherProcess DEF HandshakeInv, FlagTrue, HandlerHas, Gone, Announced, ReleaseIsComing, ShakeTypeOK,
        Signals, Writing, HandlerGoto, TakeMutex, FreeMutex, Kill
<1>1. CASE HandlerCheck(p)
  BY <1>1 DEF HandlerCheck
<1>2. CASE Sigwait(p)
  BY <1>2 DEF Sigwait, Body
<1>3. CASE HandlerLock(p)
  BY <1>3 DEF HandlerLock
<1>4. CASE HandlerUnlock(p)
  BY <1>4 DEF HandlerUnlock
<1>5. CASE StopRun(p)
  BY <1>5 DEF StopRun
<1>6. CASE Forward(p)
  BY <1>6 DEF Forward
<1>7. CASE Release(p)
  BY <1>7 DEF Release
<1> QED
  BY <1>1, <1>2, <1>3, <1>4, <1>5, <1>6, <1>7 DEF Handler

\* A step of either process, or the user's SIGINT.
LEMMA HandshakeStep == HandshakeInv /\ [ShakeNext]_shakeVars => HandshakeInv'
<1> SUFFICES ASSUME HandshakeInv, [ShakeNext]_shakeVars PROVE HandshakeInv'
  OBVIOUS
<1> USE DEF HandshakeInv, FlagTrue, HandlerHas, Gone, Announced, ReleaseIsComing, ShakeTypeOK,
            Signals, Writing
<1>1. CASE UNCHANGED shakeVars
  BY <1>1 DEF shakeVars
<1>2. ASSUME NEW p \in Procs, Interrupt(p) PROVE HandshakeInv'
  BY <1>2 DEF Interrupt, Kill
<1> QED
  BY <1>1, <1>2, MainStep, HandlerStep DEF ShakeNext

\* A signal thread of proc1 or proc2 that has the mutex, or is about to ask for
\* it, can count on a SIGUSR2, whatever signals are merged or lost and whoever
\* unlocks what the other thread holds.
THEOREM ReleaseIsComingHolds == ShakeSpec => []ReleaseIsComing
<1>1. HandshakeInv => ReleaseIsComing
  BY DEF HandshakeInv
<1> QED
  BY <1>1, HandshakeInit, HandshakeStep, PTL DEF ShakeSpec
=============================================================================
