--------------------------- MODULE OneShotProofs ---------------------------
(***************************************************************************)
(* The servers that answer each client once: whatever the clients say and  *)
(* however many there are, nobody is sent what belongs to somebody else,   *)
(* and the two echo servers keep a connection as long as it is served.     *)
(* What makes it so is that a connection is read, answered and closed      *)
(* once: until it is read there is nothing on the way to its client, and   *)
(* what a server then holds to send is an answer to that client.           *)
(***************************************************************************)
EXTENDS OneShot, SequenceTheorems, TLAPS

Text == Seq(Int)

ClientAt == {"idle", "send", "recv", "write", "wait", "loop"} \union Over
ServerAt == {"none", "queued", "open", "fin", "rst"}
Working == {"recv", "send", "close"}

\* The clients and their connections.
NetTyped ==
  /\ program \in {"fork", "threads", "ports", "lines"}
  /\ client \in [Clients -> ClientAt] /\ server \in [Clients -> ServerAt]
  /\ up \in [Clients -> Text] /\ down \in [Clients -> Text] /\ got \in [Clients -> Text]
  /\ chunk \in [Clients -> Text] /\ pipe \in [Clients -> Text] /\ cast \in [Clients -> Text]
  /\ caster \in [Clients -> {"none", "read", "cast", "gone"}]
  /\ \A c \in Clients : client[c] \in {"idle", "loop"} => server[c] = "none"

\* The server has not accepted c.
Waiting(c) == server[c] \in {"none", "queued"}

\* A worker has the connection main accepted for it, which nobody has had before.
EchoTyped ==
  /\ main \in {"accept", "start", "close", "exit"} /\ newclient \in Clients \union {Nobody}
  /\ worker \in [Clients -> Working \union {"none", "ended"}]
  /\ sock \in [Clients -> Clients \union {Nobody}]
  /\ buf \in [Clients -> Text] /\ held \in [Clients -> SUBSET (Clients \union {Main})]
  /\ main \in {"start", "close"} => newclient \in Clients /\ ~Waiting(newclient)
  /\ main = "start" => worker[newclient] = "none"
  /\ \A w \in Clients : worker[w] # "none" => sock[w] = w
  /\ \A c \in Clients : Waiting(c) => worker[c] = "none" /\ held[c] = {}

\* The connection a sequential server works on.
OneByOneTyped ==
  /\ thread \in Working \union {"select", "scan"} /\ conn \in Clients \union {NoConn}
  /\ thread \in Working => conn \in Clients /\ ~Waiting(conn)
  /\ serving \in Working \union {"accept"} /\ fd \in Clients \union {NoClient}
  /\ serving \in Working => fd \in Clients /\ ~Waiting(fd)
  /\ text \in Text /\ sendbuff \in Text

Typed == NetTyped /\ EchoTyped /\ OneByOneTyped

\* Nothing of c has been received.
Unread(c) ==
  CASE program = "ports" -> Waiting(c) \/ (conn = c /\ thread = "recv")
    [] program = "lines" -> Waiting(c) \/ (fd = c /\ serving = "recv")
    [] OTHER -> worker[c] \in {"none", "recv"}

\* What a server may be about to send to c.
ToSend(c) ==
  CASE program = "ports" -> IF conn = c /\ thread = "send" THEN {text} ELSE {}
    [] program = "lines" -> IF fd = c /\ serving = "send" THEN {sendbuff} ELSE {}
    [] OTHER -> IF worker[c] = "send" THEN {buf[c], buf[c] \o <<Junk>>} ELSE {}

AnswersTo(c) == UNION {Answers(c, k) : k \in 1..Len(Message[c])}

\* A client is sent one answer of its own after it was read, and nothing before.
Told(c) ==
  /\ Unread(c) => up[c] \in {<<>>, Message[c]} /\ got[c] = <<>> /\ down[c] = <<>>
  /\ \A t \in ToSend(c) :
       got[c] = <<>> /\ down[c] = <<>> /\ (client[c] \in Over \/ t \in AnswersTo(c))
  /\ got[c] \o down[c] # <<>> => \E t \in AnswersTo(c) : IsPrefix(got[c] \o down[c], t)

\* What a client has received is in its hands, in the pipe, or read by the multicaster.
Relayed(c) ==
  /\ program # "lines" => caster[c] = "none" /\ chunk[c] = <<>>
  /\ program = "lines" /\ client[c] = "idle" => got[c] = <<>> /\ caster[c] = "none" /\ chunk[c] = <<>>
  /\ client[c] \in {"send", "recv"} => chunk[c] = <<>>
  /\ program = "lines" /\ client[c] \in {"send", "recv", "write"} => caster[c] # "none"
  /\ caster[c] = "none" => cast[c] = <<>> /\ pipe[c] = <<>>
  /\ caster[c] = "read" => cast[c] = <<>> /\ pipe[c] \o chunk[c] = got[c]
  /\ IsPrefix(cast[c], got[c])

AnswerInv == Typed /\ \A c \in Clients : Told(c) /\ Relayed(c)

-----------------------------------------------------------------------------
(* Texts *)

LEMMA PrefixIff ==
  ASSUME NEW s \in Text, NEW t \in Text
  PROVE  IsPrefix(s, t) <=> Len(s) <= Len(t) /\ \A j \in 1..Len(s) : s[j] = t[j]
<1>1. Len(s) \in Nat /\ Len(t) \in Nat
  BY LenProperties DEF Text
<1>2. \A j \in 1..Len(s) : s[j] \in Int
  BY ElementOfSeq DEF Text
<1>3. SubSeq(s, 1, Len(s)) = s
  BY SubSeqFull DEF Text
<1>4. ASSUME Len(s) <= Len(t)
      PROVE  SubSeq(t, 1, Len(s)) = s <=> \A j \in 1..Len(s) : s[j] = t[j]
  <2>1. \A j \in 1..Len(s) : j \in 1..Len(t) /\ t[j] \in Int
    <3>1. \A j \in 1..Len(s) : j \in 1..Len(t)
      BY <1>1, <1>4
    <3> QED
      BY <3>1, ElementOfSeq DEF Text
  <2>2. /\ SubSeq(t, 1, Len(s)) \in Seq(Int)
        /\ Len(SubSeq(t, 1, Len(s))) = IF 1 <= Len(s) THEN Len(s) - 1 + 1 ELSE 0
        /\ \A j \in 1..(Len(s) - 1 + 1) : SubSeq(t, 1, Len(s))[j] = t[1 + j - 1]
    BY <1>1, <2>1, SubSeqProperties
  <2>3. Len(s) - 1 + 1 = Len(s) /\ \A j \in 1..Len(s) : 1 + j - 1 = j
    BY <1>1
  <2>4. Len(SubSeq(t, 1, Len(s))) = Len(s)
    BY <1>1, <2>2
  <2>5. \A j \in 1..Len(s) : SubSeq(t, 1, Len(s))[j] = t[j]
    BY <2>2, <2>3
  <2>6. SubSeq(t, 1, Len(s)) = s <=> \A j \in 1..Len(s) : SubSeq(t, 1, Len(s))[j] = s[j]
    BY <2>2, <2>4, SeqEqual DEF Text
  <2> QED
    BY <2>5, <2>6
<1> QED
  BY <1>3, <1>4 DEF IsPrefix

LEMMA EmptyText == <<>> \in Text /\ Len(<<>>) = 0 /\ \A s \in Text : s = <<>> <=> Len(s) = 0
BY EmptySeq DEF Text

LEMMA JoinText ==
  ASSUME NEW s \in Text, NEW t \in Text
  PROVE  /\ s \o t \in Text /\ Len(s \o t) = Len(s) + Len(t) /\ Len(s) \in Nat /\ Len(t) \in Nat
         /\ \A j \in 1..Len(s) : (s \o t)[j] = s[j]
         /\ s \o <<>> = s /\ <<>> \o s = s
         /\ s \o t = <<>> => s = <<>> /\ t = <<>>
<1>1. Len(s) \in Nat /\ Len(t) \in Nat
  BY LenProperties DEF Text
<1>2. /\ s \o t \in Seq(Int) /\ Len(s \o t) = Len(s) + Len(t)
      /\ \A j \in 1..(Len(s) + Len(t)) : (s \o t)[j] = IF j <= Len(s) THEN s[j] ELSE t[j - Len(s)]
  BY ConcatProperties DEF Text
<1>3. \A j \in 1..Len(s) : (s \o t)[j] = s[j]
  BY <1>1, <1>2
<1>4. s \o <<>> = s /\ <<>> \o s = s
  BY ConcatEmptySeq DEF Text
<1>5. s \o t = <<>> => s = <<>> /\ t = <<>>
  <2>1. s \o t = <<>> => Len(s) + Len(t) = 0
    BY <1>2, EmptySeq
  <2> QED
    BY <1>1, <2>1, EmptyText
<1> QED
  BY <1>1, <1>2, <1>3, <1>4, <1>5 DEF Text

LEMMA JoinAssoc ==
  ASSUME NEW s \in Text, NEW t \in Text, NEW u \in Text
  PROVE  (s \o t) \o u = s \o (t \o u)
BY ConcatAssociative DEF Text

\* A text that is taken in two parts.
LEMMA CutText ==
  ASSUME NEW s \in Text, NEW k \in 1..Len(s)
  PROVE  /\ SubSeq(s, 1, k) \in Text /\ SubSeq(s, k + 1, Len(s)) \in Text
         /\ Len(SubSeq(s, 1, k)) = k /\ SubSeq(s, 1, k) # <<>>
         /\ SubSeq(s, 1, k) \o SubSeq(s, k + 1, Len(s)) = s
<1>1. Len(s) \in Nat /\ k \in Nat /\ 1 <= k /\ k <= Len(s)
  BY LenProperties DEF Text
<1>2. \A j \in 1..Len(s) : s[j] \in Int
  BY ElementOfSeq DEF Text
<1>3. /\ SubSeq(s, 1, k) \in Seq(Int)
      /\ Len(SubSeq(s, 1, k)) = IF 1 <= k THEN k - 1 + 1 ELSE 0
  BY <1>1, <1>2, SubSeqProperties
<1>4. SubSeq(s, k + 1, Len(s)) \in Seq(Int)
  <2>1. \A j \in (k + 1)..Len(s) : s[j] \in Int
    BY <1>1, <1>2
  <2> QED
    BY <1>1, <2>1, SubSeqProperties
<1>5. SubSeq(s, 1, k) \o SubSeq(s, k + 1, Len(s)) = SubSeq(s, 1, Len(s))
  <2>1. 1 \in 1..(Len(s) + 1) /\ k \in (1 - 1)..Len(s) /\ Len(s) \in k..Len(s)
    BY <1>1
  <2> QED
    BY <2>1, ConcatAdjacentSubSeq DEF Text
<1>6. SubSeq(s, 1, Len(s)) = s
  BY SubSeqFull DEF Text
<1>7. Len(SubSeq(s, 1, k)) = k /\ k # 0
  BY <1>1, <1>3
<1>8. SubSeq(s, 1, k) # <<>>
  BY <1>7, EmptyText
<1> QED
  BY <1>3, <1>4, <1>5, <1>6, <1>7, <1>8 DEF Text

\* The start of a text.
LEMMA PrefixFacts ==
  ASSUME NEW s \in Text, NEW t \in Text, NEW a \in Text
  PROVE  /\ IsPrefix(s, s) /\ IsPrefix(<<>>, s)
         /\ IsPrefix(s \o t, a) => IsPrefix(s, a)
         /\ IsPrefix(s, a) => IsPrefix(s, a \o t)
<1>1. Len(s) \in Nat /\ Len(t) \in Nat /\ Len(a) \in Nat
  BY LenProperties DEF Text
<1>2. IsPrefix(s, s) /\ IsPrefix(<<>>, s)
  BY <1>1, EmptyText, PrefixIff
<1>3. ASSUME IsPrefix(s \o t, a) PROVE IsPrefix(s, a)
  <2>1. s \o t \in Text /\ Len(s \o t) = Len(s) + Len(t) /\ \A j \in 1..Len(s) : (s \o t)[j] = s[j]
    BY JoinText
  <2>2. Len(s) + Len(t) <= Len(a) /\ \A j \in 1..(Len(s) + Len(t)) : (s \o t)[j] = a[j]
    BY <1>3, <2>1, PrefixIff
  <2>3. Len(s) <= Len(a) /\ \A j \in 1..Len(s) : j \in 1..(Len(s) + Len(t))
    BY <1>1, <2>2
  <2> QED
    BY <2>1, <2>2, <2>3, PrefixIff
<1>4. ASSUME IsPrefix(s, a) PROVE IsPrefix(s, a \o t)
  <2>1. a \o t \in Text /\ Len(a \o t) = Len(a) + Len(t) /\ \A j \in 1..Len(a) : (a \o t)[j] = a[j]
    BY JoinText
  <2>2. Len(s) <= Len(a) /\ \A j \in 1..Len(s) : s[j] = a[j]
    BY <1>4, PrefixIff
  <2>3. Len(s) <= Len(a) + Len(t) /\ \A j \in 1..Len(s) : j \in 1..Len(a)
    BY <1>1, <2>2
  <2> QED
    BY <2>1, <2>2, <2>3, PrefixIff
<1> QED
  BY <1>2, <1>3, <1>4

\* A line of the file, or nothing.
LEMMA LineTyped == ASSUME NEW n PROVE Line(n) \in Text
<1>1. PICK m : m = IF n < 2 THEN 1 ELSE n
  OBVIOUS
<1>2. Line(n) = IF Numbered(m) = {} THEN <<>> ELSE File[CHOOSE j \in Numbered(m) : TRUE]
  BY <1>1 DEF Line
<1>3. ASSUME Numbered(m) # {} PROVE (CHOOSE j \in Numbered(m) : TRUE) \in DOMAIN File
  BY <1>3 DEF Numbered, Tokens
<1>4. \A j \in DOMAIN File : File[j] \in Text
  <2>1. \A j \in DOMAIN File : File[j] \in Seq(0..9)
    BY FileAssumption, ElementOfSeq, LenProperties
  <2>2. Seq(0..9) \subseteq Text
    BY SeqMonotonic DEF Text
  <2> QED
    BY <2>1, <2>2
<1> QED
  BY <1>2, <1>3, <1>4, EmptyText

LEMMA MessageTyped == ASSUME NEW c \in Clients PROVE Message[c] \in Text
<1>1. Message[c] \in Seq(0..9)
  BY MessageAssumption
<1>2. Seq(0..9) \subseteq Text
  BY SeqMonotonic DEF Text
<1> QED
  BY <1>1, <1>2

LEMMA AnswersTyped == ASSUME NEW c \in Clients PROVE AnswersTo(c) \subseteq Text
<1> SUFFICES ASSUME NEW k \in 1..Len(Message[c]) PROVE Answers(c, k) \subseteq Text
  BY DEF AnswersTo
<1>1. PICK msg : msg = SubSeq(Message[c], 1, k)
  OBVIOUS
<1>2. msg \in Text
  BY <1>1, MessageTyped, CutText
<1>3. <<Junk>> \in Text
  BY DEF Junk, Text
<1>4. msg \o <<Junk>> \in Text /\ Line(Atoi(msg)) \in Text
  BY <1>2, <1>3, JoinText, LineTyped
<1> QED
  BY <1>1, <1>2, <1>4 DEF Answers

-----------------------------------------------------------------------------
(* What a step does to what a client is told *)

LEMMA AnswersStay == ASSUME program' = program, NEW c PROVE AnswersTo(c)' = AnswersTo(c)
BY DEF AnswersTo, Answers

\* Nothing is sent to c, and nothing is received from it; what is on the way
\* to it may be lost.
LEMMA StayTold ==
  ASSUME NetTyped, NetTyped', NEW c \in Clients, Told(c), program' = program,
         client[c] \in Over => client'[c] \in Over,
         Unread(c)' => Unread(c) /\ up'[c] \in {up[c], <<>>, Message[c]},
         ToSend(c)' \subseteq ToSend(c),
         got'[c] \o down'[c] \in {got[c] \o down[c], got[c]}
  PROVE  Told(c)'
<1>1. got[c] \in Text /\ down[c] \in Text /\ got'[c] \in Text /\ down'[c] \in Text
  BY DEF NetTyped
<1>2. AnswersTo(c)' = AnswersTo(c) /\ AnswersTo(c) \subseteq Text
  BY AnswersStay, AnswersTyped
<1>3. ASSUME got[c] = <<>>, down[c] = <<>> PROVE got'[c] = <<>> /\ down'[c] = <<>>
  BY <1>1, <1>3, JoinText
<1>4. Unread(c)' => up'[c] \in {<<>>, Message[c]} /\ got'[c] = <<>> /\ down'[c] = <<>>
  BY <1>3 DEF Told
<1>5. \A t \in ToSend(c)' :
        got'[c] = <<>> /\ down'[c] = <<>> /\ (client'[c] \in Over \/ t \in AnswersTo(c)')
  BY <1>2, <1>3 DEF Told
<1>6. ASSUME got'[c] \o down'[c] # <<>>
      PROVE  \E t \in AnswersTo(c) : IsPrefix(got'[c] \o down'[c], t)
  <2>1. got[c] \o down[c] # <<>>
    BY <1>1, <1>6, JoinText
  <2>2. PICK t \in AnswersTo(c) : IsPrefix(got[c] \o down[c], t)
    BY <2>1 DEF Told
  <2>3. IsPrefix(got[c], t)
    BY <1>1, <1>2, <2>2, PrefixFacts
  <2> QED
    BY <2>2, <2>3
<1>7. (got[c] \o down[c] # <<>> => \E t \in AnswersTo(c) : IsPrefix(got[c] \o down[c], t))'
  BY <1>2, <1>6
<1> QED
  BY <1>4, <1>5, <1>7 DEF Told

\* The message of c is received, or c is found to be gone.
LEMMA RecvTold ==
  ASSUME NetTyped, NEW c \in Clients, Told(c), program' = program,
         got'[c] = got[c], down'[c] = down[c], Unread(c), ~Unread(c)',
         \A t \in ToSend(c)' :
           client'[c] \in Over \/ \E k \in 1..Len(up[c]) : up[c] = Message[c] => t \in Answers(c, k)
  PROVE  Told(c)'
<1>1. got[c] = <<>> /\ down[c] = <<>> /\ up[c] \in {<<>>, Message[c]}
  BY DEF Told
<1>2. AnswersTo(c)' = AnswersTo(c)
  BY AnswersStay
<1>3. ASSUME NEW t \in ToSend(c)', client'[c] \notin Over PROVE t \in AnswersTo(c)
  <2>1. PICK k \in 1..Len(up[c]) : up[c] = Message[c] => t \in Answers(c, k)
    BY <1>3
  <2>2. up[c] = Message[c]
    <3>1. up[c] # <<>>
      BY <2>1, EmptyText
    <3> QED
      BY <1>1, <3>1
  <2> QED
    BY <2>1, <2>2 DEF AnswersTo
<1>4. got'[c] \o down'[c] = <<>>
  BY <1>1, EmptyText, JoinText
<1>5. \A t \in ToSend(c)' :
        got'[c] = <<>> /\ down'[c] = <<>> /\ (client'[c] \in Over \/ t \in AnswersTo(c)')
  BY <1>1, <1>2, <1>3
<1>6. (got[c] \o down[c] # <<>> => \E t \in AnswersTo(c) : IsPrefix(got[c] \o down[c], t))'
  BY <1>4
<1>7. (Unread(c) => up[c] \in {<<>>, Message[c]} /\ got[c] = <<>> /\ down[c] = <<>>)'
  OBVIOUS
<1> QED
  BY <1>5, <1>6, <1>7 DEF Told

\* The answer is sent.
LEMMA ReplyTold ==
  ASSUME NetTyped, NEW c \in Clients, Told(c), program' = program,
         client'[c] = client[c], got'[c] = got[c], NEW t \in ToSend(c),
         down'[c] = IF client[c] \in Over THEN <<>> ELSE down[c] \o t,
         ~Unread(c)', ToSend(c)' = {}
  PROVE  Told(c)'
<1>1. got[c] = <<>> /\ down[c] = <<>> /\ (client[c] \in Over \/ t \in AnswersTo(c))
  BY DEF Told
<1>2. AnswersTo(c)' = AnswersTo(c) /\ AnswersTo(c) \subseteq Text
  BY AnswersStay, AnswersTyped
<1>3. CASE client[c] \in Over
  <2>1. got'[c] \o down'[c] = <<>>
    BY <1>1, <1>3, EmptyText, JoinText
  <2> QED
    BY <2>1 DEF Told
<1>4. CASE client[c] \notin Over
  <2>1. t \in Text /\ t \in AnswersTo(c)
    BY <1>1, <1>2, <1>4
  <2>2. got'[c] \o down'[c] = t
    BY <1>1, <1>4, <2>1, EmptyText, JoinText
  <2>3. IsPrefix(t, t)
    BY <2>1, EmptyText, PrefixFacts
  <2>4. (got[c] \o down[c] # <<>> => \E a \in AnswersTo(c) : IsPrefix(got[c] \o down[c], a))'
    BY <1>2, <2>1, <2>2, <2>3
  <2> QED
    BY <2>4 DEF Told
<1> QED
  BY <1>3, <1>4

-----------------------------------------------------------------------------
(* The clients *)

LEMMA QuietEcho ==
  ASSUME EchoTyped, UNCHANGED echoVars, \A d \in Clients : Waiting(d)' => Waiting(d)
  PROVE  EchoTyped'
BY DEF EchoTyped, echoVars

LEMMA QuietOneByOne ==
  ASSUME OneByOneTyped, UNCHANGED <<portVars, lineVars>>, \A d \in Clients : Waiting(d)' => Waiting(d)
  PROVE  OneByOneTyped'
BY DEF OneByOneTyped, portVars, lineVars

\* A client of a server that does nothing meanwhile.
LEMMA ClientSide ==
  ASSUME AnswerInv, NEW c \in Clients, UNCHANGED <<program, echoVars, portVars, lineVars>>, NetTyped',
         \A d \in Clients : Waiting(d)' <=> Waiting(d),
         \A d \in Clients : d # c =>
           /\ client'[d] = client[d] /\ up'[d] = up[d] /\ down'[d] = down[d] /\ got'[d] = got[d]
           /\ chunk'[d] = chunk[d] /\ pipe'[d] = pipe[d] /\ caster'[d] = caster[d] /\ cast'[d] = cast[d],
         client[c] \in Over => client'[c] \in Over,
         up'[c] \in {up[c], <<>>, Message[c]},
         got'[c] \o down'[c] \in {got[c] \o down[c], got[c]},
         Relayed(c)'
  PROVE  AnswerInv'
<1>1. NetTyped /\ EchoTyped /\ OneByOneTyped
  BY DEF AnswerInv, Typed
<1>2. EchoTyped' /\ OneByOneTyped'
  BY <1>1, QuietEcho, QuietOneByOne
<1>3. ASSUME NEW d \in Clients PROVE Told(d)'
  <2>1. Unread(d)' => Unread(d)
    BY DEF Unread, echoVars, portVars, lineVars
  <2>2. ToSend(d)' = ToSend(d)
    BY DEF ToSend, echoVars, portVars, lineVars
  <2>3. client[d] \in Over => client'[d] \in Over
    OBVIOUS
  <2>4. up'[d] \in {up[d], <<>>, Message[d]} /\ got'[d] \o down'[d] \in {got[d] \o down[d], got[d]}
    OBVIOUS
  <2> QED
    BY <1>1, <2>1, <2>2, <2>3, <2>4, StayTold DEF AnswerInv
<1>4. ASSUME NEW d \in Clients PROVE Relayed(d)'
  <2>1. CASE d = c
    BY <2>1
  <2>2. CASE d # c
    <3>1. Relayed(d)
      BY DEF AnswerInv
    <3>2. /\ client'[d] = client[d] /\ got'[d] = got[d] /\ chunk'[d] = chunk[d]
          /\ pipe'[d] = pipe[d] /\ caster'[d] = caster[d] /\ cast'[d] = cast[d]
      BY <2>2
    <3>3. program' = program
      OBVIOUS
    <3> QED
      BY <3>1, <3>2, <3>3 DEF Relayed
  <2> QED
    BY <2>1, <2>2
<1> QED
  BY <1>1, <1>2, <1>3, <1>4 DEF AnswerInv, Typed

\* What is known of one client.
LEMMA ClientFacts ==
  ASSUME AnswerInv, NEW c \in Clients
  PROVE  /\ NetTyped /\ Relayed(c) /\ Told(c)
         /\ up[c] \in Text /\ down[c] \in Text /\ got[c] \in Text
         /\ chunk[c] \in Text /\ pipe[c] \in Text /\ cast[c] \in Text
         /\ got[c] \o <<>> = got[c]
BY JoinText DEF AnswerInv, Typed, NetTyped

LEMMA ConnectStep ==
  ASSUME AnswerInv, NEW c \in Clients, OfClient(Connect(c))
  PROVE  AnswerInv'
<1>1. /\ client[c] = "idle" /\ client' = [client EXCEPT ![c] = "send"]
      /\ server' = [server EXCEPT ![c] = "queued"]
      /\ caster' = [caster EXCEPT ![c] = IF program = "lines" THEN "read" ELSE caster[c]]
      /\ UNCHANGED <<program, up, down, got, chunk, pipe, cast, echoVars, portVars, lineVars>>
  BY DEF OfClient, Connect, Step
<1>2. NetTyped /\ Relayed(c) /\ pipe[c] \in Text
  BY ClientFacts
<1>3. server[c] = "none"
  BY <1>1, <1>2 DEF NetTyped
<1>4. NetTyped'
  BY <1>1, <1>2 DEF NetTyped, ClientAt, ServerAt
<1>5. \A d \in Clients : Waiting(d)' <=> Waiting(d)
  BY <1>1, <1>2, <1>3 DEF Waiting, NetTyped
<1>6. client'[c] = "send" /\ caster'[c] = IF program = "lines" THEN "read" ELSE caster[c]
  BY <1>1, <1>2 DEF NetTyped
<1>7. program = "lines" => got[c] = <<>> /\ pipe[c] = <<>> /\ chunk[c] = <<>> /\ pipe[c] \o chunk[c] = got[c]
  BY <1>1, <1>2, EmptyText, JoinText DEF Relayed
<1>8. Relayed(c)'
  <2>1. program' = program /\ got' = got /\ chunk' = chunk /\ pipe' = pipe /\ cast' = cast
    BY <1>1
  <2>2. CASE program = "lines"
    <3>1. caster[c] = "none" /\ cast[c] = <<>> /\ chunk[c] = <<>>
      BY <1>1, <1>2, <2>2 DEF Relayed
    <3> QED
      BY <1>2, <1>6, <1>7, <2>1, <2>2, <3>1 DEF Relayed
  <2>3. CASE program # "lines"
    BY <1>2, <1>6, <2>1, <2>3 DEF Relayed
  <2> QED
    BY <2>2, <2>3
<1> QED
  BY <1>1, <1>2, <1>4, <1>5, <1>8, ClientSide DEF NetTyped, Over

\* A client goes on, or ends, with nothing but its connection changed.
LEMMA GoesOn ==
  ASSUME AnswerInv, NEW c \in Clients, NEW to \in ClientAt \ {"idle", "loop"},
         client' = [client EXCEPT ![c] = to], client[c] \notin Over,
         UNCHANGED <<program, server, got, piping, echoVars, portVars, lineVars>>,
         up' \in [Clients -> Text], down' \in [Clients -> Text],
         \A d \in Clients : d # c => up'[d] = up[d] /\ down'[d] = down[d],
         up'[c] \in {up[c], <<>>, Message[c]}, down'[c] \in {down[c], <<>>},
         to \in {"send", "recv", "write"} => client[c] \in {"send", "recv"}
  PROVE  AnswerInv'
<1>1. NetTyped /\ Relayed(c) /\ got[c] \o <<>> = got[c]
  BY ClientFacts
<1>2. UNCHANGED <<chunk, pipe, caster, cast>>
  BY DEF piping
<1>3. NetTyped'
  BY <1>1, <1>2 DEF NetTyped
<1>4. client'[c] = to /\ \A d \in Clients : d # c => client'[d] = client[d]
  BY <1>1 DEF NetTyped
<1>5. Relayed(c)'
  BY <1>1, <1>2, <1>4 DEF Relayed
<1>6. \A d \in Clients : Waiting(d)' <=> Waiting(d)
  BY DEF Waiting
<1>7. got'[c] \o down'[c] \in {got[c] \o down[c], got[c]}
  BY <1>1
<1> QED
  BY <1>2, <1>3, <1>4, <1>5, <1>6, <1>7, ClientSide

LEMMA SendStep ==
  ASSUME AnswerInv, NEW c \in Clients, OfClient(SendMessage(c))
  PROVE  AnswerInv'
<1> DEFINE to == IF program = "lines" /\ Message[c] = <<>> THEN "wait" ELSE "recv"
<1>1. /\ client[c] = "send" /\ client' = [client EXCEPT ![c] = to]
      /\ up' = [up EXCEPT ![c] = Message[c]]
      /\ UNCHANGED <<program, server, down, got, piping, echoVars, portVars, lineVars>>
  BY DEF OfClient, SendMessage, Step
<1>0. to \in ClientAt \ {"idle", "loop"}
  BY DEF ClientAt
<1> HIDE DEF to
<1>2. NetTyped /\ Message[c] \in Text
  BY ClientFacts, MessageTyped
<1>3. /\ up' \in [Clients -> Text] /\ down' \in [Clients -> Text] /\ up'[c] = Message[c]
      /\ \A d \in Clients : d # c => up'[d] = up[d]
  BY <1>1, <1>2 DEF NetTyped
<1> QED
  BY <1>1, <1>3, <1>0, GoesOn DEF Over

LEMMA LeaveStep ==
  ASSUME AnswerInv, NEW c \in Clients,
         OfClient(RecvEnd(c)) \/ OfClient(Kill(c)) \/ OfClient(WriteKills(c)) \/ OfClient(WaitCaster(c))
  PROVE  AnswerInv'
<1>1. NetTyped
  BY ClientFacts
<1>2. /\ client[c] \notin Over \union {"idle"}
      /\ \E to \in {"wait", "done", "killed"} : client' = [client EXCEPT ![c] = to]
      /\ down' = [down EXCEPT ![c] = <<>>] \/ down' = down
      /\ UNCHANGED <<program, server, up, got, piping, echoVars, portVars, lineVars>>
  <2>1. CASE OfClient(RecvEnd(c))
    BY <2>1 DEF OfClient, RecvEnd, Step, Over
  <2>2. CASE OfClient(Kill(c))
    BY <2>2 DEF OfClient, Kill, Over
  <2>3. CASE OfClient(WriteKills(c))
    BY <2>3 DEF OfClient, WriteKills, Step, Over
  <2>4. CASE OfClient(WaitCaster(c))
    BY <2>4 DEF OfClient, WaitCaster, Step, Over, net
  <2> QED
    BY <2>1, <2>2, <2>3, <2>4
<1>3. PICK to \in {"wait", "done", "killed"} : client' = [client EXCEPT ![c] = to]
  BY <1>2
<1>4. /\ down' \in [Clients -> Text] /\ up' \in [Clients -> Text] /\ down'[c] \in {down[c], <<>>}
      /\ \A d \in Clients : d # c => up'[d] = up[d] /\ down'[d] = down[d]
  BY <1>1, <1>2, EmptyText DEF NetTyped
<1>5. to \in ClientAt \ {"idle", "loop"} /\ to \notin {"send", "recv", "write"}
  BY <1>3 DEF ClientAt, Over
<1> QED
  BY <1>2, <1>3, <1>4, <1>5, GoesOn

LEMMA ReplyStep ==
  ASSUME AnswerInv, NEW c \in Clients, OfClient(RecvReply(c))
  PROVE  AnswerInv'
<1>1. PICK k \in 1..Len(down[c]) :
        /\ got' = [got EXCEPT ![c] = got[c] \o SubSeq(down[c], 1, k)]
        /\ down' = [down EXCEPT ![c] = SubSeq(down[c], k + 1, Len(down[c]))]
        /\ chunk' = [chunk EXCEPT ![c] = IF program = "lines" THEN SubSeq(down[c], 1, k) ELSE chunk[c]]
  BY DEF OfClient, RecvReply
<1>2. PICK to \in {"done", "write", "recv"} :
        /\ client[c] = "recv" /\ client' = [client EXCEPT ![c] = to]
        /\ (program = "lines" => to = "write") /\ (to = "write" => program = "lines")
  BY DEF OfClient, RecvReply, Step
<1>3. UNCHANGED <<program, server, up, pipe, caster, cast, echoVars, portVars, lineVars>>
  BY DEF OfClient, RecvReply
<1>4. /\ NetTyped /\ Relayed(c) /\ down[c] \in Text /\ got[c] \in Text
      /\ pipe[c] \in Text /\ cast[c] \in Text /\ chunk[c] \in Text
  BY ClientFacts
<1>5. PICK m : m = SubSeq(down[c], 1, k)
  OBVIOUS
<1>6. PICK r : r = SubSeq(down[c], k + 1, Len(down[c]))
  OBVIOUS
<1>7. m \in Text /\ r \in Text /\ m \o r = down[c]
  BY <1>4, <1>5, <1>6, CutText
<1>8. got[c] \o m \in Text
  BY <1>4, <1>7, JoinText
<1>9. NetTyped'
  BY <1>1, <1>2, <1>3, <1>4, <1>5, <1>6, <1>7, <1>8 DEF NetTyped, ClientAt, Over
<1>10. /\ got'[c] = got[c] \o m /\ down'[c] = r /\ client'[c] = to
       /\ chunk'[c] = IF program = "lines" THEN m ELSE chunk[c]
       /\ pipe'[c] = pipe[c] /\ cast'[c] = cast[c] /\ caster'[c] = caster[c]
  BY <1>1, <1>2, <1>3, <1>4, <1>5, <1>6 DEF NetTyped
<1>11. got'[c] \o down'[c] = got[c] \o down[c]
  <2>1. (got[c] \o m) \o r = got[c] \o (m \o r)
    BY <1>4, <1>7, JoinAssoc
  <2> QED
    BY <1>7, <1>10, <2>1
<1>12. IsPrefix(cast[c], got[c] \o m)
  BY <1>4, <1>7, PrefixFacts DEF Relayed
<1>13. program = "lines" /\ caster[c] = "read" => pipe[c] \o m = got[c] \o m
  <2>1. program = "lines" /\ caster[c] = "read" => pipe[c] \o chunk[c] = got[c] /\ chunk[c] = <<>>
    BY <1>2, <1>4 DEF Relayed
  <2> QED
    BY <1>4, <2>1, JoinText
<1>14. Relayed(c)'
  BY <1>2, <1>3, <1>4, <1>10, <1>12, <1>13 DEF Relayed
<1>15. \A d \in Clients : d # c =>
         client'[d] = client[d] /\ down'[d] = down[d] /\ got'[d] = got[d] /\ chunk'[d] = chunk[d]
  BY <1>1, <1>2, <1>4 DEF NetTyped
<1>16. \A d \in Clients : Waiting(d)' <=> Waiting(d)
  BY <1>3 DEF Waiting
<1> QED
  BY <1>2, <1>3, <1>9, <1>11, <1>14, <1>15, <1>16, ClientSide DEF Over

\* A step of c's pipe, or one that leaves its connection alone.
LEMMA OffLine ==
  ASSUME AnswerInv, NEW c \in Clients, UNCHANGED <<program, net, got, echoVars, portVars, lineVars>>, NetTyped',
         \A d \in Clients : d # c =>
           /\ client'[d] = client[d]
           /\ chunk'[d] = chunk[d] /\ pipe'[d] = pipe[d] /\ caster'[d] = caster[d] /\ cast'[d] = cast[d],
         client[c] \in Over => client'[c] \in Over,
         Relayed(c)'
  PROVE  AnswerInv'
<1>1. UNCHANGED <<server, up, down>>
  BY DEF net
<1>2. \A d \in Clients : Waiting(d)' <=> Waiting(d)
  BY <1>1 DEF Waiting
<1> QED
  BY <1>1, <1>2, ClientSide

LEMMA WriteStep ==
  ASSUME AnswerInv, NEW c \in Clients, OfClient(WritePipe(c))
  PROVE  AnswerInv'
<1>1. /\ client[c] = "write" /\ client' = [client EXCEPT ![c] = "recv"]
      /\ pipe' = [pipe EXCEPT ![c] = pipe[c] \o chunk[c]] /\ chunk' = [chunk EXCEPT ![c] = <<>>]
      /\ UNCHANGED <<program, net, got, caster, cast, echoVars, portVars, lineVars>>
  BY DEF OfClient, WritePipe, Step
<1>2. NetTyped /\ Relayed(c) /\ pipe[c] \in Text /\ chunk[c] \in Text
  BY ClientFacts
<1>3. pipe[c] \o chunk[c] \in Text /\ (pipe[c] \o chunk[c]) \o <<>> = pipe[c] \o chunk[c]
  BY <1>2, JoinText
<1>4. NetTyped'
  BY <1>1, <1>2, <1>3, EmptyText DEF NetTyped, ClientAt, net
<1>5. client'[c] = "recv" /\ pipe'[c] = pipe[c] \o chunk[c] /\ chunk'[c] = <<>>
  BY <1>1, <1>2 DEF NetTyped
<1>6. /\ pipe'[c] \o chunk'[c] = pipe[c] \o chunk[c]
      /\ pipe[c] = <<>> /\ chunk[c] = <<>> => pipe'[c] = <<>>
  BY <1>2, <1>3, <1>5, JoinText
<1>7. caster[c] = "none" => program # "lines"
  BY <1>1, <1>2 DEF Relayed
<1>8. Relayed(c)'
  BY <1>1, <1>2, <1>5, <1>6, <1>7 DEF Relayed
<1>9. \A d \in Clients : d # c => client'[d] = client[d] /\ chunk'[d] = chunk[d] /\ pipe'[d] = pipe[d]
  BY <1>1, <1>2 DEF NetTyped
<1> QED
  BY <1>1, <1>4, <1>8, <1>9, OffLine DEF Over

LEMMA CasterStep ==
  ASSUME AnswerInv, NEW c \in Clients, OfClient(Caster(c))
  PROVE  AnswerInv'
<1>1. UNCHANGED <<program, client, net, got, chunk, echoVars, portVars, lineVars>>
  BY DEF OfClient, Caster, CasterRead, CasterSend
<1>2. NetTyped /\ Relayed(c) /\ pipe[c] \in Text /\ chunk[c] \in Text /\ got[c] \in Text
  BY ClientFacts
<1>3. CASE CasterRead(c)
  <2>1. /\ caster[c] = "read" /\ caster' = [caster EXCEPT ![c] = "cast"]
        /\ cast' = [cast EXCEPT ![c] = pipe[c]] /\ pipe' = [pipe EXCEPT ![c] = <<>>]
    BY <1>3 DEF CasterRead
  <2>2. NetTyped'
    BY <1>1, <1>2, <2>1, EmptyText DEF NetTyped, net
  <2>3. caster'[c] = "cast" /\ cast'[c] = pipe[c]
    BY <1>2, <2>1 DEF NetTyped
  <2>4. IsPrefix(pipe[c], got[c])
    <3>1. pipe[c] \o chunk[c] = got[c]
      BY <1>2, <2>1 DEF Relayed
    <3>2. IsPrefix(got[c], got[c])
      BY <1>2, PrefixFacts
    <3>3. IsPrefix(pipe[c] \o chunk[c], got[c])
      BY <3>1, <3>2
    <3> QED
      BY <1>2, <3>3, PrefixFacts
  <2>5. Relayed(c)'
    BY <1>1, <1>2, <2>1, <2>3, <2>4 DEF Relayed
  <2>6. \A d \in Clients : d # c => cast'[d] = cast[d] /\ caster'[d] = caster[d] /\ pipe'[d] = pipe[d]
    BY <1>2, <2>1 DEF NetTyped
  <2> QED
    BY <1>1, <2>2, <2>5, <2>6, OffLine
<1>4. CASE CasterSend(c)
  <2>1. caster[c] = "cast" /\ caster' = [caster EXCEPT ![c] = "gone"] /\ UNCHANGED <<pipe, cast>>
    BY <1>4 DEF CasterSend
  <2>2. NetTyped'
    BY <1>1, <1>2, <2>1 DEF NetTyped, net
  <2>3. caster'[c] = "gone" /\ \A d \in Clients : d # c => caster'[d] = caster[d]
    BY <1>2, <2>1 DEF NetTyped
  <2>4. Relayed(c)'
    BY <1>1, <1>2, <2>1, <2>3 DEF Relayed
  <2> QED
    BY <1>1, <2>1, <2>2, <2>3, <2>4, OffLine
<1> QED
  BY <1>3, <1>4 DEF OfClient, Caster

LEMMA RefusedStep ==
  ASSUME AnswerInv, NEW c \in Clients, OfClient(Refused(c))
  PROVE  AnswerInv'
<1>1. /\ client[c] = "idle" /\ client' = [client EXCEPT ![c] = "loop"]
      /\ UNCHANGED <<program, net, got, piping, echoVars, portVars, lineVars>>
  BY DEF OfClient, Refused, Step
<1>2. NetTyped /\ Relayed(c)
  BY ClientFacts
<1>3. UNCHANGED <<chunk, pipe, caster, cast>>
  BY <1>1 DEF piping
<1>4. NetTyped'
  BY <1>1, <1>2, <1>3 DEF NetTyped, ClientAt, net
<1>5. client'[c] = "loop" /\ \A d \in Clients : d # c => client'[d] = client[d]
  BY <1>1, <1>2 DEF NetTyped
<1>6. Relayed(c)'
  BY <1>1, <1>2, <1>3, <1>5 DEF Relayed
<1> QED
  BY <1>1, <1>3, <1>4, <1>5, <1>6, OffLine DEF Over

LEMMA ClientStep ==
  ASSUME AnswerInv, NEW c \in Clients,
         OfClient(Connect(c) \/ Refused(c) \/ Progress(c) \/ Kill(c) \/ Caster(c))
  PROVE  AnswerInv'
<1>1. \/ OfClient(Connect(c)) \/ OfClient(Refused(c)) \/ OfClient(SendMessage(c)) \/ OfClient(RecvReply(c))
      \/ OfClient(RecvEnd(c)) \/ OfClient(WritePipe(c)) \/ OfClient(WriteKills(c)) \/ OfClient(WaitCaster(c))
      \/ OfClient(Kill(c)) \/ OfClient(Caster(c))
  BY DEF OfClient, Progress
<1> QED
  BY <1>1, ConnectStep, RefusedStep, SendStep, ReplyStep, LeaveStep, WriteStep, CasterStep

-----------------------------------------------------------------------------
(* The servers *)

\* A server deals with those in S.
LEMMA ServerSide ==
  ASSUME AnswerInv, UNCHANGED <<program, client, got, piping>>, NetTyped', EchoTyped', OneByOneTyped',
         NEW S,
         \A d \in Clients \ S : up'[d] = up[d] /\ down'[d] = down[d],
         \A d \in Clients \ S : Unread(d)' => Unread(d),
         \A d \in Clients \ S : ToSend(d)' \subseteq ToSend(d),
         \A d \in Clients \intersect S : Told(d)'
  PROVE  AnswerInv'
<1>1. NetTyped
  BY DEF AnswerInv, Typed
<1>2. ASSUME NEW d \in Clients PROVE Told(d)'
  <2>1. CASE d \in S
    BY <2>1
  <2>2. CASE d \notin S
    <3>1. Told(d) /\ (client[d] \in Over => client'[d] \in Over)
      BY DEF AnswerInv
    <3>2. up'[d] \in {up[d], <<>>, Message[d]} /\ got'[d] \o down'[d] \in {got[d] \o down[d], got[d]}
      BY <2>2
    <3>3. (Unread(d)' => Unread(d)) /\ ToSend(d)' \subseteq ToSend(d)
      BY <2>2
    <3> QED
      BY <1>1, <3>1, <3>2, <3>3, StayTold
  <2> QED
    BY <2>1, <2>2
<1>3. ASSUME NEW d \in Clients PROVE Relayed(d)'
  <2>1. Relayed(d)
    BY DEF AnswerInv
  <2>2. /\ program' = program /\ client'[d] = client[d] /\ got'[d] = got[d] /\ chunk'[d] = chunk[d]
        /\ pipe'[d] = pipe[d] /\ caster'[d] = caster[d] /\ cast'[d] = cast[d]
    BY DEF piping
  <2> QED
    BY <2>1, <2>2 DEF Relayed
<1> QED
  BY <1>2, <1>3 DEF AnswerInv, Typed

\* The connections of cs are closed.
LEMMA ShutNet ==
  ASSUME NetTyped, NEW cs, \A c \in Clients \intersect cs : server[c] # "none", Shut(cs),
         UNCHANGED <<program, client, got, piping>>
  PROVE  /\ NetTyped' /\ \A d \in Clients : Waiting(d)' => Waiting(d)
         /\ \A d \in Clients : up'[d] = up[d] /\ down'[d] = down[d]
<1>1. /\ server' = [c \in Clients |-> IF c \notin cs THEN server[c] ELSE IF up[c] = <<>> THEN "fin" ELSE "rst"]
      /\ UNCHANGED <<up, down>>
  BY DEF Shut
<1>2. UNCHANGED <<chunk, pipe, caster, cast>>
  BY DEF piping
<1>3. \A d \in Clients : server'[d] = server[d] \/ (server'[d] \in {"fin", "rst"} /\ server[d] # "none")
  BY <1>1
<1>4. server' \in [Clients -> ServerAt]
  BY <1>1 DEF NetTyped, ServerAt
<1>5. NetTyped'
  BY <1>1, <1>2, <1>3, <1>4 DEF NetTyped
<1>6. \A d \in Clients : Waiting(d)' => Waiting(d)
  BY <1>3 DEF Waiting
<1> QED
  BY <1>1, <1>5, <1>6

\* c is accepted.
LEMMA AcceptNet ==
  ASSUME NetTyped, NEW c \in Clients, server[c] = "queued", server' = [server EXCEPT ![c] = "open"],
         UNCHANGED <<program, client, got, piping, up, down>>
  PROVE  NetTyped' /\ ~Waiting(c)' /\ \A d \in Clients : Waiting(d)' => Waiting(d)
<1>1. UNCHANGED <<chunk, pipe, caster, cast>>
  BY DEF piping
<1>2. server'[c] = "open" /\ \A d \in Clients : d # c => server'[d] = server[d]
  BY DEF NetTyped
<1>3. server' \in [Clients -> ServerAt]
  BY DEF NetTyped, ServerAt
<1>4. NetTyped'
  BY <1>1, <1>2, <1>3 DEF NetTyped
<1> QED
  BY <1>2, <1>4 DEF Waiting

\* A piece of what c said is received.
LEMMA RecvNet ==
  ASSUME NetTyped, NEW c \in Clients, NEW k \in 1..Len(up[c]), RecvOnce(c, SubSeq(up[c], 1, k)),
         UNCHANGED <<program, client, got, piping>>
  PROVE  /\ NetTyped' /\ SubSeq(up[c], 1, k) \in Text
         /\ \A d \in Clients : Waiting(d)' => Waiting(d)
         /\ \A d \in Clients : down'[d] = down[d] /\ (d # c => up'[d] = up[d])
<1>1. PICK msg : msg = SubSeq(up[c], 1, k)
  OBVIOUS
<1>2. up[c] \in Text
  BY DEF NetTyped
<1>3. msg \in Text /\ Len(msg) = k /\ SubSeq(up[c], k + 1, Len(up[c])) \in Text
  BY <1>1, <1>2, CutText
<1>4. up' = [up EXCEPT ![c] = SubSeq(up[c], Len(msg) + 1, Len(up[c]))] /\ UNCHANGED <<server, down>>
  BY <1>1 DEF RecvOnce
<1>5. UNCHANGED <<chunk, pipe, caster, cast>>
  BY DEF piping
<1>6. up' \in [Clients -> Text] /\ \A d \in Clients : d # c => up'[d] = up[d]
  BY <1>3, <1>4 DEF NetTyped
<1>7. NetTyped'
  BY <1>4, <1>5, <1>6 DEF NetTyped
<1> QED
  BY <1>1, <1>3, <1>4, <1>6, <1>7 DEF Waiting

\* A text is sent to c.
LEMMA SendNet ==
  ASSUME NetTyped, NEW c \in Clients, NEW t \in Text, Reply(c, t),
         UNCHANGED <<program, client, got, piping>>
  PROVE  /\ NetTyped'
         /\ \A d \in Clients : Waiting(d)' => Waiting(d)
         /\ down'[c] = IF client[c] \in Over THEN <<>> ELSE down[c] \o t
         /\ \A d \in Clients : up'[d] = up[d] /\ (d # c => down'[d] = down[d])
<1>1. /\ down' = [down EXCEPT ![c] = IF client[c] \in Over THEN <<>> ELSE down[c] \o t]
      /\ UNCHANGED <<server, up>>
  BY DEF Reply
<1>2. UNCHANGED <<chunk, pipe, caster, cast>>
  BY DEF piping
<1>3. down[c] \o t \in Text /\ <<>> \in Text
  BY EmptyText, JoinText DEF NetTyped
<1>4. NetTyped'
  BY <1>1, <1>2, <1>3 DEF NetTyped
<1>5. down'[c] = IF client[c] \in Over THEN <<>> ELSE down[c] \o t
  BY <1>1 DEF NetTyped
<1>6. \A d \in Clients : d # c => down'[d] = down[d]
  BY <1>1 DEF NetTyped
<1> QED
  BY <1>1, <1>4, <1>5, <1>6 DEF Waiting

LEMMA ServerQuiet ==
  ASSUME AnswerInv, UNCHANGED <<program, client, got, piping>>, NetTyped', EchoTyped', OneByOneTyped',
         \A d \in Clients : up'[d] = up[d] /\ down'[d] = down[d],
         \A d \in Clients : (Unread(d)' => Unread(d)) /\ ToSend(d)' \subseteq ToSend(d)
  PROVE  AnswerInv'
<1>1. PICK S : S = {}
  OBVIOUS
<1>2. \A d \in Clients \ S : up'[d] = up[d] /\ down'[d] = down[d]
  OBVIOUS
<1>3. \A d \in Clients \ S : Unread(d)' => Unread(d)
  OBVIOUS
<1>4. \A d \in Clients \ S : ToSend(d)' \subseteq ToSend(d)
  OBVIOUS
<1>5. \A d \in Clients \intersect S : Told(d)'
  BY <1>1
<1> QED
  BY <1>2, <1>3, <1>4, <1>5, ServerSide

LEMMA ServerOne ==
  ASSUME AnswerInv, UNCHANGED <<program, client, got, piping>>, NetTyped', EchoTyped', OneByOneTyped',
         NEW c \in Clients, Told(c)',
         \A d \in Clients \ {c} : up'[d] = up[d] /\ down'[d] = down[d],
         \A d \in Clients \ {c} : (Unread(d)' => Unread(d)) /\ ToSend(d)' \subseteq ToSend(d)
  PROVE  AnswerInv'
<1>1. PICK S : S = {c}
  OBVIOUS
<1>2. \A d \in Clients \ S : up'[d] = up[d] /\ down'[d] = down[d]
  BY <1>1
<1>3. \A d \in Clients \ S : Unread(d)' => Unread(d)
  BY <1>1
<1>4. \A d \in Clients \ S : ToSend(d)' \subseteq ToSend(d)
  BY <1>1
<1>5. \A d \in Clients \intersect S : Told(d)'
  BY <1>1
<1> QED
  BY <1>2, <1>3, <1>4, <1>5, ServerSide

-----------------------------------------------------------------------------
(* esameSNP08 *)

\* The server goes on to the next listener, or to select().
LEMMA PortWalk ==
  ASSUME AnswerInv, program = "ports", PortNext, UNCHANGED <<program, echoVars, lineVars>>,
         Select \/ Skip \/ EndScan \/ PortClose
  PROVE  AnswerInv'
<1>1. NetTyped /\ EchoTyped /\ OneByOneTyped
  BY DEF AnswerInv, Typed
<1>2. /\ thread' \in {"select", "scan"} /\ UNCHANGED <<client, got, piping, conn, text>>
      /\ thread = "close" \/ UNCHANGED net
      /\ thread = "close" => Shut({conn}) /\ conn \in Clients /\ ~Waiting(conn)
  BY <1>1 DEF Select, Skip, EndScan, PortClose, Thread, OneByOneTyped, Working
<1>3. /\ NetTyped' /\ \A d \in Clients : Waiting(d)' => Waiting(d)
      /\ \A d \in Clients : up'[d] = up[d] /\ down'[d] = down[d]
  <2>1. CASE thread = "close"
    <3>1. Shut({conn}) /\ \A c \in Clients \intersect {conn} : server[c] # "none"
      BY <1>2, <2>1 DEF Waiting
    <3> QED
      BY <1>1, <1>2, <3>1, ShutNet
  <2>2. CASE UNCHANGED net
    BY <1>1, <1>2, <2>2 DEF net, piping, NetTyped, Waiting
  <2> QED
    BY <1>2, <2>1, <2>2
<1>4. EchoTyped'
  BY <1>1, <1>3, QuietEcho
<1>5. OneByOneTyped'
  BY <1>1, <1>2, <1>3 DEF OneByOneTyped, lineVars, Working
<1>6. ASSUME NEW d \in Clients PROVE (Unread(d)' => Unread(d)) /\ ToSend(d)' \subseteq ToSend(d)
  BY <1>2, <1>3 DEF Unread, ToSend
<1> QED
  BY <1>2, <1>3, <1>4, <1>5, <1>6, ServerQuiet

LEMMA PortAccepts ==
  ASSUME AnswerInv, program = "ports", NEW c \in Clients, PortAccept(c), UNCHANGED <<program, echoVars, lineVars>>
  PROVE  AnswerInv'
<1>1. NetTyped /\ EchoTyped /\ OneByOneTyped
  BY DEF AnswerInv, Typed
<1>2. /\ thread' = "recv" /\ conn' = c /\ server[c] = "queued" /\ server' = [server EXCEPT ![c] = "open"]
      /\ UNCHANGED <<client, got, piping, up, down, text>>
  BY DEF PortAccept, Thread, Queued
<1>3. NetTyped' /\ ~Waiting(c)' /\ \A d \in Clients : Waiting(d)' => Waiting(d)
  BY <1>1, <1>2, AcceptNet
<1>4. EchoTyped'
  BY <1>1, <1>3, QuietEcho
<1>5. OneByOneTyped'
  BY <1>1, <1>2, <1>3 DEF OneByOneTyped, lineVars, Working
<1>6. ASSUME NEW d \in Clients PROVE (Unread(d)' => Unread(d)) /\ ToSend(d)' \subseteq ToSend(d)
  <2>1. Waiting(c)
    BY <1>2 DEF Waiting
  <2> QED
    BY <1>2, <1>3, <2>1 DEF Unread, ToSend
<1> QED
  BY <1>2, <1>3, <1>4, <1>5, <1>6, ServerQuiet

LEMMA PortRecvs ==
  ASSUME AnswerInv, program = "ports", PortRecv, UNCHANGED <<program, echoVars, lineVars>>
  PROVE  AnswerInv'
<1>1. NetTyped /\ EchoTyped /\ OneByOneTyped
  BY DEF AnswerInv, Typed
<1>2. thread = "recv" /\ thread' = "send" /\ conn' = conn /\ UNCHANGED <<client, got, piping>>
  BY DEF PortRecv, Thread
<1>3. PICK c \in Clients : c = conn /\ ~Waiting(c)
  BY <1>1, <1>2 DEF OneByOneTyped, Working
<1>4. \/ \E k \in 1..Len(up[c]) : text' = SubSeq(up[c], 1, k) /\ RecvOnce(c, SubSeq(up[c], 1, k))
      \/ text' = <<>> /\ RecvNothing(c)
  BY <1>3 DEF PortRecv
<1>5. /\ NetTyped' /\ text' \in Text /\ \A d \in Clients : Waiting(d)' => Waiting(d)
      /\ \A d \in Clients : down'[d] = down[d] /\ (d # c => up'[d] = up[d])
  <2>1. ASSUME NEW k \in 1..Len(up[c]), text' = SubSeq(up[c], 1, k), RecvOnce(c, SubSeq(up[c], 1, k))
        PROVE  <1>5
    BY <1>1, <1>2, <1>3, <2>1, RecvNet
  <2>2. ASSUME text' = <<>>, RecvNothing(c) PROVE <1>5
    <3>1. UNCHANGED net
      BY <2>2 DEF RecvNothing
    <3> QED
      BY <1>1, <1>2, <2>2, <3>1, EmptyText DEF net, piping, NetTyped, Waiting
  <2> QED
    BY <1>4, <2>1, <2>2
<1>6. EchoTyped'
  BY <1>1, <1>5, QuietEcho
<1>7. OneByOneTyped'
  BY <1>1, <1>2, <1>3, <1>5 DEF OneByOneTyped, lineVars, Working
<1>8. ASSUME NEW d \in Clients \ {c} PROVE (Unread(d)' => Unread(d)) /\ ToSend(d)' \subseteq ToSend(d)
  BY <1>2, <1>3, <1>5 DEF Unread, ToSend
<1>9. Told(c)'
  <2>1. Unread(c) /\ ~Unread(c)'
    BY <1>2, <1>3, <1>5 DEF Unread
  <2>2. ToSend(c)' = {text'}
    BY <1>2, <1>3 DEF ToSend
  <2>3. client[c] \in Over \/ \E k \in 1..Len(up[c]) : up[c] = Message[c] => text' \in Answers(c, k)
    BY <1>4 DEF Answers, RecvNothing
  <2>4. \A t \in ToSend(c)' :
          client'[c] \in Over \/ \E k \in 1..Len(up[c]) : up[c] = Message[c] => t \in Answers(c, k)
    BY <1>2, <2>2, <2>3
  <2>5. Told(c) /\ got'[c] = got[c] /\ down'[c] = down[c]
    BY <1>2, <1>3, <1>5 DEF AnswerInv
  <2> QED
    BY <1>1, <1>3, <2>1, <2>4, <2>5, RecvTold
<1>10. \A d \in Clients \ {c} : up'[d] = up[d] /\ down'[d] = down[d]
  BY <1>5
<1> QED
  BY <1>2, <1>5, <1>6, <1>7, <1>8, <1>9, <1>10, ServerOne

LEMMA PortSends ==
  ASSUME AnswerInv, program = "ports", PortSend, UNCHANGED <<program, echoVars, lineVars>>
  PROVE  AnswerInv'
<1>1. NetTyped /\ EchoTyped /\ OneByOneTyped
  BY DEF AnswerInv, Typed
<1>2. /\ thread = "send" /\ thread' = "close" /\ conn' = conn /\ text' = text
      /\ UNCHANGED <<client, got, piping>> /\ Reply(conn, text)
  BY DEF PortSend, Thread
<1>3. PICK c \in Clients : c = conn /\ ~Waiting(c) /\ text \in Text
  BY <1>1, <1>2 DEF OneByOneTyped, Working
<1>4. /\ NetTyped' /\ \A d \in Clients : Waiting(d)' => Waiting(d)
      /\ down'[c] = IF client[c] \in Over THEN <<>> ELSE down[c] \o text
      /\ \A d \in Clients : up'[d] = up[d] /\ (d # c => down'[d] = down[d])
  BY <1>1, <1>2, <1>3, SendNet
<1>5. EchoTyped'
  BY <1>1, <1>4, QuietEcho
<1>6. OneByOneTyped'
  BY <1>1, <1>2, <1>3, <1>4 DEF OneByOneTyped, lineVars, Working
<1>7. ASSUME NEW d \in Clients \ {c} PROVE (Unread(d)' => Unread(d)) /\ ToSend(d)' \subseteq ToSend(d)
  BY <1>2, <1>3, <1>4 DEF Unread, ToSend
<1>8. Told(c)'
  <2>1. text \in ToSend(c) /\ ToSend(c)' = {} /\ ~Unread(c)'
    BY <1>2, <1>3, <1>4 DEF ToSend, Unread
  <2>2. Told(c) /\ got'[c] = got[c] /\ client'[c] = client[c]
    BY <1>2, <1>3 DEF AnswerInv
  <2> QED
    BY <1>1, <1>3, <1>4, <2>1, <2>2, ReplyTold
<1>9. \A d \in Clients \ {c} : up'[d] = up[d] /\ down'[d] = down[d]
  BY <1>4
<1> QED
  BY <1>2, <1>4, <1>5, <1>6, <1>7, <1>8, <1>9, ServerOne

LEMMA PortStep ==
  ASSUME AnswerInv, program = "ports", PortNext, UNCHANGED <<program, echoVars, lineVars>>
  PROVE  AnswerInv'
BY PortWalk, PortAccepts, PortRecvs, PortSends DEF PortNext

-----------------------------------------------------------------------------
(* esameSNP09 *)

LEMMA LineAccepts ==
  ASSUME AnswerInv, program = "lines", NEW c \in Clients, LineAccept(c), UNCHANGED <<program, echoVars, portVars>>
  PROVE  AnswerInv'
<1>1. NetTyped /\ EchoTyped /\ OneByOneTyped
  BY DEF AnswerInv, Typed
<1>2. /\ serving' = "recv" /\ fd' = c /\ server[c] = "queued" /\ server' = [server EXCEPT ![c] = "open"]
      /\ UNCHANGED <<client, got, piping, up, down, sendbuff>>
  BY DEF LineAccept, Serve
<1>3. NetTyped' /\ ~Waiting(c)' /\ \A d \in Clients : Waiting(d)' => Waiting(d)
  BY <1>1, <1>2, AcceptNet
<1>4. EchoTyped'
  BY <1>1, <1>3, QuietEcho
<1>5. OneByOneTyped'
  BY <1>1, <1>2, <1>3 DEF OneByOneTyped, portVars, Working
<1>6. ASSUME NEW d \in Clients PROVE (Unread(d)' => Unread(d)) /\ ToSend(d)' \subseteq ToSend(d)
  <2>1. Waiting(c)
    BY <1>2 DEF Waiting
  <2> QED
    BY <1>2, <1>3, <2>1 DEF Unread, ToSend
<1> QED
  BY <1>2, <1>3, <1>4, <1>5, <1>6, ServerQuiet

LEMMA LineRecvs ==
  ASSUME AnswerInv, program = "lines", LineRecv \/ LineNothing, UNCHANGED <<program, echoVars, portVars>>
  PROVE  AnswerInv'
<1>1. NetTyped /\ EchoTyped /\ OneByOneTyped
  BY DEF AnswerInv, Typed
<1>2. /\ serving = "recv" /\ serving' \in {"send", "close"} /\ fd' = fd /\ UNCHANGED <<client, got, piping>>
  BY DEF LineRecv, LineNothing, Serve
<1>3. PICK c \in Clients : c = fd /\ ~Waiting(c)
  BY <1>1, <1>2 DEF OneByOneTyped, Working
<1>4. \/ \E k \in 1..Len(up[c]) :
           /\ sendbuff' = Line(Atoi(SubSeq(up[c], 1, k))) /\ RecvOnce(c, SubSeq(up[c], 1, k))
      \/ sendbuff' = sendbuff /\ serving' = "close" /\ RecvNothing(c)
  BY <1>3 DEF LineRecv, LineNothing, Serve
<1>5. /\ NetTyped' /\ sendbuff' \in Text /\ \A d \in Clients : Waiting(d)' => Waiting(d)
      /\ \A d \in Clients : down'[d] = down[d] /\ (d # c => up'[d] = up[d])
  <2>1. ASSUME NEW k \in 1..Len(up[c]), sendbuff' = Line(Atoi(SubSeq(up[c], 1, k))),
               RecvOnce(c, SubSeq(up[c], 1, k))
        PROVE  <1>5
    BY <1>1, <1>2, <1>3, <2>1, RecvNet, LineTyped
  <2>2. ASSUME sendbuff' = sendbuff, RecvNothing(c) PROVE <1>5
    <3>1. UNCHANGED net /\ sendbuff \in Text
      BY <1>1, <2>2 DEF RecvNothing, OneByOneTyped
    <3> QED
      BY <1>1, <1>2, <2>2, <3>1 DEF net, piping, NetTyped, Waiting
  <2> QED
    BY <1>4, <2>1, <2>2
<1>6. EchoTyped'
  BY <1>1, <1>5, QuietEcho
<1>7. OneByOneTyped'
  BY <1>1, <1>2, <1>3, <1>5 DEF OneByOneTyped, portVars, Working
<1>8. ASSUME NEW d \in Clients \ {c} PROVE (Unread(d)' => Unread(d)) /\ ToSend(d)' \subseteq ToSend(d)
  BY <1>2, <1>3, <1>5 DEF Unread, ToSend
<1>9. Told(c)'
  <2>1. Unread(c) /\ ~Unread(c)'
    BY <1>2, <1>3, <1>5 DEF Unread
  <2>2. \A t \in ToSend(c)' : t = sendbuff' /\ serving' = "send"
    BY <1>2, <1>3 DEF ToSend
  <2>3. \/ client[c] \in Over
        \/ \E k \in 1..Len(up[c]) : up[c] = Message[c] => sendbuff' \in Answers(c, k)
    BY <1>4 DEF Answers, RecvNothing
  <2>4. \A t \in ToSend(c)' :
          client'[c] \in Over \/ \E k \in 1..Len(up[c]) : up[c] = Message[c] => t \in Answers(c, k)
    BY <1>2, <2>2, <2>3
  <2>5. Told(c) /\ got'[c] = got[c] /\ down'[c] = down[c]
    BY <1>2, <1>3, <1>5 DEF AnswerInv
  <2> QED
    BY <1>1, <1>3, <2>1, <2>4, <2>5, RecvTold
<1>10. \A d \in Clients \ {c} : up'[d] = up[d] /\ down'[d] = down[d]
  BY <1>5
<1> QED
  BY <1>2, <1>5, <1>6, <1>7, <1>8, <1>9, <1>10, ServerOne

LEMMA LineSends ==
  ASSUME AnswerInv, program = "lines", LineSend, UNCHANGED <<program, echoVars, portVars>>
  PROVE  AnswerInv'
<1>1. NetTyped /\ EchoTyped /\ OneByOneTyped
  BY DEF AnswerInv, Typed
<1>2. /\ serving = "send" /\ serving' = "close" /\ fd' = fd /\ sendbuff' = sendbuff
      /\ UNCHANGED <<client, got, piping>> /\ Reply(fd, sendbuff)
  BY DEF LineSend, Serve
<1>3. PICK c \in Clients : c = fd /\ ~Waiting(c) /\ sendbuff \in Text
  BY <1>1, <1>2 DEF OneByOneTyped, Working
<1>4. /\ NetTyped' /\ \A d \in Clients : Waiting(d)' => Waiting(d)
      /\ down'[c] = IF client[c] \in Over THEN <<>> ELSE down[c] \o sendbuff
      /\ \A d \in Clients : up'[d] = up[d] /\ (d # c => down'[d] = down[d])
  BY <1>1, <1>2, <1>3, SendNet
<1>5. EchoTyped'
  BY <1>1, <1>4, QuietEcho
<1>6. OneByOneTyped'
  BY <1>1, <1>2, <1>3, <1>4 DEF OneByOneTyped, portVars, Working
<1>7. ASSUME NEW d \in Clients \ {c} PROVE (Unread(d)' => Unread(d)) /\ ToSend(d)' \subseteq ToSend(d)
  BY <1>2, <1>3, <1>4 DEF Unread, ToSend
<1>8. Told(c)'
  <2>1. sendbuff \in ToSend(c) /\ ToSend(c)' = {} /\ ~Unread(c)'
    BY <1>2, <1>3, <1>4 DEF ToSend, Unread
  <2>2. Told(c) /\ got'[c] = got[c] /\ client'[c] = client[c]
    BY <1>2, <1>3 DEF AnswerInv
  <2> QED
    BY <1>1, <1>3, <1>4, <2>1, <2>2, ReplyTold
<1>9. \A d \in Clients \ {c} : up'[d] = up[d] /\ down'[d] = down[d]
  BY <1>4
<1> QED
  BY <1>2, <1>4, <1>5, <1>6, <1>7, <1>8, <1>9, ServerOne

LEMMA LineCloses ==
  ASSUME AnswerInv, program = "lines", LineClose, UNCHANGED <<program, echoVars, portVars>>
  PROVE  AnswerInv'
<1>1. NetTyped /\ EchoTyped /\ OneByOneTyped
  BY DEF AnswerInv, Typed
<1>2. /\ serving = "close" /\ serving' = "accept" /\ UNCHANGED <<client, got, piping, fd, sendbuff>> /\ Shut({fd})
  BY DEF LineClose, Serve
<1>3. \A c \in Clients \intersect {fd} : server[c] # "none"
  BY <1>1, <1>2 DEF OneByOneTyped, Working, Waiting
<1>4. /\ NetTyped' /\ \A d \in Clients : Waiting(d)' => Waiting(d)
      /\ \A d \in Clients : up'[d] = up[d] /\ down'[d] = down[d]
  BY <1>1, <1>2, <1>3, ShutNet
<1>5. EchoTyped'
  BY <1>1, <1>4, QuietEcho
<1>6. OneByOneTyped'
  BY <1>1, <1>2, <1>4 DEF OneByOneTyped, portVars, Working
<1>7. ASSUME NEW d \in Clients PROVE (Unread(d)' => Unread(d)) /\ ToSend(d)' \subseteq ToSend(d)
  BY <1>2, <1>4 DEF Unread, ToSend
<1> QED
  BY <1>2, <1>4, <1>5, <1>6, <1>7, ServerQuiet

LEMMA LineStep ==
  ASSUME AnswerInv, program = "lines", LineNext, UNCHANGED <<program, echoVars, portVars>>
  PROVE  AnswerInv'
BY LineAccepts, LineRecvs, LineSends, LineCloses DEF LineNext

-----------------------------------------------------------------------------
(* gtramonte953.esameSNP44 *)

Echoes == program \in {"fork", "threads"}

LEMMA EchoQuiet ==
  ASSUME AnswerInv, Echoes, UNCHANGED <<program, client, got, piping, portVars, lineVars>>, NetTyped',
         \A d \in Clients : Waiting(d)' => Waiting(d), EchoTyped',
         \A d \in Clients : up'[d] = up[d] /\ down'[d] = down[d],
         \A d \in Clients : worker'[d] \in {"none", "recv"} => worker[d] \in {"none", "recv"},
         \A d \in Clients : worker'[d] = "send" => worker[d] = "send" /\ buf'[d] = buf[d]
  PROVE  AnswerInv'
<1>1. OneByOneTyped'
  BY QuietOneByOne DEF AnswerInv, Typed
<1>2. ASSUME NEW d \in Clients PROVE Unread(d)' => Unread(d)
  BY DEF Unread, Echoes
<1>3. ASSUME NEW d \in Clients PROVE ToSend(d)' \subseteq ToSend(d)
  BY DEF ToSend, Echoes
<1> QED
  BY <1>1, <1>2, <1>3, ServerQuiet

LEMMA EchoAccepts ==
  ASSUME AnswerInv, Echoes, NEW c \in Clients, EchoAccept(c), UNCHANGED <<program, portVars, lineVars>>
  PROVE  AnswerInv'
<1>1. NetTyped /\ EchoTyped
  BY DEF AnswerInv, Typed
<1>2. /\ main' = "start" /\ newclient' = c /\ server[c] = "queued" /\ server' = [server EXCEPT ![c] = "open"]
      /\ held' = [held EXCEPT ![c] = {Main}]
      /\ UNCHANGED <<client, got, piping, up, down, worker, sock, buf>>
  BY DEF EchoAccept
<1>3. NetTyped' /\ ~Waiting(c)' /\ \A d \in Clients : Waiting(d)' => Waiting(d)
  BY <1>1, <1>2, AcceptNet
<1>4. worker[c] = "none"
  BY <1>1, <1>2 DEF EchoTyped, Waiting
<1>5. held' \in [Clients -> SUBSET (Clients \union {Main})] /\ \A d \in Clients : d # c => held'[d] = held[d]
  BY <1>1, <1>2 DEF EchoTyped
<1>6. \A d \in Clients : Waiting(d)' => worker'[d] = "none" /\ held'[d] = {}
  BY <1>1, <1>2, <1>3, <1>5 DEF EchoTyped
<1>7. EchoTyped'
  BY <1>1, <1>2, <1>3, <1>4, <1>5, <1>6 DEF EchoTyped
<1> QED
  BY <1>2, <1>3, <1>7, EchoQuiet

\* main hands the connection over, or finds that it cannot.
LEMMA EchoStarts ==
  ASSUME AnswerInv, Echoes, Fork \/ Create \/ CreateFails, UNCHANGED <<program, portVars, lineVars>>
  PROVE  AnswerInv'
<1>1. NetTyped /\ EchoTyped
  BY DEF AnswerInv, Typed
<1>2. /\ main = "start" /\ UNCHANGED <<client, got, piping, net, newclient, buf>>
      /\ \/ main' = "close" /\ program = "fork"
         \/ main' = "accept"
  BY DEF Fork, Create, CreateFails, Start
<1>3. /\ worker' = [worker EXCEPT ![newclient] = "recv"] /\ sock' = [sock EXCEPT ![newclient] = newclient]
      \/ UNCHANGED <<worker, sock>>
  BY DEF Fork, Create, CreateFails, Start
<1>4. held' = [c \in Clients |-> IF Main \in held[c] THEN held[c] \union {newclient} ELSE held[c]] \/ held' = held
  BY DEF Fork, Create, CreateFails
<1>5. /\ NetTyped' /\ \A d \in Clients : Waiting(d)' <=> Waiting(d)
      /\ \A d \in Clients : up'[d] = up[d] /\ down'[d] = down[d]
  BY <1>1, <1>2 DEF NetTyped, net, piping, Waiting
<1>6. newclient \in Clients /\ ~Waiting(newclient) /\ worker[newclient] = "none"
  BY <1>1, <1>2 DEF EchoTyped
<1>7. /\ worker' \in [Clients -> Working \union {"none", "ended"}] /\ sock' \in [Clients -> Clients \union {Nobody}]
      /\ \A w \in Clients : w # newclient => worker'[w] = worker[w] /\ sock'[w] = sock[w]
      /\ worker'[newclient] \in {"none", "recv"}
      /\ worker'[newclient] = "recv" => sock'[newclient] = newclient
  BY <1>1, <1>3, <1>6 DEF EchoTyped, Working
<1>8. /\ held' \in [Clients -> SUBSET (Clients \union {Main})]
      /\ \A d \in Clients : held[d] = {} => held'[d] = {}
  BY <1>1, <1>4, <1>6 DEF EchoTyped
<1>9. \A w \in Clients : worker'[w] # "none" => sock'[w] = w
  BY <1>1, <1>7 DEF EchoTyped
<1>10. \A d \in Clients : Waiting(d)' => worker'[d] = "none" /\ held'[d] = {}
  BY <1>1, <1>5, <1>6, <1>7, <1>8 DEF EchoTyped
<1>11. EchoTyped'
  BY <1>1, <1>2, <1>5, <1>6, <1>7, <1>8, <1>9, <1>10 DEF EchoTyped
<1> QED
  BY <1>2, <1>5, <1>6, <1>7, <1>11, EchoQuiet

\* Descriptors of main or of a worker are closed.
LEMMA EchoShuts ==
  ASSUME AnswerInv, Echoes, UNCHANGED <<program, client, got, piping, portVars, lineVars, newclient, sock, buf>>,
         NEW cs, \A c \in Clients \intersect cs : server[c] = "queued" \/ held[c] # {}, Shut(cs),
         held' \in [Clients -> SUBSET (Clients \union {Main})], \A c \in Clients : held'[c] \subseteq held[c],
         \/ worker' = worker /\ main' \in {"accept", "exit"}
         \/ main' = main /\ \E w \in Clients : worker[w] = "close" /\ worker' = [worker EXCEPT ![w] = "ended"]
  PROVE  AnswerInv'
<1>1. NetTyped /\ EchoTyped
  BY DEF AnswerInv, Typed
<1>2. \A c \in Clients \intersect cs : server[c] # "none"
  BY <1>1 DEF EchoTyped, Waiting
<1>3. /\ NetTyped' /\ \A d \in Clients : Waiting(d)' => Waiting(d)
      /\ \A d \in Clients : up'[d] = up[d] /\ down'[d] = down[d]
  BY <1>1, <1>2, ShutNet
<1>4. /\ worker' \in [Clients -> Working \union {"none", "ended"}]
      /\ \A d \in Clients : worker'[d] = worker[d] \/ (worker[d] = "close" /\ worker'[d] = "ended")
  BY <1>1 DEF EchoTyped, Working
<1>5. \A d \in Clients : Waiting(d)' => worker'[d] = "none" /\ held'[d] = {}
  <2> SUFFICES ASSUME NEW d \in Clients, Waiting(d)' PROVE worker'[d] = "none" /\ held'[d] = {}
    OBVIOUS
  <2>1. worker[d] = "none" /\ held[d] = {}
    BY <1>1, <1>3 DEF EchoTyped
  <2>2. held'[d] \subseteq held[d]
    OBVIOUS
  <2> QED
    BY <1>4, <2>1, <2>2
<1>6. main' \in {"start", "close"} => main' = main
  OBVIOUS
<1>7. (main \in {"start", "close"} => newclient \in Clients /\ ~Waiting(newclient))'
  <2>1. PICK n : n = newclient
    OBVIOUS
  <2>2. main' \in {"start", "close"} => n \in Clients /\ ~Waiting(n)
    BY <1>1, <1>6, <2>1 DEF EchoTyped
  <2> QED
    BY <1>3, <2>1, <2>2
<1>8. EchoTyped'
  BY <1>1, <1>3, <1>4, <1>5, <1>6, <1>7 DEF EchoTyped
<1> QED
  BY <1>3, <1>4, <1>8, EchoQuiet

LEMMA EchoCloses ==
  ASSUME AnswerInv, Echoes, ForkFails \/ MainCloses \/ \E w \in Clients : WorkerClose(w),
         UNCHANGED <<program, portVars, lineVars>>
  PROVE  AnswerInv'
<1>1. EchoTyped
  BY DEF AnswerInv, Typed
<1>2. CASE ForkFails
  <2>1. /\ main' = "exit" /\ held' = [c \in Clients |-> held[c] \ {Main}]
        /\ Shut({c \in Clients : server[c] = "queued"} \union LastHeld(Main))
        /\ UNCHANGED <<client, got, piping, newclient, worker, sock, buf>>
    BY <1>2 DEF ForkFails
  <2>2. PICK cs : cs = {c \in Clients : server[c] = "queued"} \union LastHeld(Main)
    OBVIOUS
  <2>3. \A c \in Clients \intersect cs : server[c] = "queued" \/ held[c] # {}
    BY <2>2 DEF LastHeld
  <2>4. /\ held' \in [Clients -> SUBSET (Clients \union {Main})] /\ \A c \in Clients : held'[c] \subseteq held[c]
    BY <1>1, <2>1 DEF EchoTyped
  <2> QED
    BY <2>1, <2>2, <2>3, <2>4, EchoShuts
<1>3. CASE MainCloses
  <2>1. /\ main = "close" /\ main' = "accept" /\ held' = [held EXCEPT ![newclient] = held[newclient] \ {Main}]
        /\ Shut({newclient} \intersect LastHeld(Main))
        /\ UNCHANGED <<client, got, piping, newclient, worker, sock, buf>>
    BY <1>3 DEF MainCloses
  <2>2. PICK cs : cs = {newclient} \intersect LastHeld(Main)
    OBVIOUS
  <2>3. \A c \in Clients \intersect cs : held[c] # {}
    BY <2>2 DEF LastHeld
  <2>4. /\ held' \in [Clients -> SUBSET (Clients \union {Main})] /\ \A c \in Clients : held'[c] \subseteq held[c]
    BY <1>1, <2>1 DEF EchoTyped
  <2> QED
    BY <2>1, <2>2, <2>3, <2>4, EchoShuts
<1>4. ASSUME NEW w \in Clients, WorkerClose(w) PROVE AnswerInv'
  <2>1. PICK p : p = IF program = "fork" THEN w ELSE Main
    OBVIOUS
  <2>2. PICK cs : cs = IF program = "fork" THEN {c \in Clients : w \in held[c]} ELSE {Sock(w)}
    OBVIOUS
  <2>3. /\ worker[w] = "close" /\ worker' = [worker EXCEPT ![w] = "ended"]
        /\ held' = [c \in Clients |-> IF c \in cs THEN held[c] \ {p} ELSE held[c]]
        /\ Shut(cs \intersect LastHeld(p))
        /\ UNCHANGED <<client, got, piping, main, newclient, sock, buf>>
    BY <1>4, <2>1, <2>2 DEF WorkerClose, Work
  <2>4. PICK last : last = cs \intersect LastHeld(p)
    OBVIOUS
  <2>5. \A c \in Clients \intersect last : held[c] # {}
    BY <2>4 DEF LastHeld
  <2>6. /\ held' \in [Clients -> SUBSET (Clients \union {Main})] /\ \A c \in Clients : held'[c] \subseteq held[c]
    BY <1>1, <2>3 DEF EchoTyped
  <2> QED
    BY <2>3, <2>4, <2>5, <2>6, EchoShuts
<1> QED
  BY <1>2, <1>3, <1>4

\* A worker that goes on while main and the other workers do nothing.
LEMMA WorkerTyped ==
  ASSUME EchoTyped, NEW w \in Clients, worker[w] \in Working,
         NEW to \in Working \union {"ended"}, worker' = [worker EXCEPT ![w] = to],
         NEW t \in Text, buf' = [buf EXCEPT ![w] = t],
         UNCHANGED <<main, newclient, sock, held>>, \A d \in Clients : Waiting(d)' => Waiting(d)
  PROVE  EchoTyped' /\ worker'[w] = to /\ buf'[w] = t
         /\ \A d \in Clients \ {w} : worker'[d] = worker[d] /\ buf'[d] = buf[d]
<1>1. /\ worker' \in [Clients -> Working \union {"none", "ended"}] /\ buf' \in [Clients -> Text]
      /\ worker'[w] = to /\ buf'[w] = t
      /\ \A d \in Clients : d # w => worker'[d] = worker[d] /\ buf'[d] = buf[d]
  BY DEF EchoTyped, Working
<1>2. worker[w] # "none"
  BY DEF Working
<1>3. main = "start" => newclient # w
  BY <1>2 DEF EchoTyped
<1>4. ~Waiting(w)
  BY <1>2 DEF EchoTyped
<1>5. \A d \in Clients : Waiting(d)' => worker'[d] = "none" /\ held'[d] = {}
  BY <1>1, <1>4 DEF EchoTyped
<1>6. \A d \in Clients : worker'[d] # "none" => sock'[d] = d
  BY <1>1, <1>2 DEF EchoTyped
<1>7. (main \in {"start", "close"} => newclient \in Clients /\ ~Waiting(newclient))'
  <2>1. PICK n : n = newclient
    OBVIOUS
  <2>2. main' \in {"start", "close"} => n \in Clients /\ ~Waiting(n)
    BY <2>1 DEF EchoTyped
  <2> QED
    BY <2>1, <2>2
<1>8. main' = "start" => worker'[newclient'] = "none"
  BY <1>1, <1>3 DEF EchoTyped
<1>9. EchoTyped'
  BY <1>1, <1>5, <1>6, <1>7, <1>8 DEF EchoTyped
<1> QED
  BY <1>1, <1>9

LEMMA WorkerRecvs ==
  ASSUME AnswerInv, Echoes, NEW w \in Clients, WorkerRecv(w) \/ WorkerNothing(w),
         UNCHANGED <<program, portVars, lineVars>>
  PROVE  AnswerInv'
<1>1. NetTyped /\ EchoTyped
  BY DEF AnswerInv, Typed
<1>2. /\ worker[w] = "recv" /\ UNCHANGED <<client, got, piping, main, newclient, sock, held>>
  BY DEF WorkerRecv, WorkerNothing, Work
<1>3. Sock(w) = w
  BY <1>1, <1>2 DEF EchoTyped, Sock
<1>4. \/ /\ worker' = [worker EXCEPT ![w] = "send"]
         /\ \E k \in 1..Len(up[w]) :
              RecvOnce(w, SubSeq(up[w], 1, k)) /\ buf' = [buf EXCEPT ![w] = SubSeq(up[w], 1, k)]
      \/ /\ \E to \in {"close", "ended"} : worker' = [worker EXCEPT ![w] = to]
         /\ RecvNothing(w) /\ buf' = buf
  BY <1>2, <1>3 DEF WorkerRecv, WorkerNothing, Work
<1>5. /\ NetTyped' /\ EchoTyped' /\ \A d \in Clients : Waiting(d)' => Waiting(d)
      /\ \A d \in Clients : down'[d] = down[d] /\ (d # w => up'[d] = up[d])
      /\ worker'[w] \in {"send", "close", "ended"}
      /\ worker'[w] = "send" => \E k \in 1..Len(up[w]) : buf'[w] = SubSeq(up[w], 1, k)
      /\ worker'[w] # "send" => client[w] \in Over
      /\ \A d \in Clients \ {w} : worker'[d] = worker[d] /\ buf'[d] = buf[d]
  <2>1. ASSUME worker' = [worker EXCEPT ![w] = "send"],
               NEW k \in 1..Len(up[w]), RecvOnce(w, SubSeq(up[w], 1, k)),
               buf' = [buf EXCEPT ![w] = SubSeq(up[w], 1, k)]
        PROVE  <1>5
    <3>1. /\ NetTyped' /\ SubSeq(up[w], 1, k) \in Text
          /\ \A d \in Clients : Waiting(d)' => Waiting(d)
          /\ \A d \in Clients : down'[d] = down[d] /\ (d # w => up'[d] = up[d])
      BY <1>1, <1>2, <2>1, RecvNet
    <3>2. PICK t \in Text : t = SubSeq(up[w], 1, k)
      BY <3>1
    <3>3. /\ EchoTyped' /\ worker'[w] = "send" /\ buf'[w] = t
          /\ \A d \in Clients \ {w} : worker'[d] = worker[d] /\ buf'[d] = buf[d]
      BY <1>1, <1>2, <2>1, <3>1, <3>2, WorkerTyped DEF Working
    <3> QED
      BY <3>1, <3>2, <3>3
  <2>2. ASSUME NEW to \in {"close", "ended"}, worker' = [worker EXCEPT ![w] = to], RecvNothing(w), buf' = buf
        PROVE  <1>5
    <3>1. UNCHANGED net /\ client[w] \in Over
      BY <2>2 DEF RecvNothing
    <3>2. NetTyped' /\ UNCHANGED <<up, down>> /\ \A d \in Clients : Waiting(d)' => Waiting(d)
      BY <1>1, <1>2, <3>1 DEF net, piping, NetTyped, Waiting
    <3>3. PICK t : t = buf[w]
      OBVIOUS
    <3>4. t \in Text /\ buf' = [buf EXCEPT ![w] = t]
      BY <1>1, <2>2, <3>3 DEF EchoTyped
    <3>5. worker[w] \in Working /\ to \in Working \union {"ended"}
      BY <1>2, <2>2 DEF Working
    <3>6. /\ EchoTyped' /\ worker'[w] = to
          /\ \A d \in Clients \ {w} : worker'[d] = worker[d] /\ buf'[d] = buf[d]
      <4>1. EchoTyped /\ UNCHANGED <<main, newclient, sock, held>>
        BY <1>1, <1>2
      <4>2. worker' = [worker EXCEPT ![w] = to] /\ \A d \in Clients : Waiting(d)' => Waiting(d)
        BY <2>2, <3>2
      <4> QED
        BY <3>4, <3>5, <4>1, <4>2, WorkerTyped
    <3>7. UNCHANGED <<up, down>>
      BY <3>1 DEF net
    <3> QED
      BY <2>2, <3>1, <3>2, <3>6, <3>7
  <2> QED
    BY <1>4, <2>1, <2>2
<1>6. OneByOneTyped'
  BY <1>5, QuietOneByOne DEF AnswerInv, Typed
<1>7. ASSUME NEW d \in Clients \ {w} PROVE (Unread(d)' => Unread(d)) /\ ToSend(d)' \subseteq ToSend(d)
  BY <1>5 DEF Unread, ToSend, Echoes
<1>8. Told(w)'
  <2>1. Unread(w) /\ ~Unread(w)'
    BY <1>2, <1>5 DEF Unread, Echoes
  <2>2. \A t \in ToSend(w)' : worker'[w] = "send" /\ t \in {buf'[w], buf'[w] \o <<Junk>>}
    BY DEF ToSend, Echoes
  <2>3. \A t \in ToSend(w)' : \E k \in 1..Len(up[w]) : up[w] = Message[w] => t \in Answers(w, k)
    BY <1>5, <2>2 DEF Answers, Echoes
  <2>4. Told(w) /\ got'[w] = got[w] /\ down'[w] = down[w]
    BY <1>2, <1>5 DEF AnswerInv
  <2> QED
    BY <1>1, <2>1, <2>3, <2>4, RecvTold
<1>9. \A d \in Clients \ {w} : up'[d] = up[d] /\ down'[d] = down[d]
  BY <1>5
<1> QED
  BY <1>2, <1>5, <1>6, <1>7, <1>8, <1>9, ServerOne

LEMMA WorkerSends ==
  ASSUME AnswerInv, Echoes, NEW w \in Clients, WorkerSend(w), UNCHANGED <<program, portVars, lineVars>>
  PROVE  AnswerInv'
<1>1. NetTyped /\ EchoTyped
  BY DEF AnswerInv, Typed
<1>2. /\ worker[w] = "send" /\ worker' = [worker EXCEPT ![w] = "close"] /\ buf' = [buf EXCEPT ![w] = <<>>]
      /\ UNCHANGED <<client, got, piping, main, newclient, sock, held>>
  BY DEF WorkerSend, Work
<1>3. Sock(w) = w
  BY <1>1, <1>2 DEF EchoTyped, Sock
<1>4. PICK junk \in {<<>>, <<Junk>>} : Reply(w, buf[w] \o junk)
  BY <1>3 DEF WorkerSend
<1>5. PICK t : t = buf[w] \o junk
  OBVIOUS
<1>6. t \in Text /\ t \in ToSend(w)
  <2>1. buf[w] \in Text /\ <<Junk>> \in Text
    BY <1>1 DEF EchoTyped, Junk, Text
  <2>2. buf[w] \o <<>> = buf[w] /\ buf[w] \o <<Junk>> \in Text
    BY <2>1, JoinText
  <2> QED
    BY <1>2, <1>4, <1>5, <2>1, <2>2 DEF ToSend, Echoes
<1>7. /\ NetTyped' /\ \A d \in Clients : Waiting(d)' => Waiting(d)
      /\ down'[w] = IF client[w] \in Over THEN <<>> ELSE down[w] \o t
      /\ \A d \in Clients : up'[d] = up[d] /\ (d # w => down'[d] = down[d])
  BY <1>1, <1>2, <1>4, <1>5, <1>6, SendNet
<1>8. /\ EchoTyped' /\ worker'[w] = "close"
      /\ \A d \in Clients \ {w} : worker'[d] = worker[d] /\ buf'[d] = buf[d]
  BY <1>1, <1>2, <1>7, EmptyText, WorkerTyped DEF Working
<1>9. OneByOneTyped'
  BY <1>7, QuietOneByOne DEF AnswerInv, Typed
<1>10. ASSUME NEW d \in Clients \ {w} PROVE (Unread(d)' => Unread(d)) /\ ToSend(d)' \subseteq ToSend(d)
  BY <1>8 DEF Unread, ToSend, Echoes
<1>11. Told(w)'
  <2>1. ToSend(w)' = {} /\ ~Unread(w)'
    BY <1>8 DEF ToSend, Unread, Echoes
  <2>2. Told(w) /\ got'[w] = got[w] /\ client'[w] = client[w]
    BY <1>2 DEF AnswerInv
  <2> QED
    BY <1>1, <1>6, <1>7, <2>1, <2>2, ReplyTold
<1>12. \A d \in Clients \ {w} : up'[d] = up[d] /\ down'[d] = down[d]
  BY <1>7
<1> QED
  BY <1>2, <1>7, <1>8, <1>9, <1>10, <1>11, <1>12, ServerOne

LEMMA EchoStep ==
  ASSUME AnswerInv, EchoMain \/ \E w \in Clients : EchoWorker(w)
  PROVE  AnswerInv'
<1>1. Echoes /\ UNCHANGED <<program, portVars, lineVars>>
  BY DEF EchoMain, EchoWorker, EchoServer, Echoes
<1>2. \/ \E c \in Clients : EchoAccept(c)
      \/ Fork \/ Create \/ CreateFails
      \/ ForkFails \/ MainCloses \/ \E w \in Clients : WorkerClose(w)
      \/ \E w \in Clients : WorkerRecv(w) \/ WorkerNothing(w)
      \/ \E w \in Clients : WorkerSend(w)
  BY DEF EchoMain, EchoWorker, MainStep, Worker
<1> QED
  BY <1>1, <1>2, EchoAccepts, EchoStarts, EchoCloses, WorkerRecvs, WorkerSends

-----------------------------------------------------------------------------
(* All of them *)

LEMMA AnswerInit == Init => AnswerInv
<1> SUFFICES ASSUME Init PROVE AnswerInv
  OBVIOUS
<1>1. NetTyped
  BY EmptyText DEF Init, ClientInit, NetTyped, ClientAt, ServerAt
<1>2. EchoTyped
  BY EmptyText DEF Init, EchoInit, ClientInit, EchoTyped, Waiting
<1>3. OneByOneTyped
  BY EmptyText DEF Init, PortInit, LineInit, OneByOneTyped, Working, NoConn, NoClient
<1>4. ASSUME NEW c \in Clients PROVE Told(c)
  <2>1. up[c] = <<>> /\ got[c] = <<>> /\ down[c] = <<>>
    BY DEF Init, ClientInit
  <2>2. got[c] \o down[c] = <<>>
    BY <2>1, EmptyText, JoinText
  <2>3. ToSend(c) = {}
    BY DEF Init, EchoInit, PortInit, LineInit, ToSend
  <2> QED
    BY <2>1, <2>2, <2>3 DEF Told
<1>5. ASSUME NEW c \in Clients PROVE Relayed(c)
  <2>1. /\ client[c] = "idle" /\ caster[c] = "none" /\ chunk[c] = <<>> /\ pipe[c] = <<>>
        /\ cast[c] = <<>> /\ got[c] = <<>>
    BY DEF Init, ClientInit
  <2>2. IsPrefix(cast[c], got[c])
    BY <2>1, EmptyText, PrefixFacts
  <2> QED
    BY <2>1, <2>2 DEF Relayed
<1> QED
  BY <1>1, <1>2, <1>3, <1>4, <1>5 DEF AnswerInv, Typed

LEMMA AnswerStep == AnswerInv /\ [Next]_vars => AnswerInv'
<1> SUFFICES ASSUME AnswerInv, [Next]_vars PROVE AnswerInv'
  OBVIOUS
<1>1. CASE EchoMain \/ \E w \in Clients : EchoWorker(w)
  BY <1>1, EchoStep
<1>2. CASE OneByOne
  BY <1>2, PortStep, LineStep DEF OneByOne
<1>3. ASSUME NEW c \in Clients, OfClient(Connect(c) \/ Refused(c) \/ Progress(c) \/ Kill(c) \/ Caster(c))
      PROVE  AnswerInv'
  BY <1>3, ClientStep
<1>4. CASE UNCHANGED vars
  <2>1. UNCHANGED <<program, client, net, got, piping, echoVars, portVars, lineVars>>
    BY <1>4 DEF vars, clientVars
  <2>2. NetTyped' /\ UNCHANGED <<up, down>> /\ \A d \in Clients : Waiting(d)' <=> Waiting(d)
    BY <2>1 DEF AnswerInv, Typed, NetTyped, net, piping, Waiting
  <2>3. EchoTyped' /\ OneByOneTyped'
    BY <2>1, <2>2, QuietEcho, QuietOneByOne DEF AnswerInv, Typed
  <2>4. ASSUME NEW d \in Clients PROVE (Unread(d)' => Unread(d)) /\ ToSend(d)' \subseteq ToSend(d)
    BY <2>1, <2>2 DEF Unread, ToSend, echoVars, portVars, lineVars
  <2> QED
    BY <2>1, <2>2, <2>3, <2>4, ServerQuiet
<1> QED
  BY <1>1, <1>2, <1>3, <1>4 DEF Next

\* Whoever the server is and however many clients it has, a client receives
\* the start of an answer to what it said itself: what a recv() of the server
\* returned from its connection, or the line that asks for.
THEOREM OwnAnswerHolds == Spec => []OwnAnswer
<1>1. AnswerInv => OwnAnswer
  <2> SUFFICES ASSUME AnswerInv, NEW c \in Clients
               PROVE  /\ got[c] \o down[c] # <<>> =>
                           \E k \in 1..Len(Message[c]) :
                             \E a \in Answers(c, k) : IsPrefix(got[c] \o down[c], a)
                      /\ IsPrefix(cast[c], got[c])
    BY DEF OwnAnswer
  <2>1. Told(c) /\ Relayed(c)
    BY DEF AnswerInv
  <2> QED
    BY <2>1 DEF Told, Relayed, AnswersTo
<1> QED
  BY <1>1, AnswerInit, AnswerStep, PTL DEF Spec

-----------------------------------------------------------------------------
(* The connections of the echo servers *)

\* main has the connection it hands over, and a child has that of its client.
ByFork(c) ==
  held[c] = (IF newclient = c /\ main \in {"start", "close"} THEN {Main} ELSE {})
              \union (IF worker[c] \in Working THEN {c} ELSE {})

\* The threads have the connections of the process; one that ended without
\* closing its own found the client gone.
ByThread(c) ==
  /\ main # "close" /\ held[c] \subseteq {Main}
  /\ Served(c) => held[c] = {Main}
  /\ worker[c] = "ended" /\ held[c] # {} => up[c] = <<>> /\ got[c] = <<>> /\ client[c] \in Over

Kept(c) ==
  /\ server[c] = "open" <=> held[c] # {}
  /\ program = "fork" => ByFork(c)
  /\ program = "threads" => ByThread(c)

KeptInv == AnswerInv /\ (Echoes => \A c \in Clients : Kept(c))

\* A client that is gone neither says nor receives anything.
LEMMA ClientKept ==
  ASSUME AnswerInv, NEW c \in Clients, NEW d \in Clients, Kept(d),
         OfClient(Connect(c) \/ Refused(c) \/ Progress(c) \/ Kill(c) \/ Caster(c))
  PROVE  Kept(d)'
<1>1. NetTyped
  BY DEF AnswerInv, Typed
<1>2. /\ UNCHANGED <<program, echoVars>>
      /\ server'[d] = server[d] \/ (server[d] # "open" /\ server'[d] # "open")
  <2>1. UNCHANGED <<program, echoVars>>
    BY DEF OfClient, Connect, Refused, Progress, SendMessage, RecvReply, RecvEnd, WritePipe, WriteKills,
           WaitCaster, Kill, Caster, CasterRead, CasterSend
  <2>2. server' = server \/ (client[c] = "idle" /\ server' = [server EXCEPT ![c] = "queued"])
    BY DEF OfClient, Connect, Refused, Progress, SendMessage, RecvReply, RecvEnd, WritePipe, WriteKills,
           WaitCaster, Kill, Caster, CasterRead, CasterSend, net, Step
  <2> QED
    BY <1>1, <2>1, <2>2 DEF NetTyped
<1>3. client[d] \in Over => client'[d] \in Over /\ up'[d] = up[d] /\ got'[d] = got[d]
  <2> SUFFICES ASSUME client[d] \in Over PROVE client'[d] \in Over /\ up'[d] = up[d] /\ got'[d] = got[d]
    OBVIOUS
  <2>1. \/ UNCHANGED <<client, up, got>>
        \/ /\ client[c] \notin Over
           /\ \E to : client' = [client EXCEPT ![c] = to]
           /\ up' = up \/ up' = [up EXCEPT ![c] = Message[c]]
           /\ got' = got \/ \E t : got' = [got EXCEPT ![c] = t]
    <3>1. CASE Connect(c) \/ Refused(c)
      BY <3>1 DEF Connect, Refused, Step, Over, net
    <3>2. CASE SendMessage(c) \/ RecvEnd(c)
      BY <3>2 DEF SendMessage, RecvEnd, Step, Over, net
    <3>3. CASE RecvReply(c)
      BY <3>3 DEF RecvReply, Step, Over, net
    <3>4. CASE WritePipe(c) \/ WriteKills(c) \/ WaitCaster(c)
      BY <3>4 DEF WritePipe, WriteKills, WaitCaster, Step, Over, net
    <3>5. CASE Kill(c) \/ Caster(c)
      BY <3>5 DEF Kill, Caster, CasterRead, CasterSend, Over, net
    <3> QED
      BY <3>1, <3>2, <3>3, <3>4, <3>5 DEF OfClient, Progress
  <2> QED
    BY <1>1, <2>1 DEF NetTyped
<1> QED
  BY <1>2, <1>3 DEF Kept, ByFork, ByThread, Served, echoVars

LEMMA AcceptKept ==
  ASSUME AnswerInv, NEW c \in Clients, EchoAccept(c), UNCHANGED program, NEW d \in Clients, Kept(d)
  PROVE  Kept(d)'
<1>1. NetTyped /\ EchoTyped
  BY DEF AnswerInv, Typed
<1>2. /\ main = "accept" /\ main' = "start" /\ newclient' = c
      /\ server[c] = "queued" /\ server' = [server EXCEPT ![c] = "open"] /\ held' = [held EXCEPT ![c] = {Main}]
      /\ UNCHANGED <<client, got, up, worker>>
  BY DEF EchoAccept
<1>3. worker[c] = "none" /\ held[c] = {}
  BY <1>1, <1>2 DEF EchoTyped, Waiting
<1>4. CASE d = c
  BY <1>1, <1>2, <1>3, <1>4 DEF Kept, ByFork, ByThread, Served, Working, NetTyped, EchoTyped
<1>5. CASE d # c
  BY <1>1, <1>2, <1>5 DEF Kept, ByFork, ByThread, Served, Working, NetTyped, EchoTyped
<1> QED
  BY <1>4, <1>5

LEMMA StartKept ==
  ASSUME AnswerInv, Fork \/ Create \/ CreateFails, UNCHANGED program, NEW d \in Clients, Kept(d)
  PROVE  Kept(d)'
<1>1. NetTyped /\ EchoTyped
  BY DEF AnswerInv, Typed
<1>2. /\ main = "start" /\ newclient' = newclient /\ UNCHANGED <<client, got, server, up>>
      /\ newclient \in Clients /\ worker[newclient] = "none"
  BY <1>1 DEF Fork, Create, CreateFails, Start, EchoTyped, net
<1>3. CASE Fork
  <2>1. /\ program = "fork" /\ main' = "close" /\ worker' = [worker EXCEPT ![newclient] = "recv"]
        /\ held'[d] = IF Main \in held[d] THEN held[d] \union {newclient} ELSE held[d]
    BY <1>3 DEF Fork, Start
  <2>2. CASE d = newclient
    <3>1. held[d] = {Main} /\ server[d] = "open"
      BY <1>2, <2>1, <2>2 DEF Kept, ByFork, Working
    <3>2. worker'[d] = "recv" /\ held'[d] = {Main, d}
      BY <1>1, <2>1, <2>2, <3>1 DEF EchoTyped
    <3> QED
      BY <1>2, <2>1, <2>2, <3>1, <3>2 DEF Kept, ByFork, Working
  <2>3. CASE d # newclient
    <3>1. Main \notin held[d]
      BY <2>1, <2>3, MainAssumption DEF Kept, ByFork
    <3>2. worker'[d] = worker[d] /\ held'[d] = held[d]
      BY <1>1, <2>1, <2>3, <3>1 DEF EchoTyped
    <3> QED
      BY <1>2, <2>1, <2>3, <3>2 DEF Kept, ByFork
  <2> QED
    BY <2>2, <2>3
<1>4. CASE Create \/ CreateFails
  <2>1. /\ program = "threads" /\ main' = "accept" /\ held' = held
        /\ worker' = [worker EXCEPT ![newclient] = "recv"] \/ worker' = worker
    BY <1>4 DEF Create, CreateFails, Start
  <2>2. worker'[d] = worker[d] \/ (d = newclient /\ worker'[d] = "recv")
    BY <1>1, <2>1 DEF EchoTyped
  <2>3. Served(d)' => Served(d)
    BY <1>2, <2>1, <2>2 DEF Served
  <2> QED
    BY <1>2, <2>1, <2>2, <2>3 DEF Kept, ByThread
<1> QED
  BY <1>3, <1>4

\* What Shut leaves open.
LEMMA ShutOpen ==
  ASSUME NEW cs, Shut(cs), NEW d \in Clients
  PROVE  (server'[d] = "open" <=> d \notin cs /\ server[d] = "open") /\ up' = up
BY DEF Shut

LEMMA ForkFailsKept ==
  ASSUME ForkFails, UNCHANGED program, NEW d \in Clients, Kept(d)
  PROVE  Kept(d)'
<1>1. PICK cs : cs = {c \in Clients : server[c] = "queued"} \union LastHeld(Main)
  OBVIOUS
<1>2. /\ program = "fork" /\ main = "start" /\ main' = "exit" /\ held'[d] = held[d] \ {Main} /\ Shut(cs)
      /\ UNCHANGED <<newclient, worker>>
  BY <1>1 DEF ForkFails
<1>3. held[d] \subseteq {Main, d} /\ held'[d] = IF worker[d] \in Working THEN {d} ELSE {}
  BY <1>2, MainAssumption DEF Kept, ByFork
<1>4. server'[d] = "open" <=> server[d] = "open" /\ held[d] # {Main}
  BY <1>1, <1>2, ShutOpen DEF LastHeld
<1>5. server'[d] = "open" <=> held'[d] # {}
  BY <1>2, <1>3, <1>4, MainAssumption DEF Kept
<1> QED
  BY <1>2, <1>3, <1>5 DEF Kept, ByFork

LEMMA MainClosesKept ==
  ASSUME AnswerInv, Echoes, MainCloses, UNCHANGED program, NEW d \in Clients, Kept(d)
  PROVE  Kept(d)'
<1>1. EchoTyped
  BY DEF AnswerInv, Typed
<1>2. PICK cs : cs = {newclient} \intersect LastHeld(Main)
  OBVIOUS
<1>3. /\ main = "close" /\ main' = "accept" /\ held' = [held EXCEPT ![newclient] = held[newclient] \ {Main}]
      /\ Shut(cs) /\ UNCHANGED <<newclient, worker>>
  BY <1>2 DEF MainCloses
<1>4. program = "fork"
  BY <1>3 DEF Kept, ByThread, Echoes
<1>5. held'[d] = IF d = newclient THEN held[d] \ {Main} ELSE held[d]
  BY <1>1, <1>3 DEF EchoTyped
<1>6. held'[d] = IF worker[d] \in Working THEN {d} ELSE {}
  BY <1>3, <1>4, <1>5, MainAssumption DEF Kept, ByFork
<1>7. server'[d] = "open" <=> server[d] = "open" /\ ~(d = newclient /\ held[d] = {Main})
  BY <1>2, <1>3, ShutOpen DEF LastHeld
<1>8. server'[d] = "open" <=> held'[d] # {}
  BY <1>5, <1>7 DEF Kept
<1> QED
  BY <1>3, <1>4, <1>6, <1>8 DEF Kept, ByFork

LEMMA WorkerClosesKept ==
  ASSUME AnswerInv, Echoes, NEW w \in Clients, WorkerClose(w), UNCHANGED program, NEW d \in Clients, Kept(d)
  PROVE  Kept(d)'
<1>1. EchoTyped
  BY DEF AnswerInv, Typed
<1>2. /\ worker[w] = "close" /\ worker' = [worker EXCEPT ![w] = "ended"]
      /\ UNCHANGED <<client, got, main, newclient>>
  BY DEF WorkerClose, Work
<1>3. Sock(w) = w
  BY <1>1, <1>2 DEF EchoTyped, Sock
<1>4. worker'[d] = IF d = w THEN "ended" ELSE worker[d]
  BY <1>1, <1>2 DEF EchoTyped
<1>5. CASE program = "fork"
  <2>1. PICK cs : cs = {c \in Clients : w \in held[c]} \intersect LastHeld(w)
    OBVIOUS
  <2>2. held'[d] = (IF w \in held[d] THEN held[d] \ {w} ELSE held[d]) /\ Shut(cs)
    BY <1>5, <2>1 DEF WorkerClose
  <2>3. held'[d] = held[d] \ {w}
    BY <2>2
  <2>4. server'[d] = "open" <=> server[d] = "open" /\ held[d] # {w}
    BY <2>1, <2>2, ShutOpen DEF LastHeld
  <2>5. server'[d] = "open" <=> held'[d] # {}
    BY <2>3, <2>4 DEF Kept
  <2>6. ByFork(d)'
    <3>1. ByFork(d)
      BY <1>5 DEF Kept
    <3>2. CASE d = w
      BY <1>2, <1>4, <2>3, <3>1, <3>2, MainAssumption DEF ByFork, Working
    <3>3. CASE d # w
      BY <1>2, <1>4, <2>3, <3>1, <3>3, MainAssumption DEF ByFork
    <3> QED
      BY <3>2, <3>3
  <2> QED
    BY <1>5, <2>5, <2>6 DEF Kept
<1>6. CASE program = "threads"
  <2>1. PICK cs : cs = {w} \intersect LastHeld(Main)
    OBVIOUS
  <2>2. held'[d] = (IF d = w THEN held[d] \ {Main} ELSE held[d]) /\ Shut(cs)
    BY <1>3, <1>6, <2>1 DEF WorkerClose
  <2>3. server'[d] = "open" <=> server[d] = "open" /\ ~(d = w /\ held[d] = {Main})
    BY <2>1, <2>2, ShutOpen DEF LastHeld
  <2>4. up' = up
    BY <2>2, ShutOpen
  <2>5. CASE d = w
    <3>1. held[d] = {Main} /\ held'[d] = {}
      BY <1>2, <1>6, <2>2, <2>5 DEF Kept, ByThread, Served
    <3>2. ~Served(d)'
      <4>1. newclient = d => main \notin {"start", "close"}
        BY <1>1, <1>2, <1>6, <2>5 DEF Kept, ByThread, EchoTyped
      <4> QED
        BY <1>2, <1>4, <2>5, <4>1 DEF Served
    <3> QED
      BY <1>2, <1>6, <2>3, <2>5, <3>1, <3>2 DEF Kept, ByThread
  <2>6. CASE d # w
    BY <1>2, <1>4, <1>6, <2>2, <2>3, <2>4, <2>6 DEF Kept, ByThread, Served
  <2> QED
    BY <2>5, <2>6
<1> QED
  BY <1>5, <1>6 DEF Echoes

LEMMA WorkerKept ==
  ASSUME AnswerInv, Echoes, NEW w \in Clients, WorkerRecv(w) \/ WorkerNothing(w) \/ WorkerSend(w),
         UNCHANGED program, NEW d \in Clients, Kept(d)
  PROVE  Kept(d)'
<1>1. NetTyped /\ EchoTyped /\ Told(w)
  BY DEF AnswerInv, Typed
<1>2. /\ worker[w] \in {"recv", "send"} /\ UNCHANGED <<client, got, main, newclient, held, server>>
  BY DEF WorkerRecv, WorkerNothing, WorkerSend, Work, RecvOnce, RecvNothing, Reply, net
<1>3. Sock(w) = w
  BY <1>1, <1>2 DEF EchoTyped, Sock
<1>4. /\ \E to \in {"send", "close"} : worker' = [worker EXCEPT ![w] = to]
      \/ /\ program = "threads" /\ worker[w] = "recv" /\ worker' = [worker EXCEPT ![w] = "ended"]
         /\ client[w] \in Over /\ up[w] = <<>> /\ up' = up
  BY <1>3 DEF WorkerRecv, WorkerNothing, WorkerSend, Work, RecvNothing, net, Echoes
<1>5. d # w => worker'[d] = worker[d] /\ up'[d] = up[d]
  <2>1. up' = up \/ \E t : up' = [up EXCEPT ![w] = t]
    BY <1>3 DEF WorkerRecv, WorkerNothing, WorkerSend, RecvOnce, RecvNothing, Reply, net
  <2> QED
    BY <1>1, <1>4, <2>1 DEF NetTyped, EchoTyped
<1>6. CASE d # w
  BY <1>2, <1>5, <1>6 DEF Kept, ByFork, ByThread, Served
<1>7. CASE d = w /\ worker'[w] \in {"send", "close"}
  BY <1>2, <1>7 DEF Kept, ByFork, ByThread, Served, Working
<1>8. CASE d = w /\ worker'[w] \notin {"send", "close"}
  <2>1. /\ program = "threads" /\ worker[w] = "recv" /\ worker'[w] = "ended"
        /\ client[w] \in Over /\ up[w] = <<>> /\ up' = up
    BY <1>1, <1>4, <1>8 DEF EchoTyped
  <2>2. got[w] = <<>>
    BY <1>1, <2>1 DEF Told, Unread
  <2>3. Served(w)
    BY <2>1 DEF Served
  <2> QED
    BY <1>2, <1>8, <2>1, <2>2, <2>3 DEF Kept, ByThread
<1> QED
  BY <1>6, <1>7, <1>8

LEMMA KeptStep == KeptInv /\ [Next]_vars => KeptInv'
<1> SUFFICES ASSUME KeptInv, [Next]_vars PROVE KeptInv'
  OBVIOUS
<1>1. AnswerInv /\ AnswerInv' /\ NetTyped
  BY AnswerStep DEF KeptInv, AnswerInv, Typed
<1>2. program' = program
  BY DEF Next, EchoMain, EchoWorker, EchoServer, OneByOne, OfClient, Connect, Refused, Progress, SendMessage,
         RecvReply, RecvEnd, WritePipe, WriteKills, WaitCaster, Kill, Caster, CasterRead, CasterSend,
         vars, clientVars
<1>3. ASSUME Echoes, NEW d \in Clients PROVE Kept(d)'
  <2>1. Kept(d)
    BY <1>3 DEF KeptInv
  <2>2. CASE EchoMain \/ \E w \in Clients : EchoWorker(w)
    BY <1>1, <1>2, <1>3, <2>1, <2>2, AcceptKept, StartKept, ForkFailsKept, MainClosesKept, WorkerClosesKept,
       WorkerKept DEF EchoMain, EchoWorker, MainStep, Worker
  <2>3. CASE OneByOne
    BY <1>3, <2>3 DEF OneByOne, Echoes
  <2>4. ASSUME NEW c \in Clients, OfClient(Connect(c) \/ Refused(c) \/ Progress(c) \/ Kill(c) \/ Caster(c))
        PROVE  Kept(d)'
    BY <1>1, <2>1, <2>4, ClientKept
  <2>5. CASE UNCHANGED vars
    BY <2>1, <2>5 DEF vars, clientVars, echoVars, net, Kept, ByFork, ByThread, Served
  <2> QED
    BY <2>2, <2>3, <2>4, <2>5 DEF Next
<1>4. Echoes' => Echoes
  BY <1>2 DEF Echoes
<1> QED
  BY <1>1, <1>3, <1>4 DEF KeptInv

LEMMA KeptInit == Init => KeptInv
<1> SUFFICES ASSUME Init, NEW c \in Clients PROVE Kept(c)
  BY AnswerInit DEF KeptInv
<1> QED
  BY DEF Init, ClientInit, EchoInit, Kept, ByFork, ByThread, Served, Working

\* server1 has a connection open in main while it is handed over and in the
\* child that answers it, and nowhere else; server2 leaves one open only where
\* the client went without a word or no thread could be made for it.
THEOREM NothingLeftHolds == Spec => []NothingLeft
<1>1. KeptInv => NothingLeft
  <2> SUFFICES ASSUME KeptInv, program \in {"fork", "threads"}, NEW c \in Clients
               PROVE  /\ server[c] = "open" <=> held[c] # {}
                      /\ held[c] # {} =>
                           \/ Served(c) \/ NoThread(c)
                           \/ /\ program = "threads" /\ worker[c] = "ended"
                              /\ up[c] = <<>> /\ got[c] = <<>> /\ client[c] \in Over
    BY DEF NothingLeft
  <2>1. Kept(c) /\ worker[c] \in Working \union {"none", "ended"}
    BY DEF KeptInv, Echoes, AnswerInv, Typed, EchoTyped
  <2>2. CASE program = "fork"
    BY <2>1, <2>2 DEF Kept, ByFork, Served, Working
  <2>3. CASE program = "threads"
    BY <2>1, <2>3 DEF Kept, ByThread, Served, NoThread, Working
  <2> QED
    BY <2>2, <2>3
<1> QED
  BY <1>1, KeptInit, KeptStep, PTL DEF Spec
=============================================================================
