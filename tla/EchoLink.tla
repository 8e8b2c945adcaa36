------------------------------ MODULE EchoLink ------------------------------
(***************************************************************************)
(* One TCP connection to the server of esameSNP04 as its client may see    *)
(* it: messages go up, the server sends back what it receives with the     *)
(* text in upper case.  A message of 4096 bytes travels in Parts parts,    *)
(* the first of which holds the text and its terminating NUL; a recv() may *)
(* return any number of the parts that have arrived, up to 4096 bytes.     *)
(***************************************************************************)
EXTENDS Naturals, Sequences

CONSTANTS
  Senders,  \* who sends messages over the connection
  Parts,    \* parts a message travels in
  Cap       \* parts the buffers of one direction hold

VARIABLES up, down

vars == <<up, down>>

Part == [from : Senders, part : 1..Parts, upper : BOOLEAN]

Message(s) == [p \in 1..Parts |-> [from |-> s, part |-> p, upper |-> FALSE]]

\* toUpperCase stops at the first NUL: only a text that the buffer starts
\* with is converted.
UpperCase(parts) == [parts EXCEPT ![1].upper = TRUE]

Take(s, k) == SubSeq(s, 1, k)
Drop(s, k) == SubSeq(s, k + 1, Len(s))

\* The numbers of parts that recv(.., 4096) can return from s.
Readable(s) == {k \in 1..Parts : k <= Len(s)}

Init == up = <<>> /\ down = <<>>

\* send(): blocks while the buffers are full.
Send(s) ==
  /\ Len(up) + Parts <= Cap
  /\ up' = up \o Message(s)
  /\ UNCHANGED down

Echo ==
  \E k \in Readable(up) :
    /\ Len(down) + k <= Cap
    /\ down' = down \o UpperCase(Take(up, k))
    /\ up' = Drop(up, k)

Receive(k) ==
  /\ k \in Readable(down)
  /\ down' = Drop(down, k)
  /\ UNCHANGED up

\* The connection ends; what was under way is lost.
Cut == up' = <<>> /\ down' = <<>>

Next == (\E s \in Senders : Send(s)) \/ Echo \/ (\E k \in 1..Parts : Receive(k)) \/ Cut

Spec == Init /\ [][Next]_vars
=============================================================================
