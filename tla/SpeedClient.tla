---------------------------- MODULE SpeedClient ----------------------------
(***************************************************************************)
(* esameSNP40/src/Client.c: a thread takes what the server sends and adds  *)
(* it up in total, a thread prints total once a second and sets it to 0,   *)
(* and main sends the keys u and d.  Each loops while connected.  total is *)
(* read and written with no lock.                                          *)
(* After its loop threadSpeed waits at a barrier made for two threads that *)
(* nobody else uses.  It never returns (PthreadBarrierProofs!Refinement),  *)
(* and main stays in its second join: there are no steps for what follows. *)
(***************************************************************************)
EXTENDS Naturals

CONSTANTS
  MaxBytes,  \* bound: bytes the server sends
  Cap        \* bytes that wait in the socket at most

VARIABLES
  conn,       \* the connection: "open", "left" by the server, "reset" with an
              \* error to be taken, "broken" with none, "closed" here
  came,       \* bytes that wait in the socket
  connected, total,
  taker, n, acc,  \* threadFunc, its n and the total it has read
  meter,      \* threadSpeed
  main, key,  \* main and its buf[0], where u stands for d as well
  received,   \* bytes recv() has returned
  alive

taking == <<taker, n, acc, received>>
typing == <<main, key>>
vars == <<conn, came, connected, total, taking, meter, typing, alive>>

\* main has connected (it returns at once if it cannot), set connected and made
\* the threads.  buf is not initialised.
Init ==
  /\ conn = "open" /\ came = 0
  /\ connected = TRUE /\ total = 0
  /\ taker = "check" /\ n = 0 /\ acc = 0
  /\ meter = "check"
  /\ main = "check" /\ key \in {"u", "other"}
  /\ received = 0
  /\ alive = TRUE

-----------------------------------------------------------------------------
(* The server. *)

ServerSends ==
  /\ conn = "open" /\ came < Cap /\ received + came < MaxBytes
  /\ came' = came + 1
  /\ UNCHANGED <<conn, connected, total, taking, meter, typing, alive>>

ServerEnds(how) ==
  /\ conn = "open"
  /\ conn' = how
  /\ UNCHANGED <<came, connected, total, taking, meter, typing, alive>>

-----------------------------------------------------------------------------
(* threadFunc *)

\* Thread-local control: from one point of it to the next.
Take(from, to) ==
  /\ taker = from /\ taker' = to
  /\ UNCHANGED <<meter, typing, alive>>

\* close(sockfd) and close(outputFd) after the loop.
TakerCheck ==
  /\ Take("check", IF connected THEN "recv" ELSE "done")
  /\ UNCHANGED <<conn, came, connected, total, n, acc, received>>

RecvData ==
  /\ Take("recv", "load")
  /\ \E k \in 1..came : n' = k /\ came' = came - k /\ received' = received + k
  /\ UNCHANGED <<conn, connected, total, acc>>

\* recv() returns 0, for ever, once the server has closed or once the error of
\* a reset has been taken: neither branch, and the loop goes on.
RecvEof ==
  /\ conn \in {"left", "broken"} /\ came = 0
  /\ Take("recv", "check")
  /\ UNCHANGED <<conn, came, connected, total, n, acc, received>>

\* A plausible error: connected is not cleared.
RecvErrorKept ==
  /\ conn \in {"reset", "broken"}
  /\ Take("recv", "check")
  /\ conn' = "left" /\ came' = 0
  /\ UNCHANGED <<connected, total, n, acc, received>>

\* -1: close(sockfd), connected = 0.  Linux gives the error of a reset once, to
\* recv() or send(), and gives recv() none if the reset came after the end of
\* file; other systems may do so.
RecvError ==
  /\ conn \in {"reset", "broken"}
  /\ Take("recv", "check")
  /\ conn' = "closed" /\ came' = 0
  /\ connected' = FALSE
  /\ UNCHANGED <<total, n, acc, received>>

\* total += n
AddLoad ==
  /\ Take("load", "store")
  /\ acc' = total
  /\ UNCHANGED <<conn, came, connected, total, n, received>>

AddStore ==
  /\ Take("store", "check")
  /\ total' = acc + n
  /\ n' = 0 /\ acc' = 0
  /\ UNCHANGED <<conn, came, connected, received>>

Taker == TakerCheck \/ RecvData \/ RecvEof \/ RecvError \/ AddLoad \/ AddStore

-----------------------------------------------------------------------------
(* threadSpeed *)

Meter(from, to) ==
  /\ meter = from /\ meter' = to
  /\ UNCHANGED <<conn, came, connected, taking, typing, alive>>

MeterCheck ==
  /\ Meter("check", IF connected THEN "sleep" ELSE "barrier")
  /\ UNCHANGED total

\* sleep(1) and the printing of total.
Show == Meter("sleep", "zero") /\ UNCHANGED total

\* A plausible error: total is never set back.
ZeroForgotten == Meter("zero", "check") /\ UNCHANGED total

Zero == Meter("zero", "check") /\ total' = 0

MeterThread == MeterCheck \/ Show \/ Zero

-----------------------------------------------------------------------------
(* main *)

Main(from, to) ==
  /\ main = from /\ main' = to
  /\ UNCHANGED <<came, connected, total, taking, meter>>

MainCheck ==
  /\ Main("check", IF connected THEN "read" ELSE "join taker")
  /\ UNCHANGED <<key, conn, alive>>

\* read(STDIN_FILENO, buf, 1): at end of file buf keeps the last key.
ReadKey ==
  /\ key' \in {"u", "other", key}
  /\ Main("read", IF key' = "other" THEN "check" ELSE "send")
  /\ UNCHANGED <<conn, alive>>

\* A server that has closed answers by a reset, sooner or later.  Nobody looks
\* at what send() returns.
SendKey ==
  /\ Main("send", "check")
  /\ conn' \in CASE conn = "reset" -> {"broken"} [] conn = "left" -> {"left", "broken"}
                [] OTHER -> {conn}
  /\ UNCHANGED <<key, alive>>

\* SIGPIPE, on Linux only if there is no ECONNRESET to be taken.
SendKills ==
  /\ conn \in {"reset", "broken"}
  /\ Main("send", "check")
  /\ alive' = FALSE
  /\ UNCHANGED <<key, conn>>

JoinTaker == taker = "done" /\ Main("join taker", "join meter") /\ UNCHANGED <<key, conn, alive>>

MainThread == MainCheck \/ ReadKey \/ SendKey \/ SendKills \/ JoinTaker

Next ==
  /\ alive
  /\ ServerSends \/ (\E how \in {"left", "reset"} : ServerEnds(how))
     \/ Taker \/ MeterThread \/ MainThread

(* The three threads keep running; nobody has to type.                     *)
Fairness ==
  /\ WF_vars(alive /\ Taker) /\ WF_vars(alive /\ MeterThread)
  /\ WF_vars(alive /\ main # "read" /\ MainThread)

Spec == Init /\ [][Next]_vars /\ Fairness

-----------------------------------------------------------------------------

TypeOK ==
  /\ conn \in {"open", "left", "reset", "broken", "closed"} /\ came \in 0..Cap
  /\ connected \in BOOLEAN /\ total \in 0..received /\ received \in 0..MaxBytes
  /\ taker \in {"check", "recv", "load", "store", "done"}
  /\ n \in 0..Cap /\ acc \in 0..received
  /\ meter \in {"check", "sleep", "zero", "barrier"}
  /\ main \in {"check", "read", "send", "join taker", "join meter"}
  /\ key \in {"u", "other"} /\ alive \in BOOLEAN
  /\ connected <=> conn # "closed"

\* After a reset the thread that receives ends, unless main's send() takes the
\* error before it does, or SIGPIPE ends the program: connected stays set then,
\* and recv() returns 0 for ever.
ResetStops == conn = "reset" ~> taker = "done" \/ conn = "broken" \/ ~alive

\* The text printed: byte/s.  When nothing comes any more 0 is shown, and no
\* addition that was under way brings an old sum back.
SettlesAtZero == <>[](total = 0) \/ <>(~connected \/ ~alive)
=============================================================================
