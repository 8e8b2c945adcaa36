------------------------------- MODULE Barrier -------------------------------
(***************************************************************************)
(* What a barrier promises: a thread that arrives waits until Count        *)
(* threads, itself included, have arrived; they are then released          *)
(* together, and exactly one of them is told it is the serial thread.      *)
(***************************************************************************)
EXTENDS Naturals, FiniteSets

CONSTANTS Threads, Count

VARIABLES
  waiting,   \* threads that arrived for a round which is not complete
  released,  \* threads of complete rounds that have not returned yet
  serial     \* those of them that return PTHREAD_BARRIER_SERIAL_THREAD

vars == <<waiting, released, serial>>

Init == waiting = {} /\ released = {} /\ serial = {}

Outside(t) == t \notin waiting \union released

Arrive(t) ==
  /\ Outside(t)
  /\ Cardinality(waiting) + 1 < Count
  /\ waiting' = waiting \union {t}
  /\ UNCHANGED <<released, serial>>

Complete(t) ==
  /\ Outside(t)
  /\ Cardinality(waiting) + 1 = Count
  /\ waiting' = {}
  /\ released' = released \union waiting \union {t}
  /\ \E s \in waiting \union {t} : serial' = serial \union {s}

Return(t) ==
  /\ t \in released
  /\ released' = released \ {t}
  /\ serial' = serial \ {t}
  /\ UNCHANGED waiting

Next == \E t \in Threads : Arrive(t) \/ Complete(t) \/ Return(t)

Spec == Init /\ [][Next]_vars
=============================================================================
