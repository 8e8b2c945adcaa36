--------------------------- MODULE PthreadBarrier ---------------------------
(***************************************************************************)
(* esameSNP40/lib/pthread_barrier.c: pthread_barrier_wait for macOS, built *)
(* from a mutex, a condition variable and three unsigned counters.         *)
(* Each thread calls it again and again.                                   *)
(***************************************************************************)
EXTENDS Naturals, FiniteSets

CONSTANTS
  Threads,  \* the threads that use the barrier
  Count,    \* the count given to pthread_barrier_init
  Wrap      \* how many values an unsigned has

\* pthread_barrier_init refuses a count of 0.  The programs never give a
\* barrier more threads than its count.
ASSUME BarrierAssumption ==
  /\ IsFiniteSet(Threads) /\ Cardinality(Threads) <= Count
  /\ Count \in Nat \ {0} /\ Wrap \in Nat \ {0, 1} /\ Count < Wrap
  /\ "none" \notin Threads

VARIABLES
  pc,     \* where each thread stands in pthread_barrier_wait
  mutex,  \* its holder, or "none"
  left,   \* arrivals missing for this round
  round,  \* completed rounds, wrapping
  my      \* each thread's local copy of round

vars == <<pc, mutex, left, round, my>>

Unsigned == 0..(Wrap - 1)
Succ(u) == IF u = Wrap - 1 THEN 0 ELSE u + 1
Pred(u) == IF u = 0 THEN Wrap - 1 ELSE u - 1

Init ==
  /\ pc = [t \in Threads |-> "outside"]
  /\ mutex = "none"
  /\ left = Count
  /\ round = 0
  /\ my = [t \in Threads |-> 0]

Goto(t, from, to) == pc[t] = from /\ pc' = [pc EXCEPT ![t] = to]

Lock(t) ==
  /\ mutex = "none"
  /\ Goto(t, "outside", "arrive")
  /\ mutex' = t
  /\ UNCHANGED <<left, round, my>>

\* if (--barrier->left): the copy of round is taken under the same lock.
ArriveEarly(t) ==
  /\ Pred(left) # 0
  /\ Goto(t, "arrive", "wait")
  /\ left' = Pred(left)
  /\ my' = [my EXCEPT ![t] = round]
  /\ UNCHANGED <<mutex, round>>

ArriveLast(t) ==
  /\ Pred(left) = 0
  /\ Goto(t, "arrive", "last")
  /\ left' = Pred(left)
  /\ UNCHANGED <<mutex, round, my>>

\* A plausible error: the count of missing arrivals is not restored.
NextRoundLeft(t) ==
  /\ Goto(t, "last", "broadcast")
  /\ round' = Succ(round)
  /\ UNCHANGED <<mutex, left, my>>

NextRound(t) ==
  /\ Goto(t, "last", "broadcast")
  /\ round' = Succ(round)
  /\ left' = Count
  /\ UNCHANGED <<mutex, my>>

\* A plausible error: pthread_cond_signal in place of the broadcast.
SignalOne(t) ==
  /\ pc[t] = "broadcast"
  /\ LET asleep == {u \in Threads : pc[u] = "asleep"} IN
       IF asleep = {} THEN pc' = [pc EXCEPT ![t] = "unlockserial"]
       ELSE \E u \in asleep : pc' = [pc EXCEPT ![t] = "unlockserial", ![u] = "relock"]
  /\ UNCHANGED <<mutex, left, round, my>>

Broadcast(t) ==
  /\ pc[t] = "broadcast"
  /\ pc' = [u \in Threads |-> IF u = t THEN "unlockserial"
                              ELSE IF pc[u] = "asleep" THEN "relock" ELSE pc[u]]
  /\ UNCHANGED <<mutex, left, round, my>>

\* pthread_cond_wait releases the mutex and sleeps in one step ...
Wait(t) ==
  /\ Goto(t, "wait", "asleep")
  /\ mutex' = "none"
  /\ UNCHANGED <<left, round, my>>

\* ... may wake without a broadcast ...
Spurious(t) ==
  /\ Goto(t, "asleep", "relock")
  /\ UNCHANGED <<mutex, left, round, my>>

\* ... and owns the mutex when it returns.
Relock(t) ==
  /\ mutex = "none"
  /\ Goto(t, "relock", "test")
  /\ mutex' = t
  /\ UNCHANGED <<left, round, my>>

\* A plausible error: the wait is not repeated.
TestOnce(t) ==
  /\ Goto(t, "test", "unlock")
  /\ UNCHANGED <<mutex, left, round, my>>

\* while (round == barrier->round)
Test(t) ==
  /\ Goto(t, "test", IF my[t] = round THEN "wait" ELSE "unlock")
  /\ UNCHANGED <<mutex, left, round, my>>

Unlock(t) ==
  /\ pc[t] \in {"unlock", "unlockserial"}
  /\ pc' = [pc EXCEPT ![t] = "outside"]
  /\ mutex' = "none"
  /\ UNCHANGED <<left, round, my>>

Inside(t) == \/ ArriveEarly(t) \/ ArriveLast(t) \/ NextRound(t) \/ Broadcast(t)
             \/ Wait(t) \/ Relock(t) \/ Test(t) \/ Unlock(t)

Next == \E t \in Threads : Lock(t) \/ Inside(t) \/ Spurious(t)

(* A thread inside the barrier keeps running, and gets a mutex that is      *)
(* released again and again; whether a thread ever calls is its own affair. *)
Fairness == \A t \in Threads : WF_vars(Inside(t)) /\ SF_vars(Relock(t))

Spec == Init /\ [][Next]_vars /\ Fairness

-----------------------------------------------------------------------------

Held == {"arrive", "last", "broadcast", "wait", "test", "unlock", "unlockserial"}
InLoop == {"wait", "asleep", "relock", "test"}

waiting == {t \in Threads : pc[t] \in InLoop /\ my[t] = round}
arrived == waiting \union {t \in Threads : pc[t] = "last"}
serial == {t \in Threads : pc[t] \in {"broadcast", "unlockserial"}}
released == {t \in Threads : \/ pc[t] \in InLoop /\ my[t] # round
                             \/ pc[t] = "unlock"} \union serial

\* The variables keep their types and the mutex has the holder the program
\* counters tell.
TypeOK ==
  /\ pc \in [Threads -> Held \union InLoop \union {"outside"}]
  /\ mutex \in Threads \union {"none"}
  /\ \A t \in Threads : mutex = t <=> pc[t] \in Held
  /\ left \in Unsigned /\ round \in Unsigned
  /\ my \in [Threads -> Unsigned]

\* left counts the arrivals the round still needs, so it reaches 0 exactly
\* when the last thread has arrived and never wraps.
LeftCounts == left + Cardinality(arrived) = Count

\* No thread sleeps through the end of its round: one that sleeps belongs to
\* the current round, unless the broadcast is still to come.
NobodyLeftAsleep ==
  (\E t \in Threads : pc[t] = "asleep" /\ my[t] # round)
    => \E t \in Threads : pc[t] = "broadcast"

\* The barrier keeps the promise of Barrier, over any number of rounds and of
\* wraps of round, with spurious wakeups and late sleepers.
Abstract == INSTANCE Barrier
Implements == Abstract!Spec

\* Every thread of a complete round returns.
ReleasedReturn == \A t \in Threads : t \in released ~> pc[t] = "outside"
=============================================================================
