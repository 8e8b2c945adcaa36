------------------------ MODULE PthreadBarrierProofs ------------------------
(***************************************************************************)
(* pthread_barrier_wait implements Barrier for every count, every number   *)
(* of rounds and every width of the unsigned round counter.                *)
(***************************************************************************)
EXTENDS PthreadBarrier, FiniteSetTheorems, TLAPS

\* left reaches 0 only for the thread that is about to start the next round.
LastAtZero == left = 0 <=> \E t \in Threads : pc[t] = "last"

\* Between its test of the round and its sleep a thread holds the mutex, so it
\* never falls asleep for a round that is over.
WaitsForThisRound == \A t \in Threads : pc[t] = "wait" => my[t] = round

IInv == TypeOK /\ LeftCounts /\ LastAtZero /\ WaitsForThisRound /\ NobodyLeftAsleep

\* The wrapping successor is a different number of the same width.
LEMMA SuccLemma ==
  ASSUME NEW u \in Unsigned
  PROVE  Succ(u) \in Unsigned /\ Succ(u) # u
BY BarrierAssumption DEF Unsigned, Succ

\* The wrapping predecessor is a number of the same width, and one less unless
\* it wraps.
LEMMA PredLemma ==
  ASSUME NEW u \in Unsigned
  PROVE  Pred(u) \in Unsigned /\ (u # 0 => Pred(u) = u - 1)
BY BarrierAssumption DEF Unsigned, Pred

LEMMA ArrivedFinite ==
  /\ arrived \subseteq Threads /\ IsFiniteSet(arrived) /\ Cardinality(arrived) \in Nat
  /\ Cardinality(arrived) <= Count
  /\ Cardinality(arrived) = Count => arrived = Threads
<1>1. arrived \subseteq Threads
  BY DEF arrived, waiting
<1>2. IsFiniteSet(arrived) /\ Cardinality(arrived) <= Cardinality(Threads)
      /\ (Cardinality(Threads) = Cardinality(arrived) => Threads = arrived)
  BY <1>1, FS_Subset, BarrierAssumption
<1>3. Cardinality(arrived) \in Nat /\ Cardinality(Threads) \in Nat
  BY <1>2, FS_CardinalityType, BarrierAssumption
<1> QED BY <1>1, <1>2, <1>3, BarrierAssumption

LEMMA InitInv == Init => IInv
<1> SUFFICES ASSUME Init PROVE IInv
  OBVIOUS
<1> USE BarrierAssumption
<1>1. TypeOK
  BY DEF Init, TypeOK, Held, InLoop, Unsigned
<1>2. arrived = {}
  BY DEF Init, arrived, waiting, InLoop
<1>3. LeftCounts
  BY <1>2, FS_EmptySet DEF Init, LeftCounts
<1>4. LastAtZero /\ WaitsForThisRound /\ NobodyLeftAsleep
  BY DEF Init, LastAtZero, WaitsForThisRound, NobodyLeftAsleep
<1> QED BY <1>1, <1>3, <1>4 DEF IInv

\* Each step keeps the types and the holder of the mutex.
LEMMA TypeStep == TypeOK /\ [Next]_vars => TypeOK'
<1> SUFFICES ASSUME TypeOK, [Next]_vars PROVE TypeOK'
  OBVIOUS
<1> USE BarrierAssumption DEF TypeOK, Held, InLoop, Goto
<1>1. CASE UNCHANGED vars
  BY <1>1 DEF vars
<1>2. ASSUME NEW t \in Threads, Lock(t) \/ Relock(t) PROVE TypeOK'
  BY <1>2 DEF Lock, Relock
<1>3. ASSUME NEW t \in Threads, ArriveEarly(t) \/ ArriveLast(t) PROVE TypeOK'
  BY <1>3, PredLemma DEF ArriveEarly, ArriveLast
<1>4. ASSUME NEW t \in Threads, NextRound(t) PROVE TypeOK'
  <2>1. left' \in Unsigned /\ round' \in Unsigned
    BY <1>4, SuccLemma DEF NextRound, Unsigned
  <2> QED BY <1>4, <2>1 DEF NextRound
<1>5. ASSUME NEW t \in Threads, Broadcast(t) PROVE TypeOK'
  BY <1>5 DEF Broadcast
<1>6. ASSUME NEW t \in Threads, Wait(t) \/ Spurious(t) PROVE TypeOK'
  BY <1>6 DEF Wait, Spurious
<1>7. ASSUME NEW t \in Threads, Test(t) \/ Unlock(t) PROVE TypeOK'
  BY <1>7 DEF Test, Unlock
<1> QED BY <1>1, <1>2, <1>3, <1>4, <1>5, <1>6, <1>7 DEF Next, Inside

\* The thread that starts the next round finds everybody else waiting for this
\* one: nobody is left over from an earlier round, so no old copy of round can
\* equal the new one however often round has wrapped.
LEMMA EverybodyArrived ==
  ASSUME IInv, NEW t \in Threads, pc[t] = "last"
  PROVE  /\ arrived = Threads
         /\ \A u \in Threads \ {t} : u \in waiting
         /\ Cardinality(waiting) + 1 = Count
<1>1. left = 0
  BY DEF IInv, LastAtZero
<1>2. Cardinality(arrived) = Count
  BY <1>1, ArrivedFinite, BarrierAssumption DEF IInv, LeftCounts
<1>3. arrived = Threads
  BY <1>2, ArrivedFinite
<1>4. \A u \in Threads \ {t} : pc[u] # "last"
  BY DEF IInv, TypeOK, Held
<1>5. \A u \in Threads \ {t} : u \in waiting
  BY <1>3, <1>4 DEF arrived
<1>6. t \notin waiting
  BY DEF waiting, InLoop
<1>7. waiting = arrived \ {t}
  BY <1>3, <1>5, <1>6 DEF waiting
<1>8. Cardinality(waiting) = Cardinality(arrived) - 1
  BY <1>3, <1>7, ArrivedFinite, FS_RemoveElement
<1> QED BY <1>2, <1>3, <1>5, <1>8, BarrierAssumption

\* Each step keeps the inductive invariant.
LEMMA InvStep == IInv /\ [Next]_vars => IInv'
<1> SUFFICES ASSUME IInv, [Next]_vars PROVE IInv'
  OBVIOUS
<1> USE BarrierAssumption DEF IInv
<1>0. TypeOK'
  BY TypeStep
<1>1. CASE UNCHANGED vars
  BY <1>0, <1>1 DEF vars, LeftCounts, LastAtZero, WaitsForThisRound, NobodyLeftAsleep,
                    arrived, waiting
<1>2. ASSUME NEW t \in Threads, ArriveEarly(t) \/ ArriveLast(t) PROVE IInv'
  <2>1. pc[t] = "arrive" /\ (\A u \in Threads \ {t} : pc[u] \notin Held) /\ round' = round
    BY <1>2 DEF ArriveEarly, ArriveLast, Goto, TypeOK, Held
  <2>2. left # 0 /\ left \in Unsigned
    BY <2>1 DEF LastAtZero, Held, TypeOK
  <2>3. left' = left - 1
    BY <1>2, <2>2, PredLemma DEF ArriveEarly, ArriveLast
  <2>4. arrived' = arrived \union {t} /\ t \notin arrived
    BY <1>2, <2>1 DEF ArriveEarly, ArriveLast, Goto, TypeOK, arrived, waiting, InLoop
  <2>5. Cardinality(arrived') = Cardinality(arrived) + 1
    BY <2>4, ArrivedFinite, FS_AddElement
  <2>6. LeftCounts'
    BY <2>2, <2>3, <2>5, ArrivedFinite DEF LeftCounts, Unsigned
  <2>7. LastAtZero'
    BY <1>2, <2>1, <2>3, <2>2 DEF ArriveEarly, ArriveLast, Goto, LastAtZero, TypeOK, Held
  <2>8. WaitsForThisRound' /\ NobodyLeftAsleep'
    BY <1>2, <2>1 DEF ArriveEarly, ArriveLast, Goto, WaitsForThisRound, NobodyLeftAsleep, TypeOK
  <2> QED BY <1>0, <2>6, <2>7, <2>8
<1>3. ASSUME NEW t \in Threads, NextRound(t) PROVE IInv'
  <2>1. /\ pc[t] = "last" /\ pc' = [pc EXCEPT ![t] = "broadcast"]
        /\ left' = Count /\ round' = Succ(round) /\ my' = my
    BY <1>3 DEF NextRound, Goto
  <2>2. round' # round
    BY <2>1, SuccLemma DEF TypeOK
  <2>3. \A u \in Threads \ {t} : pc[u] \in InLoop /\ my[u] = round
    BY <2>1, EverybodyArrived DEF waiting
  <2>4. arrived' = {}
    BY <2>1, <2>2, <2>3 DEF arrived, waiting, InLoop, TypeOK
  <2>5. LeftCounts'
    BY <2>1, <2>4, FS_EmptySet DEF LeftCounts
  <2>6. \A u \in Threads \ {t} : pc[u] # "wait"
    BY <2>1 DEF TypeOK, Held
  <2>7. LastAtZero' /\ WaitsForThisRound' /\ NobodyLeftAsleep'
    BY <2>1, <2>3, <2>6 DEF LastAtZero, WaitsForThisRound, NobodyLeftAsleep, TypeOK, InLoop
  <2> QED BY <1>0, <2>5, <2>7
<1>4. ASSUME NEW t \in Threads, Broadcast(t) PROVE IInv'
  <2>1. arrived' = arrived
    BY <1>4 DEF Broadcast, arrived, waiting, InLoop, TypeOK
  <2> QED BY <1>0, <1>4, <2>1 DEF Broadcast, LeftCounts, LastAtZero, WaitsForThisRound,
                                  NobodyLeftAsleep, TypeOK
<1>5. ASSUME NEW t \in Threads, Wait(t) \/ Spurious(t) \/ Test(t) PROVE IInv'
  <2>1. arrived' = arrived
    BY <1>5 DEF Wait, Spurious, Test, Goto, arrived, waiting, InLoop, TypeOK
  <2> QED BY <1>0, <1>5, <2>1 DEF Wait, Spurious, Test, Goto, LeftCounts, LastAtZero,
                                  WaitsForThisRound, NobodyLeftAsleep, TypeOK
<1>6. ASSUME NEW t \in Threads, Lock(t) \/ Relock(t) \/ Unlock(t) PROVE IInv'
  <2>1. arrived' = arrived
    BY <1>6 DEF Lock, Relock, Unlock, Goto, arrived, waiting, InLoop, TypeOK
  <2> QED BY <1>0, <1>6, <2>1 DEF Lock, Relock, Unlock, Goto, LeftCounts, LastAtZero,
                                  WaitsForThisRound, NobodyLeftAsleep, TypeOK
<1> QED BY <1>1, <1>2, <1>3, <1>4, <1>5, <1>6 DEF Next, Inside

LEMMA Invariance == Spec => []IInv
BY InitInv, InvStep, PTL DEF Spec

\* Types are kept, and the mutex is held by exactly the thread whose program
\* counter stands between its lock and its unlock or wait.
THEOREM TypeCorrect == Spec => []TypeOK
BY Invariance, PTL DEF IInv

\* left counts the arrivals the round still needs: it never wraps, and it
\* reaches 0 with the last arrival of the round.
THEOREM LeftCorrect == Spec => []LeftCounts
BY Invariance, PTL DEF IInv

\* Nobody sleeps through the end of its round.
THEOREM NoSleeperForgotten == Spec => []NobodyLeftAsleep
BY Invariance, PTL DEF IInv

-----------------------------------------------------------------------------

\* Barrier counts its threads with the same operator.
LEMMA SameCardinality == \A S : Abstract!Cardinality(S) = Cardinality(S)
BY Zenon DEF Abstract!Cardinality, Cardinality

\* Every step of the code is a step of Barrier or changes nothing Barrier sees.
LEMMA RefinementStep == IInv /\ [Next]_vars => [Abstract!Next]_Abstract!vars
<1> SUFFICES ASSUME IInv, [Next]_vars PROVE [Abstract!Next]_Abstract!vars
  OBVIOUS
<1> USE BarrierAssumption DEF IInv
<1>1. CASE UNCHANGED vars
  BY <1>1 DEF vars, Abstract!vars, waiting, released, serial
<1>2. ASSUME NEW t \in Threads, ArriveEarly(t) PROVE Abstract!Arrive(t)
  <2>1. /\ pc[t] = "arrive" /\ pc' = [pc EXCEPT ![t] = "wait"]
        /\ my' = [my EXCEPT ![t] = round] /\ round' = round /\ Pred(left) # 0
    BY <1>2 DEF ArriveEarly, Goto
  <2>2. \A u \in Threads : pc[u] # "last"
    BY <2>1 DEF TypeOK, Held
  <2>3. left # 0 /\ left # 1 /\ left \in Nat
    BY <2>1, <2>2, PredLemma DEF LastAtZero, TypeOK, Unsigned
  <2>4. arrived = waiting
    BY <2>2 DEF arrived
  <2>5. Cardinality(waiting) + 1 < Count
    BY <2>3, <2>4, ArrivedFinite DEF LeftCounts
  <2>6. t \notin waiting \union released
    BY <2>1 DEF waiting, released, serial, InLoop
  <2>7. waiting' = waiting \union {t}
    BY <2>1 DEF waiting, InLoop, TypeOK
  <2>8. released' = released /\ serial' = serial
    BY <2>1 DEF released, serial, InLoop, TypeOK
  <2> QED BY <2>5, <2>6, <2>7, <2>8, SameCardinality DEF Abstract!Arrive, Abstract!Outside
<1>3. ASSUME NEW t \in Threads, NextRound(t) PROVE Abstract!Complete(t)
  <2>1. /\ pc[t] = "last" /\ pc' = [pc EXCEPT ![t] = "broadcast"]
        /\ round' = Succ(round) /\ my' = my
    BY <1>3 DEF NextRound, Goto
  <2>2. round' # round
    BY <2>1, SuccLemma DEF TypeOK
  <2>3. \A u \in Threads \ {t} : pc[u] \in InLoop /\ my[u] = round
    BY <2>1, EverybodyArrived DEF waiting
  <2>4. Cardinality(waiting) + 1 = Count
    BY <2>1, EverybodyArrived
  <2>5. waiting = Threads \ {t} /\ released = {} /\ serial = {}
    BY <2>1, <2>3 DEF waiting, released, serial, InLoop
  <2>6. waiting' = {} /\ serial' = {t} /\ released' = Threads
    BY <2>1, <2>2, <2>3 DEF waiting, released, serial, InLoop, TypeOK
  <2> QED BY <2>4, <2>5, <2>6, SameCardinality DEF Abstract!Complete, Abstract!Outside
<1>4. ASSUME NEW t \in Threads, Unlock(t) PROVE Abstract!Return(t)
  BY <1>4 DEF Unlock, Abstract!Return, waiting, released, serial, InLoop, TypeOK
<1>5. ASSUME NEW t \in Threads, Broadcast(t) PROVE UNCHANGED Abstract!vars
  BY <1>5 DEF Broadcast, Abstract!vars, waiting, released, serial, InLoop, TypeOK
<1>6. ASSUME NEW t \in Threads, Test(t) PROVE UNCHANGED Abstract!vars
  BY <1>6 DEF Test, Goto, Abstract!vars, waiting, released, serial, InLoop, TypeOK
<1>7. ASSUME NEW t \in Threads, Lock(t) \/ Relock(t) \/ ArriveLast(t) PROVE UNCHANGED Abstract!vars
  BY <1>7 DEF Lock, Relock, ArriveLast, Goto, Abstract!vars, waiting, released, serial, InLoop, TypeOK
<1>8. ASSUME NEW t \in Threads, Wait(t) \/ Spurious(t) PROVE UNCHANGED Abstract!vars
  BY <1>8 DEF Wait, Spurious, Goto, Abstract!vars, waiting, released, serial, InLoop, TypeOK
<1> QED BY <1>1, <1>2, <1>3, <1>4, <1>5, <1>6, <1>7, <1>8 DEF Next, Inside, Abstract!Next

\* The barrier of pthread_barrier.c keeps the promise of Barrier for every
\* count, number of rounds and width of the round counter.
THEOREM Refinement == Spec => Implements
<1>1. Init => Abstract!Init
  BY DEF Init, Abstract!Init, waiting, released, serial, InLoop
<1>2. IInv /\ [Next]_vars => [Abstract!Next]_Abstract!vars
  BY RefinementStep
<1> QED BY <1>1, <1>2, Invariance, PTL DEF Spec, Implements, Abstract!Spec
=============================================================================
