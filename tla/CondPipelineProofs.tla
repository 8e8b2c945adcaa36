------------------------- MODULE CondPipelineProofs -------------------------
(***************************************************************************)
(* What holds of the pipeline of esame29.c for every file length and every *)
(* bound: the mutex discipline, the order and integrity of the records,    *)
(* and that only spurious wakeups put the writer ahead of the reader.      *)
(***************************************************************************)
EXTENDS CondPipeline, TLAPS

\* The buffer is what the completed reads left in it, except that its head is
\* one read ahead while thread_f1 is inside read().
BufferInv ==
  /\ buf.head = AtMost(IF pc["f1"] = "tail" THEN reads + 1 ELSE reads, Blocks)
  /\ buf.tail = AtMost(reads, FullBlocks)

\* 1 while the read that was completed last has not been signalled.
Unsignalled == IF pc["f1"] \in {"unlock", "signal"} THEN 1 ELSE 0

\* 1 while the writer has been woken and has not yet written.
Woken == IF pc["f2"] \in {"relock", "write"} THEN 1 ELSE 0

\* Records written and wakeups in progress are paid for by signals sent and
\* spurious wakeups.
SignalInv == Len(out) + (Woken + Unsignalled) <= reads + spurious

IInv == TypeOK /\ BufferInv /\ RecordsFollowReads /\ SignalInv /\ WriterNotAhead

\* The smaller of two numbers is one of them and below both, and grows with
\* its first argument.
LEMMA AtMostLemma ==
  ASSUME NEW k \in Nat, NEW m \in Nat
  PROVE  /\ AtMost(k, m) \in 0..m
         /\ AtMost(k, m) <= k
         /\ \A j \in 0..k : AtMost(j, m) <= AtMost(k, m)
BY DEF AtMost

\* Appending x to s adds the index Len(s) + 1 and leaves the others alone.
LEMMA AppendLemma ==
  ASSUME NEW S, NEW s \in Seq(S), NEW x \in S
  PROVE  /\ Append(s, x) \in Seq(S)
         /\ Len(s) \in Nat
         /\ Len(Append(s, x)) = Len(s) + 1
         /\ DOMAIN s = 1..Len(s)
         /\ DOMAIN Append(s, x) = 1..(Len(s) + 1)
         /\ Append(s, x)[Len(s) + 1] = x
         /\ \A i \in DOMAIN s : Append(s, x)[i] = s[i]
OBVIOUS

LEMMA InitInv == Init => IInv
<1> SUFFICES ASSUME Init PROVE IInv
  OBVIOUS
<1> USE PipelineAssumption
<1>1. TypeOK
  <2>1. buf \in Buffers /\ out \in Seq(Buffers)
    BY DEF Init, AfterRead, AtMost, Buffers
  <2>2. \A t \in {"f1", "f2"} : mtx = t <=> pc[t] \in Holding[t]
    BY DEF Init, Holding
  <2>3. pc \in [f1 : {"check", "sleep", "lock", "head", "tail", "unlock", "signal", "done"},
                f2 : {"check", "lock", "wait", "waiting", "relock", "write", "unlock", "done"},
                f3 : {"check", "sigwait", "done"},
                main : {"join1", "join2", "join3", "exited"}]
    BY DEF Init
  <2>4. reads \in Nat /\ spurious \in 0..MaxSpurious
    BY DEF Init
  <2> QED BY <2>1, <2>2, <2>3, <2>4 DEF Init, TypeOK
<1>2. BufferInv /\ RecordsFollowReads /\ WriterNotAhead
  BY DEF Init, BufferInv, RecordsFollowReads, WriterNotAhead, AfterRead, AtMost
<1>3. SignalInv
  BY DEF Init, SignalInv, Woken, Unsignalled
<1> QED BY <1>1, <1>2, <1>3 DEF IInv

\* Each step keeps the types and the holder of the mutex.
LEMMA TypeStep == TypeOK /\ [Next]_vars => TypeOK'
<1> SUFFICES ASSUME TypeOK, [Next]_vars PROVE TypeOK'
  OBVIOUS
<1> USE PipelineAssumption DEF TypeOK, Holding
<1>0. reads + 1 \in Nat
  OBVIOUS
<1>1. CASE F1
  <2>1. CASE Check("f1", "sleep") \/ F1Sleep
    BY <2>1 DEF Check, F1Sleep, Goto
  <2>2. CASE F1Lock \/ F1Unlock \/ F1Signal
    BY <2>2 DEF F1Lock, F1Unlock, F1Signal, Lock, Unlock, Goto
  <2>3. CASE F1ReadHead \/ F1ReadTail
    <3>1. AtMost(reads + 1, Blocks) \in 0..Blocks /\ AtMost(reads + 1, FullBlocks) \in 0..FullBlocks
      BY <1>0, AtMostLemma
    <3>2. buf' \in Buffers
      BY <2>3, <3>1 DEF F1ReadHead, F1ReadTail, Buffers
    <3> QED BY <2>3, <3>2 DEF F1ReadHead, F1ReadTail, Goto
  <2> QED BY <1>1, <2>1, <2>2, <2>3 DEF F1
<1>2. CASE F2
  <2>1. CASE Check("f2", "lock") \/ F2Lock \/ F2Wait
    BY <2>1 DEF Check, F2Lock, F2Wait, Lock, Unlock, Goto
  <2>2. CASE F2Relock \/ F2Unlock
    BY <2>2 DEF F2Relock, F2Unlock, Lock, Unlock, Goto
  <2>3. CASE F2Write
    BY <2>3, AppendLemma DEF F2Write, Goto
  <2> QED BY <1>2, <2>1, <2>2, <2>3 DEF F2
<1>3. CASE F2Spurious
  BY <1>3 DEF F2Spurious, Goto
<1>4. CASE F3
  BY <1>4 DEF F3, F3Sigwait, Check, Goto
<1>5. CASE Main
  BY <1>5 DEF Main, Join, Goto
<1>6. CASE Interrupt
  BY <1>6 DEF Interrupt
<1>7. CASE UNCHANGED vars
  BY <1>7 DEF vars
<1> QED BY <1>1, <1>2, <1>3, <1>4, <1>5, <1>6, <1>7 DEF Next

\* Each step keeps the relation between the buffer, the counted reads and the
\* records.
LEMMA InvStep == IInv /\ [Next]_vars => IInv'
<1> SUFFICES ASSUME IInv, [Next]_vars PROVE IInv'
  OBVIOUS
<1> USE PipelineAssumption DEF IInv
<1>0. TypeOK'
  BY TypeStep
<1>1. CASE F2Write
  <2>1. /\ buf = AfterRead(reads) /\ pc["f1"] \notin {"tail", "unlock"}
        /\ out' = Append(out, buf) /\ UNCHANGED <<buf, reads, spurious>>
        /\ pc["f2"] = "write" /\ pc' = [pc EXCEPT !["f2"] = "unlock"]
    BY <1>1 DEF F2Write, Goto, BufferInv, AfterRead, TypeOK, Holding, Buffers
  <2>2. BufferInv'
    BY <2>1 DEF BufferInv, TypeOK
  <2>3. SignalInv'
    BY <2>1, AppendLemma DEF SignalInv, Woken, Unsignalled, TypeOK
  <2>4. RecordsFollowReads'
    <3>1. \A i \in DOMAIN out : out[i].head <= buf.head
      BY <2>1, AtMostLemma DEF RecordsFollowReads, AfterRead, TypeOK
    <3>2. \A i \in DOMAIN out' : \E k \in 0..reads : out'[i] = AfterRead(k)
      BY <2>1, AppendLemma DEF RecordsFollowReads, TypeOK
    <3>3. \A i, j \in DOMAIN out' : i < j => out'[i].head <= out'[j].head
      BY <2>1, <3>1, AppendLemma DEF RecordsFollowReads, TypeOK
    <3> QED BY <2>1, <3>2, <3>3 DEF RecordsFollowReads
  <2>5. WriterNotAhead'
    <3>1. Len(out) + 1 <= reads + spurious /\ spurious \in Nat
      BY <2>1, AppendLemma DEF SignalInv, Woken, Unsignalled, TypeOK
    <3>2. buf.head = AtMost(reads, Blocks)
      BY <2>1 DEF AfterRead
    <3>3. AtMost(Len(out) + 1, Blocks) <= buf.head + spurious
      BY <3>1, <3>2, AppendLemma DEF AtMost, TypeOK
    <3> QED BY <2>1, <3>1, <3>3, AppendLemma DEF WriterNotAhead, TypeOK
  <2> QED BY <1>0, <2>2, <2>3, <2>4, <2>5
<1>2. CASE F1ReadTail
  <2>1. /\ pc["f1"] = "tail" /\ pc' = [pc EXCEPT !["f1"] = "unlock"]
        /\ buf' = [buf EXCEPT !.tail = AtMost(reads + 1, FullBlocks)]
        /\ reads' = reads + 1 /\ UNCHANGED <<out, spurious>>
    BY <1>2 DEF F1ReadTail, Goto
  <2>2. BufferInv'
    BY <2>1 DEF BufferInv, TypeOK, Buffers
  <2>3. RecordsFollowReads' /\ WriterNotAhead'
    BY <2>1 DEF RecordsFollowReads, WriterNotAhead, TypeOK
  <2>4. SignalInv'
    BY <2>1 DEF SignalInv, Woken, Unsignalled, TypeOK
  <2> QED BY <1>0, <2>2, <2>3, <2>4
<1>3. CASE F1ReadHead
  <2>1. /\ pc["f1"] = "head" /\ pc' = [pc EXCEPT !["f1"] = "tail"]
        /\ buf' = [buf EXCEPT !.head = AtMost(reads + 1, Blocks)]
        /\ UNCHANGED <<reads, out, spurious>>
    BY <1>3 DEF F1ReadHead, Goto
  <2> QED BY <1>0, <2>1 DEF BufferInv, RecordsFollowReads, WriterNotAhead,
                            SignalInv, Woken, Unsignalled, TypeOK, Buffers
<1>4. CASE F2Spurious
  <2>1. /\ pc["f2"] = "waiting" /\ pc' = [pc EXCEPT !["f2"] = "relock"]
        /\ spurious' = spurious + 1 /\ UNCHANGED <<buf, reads, out>>
    BY <1>4 DEF F2Spurious, Goto
  <2>2. spurious \in Nat /\ Len(out) \in Nat
    BY AppendLemma DEF TypeOK
  <2>3. SignalInv'
    BY <2>1, <2>2 DEF SignalInv, Woken, Unsignalled, TypeOK
  <2>4. WriterNotAhead'
    <3> SUFFICES ASSUME NEW i \in DOMAIN out
                 PROVE  i <= reads + (spurious + 1) /\ AtMost(i, Blocks) <= out[i].head + (spurious + 1)
      BY <2>1 DEF WriterNotAhead
    <3>1. i \in Nat /\ out[i] \in Buffers
      BY DEF TypeOK
    <3>2. out[i].head \in Nat /\ AtMost(i, Blocks) \in Nat
      BY <3>1, AtMostLemma DEF Buffers
    <3>3. i <= reads + spurious /\ AtMost(i, Blocks) <= out[i].head + spurious
      BY DEF WriterNotAhead
    <3> QED
      BY <2>2, <3>1, <3>2, <3>3 DEF TypeOK
  <2> QED BY <1>0, <2>1, <2>3, <2>4 DEF BufferInv, RecordsFollowReads, TypeOK
<1>5. CASE /\ UNCHANGED <<buf, reads, out, spurious>>
           /\ pc'["f1"] = "tail" <=> pc["f1"] = "tail"
           /\ Woken' + Unsignalled' <= Woken + Unsignalled
  <2>1. Len(out) \in Nat /\ reads \in Nat /\ spurious \in Nat
    BY AppendLemma DEF TypeOK
  <2>2. SignalInv'
    BY <1>5, <2>1 DEF SignalInv, Woken, Unsignalled
  <2>3. BufferInv'
    BY <1>5 DEF BufferInv
  <2> QED BY <1>0, <1>5, <2>2, <2>3 DEF RecordsFollowReads, WriterNotAhead
<1>6. CASE Check("f1", "sleep") \/ F1Sleep \/ F1Lock \/ F1Unlock \/ F1Signal
  <2>1. /\ UNCHANGED <<buf, reads, out, spurious>>
        /\ pc'["f1"] = "tail" <=> pc["f1"] = "tail"
        /\ Woken' + Unsignalled' <= Woken + Unsignalled
    BY <1>6 DEF Check, F1Sleep, F1Lock, F1Unlock, F1Signal, Lock, Unlock, Goto,
                TypeOK, Woken, Unsignalled
  <2> QED BY <2>1, <1>5
<1>7. CASE Check("f2", "lock") \/ F2Lock \/ F2Wait \/ F2Relock \/ F2Unlock
  <2>1. /\ UNCHANGED <<buf, reads, out, spurious>>
        /\ pc'["f1"] = "tail" <=> pc["f1"] = "tail"
        /\ Woken' + Unsignalled' <= Woken + Unsignalled
    BY <1>7 DEF Check, F2Lock, F2Wait, F2Relock, F2Unlock, Lock, Unlock, Goto,
                TypeOK, Woken, Unsignalled
  <2> QED BY <2>1, <1>5
<1>8. CASE F3 \/ Main \/ Interrupt \/ UNCHANGED vars
  <2>1. UNCHANGED <<buf, reads, out, spurious>> /\ pc'["f1"] = pc["f1"] /\ pc'["f2"] = pc["f2"]
    BY <1>8 DEF F3, Check, F3Sigwait, Main, Join, Interrupt, Goto, vars, TypeOK
  <2>2. Woken' = Woken /\ Unsignalled' = Unsignalled
    BY <2>1 DEF Woken, Unsignalled
  <2> QED BY <2>1, <2>2, <1>5 DEF Woken, Unsignalled
<1> QED BY <1>1, <1>2, <1>3, <1>4, <1>6, <1>7, <1>8 DEF Next, F1, F2

LEMMA Invariance == Spec => []IInv
BY InitInv, InvStep, PTL DEF Spec

\* Types are kept, and mtx is held by exactly the thread whose program counter
\* stands between its lock and its unlock.
THEOREM TypeCorrect == Spec => []TypeOK
BY Invariance, PTL DEF IInv

\* No record mixes the bytes of two reads in progress, and records keep the
\* order of the reads, for every file and every number of reads and spurious
\* wakeups.
THEOREM RecordsInOrder == Spec => []RecordsFollowReads
BY Invariance, PTL DEF IInv

\* The writer is ahead of the reader by no more than its spurious wakeups,
\* for every file and every number of reads and wakeups.
THEOREM WriterBehind == Spec => []WriterNotAhead
BY Invariance, PTL DEF IInv
=============================================================================
