---------------------------- MODULE CondPipeline ----------------------------
(***************************************************************************)
(* esameSNP29/esame29.c: a reader thread (thread_f1) fills a shared buffer *)
(* with the next 1024 bytes of a file, a writer thread (thread_f2) appends *)
(* the buffer to another file each time a condition variable is signalled, *)
(* and a signal thread (thread_f3) clears run when SIGINT arrives.         *)
(* The input file is a number of Blocks, the first FullBlocks of which are *)
(* 1024 bytes long; a shorter last block overwrites the head of the buffer *)
(* only.  The two halves of the buffer hold the numbers of the blocks      *)
(* their bytes come from, 0 for the zeroes the buffer starts with.         *)
(***************************************************************************)
EXTENDS Naturals, Sequences

CONSTANTS Blocks,      \* read() calls that return data before end of file
          FullBlocks,  \* those of them that fill the whole buffer
          MaxReads,    \* bound: reads thread_f1 makes while run is set
          MaxSpurious  \* bound: spurious wakeups of the condition variable

ASSUME PipelineAssumption ==
  /\ Blocks \in Nat /\ FullBlocks \in Nat
  /\ FullBlocks <= Blocks /\ Blocks <= FullBlocks + 1
  /\ MaxReads \in Nat /\ MaxSpurious \in Nat

VARIABLES
  pc,        \* where each thread stands
  mtx,       \* the holder of the mutex, or "none"
  buf,       \* the shared buffer
  reads,     \* completed read() calls
  out,       \* the records appended to file_output.txt
  run,       \* the flag every loop tests
  sigint,    \* SIGINT is pending for the process
  spurious   \* spurious wakeups so far

vars == <<pc, mtx, buf, reads, out, run, sigint, spurious>>

AtMost(k, m) == IF k <= m THEN k ELSE m

\* What the buffer holds once k reads have completed.
AfterRead(k) == [head |-> AtMost(k, Blocks), tail |-> AtMost(k, FullBlocks)]

Buffers == [head : 0..Blocks, tail : 0..FullBlocks]

Threads == {"f1", "f2", "f3", "main"}

Init ==
  /\ pc = [f1 |-> "check", f2 |-> "check", f3 |-> "check", main |-> "join1"]
  /\ mtx = "none"
  /\ buf = AfterRead(0)
  /\ reads = 0
  /\ out = <<>>
  /\ run = TRUE
  /\ sigint = FALSE
  /\ spurious = 0

Goto(t, from, to) == pc[t] = from /\ pc' = [pc EXCEPT ![t] = to]

\* while(run): enter the body or leave the loop.
Check(t, body) ==
  /\ Goto(t, "check", IF run THEN body ELSE "done")
  /\ UNCHANGED <<mtx, buf, reads, out, run, sigint, spurious>>

Lock(t, from, to) ==
  /\ mtx = "none"
  /\ Goto(t, from, to)
  /\ mtx' = t
  /\ UNCHANGED <<buf, reads, out, run, sigint, spurious>>

Unlock(t, from, to) ==
  /\ Goto(t, from, to)
  /\ mtx' = "none"
  /\ UNCHANGED <<buf, reads, out, run, sigint, spurious>>

-----------------------------------------------------------------------------
(* thread_f1 *)

\* sleep(1).  Past MaxReads the sleep lasts until SIGINT has cleared run.
F1Sleep ==
  /\ reads < MaxReads \/ ~run
  /\ Goto("f1", "sleep", "lock")
  /\ UNCHANGED <<mtx, buf, reads, out, run, sigint, spurious>>

\* A plausible error: the read outside the mutex.
F1LockSkipped ==
  /\ Goto("f1", "lock", "head")
  /\ UNCHANGED <<mtx, buf, reads, out, run, sigint, spurious>>

F1Lock == Lock("f1", "lock", "head")

\* read(fd, buf, 1024), in two steps so that another thread could see the
\* buffer half filled; at end of file it leaves the buffer as it is.
F1ReadHead ==
  /\ Goto("f1", "head", "tail")
  /\ buf' = [buf EXCEPT !.head = AtMost(reads + 1, Blocks)]
  /\ UNCHANGED <<mtx, reads, out, run, sigint, spurious>>

F1ReadTail ==
  /\ Goto("f1", "tail", "unlock")
  /\ buf' = [buf EXCEPT !.tail = AtMost(reads + 1, FullBlocks)]
  /\ reads' = reads + 1
  /\ UNCHANGED <<mtx, out, run, sigint, spurious>>

F1Unlock == Unlock("f1", "unlock", "signal")

\* A plausible error: the mutex is released but nobody is signalled.
F1SignalDropped ==
  /\ Goto("f1", "signal", "check")
  /\ UNCHANGED <<mtx, buf, reads, out, run, sigint, spurious>>

\* pthread_cond_signal: wakes the writer if it waits, is lost otherwise.
F1Signal ==
  /\ pc["f1"] = "signal"
  /\ pc' = [pc EXCEPT !["f1"] = "check",
                      !["f2"] = IF @ = "waiting" THEN "relock" ELSE @]
  /\ UNCHANGED <<mtx, buf, reads, out, run, sigint, spurious>>

F1 == Check("f1", "sleep") \/ F1Sleep \/ F1Lock \/ F1ReadHead \/ F1ReadTail
      \/ F1Unlock \/ F1Signal

-----------------------------------------------------------------------------
(* thread_f2 *)

F2Lock == Lock("f2", "lock", "wait")

\* A plausible error: the writer does not wait for the signal.
F2WaitSkipped ==
  /\ Goto("f2", "wait", "write")
  /\ UNCHANGED <<mtx, buf, reads, out, run, sigint, spurious>>

\* pthread_cond_wait releases the mutex and blocks in one step ...
F2Wait == Unlock("f2", "wait", "waiting")

\* ... may return without a signal ...
F2Spurious ==
  /\ spurious < MaxSpurious
  /\ Goto("f2", "waiting", "relock")
  /\ spurious' = spurious + 1
  /\ UNCHANGED <<mtx, buf, reads, out, run, sigint>>

\* ... and owns the mutex when it returns.
F2Relock == Lock("f2", "relock", "write")

\* write(fd, buf, 1024): all of the buffer, whatever read() returned.
F2Write ==
  /\ Goto("f2", "write", "unlock")
  /\ out' = Append(out, buf)
  /\ UNCHANGED <<mtx, buf, reads, run, sigint, spurious>>

F2Unlock == Unlock("f2", "unlock", "check")

F2 == Check("f2", "lock") \/ F2Lock \/ F2Wait \/ F2Relock \/ F2Write \/ F2Unlock

-----------------------------------------------------------------------------
(* thread_f3, main and the user *)

\* A plausible error: the handler notes the signal and keeps the flag.
F3SigwaitIgnored ==
  /\ sigint
  /\ Goto("f3", "sigwait", "check")
  /\ sigint' = FALSE
  /\ UNCHANGED <<mtx, buf, reads, out, run, spurious>>

\* sigwait returns SIGINT; any other signal sends the loop round unchanged.
F3Sigwait ==
  /\ sigint
  /\ Goto("f3", "sigwait", "check")
  /\ sigint' = FALSE
  /\ run' = FALSE
  /\ UNCHANGED <<mtx, buf, reads, out, spurious>>

F3 == Check("f3", "sigwait") \/ F3Sigwait

Join(t, from, to) ==
  /\ pc[t] = "done"
  /\ Goto("main", from, to)
  /\ UNCHANGED <<mtx, buf, reads, out, run, sigint, spurious>>

\* The three pthread_join calls; the last is followed by exit(0).
Main == \/ Join("f1", "join1", "join2")
        \/ Join("f2", "join2", "join3")
        \/ Join("f3", "join3", "exited")

\* The user sends SIGINT; every thread blocks it, so it stays pending.
Interrupt ==
  /\ pc["main"] # "exited" /\ ~sigint
  /\ sigint' = TRUE
  /\ UNCHANGED <<pc, mtx, buf, reads, out, run, spurious>>

Next == F1 \/ F2 \/ F2Spurious \/ F3 \/ Main \/ Interrupt

(* The kernel runs every runnable thread; a thread queued on the mutex gets *)
(* it if it is released again and again (thread_f1 sleeps a second between  *)
(* two uses).  Neither the user nor spurious wakeups owe us anything.       *)
Fairness ==
  /\ WF_vars(F1) /\ WF_vars(F2) /\ WF_vars(F3) /\ WF_vars(Main)
  /\ SF_vars(F1Lock) /\ SF_vars(F2Lock) /\ SF_vars(F2Relock)

Spec == Init /\ [][Next]_vars /\ Fairness

-----------------------------------------------------------------------------

Holding == [f1 |-> {"head", "tail", "unlock"}, f2 |-> {"wait", "write", "unlock"}]

\* The variables keep their types and the mutex has the holder the program
\* counters tell.
TypeOK ==
  /\ pc \in [f1 : {"check", "sleep", "lock", "head", "tail", "unlock", "signal", "done"},
             f2 : {"check", "lock", "wait", "waiting", "relock", "write", "unlock", "done"},
             f3 : {"check", "sigwait", "done"},
             main : {"join1", "join2", "join3", "exited"}]
  /\ mtx \in {"none", "f1", "f2"}
  /\ \A t \in {"f1", "f2"} : mtx = t <=> pc[t] \in Holding[t]
  /\ buf \in Buffers
  /\ reads \in Nat
  /\ out \in Seq(Buffers)
  /\ run \in BOOLEAN
  /\ sigint \in BOOLEAN
  /\ spurious \in 0..MaxSpurious

\* Every record the writer appends is the buffer as some number of completed
\* reads left it, never a half-filled one, and the records appear in the order
\* of the reads (thread_f1 and thread_f2 under mtx).
RecordsFollowReads ==
  /\ \A i \in DOMAIN out : \E k \in 0..reads : out[i] = AfterRead(k)
  /\ \A i, j \in DOMAIN out : i < j => out[i].head <= out[j].head

\* The writer is ahead of the reader by no more than its spurious wakeups: in
\* the absence of those the i-th record was taken no earlier than the i-th
\* read.
WriterNotAhead ==
  \A i \in DOMAIN out : i <= reads + spurious /\ AtMost(i, Blocks) <= out[i].head + spurious

\* After SIGINT the reader and the signal thread end, whatever the writer does.
ReaderStops == sigint ~> (pc["f1"] = "done" /\ pc["f3"] = "done")

\* If run is cleared while the writer already waits and the reader still has
\* its signal to send, the whole program exits.
OrderlyShutdown ==
  (~run /\ pc["f2"] = "waiting" /\ pc["f1"] \in {"sleep", "lock", "head", "tail", "unlock", "signal"})
    ~> pc["main"] = "exited"

\* What the message printed by thread_f3 promises: after SIGINT the threads
\* end and the program exits.
ShutdownCompletes == ~run ~> pc["main"] = "exited"
=============================================================================
