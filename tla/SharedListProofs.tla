-------------------------- MODULE SharedListProofs --------------------------
(***************************************************************************)
(* For any processes, values, limit and objects, however processes overlap *)
(* or are killed: the list of esameSNP10 has its type, and no index leaves *)
(* the nodes 0..Limit.  What bounds the index a process links is that it   *)
(* found fewer than Limit nodes, and remembers it while it looks for the   *)
(* end, however the list has changed since.                                *)
(* Until somebody is killed nodes that link to one another in a cycle have *)
(* one among them that is still being inserted, whose link will be reset.  *)
(* When users wait for each other the links of each object lead from each  *)
(* node to the one after it, and each command is one of SharedStack.       *)
(***************************************************************************)
EXTENDS SharedList, FiniteSetTheorems, WellFoundedInduction, TLAPS

MemOK == mem \in [1..Objects -> [Index -> [n : Values \union {0}, next : Index]]]

\* What is true of the variables r of a process, m objects having been made.
ProcOK(r, m) ==
  /\ r \in Process
  /\ r.obj \in 0..m
  /\ r.obj = 0 <=> r.pc \in {"off", "killed"}
  /\ r.cur \in Index
  /\ r.prev \in Index \union {Unset}
  /\ r.pc \in {"find", "link"} => r.c < Limit

IInv ==
  /\ MemOK
  /\ made \in 0..Objects /\ name \in 0..made
  /\ proc \in [Procs -> Process]
  /\ turns \in BOOLEAN
  /\ \A p \in Procs : ProcOK(proc[p], made)

\* The invariant is what the runs check, and more.
LEMMA Enough == IInv => TypeOK /\ InBounds
<1> SUFFICES ASSUME IInv PROVE TypeOK /\ InBounds
  OBVIOUS
<1>1. mem \in [1..Objects -> [Index -> [n : Values \union {0}, next : Nat]]]
  <2>1. [n : Values \union {0}, next : Index] \subseteq [n : Values \union {0}, next : Nat]
    BY ListAssumption DEF Index
  <2> QED
    BY <2>1 DEF IInv, MemOK
<1>2. TypeOK
  BY <1>1 DEF IInv, ProcOK, TypeOK
<1>3. \A o \in 1..Objects : \A k \in Index : mem[o][k].next \in Index
  BY DEF IInv, MemOK
<1>4. InBounds
  BY <1>3 DEF IInv, ProcOK, InBounds
<1> QED
  BY <1>2, <1>4

\* A step of p to the variables r keeps the invariant when r is good and the
\* memory and the names are.
LEMMA StepKeeps ==
  ASSUME IInv, NEW p \in Procs, NEW from, NEW r, Step(p, from, r), ProcOK(r, made'),
         MemOK', made' \in 0..Objects, made <= made', name' \in 0..made'
  PROVE IInv'
<1>1. proc' \in [Procs -> Process] /\ turns' \in BOOLEAN
  BY DEF IInv, Step, ProcOK
<1>2. ASSUME NEW q \in Procs PROVE ProcOK(proc'[q], made')
  <2>1. CASE q = p
    BY <2>1 DEF IInv, Step
  <2>2. CASE q # p
    <3>1. proc'[q] = proc[q]
      BY <2>2 DEF IInv, Step
    <3>2. ProcOK(proc[q], made)
      BY DEF IInv
    <3>3. 0..made \subseteq 0..made'
      BY DEF IInv
    <3> QED
      BY <3>1, <3>2, <3>3 DEF ProcOK
  <2> QED
    BY <2>1, <2>2
<1> QED
  BY <1>1, <1>2 DEF IInv

\* A step that leaves the memory alone.
LEMMA LocalKeeps ==
  ASSUME IInv, NEW p \in Procs, NEW from, NEW r, Local(p, from, r), ProcOK(r, made)
  PROVE IInv'
<1>1. MemOK' /\ made' = made /\ name' = name /\ Step(p, from, r)
  BY DEF Local, IInv, MemOK
<1> QED
  BY <1>1, StepKeeps DEF IInv

\* A step that writes a node.
LEMMA WriteKeeps ==
  ASSUME IInv, NEW p \in Procs, NEW from, NEW r, NEW k \in Index,
         NEW node \in [n : Values \union {0}, next : Index],
         Write(p, from, r, k, node), ProcOK(r, made)
  PROVE IInv'
<1>1. MemOK'
  BY DEF Write, IInv, MemOK
<1>2. made' = made /\ name' = name /\ Step(p, from, r)
  BY DEF Write
<1> QED
  BY <1>1, <1>2, StepKeeps DEF IInv

\* The node a running process stands at.
LEMMA NodeIs ==
  ASSUME IInv, NEW p \in Procs, proc[p].pc \notin {"off", "killed"}
  PROVE /\ proc[p].obj \in 1..Objects
        /\ Node(p) \in [n : Values \union {0}, next : Index]
<1>1. ProcOK(proc[p], made) /\ made \in 0..Objects
  BY DEF IInv
<1>2. proc[p].obj \in 1..Objects
  BY <1>1, ListAssumption DEF ProcOK
<1> QED
  BY <1>1, <1>2 DEF IInv, ProcOK, MemOK, Node

\* A process that works on no command is good.
LEMMA FreshIs ==
  ASSUME NEW pc \in {"off", "killed", "menu"}, NEW m \in 0..Objects, NEW obj \in 0..m,
         obj = 0 <=> pc \in {"off", "killed"}, NEW x \in Nat
  PROVE ProcOK(Fresh(pc, obj, x), m)
<1>1. 0 \in 0..(Limit + 1) /\ 0 \in Index /\ Unset \in Nat /\ pc \in Points
  BY ListAssumption DEF Unset, Index, Points
<1>2. obj \in 0..Objects
  BY ListAssumption
<1>3. Fresh(pc, obj, x) \in Process
  BY <1>1, <1>2 DEF Fresh, Process
<1> QED
  BY <1>1, <1>3 DEF Fresh, ProcOK

\* What is known of a process that runs a command.
LEMMA ProcIs ==
  ASSUME IInv, NEW p \in Procs
  PROVE /\ ProcOK(proc[p], made)
        /\ made \in 0..Objects
        /\ proc[p].said \in Nat
        /\ proc[p].pc \notin {"off", "killed"} => proc[p].obj \in 1..made
<1>1. ProcOK(proc[p], made) /\ made \in 0..Objects
  BY DEF IInv
<1> QED
  BY <1>1, ListAssumption DEF ProcOK, Process

LEMMA DoneIs ==
  ASSUME IInv, NEW p \in Procs, proc[p].pc \notin {"off", "killed"}, NEW x \in Nat
  PROVE ProcOK(Done(p, x), made)
BY ProcIs, FreshIs DEF Done

\* Taking an object leaves the rest as it was.
LEMMA TakeIs ==
  ASSUME IInv, NEW p \in Procs, proc[p].pc = "off", NEW m \in 0..Objects, NEW obj \in 1..m
  PROVE ProcOK([proc[p] EXCEPT !.pc = "menu", !.obj = obj], m)
<1>1. ProcOK(proc[p], made)
  BY ProcIs
<1>2. obj \in 0..Objects /\ obj \in 0..m /\ obj # 0
  BY ListAssumption
<1>3. [proc[p] EXCEPT !.pc = "menu", !.obj = obj] \in Process
  BY <1>1, <1>2 DEF ProcOK, Process, Points
<1> QED
  BY <1>1, <1>2, <1>3 DEF ProcOK, Process

LEMMA StartKeeps ==
  ASSUME IInv, NEW p \in Procs, Start(p)
  PROVE IInv'
<1>1. made \in 0..Objects /\ name \in 0..made
  BY DEF IInv
<1>2. CASE name # 0
  <2>1. name \in 1..made /\ proc[p].pc = "off"
    BY <1>1, <1>2, ListAssumption DEF Start, Local, Step
  <2>2. ProcOK([proc[p] EXCEPT !.pc = "menu", !.obj = name], made)
    BY <1>1, <2>1, TakeIs
  <2> QED
    BY <1>2, <2>2, LocalKeeps DEF Start
<1>3. CASE name = 0
  <2>1. /\ made' = made + 1 /\ name' = made + 1 /\ made < Objects /\ mem' = mem
        /\ Step(p, "off", [proc[p] EXCEPT !.pc = "menu", !.obj = made + 1])
        /\ proc[p].pc = "off"
    BY <1>1, <1>3, ListAssumption DEF Start, Step, IInv
  <2>2. /\ made' \in 0..Objects /\ made <= made' /\ name' \in 0..made'
        /\ made + 1 \in 1..made' /\ MemOK'
    BY <1>1, <2>1, ListAssumption DEF IInv, MemOK
  <2>3. ProcOK([proc[p] EXCEPT !.pc = "menu", !.obj = made + 1], made')
    BY <2>1, <2>2, TakeIs
  <2> QED
    BY <2>1, <2>2, <2>3, StepKeeps
<1> QED
  BY <1>2, <1>3

LEMMA QuitKeeps ==
  ASSUME IInv, NEW p \in Procs, Quit(p)
  PROVE IInv'
<1>1. ProcOK(Fresh("off", 0, proc[p].said), made)
  BY ProcIs, FreshIs
<1>2. made' = made /\ name' = 0 /\ MemOK' /\ Step(p, "menu", Fresh("off", 0, proc[p].said))
  BY DEF Quit, IInv, MemOK
<1>3. made \in 0..Objects
  BY DEF IInv
<1> QED
  BY <1>1, <1>2, <1>3, StepKeeps, ListAssumption

LEMMA KillKeeps ==
  ASSUME IInv, NEW p \in Procs, Kill(p)
  PROVE IInv'
<1>1. ProcOK(Fresh("killed", 0, proc[p].said), made)
  BY ProcIs, FreshIs
<1> QED
  BY <1>1, LocalKeeps DEF Kill

\* A command starts where no count has been taken yet.
LEMMA ChooseKeeps ==
  ASSUME IInv, NEW p \in Procs, NEW pc \in {"count", "pop", "insert"},
         NEW v \in Values \union {0}, Choose(p, pc, v)
  PROVE IInv'
<1>1. proc[p].pc = "menu" /\ Local(p, "menu", [proc[p] EXCEPT !.pc = pc, !.arg = v])
  BY DEF Choose, Local, Step
<1>2. ProcOK(proc[p], made)
  BY ProcIs
<1>3. ProcOK([proc[p] EXCEPT !.pc = pc, !.arg = v], made)
  BY <1>1, <1>2 DEF ProcOK, Process, Points
<1> QED
  BY <1>1, <1>3, LocalKeeps
\* A step of a walk: the process moves to the next node.
LEMMA WalkKeeps ==
  ASSUME IInv, NEW p \in Procs, NEW from \in {"count", "insert", "find", "pop"}, NEW r,
         Walk(p, from, r), ProcOK(r, made)
  PROVE IInv'
<1>1. proc[p].pc \notin {"off", "killed"} /\ Local(p, from, [r EXCEPT !.cur = Node(p).next])
  BY DEF Walk, Local, Step
<1>2. Node(p).next \in Index
  BY <1>1, NodeIs
<1>3. ProcOK([r EXCEPT !.cur = Node(p).next], made)
  BY <1>2, ListAssumption DEF ProcOK, Process, Index
<1> QED
  BY <1>1, <1>3, LocalKeeps

LEMMA EndKeeps ==
  ASSUME IInv, NEW p \in Procs, NEW from, NEW r, AtEnd(p, from, r), ProcOK(r, made)
  PROVE IInv'
BY LocalKeeps DEF AtEnd

LEMMA CountKeeps ==
  ASSUME IInv, NEW p \in Procs, CountOne(p, "count") \/ CountOne(p, "insert") \/ CountEnd(p)
  PROVE IInv'
<1> DEFINE r == [proc[p] EXCEPT !.c = IF @ > Limit THEN @ ELSE @ + 1]
<1>1. ProcOK(proc[p], made) /\ proc[p].c \in 0..(Limit + 1)
  BY ProcIs DEF ProcOK, Process
<1>2. ASSUME NEW from \in {"count", "insert"}, CountOne(p, from) PROVE IInv'
  <2>1. proc[p].pc \notin {"off", "killed", "find", "link"}
    BY <1>2 DEF CountOne, Walk, Local, Step
  <2>2. (IF proc[p].c > Limit THEN proc[p].c ELSE proc[p].c + 1) \in 0..(Limit + 1)
    BY <1>1, ListAssumption
  <2>3. ProcOK(r, made)
    BY <1>1, <2>1, <2>2 DEF ProcOK, Process
  <2>4. Walk(p, from, r)
    BY <1>2 DEF CountOne
  <2> HIDE DEF r
  <2> QED
    BY <2>3, <2>4, WalkKeeps
<1>3. ASSUME CountEnd(p) PROVE IInv'
  <2>1. proc[p].pc \notin {"off", "killed"} /\ AtEnd(p, "count", Done(p, proc[p].c))
    BY <1>3 DEF CountEnd, AtEnd, Local, Step
  <2>2. ProcOK(Done(p, proc[p].c), made)
    BY <1>1, <2>1, DoneIs, ListAssumption
  <2> QED
    BY <2>1, <2>2, EndKeeps
<1> QED
  BY <1>2, <1>3

\* Whoever looks for the end has counted fewer than Limit nodes.
LEMMA FindKeeps ==
  ASSUME IInv, NEW p \in Procs, InsertCounted(p) \/ InsertWalk(p) \/ InsertFound(p)
  PROVE IInv'
<1>1. ProcOK(proc[p], made) /\ proc[p].said \in Nat
  BY ProcIs
<1>2. CASE InsertCounted(p)
  <2>1. proc[p].pc = "insert"
    BY <1>2 DEF InsertCounted, AtEnd, Local, Step
  <2>2. ProcOK(Done(p, proc[p].said), made)
    BY <1>1, <2>1, DoneIs
  <2>3. ASSUME proc[p].c < Limit PROVE ProcOK([proc[p] EXCEPT !.pc = "find", !.cur = 0], made)
    <3>1. 0 \in Nat /\ 0 \in Index
      BY ListAssumption DEF Index
    <3> QED
      BY <1>1, <2>1, <2>3, <3>1 DEF ProcOK, Process, Points
  <2> QED
    BY <1>2, <2>2, <2>3, EndKeeps DEF InsertCounted
<1>3. CASE InsertWalk(p)
  BY <1>1, <1>3, WalkKeeps DEF InsertWalk
<1>4. CASE InsertFound(p)
  <2>1. proc[p].pc = "find" /\ AtEnd(p, "find", [proc[p] EXCEPT !.pc = "link"])
    BY <1>4 DEF InsertFound, AtEnd, Local, Step
  <2>2. ProcOK([proc[p] EXCEPT !.pc = "link"], made)
    BY <1>1, <2>1 DEF ProcOK, Process, Points
  <2> QED
    BY <2>1, <2>2, EndKeeps
<1> QED
  BY <1>2, <1>3, <1>4

\* The three writes of insert.
LEMMA LinkKeeps ==
  ASSUME IInv, NEW p \in Procs, InsertLink(p) \/ InsertValue(p) \/ InsertSeal(p)
  PROVE IInv'
<1>1. ProcOK(proc[p], made) /\ proc[p].said \in Nat /\ proc[p].cur \in Index
  BY ProcIs DEF ProcOK
<1>2. proc[p].pc \notin {"off", "killed"} /\ Node(p) \in [n : Values \union {0}, next : Index]
  BY NodeIs DEF InsertLink, InsertValue, InsertSeal, Write, Step
<1>3. CASE InsertLink(p)
  <2>1. proc[p].pc = "link"
    BY <1>3 DEF InsertLink, Write, Step
  <2>2. proc[p].c + 1 \in Index /\ proc[p].c + 1 \in Nat
    BY <1>1, <2>1, ListAssumption DEF ProcOK, Process, Index
  <2>3. ProcOK([proc[p] EXCEPT !.pc = "value", !.cur = proc[p].c + 1], made)
    BY <1>1, <2>1, <2>2 DEF ProcOK, Process, Points
  <2>4. [Node(p) EXCEPT !.next = proc[p].c + 1] \in [n : Values \union {0}, next : Index]
    BY <1>2, <2>2
  <2> QED
    BY <1>1, <1>3, <2>3, <2>4, WriteKeeps DEF InsertLink
<1>4. CASE InsertValue(p)
  <2>1. proc[p].pc = "value"
    BY <1>4 DEF InsertValue, Write, Step
  <2>2. ProcOK([proc[p] EXCEPT !.pc = "seal"], made)
    BY <1>1, <2>1 DEF ProcOK, Process, Points
  <2>3. [Node(p) EXCEPT !.n = proc[p].arg] \in [n : Values \union {0}, next : Index]
    BY <1>1, <1>2 DEF ProcOK, Process
  <2> QED
    BY <1>1, <1>4, <2>2, <2>3, WriteKeeps DEF InsertValue
<1>5. CASE InsertSeal(p)
  <2>1. ProcOK(Done(p, proc[p].said), made)
    BY <1>1, <1>2, DoneIs
  <2>2. [Node(p) EXCEPT !.next = 0] \in [n : Values \union {0}, next : Index]
    BY <1>2, ListAssumption DEF Index
  <2> QED
    BY <1>1, <1>5, <2>1, <2>2, WriteKeeps DEF InsertSeal
<1> QED
  BY <1>3, <1>4, <1>5
LEMMA PopKeeps ==
  ASSUME IInv, NEW p \in Procs,
         PopWalk(p) \/ PopFound(p) \/ PopCut(p) \/ PopEmpty(p) \/ PopReturn(p)
  PROVE IInv'
<1>1. ProcOK(proc[p], made) /\ proc[p].said \in Nat /\ proc[p].cur \in Index /\ proc[p].cur \in Nat
  BY ProcIs DEF ProcOK, Process
<1>2. CASE PopWalk(p)
  <2>1. proc[p].pc = "pop"
    BY <1>2 DEF PopWalk, Walk, Local, Step
  <2>2. ProcOK([proc[p] EXCEPT !.prev = proc[p].cur], made)
    BY <1>1, <2>1 DEF ProcOK, Process
  <2> QED
    BY <1>2, <2>2, WalkKeeps DEF PopWalk
<1>3. CASE PopFound(p)
  <2>1. proc[p].pc = "pop" /\ AtEnd(p, "pop", [proc[p] EXCEPT !.pc = "cut"])
    BY <1>3 DEF PopFound, AtEnd, Local, Step
  <2>2. ProcOK([proc[p] EXCEPT !.pc = "cut"], made)
    BY <1>1, <2>1 DEF ProcOK, Process, Points
  <2> QED
    BY <2>1, <2>2, EndKeeps
<1>4. ASSUME NEW r, proc[p].pc = "cut", r = [proc[p] EXCEPT !.pc = "return"]
      PROVE ProcOK(r, made)
  BY <1>1, <1>4 DEF ProcOK, Process, Points
<1>5. ASSUME NEW k \in Index, Cut(p, k) PROVE IInv'
  <2>1. proc[p].pc = "cut"
    BY <1>5 DEF Cut, Write, Step
  <2>2. proc[p].obj \in 1..Objects
    BY <2>1, NodeIs
  <2>3. [mem[proc[p].obj][k] EXCEPT !.next = 0] \in [n : Values \union {0}, next : Index]
    <3>1. mem[proc[p].obj][k] \in [n : Values \union {0}, next : Index]
      BY <2>2 DEF IInv, MemOK
    <3>2. 0 \in Index
      BY ListAssumption DEF Index
    <3> QED
      BY <3>1, <3>2
  <2> QED
    BY <1>4, <1>5, <2>1, <2>3, WriteKeeps DEF Cut
<1>6. CASE PopCut(p)
  BY <1>1, <1>5, <1>6 DEF PopCut, ProcOK
<1>7. CASE PopEmpty(p)
  <2>1. CASE Local(p, "cut", [proc[p] EXCEPT !.pc = "return"])
    <3>1. proc[p].pc = "cut"
      BY <2>1 DEF Local, Step
    <3> QED
      BY <1>4, <2>1, <3>1, LocalKeeps
  <2>2. CASE Local(p, "cut", Fresh("off", 0, proc[p].said))
    <3>1. ProcOK(Fresh("off", 0, proc[p].said), made)
      BY ProcIs, FreshIs
    <3> QED
      BY <2>2, <3>1, LocalKeeps
  <2> QED
    BY <1>5, <1>7, <2>1, <2>2 DEF PopEmpty
<1>8. CASE PopReturn(p)
  <2>1. proc[p].pc \notin {"off", "killed"}
    BY <1>8 DEF PopReturn, Local, Step
  <2>2. Node(p).n \in Nat
    <3>1. Node(p) \in [n : Values \union {0}, next : Index]
      BY <2>1, NodeIs
    <3>2. Values \union {0} \subseteq Nat
      BY ListAssumption
    <3> QED
      BY <3>1, <3>2
  <2>3. ProcOK(Done(p, Node(p).n), made)
    BY <2>1, <2>2, DoneIs
  <2> QED
    BY <1>8, <2>3, LocalKeeps DEF PopReturn
<1> QED
  BY <1>2, <1>3, <1>6, <1>7, <1>8

LEMMA InitGood == Init => IInv
<1> SUFFICES ASSUME Init PROVE IInv
  OBVIOUS
<1>1. MemOK
  BY ListAssumption DEF Init, MemOK, Index
<1>2. made \in 0..Objects /\ name \in 0..made
  BY ListAssumption DEF Init
<1>3. ASSUME NEW p \in Procs PROVE ProcOK(proc[p], made)
  BY <1>2, FreshIs DEF Init
<1>4. proc \in [Procs -> Process] /\ turns \in BOOLEAN
  BY <1>3 DEF Init, ProcOK
<1> QED
  BY <1>1, <1>2, <1>3, <1>4 DEF IInv

LEMMA NextKeeps == IInv /\ [Next]_vars => IInv'
<1> SUFFICES ASSUME IInv, [Next]_vars PROVE IInv'
  OBVIOUS
<1>1. CASE UNCHANGED vars
  BY <1>1 DEF vars, IInv, MemOK
<1>2. ASSUME NEW p \in Procs,
             \/ Start(p) \/ Quit(p) \/ Kill(p)
             \/ Choose(p, "count", 0) \/ Choose(p, "pop", 0)
             \/ \E v \in Values : Choose(p, "insert", v)
      PROVE IInv'
  BY <1>2, StartKeeps, QuitKeeps, KillKeeps, ChooseKeeps
<1>3. ASSUME NEW p \in Procs, Run(p) PROVE IInv'
  BY <1>3, CountKeeps, FindKeeps, LinkKeeps, PopKeeps DEF Run
<1> QED
  BY <1>1, <1>2, <1>3 DEF Next

LEMMA Invariant == Spec => []IInv
<1> QED
  BY InitGood, NextKeeps, PTL DEF Spec

\* The variables of every process and the nodes of every object have their
\* type, and a process is attached to an object exactly while it runs.
THEOREM TypeCorrect == Spec => []TypeOK
<1>1. IInv => TypeOK
  BY Enough
<1> QED
  BY <1>1, Invariant, PTL

\* The fixed limit is enough: whatever the overlap of the processes and
\* wherever they are killed, no node beyond Limit is read or written.
THEOREM Bounded == Spec => []InBounds
<1>1. IInv => InBounds
  BY Enough
<1> QED
  BY <1>1, Invariant, PTL

-----------------------------------------------------------------------------
(* The list has an end. *)

\* Every cycle goes through a node that is being inserted.
Opened ==
  (\A p \in Procs : proc[p].pc # "killed") =>
    \A o \in 1..Objects : \A S \in SUBSET Index : Closed(o, S) => S = {} \/ S \intersect Pending(o) # {}

\* Cycles need a node that is being inserted if new links lead to such nodes
\* only, and a node that no longer is has lost its link.
LEMMA OpenedStays ==
  ASSUME IInv, Opened, \A p \in Procs : proc'[p].pc # "killed" => proc[p].pc # "killed",
         \A o \in 1..Objects : \A k \in Index :
           mem'[o][k].next \in {mem[o][k].next, 0} \union Pending(o)',
         \A o \in 1..Objects : \A k \in Pending(o) : k \in Pending(o)' \/ mem'[o][k].next = 0
  PROVE  Opened'
<1> SUFFICES ASSUME \A p \in Procs : proc'[p].pc # "killed",
                    NEW o \in 1..Objects, NEW S \in SUBSET Index, Closed(o, S)', S \intersect Pending(o)' = {}
             PROVE  S = {}
  BY DEF Opened
<1>1. \A k \in S : mem'[o][k].next \in S \ {0}
  BY DEF Closed
<1>2. \A k \in S : mem'[o][k].next = mem[o][k].next
  BY <1>1
<1>3. Closed(o, S)
  BY <1>1, <1>2 DEF Closed
<1>4. S = {} \/ S \intersect Pending(o) # {}
  BY <1>3 DEF Opened
<1>5. S \intersect Pending(o) = {}
  BY <1>1
<1> QED
  BY <1>4, <1>5

\* What is being inserted after a step of p.
LEMMA PendingIs ==
  ASSUME IInv, NEW p \in Procs, NEW from, NEW r, Step(p, from, r), NEW o \in 1..Objects
  PROVE  /\ r.obj = o /\ r.pc \in {"value", "seal"} => r.cur \in Pending(o)'
         /\ \A k \in Pending(o) :
              k \in Pending(o)' \/ (proc[p].obj = o /\ proc[p].pc \in {"value", "seal"} /\ k = proc[p].cur)
<1>1. proc'[p] = r /\ \A q \in Procs : q # p => proc'[q] = proc[q]
  BY DEF IInv, Step
<1>2. ASSUME r.obj = o, r.pc \in {"value", "seal"} PROVE r.cur \in Pending(o)'
  BY <1>1, <1>2 DEF Pending
<1>3. ASSUME NEW k \in Pending(o), ~(proc[p].obj = o /\ proc[p].pc \in {"value", "seal"} /\ k = proc[p].cur)
      PROVE  k \in Pending(o)'
  <2>1. PICK q \in Procs : proc[q].obj = o /\ proc[q].pc \in {"value", "seal"} /\ k = proc[q].cur
    BY DEF Pending
  <2>2. proc'[q] = proc[q]
    BY <1>1, <1>3, <2>1
  <2> QED
    BY <2>1, <2>2 DEF Pending
<1> QED
  BY <1>2, <1>3

\* A step of a process that inserts nothing at the time, and removes links if any.
LEMMA OtherStep ==
  ASSUME IInv, Opened, NEW p \in Procs, NEW from, NEW r, Step(p, from, r),
         from \notin {"value", "seal", "killed"},
         \A o \in 1..Objects : \A k \in Index : mem'[o][k].next \in {mem[o][k].next, 0}
  PROVE  Opened'
<1>1. proc[p].pc = from /\ \A q \in Procs : q # p => proc'[q] = proc[q]
  BY DEF IInv, Step
<1>2. \A q \in Procs : proc'[q].pc # "killed" => proc[q].pc # "killed"
  BY <1>1
<1>3. \A o \in 1..Objects : \A k \in Pending(o) : k \in Pending(o)'
  BY <1>1, PendingIs
<1> QED
  BY <1>2, <1>3, OpenedStays

LEMMA OtherLocal ==
  ASSUME IInv, Opened, NEW p \in Procs, NEW from, NEW r, Local(p, from, r),
         from \notin {"value", "seal", "killed"}
  PROVE  Opened'
<1>1. Step(p, from, r) /\ mem' = mem
  BY DEF Local
<1> QED
  BY <1>1, OtherStep

\* The link that an insertion makes leads to the node that it then fills.
LEMMA OpenedLink == ASSUME IInv, Opened, NEW p \in Procs, InsertLink(p) PROVE Opened'
<1> DEFINE r == [proc[p] EXCEPT !.pc = "value", !.cur = proc[p].c + 1]
<1>0. PICK a : a = proc[p].obj
  OBVIOUS
<1>1. /\ a = proc[p].obj /\ Step(p, "link", r) /\ proc[p].pc = "link"
      /\ mem' = [mem EXCEPT ![a][proc[p].cur] = [Node(p) EXCEPT !.next = proc[p].c + 1]]
  BY <1>0 DEF InsertLink, Write, Step
<1>2. proc[p] \in Process /\ a \in 1..Objects /\ Node(p) \in [n : Values \union {0}, next : Index]
  BY <1>1, ProcIs, NodeIs DEF ProcOK
<1>3. r.obj = a /\ r.pc = "value" /\ r.cur = proc[p].c + 1
  BY <1>1, <1>2 DEF Process
<1> HIDE DEF r
<1>4. proc[p].c + 1 \in Pending(a)'
  <2>1. r.cur \in Pending(a)'
    BY <1>1, <1>2, <1>3, PendingIs
  <2> QED
    BY <1>3, <2>1
<1>5. \A o \in 1..Objects : \A k \in Index : mem'[o][k].next \in {mem[o][k].next, 0} \union Pending(o)'
  <2> SUFFICES ASSUME NEW o \in 1..Objects, NEW k \in Index
               PROVE  mem'[o][k].next = mem[o][k].next \/ mem'[o][k].next \in Pending(o)'
    OBVIOUS
  <2>1. CASE o = a /\ k = proc[p].cur
    <3>1. mem'[a][proc[p].cur] = [Node(p) EXCEPT !.next = proc[p].c + 1]
      BY <1>1, <1>2, <2>1 DEF IInv, MemOK
    <3>2. mem'[a][proc[p].cur].next = proc[p].c + 1
      BY <1>2, <3>1
    <3> QED
      BY <1>4, <2>1, <3>2
  <2>2. CASE ~(o = a /\ k = proc[p].cur)
    BY <1>1, <1>2, <2>2 DEF IInv, MemOK
  <2> QED
    BY <2>1, <2>2
<1>6. \A o \in 1..Objects : \A k \in Pending(o) : k \in Pending(o)'
  BY <1>1, PendingIs
<1>7. \A q \in Procs : proc'[q].pc # "killed" => proc[q].pc # "killed"
  BY <1>1 DEF IInv, Step
<1> QED
  BY <1>5, <1>6, <1>7, OpenedStays

\* The number is written; the node is still being inserted.
LEMMA OpenedValue == ASSUME IInv, Opened, NEW p \in Procs, InsertValue(p) PROVE Opened'
<1> DEFINE r == [proc[p] EXCEPT !.pc = "seal"]
<1>0. PICK a : a = proc[p].obj
  OBVIOUS
<1>1. /\ a = proc[p].obj /\ Step(p, "value", r) /\ proc[p].pc = "value"
      /\ mem' = [mem EXCEPT ![a][proc[p].cur] = [Node(p) EXCEPT !.n = proc[p].arg]]
  BY <1>0 DEF InsertValue, Write, Step
<1>2. proc[p] \in Process /\ a \in 1..Objects /\ Node(p) \in [n : Values \union {0}, next : Index]
  BY <1>1, ProcIs, NodeIs DEF ProcOK
<1>3. r.obj = a /\ r.pc = "seal" /\ r.cur = proc[p].cur
  BY <1>1, <1>2 DEF Process
<1> HIDE DEF r
<1>4. proc[p].cur \in Pending(a)'
  <2>1. r.cur \in Pending(a)'
    BY <1>1, <1>2, <1>3, PendingIs
  <2> QED
    BY <1>3, <2>1
<1>5. \A o \in 1..Objects : \A k \in Index : mem'[o][k].next = mem[o][k].next
  <2> SUFFICES ASSUME NEW o \in 1..Objects, NEW k \in Index PROVE mem'[o][k].next = mem[o][k].next
    OBVIOUS
  <2>1. CASE o = a /\ k = proc[p].cur
    BY <1>1, <1>2, <2>1 DEF IInv, MemOK, Node
  <2>2. CASE ~(o = a /\ k = proc[p].cur)
    BY <1>1, <1>2, <2>2 DEF IInv, MemOK
  <2> QED
    BY <2>1, <2>2
<1>6. \A o \in 1..Objects : \A k \in Pending(o) : k \in Pending(o)'
  <2> SUFFICES ASSUME NEW o \in 1..Objects, NEW k \in Pending(o) PROVE k \in Pending(o)'
    OBVIOUS
  <2>1. k \in Pending(o)' \/ (o = a /\ k = proc[p].cur)
    BY <1>1, PendingIs
  <2> QED
    BY <1>4, <2>1
<1>7. \A q \in Procs : proc'[q].pc # "killed" => proc[q].pc # "killed"
  BY <1>1 DEF IInv, Step
<1> QED
  BY <1>5, <1>6, <1>7, OpenedStays

\* The link of the node is reset before the node is no longer being inserted.
LEMMA OpenedSeal == ASSUME IInv, Opened, NEW p \in Procs, InsertSeal(p) PROVE Opened'
<1> DEFINE a == proc[p].obj
<1>1. /\ Step(p, "seal", Done(p, proc[p].said)) /\ proc[p].pc = "seal"
      /\ mem' = [mem EXCEPT ![a][proc[p].cur] = [Node(p) EXCEPT !.next = 0]]
  BY DEF InsertSeal, Write, Step
<1>2. /\ a \in 1..Objects /\ proc[p].cur \in Index
      /\ Node(p) \in [n : Values \union {0}, next : Index]
  BY <1>1, ProcIs, NodeIs DEF ProcOK
<1>3. mem'[a][proc[p].cur].next = 0
  BY <1>1, <1>2 DEF IInv, MemOK
<1>4. \A o \in 1..Objects : \A k \in Index : mem'[o][k].next \in {mem[o][k].next, 0}
  <2> SUFFICES ASSUME NEW o \in 1..Objects, NEW k \in Index
               PROVE  mem'[o][k].next = mem[o][k].next \/ mem'[o][k].next = 0
    OBVIOUS
  <2>1. CASE o = a /\ k = proc[p].cur
    BY <1>3, <2>1
  <2>2. CASE ~(o = a /\ k = proc[p].cur)
    BY <1>1, <1>2, <2>2 DEF IInv, MemOK
  <2> QED
    BY <2>1, <2>2
<1>5. \A o \in 1..Objects : \A k \in Pending(o) : k \in Pending(o)' \/ mem'[o][k].next = 0
  BY <1>1, <1>3, PendingIs
<1>6. \A q \in Procs : proc'[q].pc # "killed" => proc[q].pc # "killed"
  BY <1>1 DEF IInv, Step
<1> QED
  BY <1>4, <1>5, <1>6, OpenedStays

LEMMA OpenedCut == ASSUME IInv, Opened, NEW p \in Procs, NEW k \in Index, Cut(p, k) PROVE Opened'
<1> DEFINE a == proc[p].obj
<1>1. /\ Step(p, "cut", [proc[p] EXCEPT !.pc = "return"]) /\ proc[p].pc = "cut"
      /\ mem' = [mem EXCEPT ![a][k] = [mem[a][k] EXCEPT !.next = 0]]
  BY DEF Cut, Write, Step
<1>2. a \in 1..Objects /\ mem[a][k] \in [n : Values \union {0}, next : Index]
  BY <1>1, NodeIs DEF IInv, MemOK
<1>3. \A o \in 1..Objects : \A j \in Index : mem'[o][j].next \in {mem[o][j].next, 0}
  <2> SUFFICES ASSUME NEW o \in 1..Objects, NEW j \in Index
               PROVE  mem'[o][j].next = mem[o][j].next \/ mem'[o][j].next = 0
    OBVIOUS
  <2>1. CASE o = a /\ j = k
    BY <1>1, <1>2, <2>1 DEF IInv, MemOK
  <2>2. CASE ~(o = a /\ j = k)
    BY <1>1, <1>2, <2>2 DEF IInv, MemOK
  <2> QED
    BY <2>1, <2>2
<1> QED
  BY <1>1, <1>3, OtherStep

LEMMA OpenedInit == Init => Opened
<1> SUFFICES ASSUME Init PROVE Opened
  OBVIOUS
<1>1. \A o \in 1..Objects : \A k \in Index : mem[o][k].next = 0
  BY DEF Init
<1> QED
  BY <1>1 DEF Opened, Closed

LEMMA OpenedNext == IInv /\ Opened /\ [Next]_vars => Opened'
<1> SUFFICES ASSUME IInv, Opened, [Next]_vars PROVE Opened'
  OBVIOUS
<1>1. CASE UNCHANGED vars
  BY <1>1 DEF vars, Opened, Closed, Pending
<1>2. ASSUME NEW p \in Procs, Start(p) PROVE Opened'
  <2>1. Step(p, "off", proc'[p]) /\ mem' = mem
    BY <1>2 DEF Start, Local, Step, IInv
  <2> QED
    BY <2>1, OtherStep
<1>3. ASSUME NEW p \in Procs, Quit(p) PROVE Opened'
  BY <1>3, OtherStep DEF Quit
<1>4. ASSUME NEW p \in Procs, Kill(p) PROVE Opened'
  <2>1. proc'[p].pc = "killed"
    BY <1>4 DEF Kill, Local, Step, IInv, Fresh
  <2> QED
    BY <2>1 DEF Opened
<1>5. ASSUME NEW p \in Procs, NEW pc, NEW v, Choose(p, pc, v) PROVE Opened'
  BY <1>5, OtherLocal DEF Choose
<1>6. ASSUME NEW p \in Procs, Run(p) PROVE Opened'
  <2>1. CASE CountOne(p, "count") \/ CountEnd(p) \/ CountOne(p, "insert")
    BY <2>1, OtherLocal DEF CountOne, CountEnd, Walk, AtEnd
  <2>2. CASE InsertCounted(p) \/ InsertWalk(p) \/ InsertFound(p)
    BY <2>2, OtherLocal DEF InsertCounted, InsertWalk, InsertFound, Walk, AtEnd
  <2>3. CASE InsertLink(p) \/ InsertValue(p) \/ InsertSeal(p)
    BY <2>3, OpenedLink, OpenedValue, OpenedSeal
  <2>4. CASE PopWalk(p) \/ PopFound(p) \/ PopReturn(p)
    BY <2>4, OtherLocal DEF PopWalk, PopFound, PopReturn, Walk, AtEnd
  <2>5. CASE PopCut(p)
    <3>1. proc[p].prev \in Index
      BY <2>5, ProcIs DEF PopCut, ProcOK
    <3> QED
      BY <2>5, <3>1, OpenedCut DEF PopCut
  <2>6. CASE PopEmpty(p)
    BY <2>6, OpenedCut, OtherLocal DEF PopEmpty
  <2> QED
    BY <1>6, <2>1, <2>2, <2>3, <2>4, <2>5, <2>6 DEF Run
<1> QED
  BY <1>1, <1>2, <1>3, <1>4, <1>5, <1>6 DEF Next

\* However the commands overlap, when they are over and nobody was killed no
\* nodes are left that link to one another in a cycle: a walk over the list
\* comes to an end.
THEOREM ListEndsHolds == Spec => []ListEnds
<1>1. Opened => ListEnds
  <2> SUFFICES ASSUME Opened, \A p \in Procs : proc[p].pc \in {"off", "menu"}, NEW o \in 1..Objects,
                      NEW S \in SUBSET Index, Closed(o, S)
               PROVE  S = {}
    BY DEF ListEnds
  <2>1. Pending(o) = {}
    BY DEF Pending
  <2> QED
    BY <2>1 DEF Opened
<1> QED
  BY <1>1, OpenedInit, OpenedNext, Invariant, PTL DEF Spec

-----------------------------------------------------------------------------
(* The stack that users who wait for each other see *)

\* The links of object o lead from node 0 over 1, 2, ... to n, and all others
\* are 0.
Ahead(o, n) == \A k \in Index : mem[o][k].next = IF k < n THEN k + 1 ELSE 0

\* Where a process with the variables r stands in a list of n nodes.
Stands(r, n) ==
  /\ r.pc # "killed"
  /\ r.pc \in {"off", "menu"} => r.cur = 0 /\ r.c = 0 /\ r.prev = Unset
  /\ r.pc \in {"count", "insert"} => r.c = r.cur /\ r.cur <= n
  /\ r.pc \in {"insert", "find", "link", "value", "seal"} => r.arg \in Values
  /\ r.pc \in {"find", "link"} => r.c = n /\ r.cur <= n /\ n < Limit
  /\ r.pc \in {"link", "value", "seal", "cut"} => r.cur = n
  /\ r.pc \in {"value", "seal"} => n > 0
  /\ r.pc \in {"pop", "cut"} => r.cur <= n /\ r.prev = IF r.cur = 0 THEN Unset ELSE r.cur - 1

\* How many nodes the list of each object has; a process that has none is at 0.
Sizes == [0..Objects -> Index]

\* The list of each object has the size sz says, and one process at most works
\* on a command.
Turn(sz) ==
  /\ \A o \in 1..Objects : Ahead(o, sz[o]) /\ mem[o][0].n = 0
  /\ \A p \in Procs :
       /\ Stands(proc[p], sz[proc[p].obj])
       /\ proc[p].pc = "seal" => mem[proc[p].obj][sz[proc[p].obj]].n = proc[p].arg
  /\ \A p, q \in Procs : AtRest(p) \/ AtRest(q) \/ p = q

Turned == \E sz \in Sizes : Turn(sz)

TurnInv == IInv /\ (turns => Turned)

LEMMA Least ==
  ASSUME NEW T, T \subseteq Nat, T # {}
  PROVE  \E x \in T : \A y \in T : x <= y
<1> DEFINE R == StrictSubsetOrdering(Nat)
           U == {0..n : n \in T}
<1>1. U \subseteq FiniteSubsetsOf(Nat)
  <2>1. \A n \in T : IsFiniteSet(0..n)
    BY FS_Interval
  <2> QED
    BY <2>1 DEF FiniteSubsetsOf
<1>2. IsWellFoundedOn(R, FiniteSubsetsOf(Nat))
  BY FS_StrictSubsetOrderingWellFounded
<1>3. U # {}
  OBVIOUS
<1> HIDE DEF R, U
<1>4. PICK u \in U : \A v \in U : ~(<<v, u>> \in R)
  BY <1>1, <1>2, <1>3, WFMin, Zenon
<1>5. PICK x \in T : u = 0..x
  BY DEF U
<1>6. ASSUME NEW y \in T, y < x PROVE FALSE
  <2>1. 0..y \in U
    BY DEF U
  <2>2. 0..y \subseteq 0..x /\ 0..y # 0..x /\ 0..x \subseteq Nat /\ 0..y \subseteq Nat
    BY <1>6
  <2>3. IsFiniteSet(0..x) /\ IsFiniteSet(0..y)
    BY FS_Interval
  <2>4. <<0..y, 0..x>> \in R
    BY <2>2, <2>3 DEF R, StrictSubsetOrdering
  <2> QED
    BY <2>1, <2>4, <1>4, <1>5
<1> QED
  BY <1>6

\* The walk along the links is what its recursion says.
LEMMA AlongDef ==
  ASSUME NEW o
  PROVE  /\ Along(o)[0] = 0
         /\ \A k \in Index \ {0} : Along(o)[k] = mem[o][Along(o)[k - 1]].next
<1> DEFINE Walks(K, f) == f = [k \in 0..K |-> IF k = 0 THEN 0 ELSE mem[o][f[k - 1]].next]
           T == {K \in Nat : ~\E f : Walks(K, f)}
<1>1. T = {}
  <2> SUFFICES ASSUME T # {} PROVE FALSE
    OBVIOUS
  <2>1. PICK K \in T : \A j \in T : K <= j
    BY Least
  <2>2. K \in Nat /\ ~\E f : Walks(K, f)
    OBVIOUS
  <2> HIDE DEF T
  <2>3. K # 0
    <3> SUFFICES ASSUME K = 0 PROVE FALSE
      OBVIOUS
    <3>1. Walks(0, [k \in 0..0 |-> 0])
      OBVIOUS
    <3> QED
      BY <2>2, <3>1
  <2>4. K - 1 \in Nat /\ ~(K <= K - 1)
    BY <2>2, <2>3
  <2>5. PICK f : Walks(K - 1, f)
    BY <2>1, <2>4 DEF T
  <2> DEFINE h == [k \in 0..K |-> IF k = K THEN mem[o][f[K - 1]].next ELSE f[k]]
  <2>6. \A k \in 0..K : h[k] = IF k = 0 THEN 0 ELSE mem[o][h[k - 1]].next
    <3> SUFFICES ASSUME NEW k \in 0..K PROVE h[k] = IF k = 0 THEN 0 ELSE mem[o][h[k - 1]].next
      OBVIOUS
    <3>1. CASE k = K
      <4>1. h[K] = mem[o][f[K - 1]].next /\ h[K - 1] = f[K - 1]
        BY <2>2, <2>3
      <4> QED
        BY <2>3, <3>1, <4>1
    <3>2. CASE k = 0
      <4>1. h[0] = f[0] /\ f[0] = 0
        BY <2>2, <2>3, <2>5
      <4> QED
        BY <3>2, <4>1
    <3>3. CASE k # K /\ k # 0
      <4>1. k \in 0..(K - 1) /\ k - 1 \in 0..K /\ k - 1 # K
        BY <2>2, <3>3
      <4>2. h[k] = f[k] /\ h[k - 1] = f[k - 1]
        BY <3>3, <4>1
      <4>3. f[k] = mem[o][f[k - 1]].next
        BY <2>5, <3>3, <4>1
      <4> QED
        BY <3>3, <4>2, <4>3
    <3> QED
      BY <3>1, <3>2, <3>3
  <2>7. h = [k \in 0..K |-> h[k]]
    OBVIOUS
  <2> HIDE DEF h
  <2>8. Walks(K, h)
    BY <2>6, <2>7
  <2> QED
    BY <2>2, <2>8
<1>2. PICK f : f = [k \in Index |-> IF k = 0 THEN 0 ELSE mem[o][f[k - 1]].next]
  BY <1>1, ListAssumption DEF Index
<1> HIDE DEF T, Walks
<1>3. Along(o) = [k \in Index |-> IF k = 0 THEN 0 ELSE mem[o][Along(o)[k - 1]].next]
  BY <1>2 DEF Along
<1>4. 0 \in Index
  BY ListAssumption DEF Index
<1> QED
  BY <1>3, <1>4

\* The walk goes from 1 to n, and back to 0.
AlongFact ==
  \A o \in 1..Objects, n \in Index : Ahead(o, n) =>
    /\ \A k \in 0..n : Along(o)[k] = k
    /\ n + 1 \in Index => Along(o)[n + 1] = 0

LEMMA AlongIs == AlongFact
<1> SUFFICES ASSUME NEW o \in 1..Objects, NEW n \in Index, Ahead(o, n)
             PROVE  /\ \A k \in 0..n : Along(o)[k] = k
                    /\ n + 1 \in Index => Along(o)[n + 1] = 0
  BY DEF AlongFact
<1> PICK g : g = Along(o)
  OBVIOUS
<1>1. n \in Nat /\ n <= Limit /\ Limit \in Nat
  BY ListAssumption DEF Index
<1>2. g[0] = 0 /\ \A k \in Index \ {0} : g[k] = mem[o][g[k - 1]].next
  BY AlongDef
<1>3. \A k \in 0..n : g[k] = k
  <2> DEFINE T == {k \in 0..n : g[k] # k}
  <2> SUFFICES ASSUME T # {} PROVE FALSE
    OBVIOUS
  <2>6. T \subseteq Nat
    BY <1>1
  <2>1. PICK k \in T : \A j \in T : k <= j
    <3> HIDE DEF T
    <3> QED
      BY <2>6, Least
  <2>2. k \in 0..n /\ g[k] # k
    OBVIOUS
  <2>3. k # 0 /\ k \in Index \ {0} /\ k - 1 \in 0..n /\ ~(k <= k - 1) /\ k - 1 < n
    BY <1>1, <1>2, <2>2 DEF Index
  <2>4. g[k - 1] = k - 1
    BY <2>1, <2>3
  <2>5. mem[o][k - 1].next = (k - 1) + 1
    BY <1>1, <2>3 DEF Ahead, Index
  <2> QED
    BY <1>2, <2>2, <2>3, <2>4, <2>5
<1>4. ASSUME n + 1 \in Index PROVE g[n + 1] = 0
  <2>1. g[n] = n /\ (n + 1) - 1 = n /\ n + 1 # 0
    BY <1>1, <1>3
  <2>2. mem[o][n].next = 0
    BY <1>1 DEF Ahead
  <2> QED
    BY <1>2, <1>4, <2>1, <2>2
<1> QED
  BY <1>3, <1>4

\* The stack are the values of the nodes, the one that is being inserted left out.
StackFact ==
  \A o \in 1..Objects, n \in Index : Ahead(o, n) =>
    /\ Pending(o) = {} => Stack(o) = [k \in 1..n |-> mem[o][k].n]
    /\ n > 0 /\ Pending(o) = {n} => Stack(o) = [k \in 1..(n - 1) |-> mem[o][k].n]

LEMMA StackIs == StackFact
<1> SUFFICES ASSUME NEW o \in 1..Objects, NEW n \in Index, Ahead(o, n), NEW m \in Nat,
                    \/ m = n /\ Pending(o) = {}
                    \/ n > 0 /\ m = n - 1 /\ Pending(o) = {n}
             PROVE  Stack(o) = [k \in 1..m |-> mem[o][k].n]
  BY ListAssumption DEF StackFact, Index
<1> DEFINE ends == {k \in Index \ {0} : Along(o)[k] \in {0} \union Pending(o)}
           last == IF ends = {} THEN Limit ELSE (CHOOSE k \in ends : \A j \in ends : k <= j) - 1
<1>1. (\A k \in 0..n : Along(o)[k] = k) /\ (n + 1 \in Index => Along(o)[n + 1] = 0)
  BY AlongIs DEF AlongFact
<1>2. n \in Nat /\ n <= Limit /\ m <= Limit /\ Limit \in Nat /\ 0 \in Index /\ Index = 0..Limit
  BY ListAssumption DEF Index
<1>3. ASSUME NEW k \in 1..m PROVE k \notin ends
  <2>1. Along(o)[k] = k /\ k # 0
    BY <1>1, <1>2
  <2> QED
    BY <1>2, <2>1
<1>4. m # Limit => m + 1 \in ends
  <2> SUFFICES ASSUME m # Limit PROVE Along(o)[m + 1] \in {0} \union Pending(o)
    BY <1>2
  <2>1. CASE m = n
    BY <1>1, <1>2, <2>1
  <2>2. CASE n > 0 /\ m = n - 1 /\ Pending(o) = {n}
    <3>1. m + 1 = n /\ Along(o)[n] = n
      BY <1>1, <1>2, <2>2
    <3> QED
      BY <2>2, <3>1
  <2> QED
    BY <2>1, <2>2
<1>5. last = m
  <2>0. \A k \in ends : k \in Nat /\ k <= Limit /\ k # 0
    BY <1>2
  <2> HIDE DEF ends
  <2>1. CASE m = Limit
    <3>1. ends = {}
      BY <1>2, <1>3, <2>0, <2>1
    <3> QED
      BY <2>1, <3>1
  <2>2. CASE m # Limit
    <3>1. m + 1 \in ends /\ \A j \in ends : m + 1 <= j
      BY <1>2, <1>3, <1>4, <2>0, <2>2
    <3>2. \A k \in ends : (\A j \in ends : k <= j) => k = m + 1
      BY <1>2, <2>0, <3>1
    <3>3. (CHOOSE k \in ends : \A j \in ends : k <= j) = m + 1
      BY <3>1, <3>2
    <3>4. ends # {} /\ (m + 1) - 1 = m
      BY <3>1
    <3> QED
      BY <3>3, <3>4
  <2> QED
    BY <2>1, <2>2
<1>6. Stack(o) = [k \in 1..last |-> mem[o][Along(o)[k]].n]
  BY DEF Stack
<1> HIDE DEF last
<1>7. \A k \in 1..m : Along(o)[k] = k
  BY <1>1, <1>2
<1> QED
  BY <1>5, <1>6, <1>7

\* How many values count while a process with the variables r works.
Held(r, n) == IF r.pc \in {"value", "seal"} THEN n - 1 ELSE n

\* No process but p works on a command.
Alone(p) == \A q \in Procs : q # p => AtRest(q)

HeldFact ==
  \A o \in 1..Objects, n \in Index, p \in Procs :
    IInv /\ Ahead(o, n) /\ Alone(p) =>
      /\ proc[p].obj = o /\ Stands(proc[p], n)
           => Stack(o) = [k \in 1..Held(proc[p], n) |-> mem[o][k].n]
      /\ proc[p].obj # o => Stack(o) = [k \in 1..n |-> mem[o][k].n]

LEMMA HeldIs == HeldFact
<1> SUFFICES ASSUME NEW o \in 1..Objects, NEW n \in Index, NEW p \in Procs, IInv, Ahead(o, n), Alone(p)
             PROVE  /\ proc[p].obj = o /\ Stands(proc[p], n)
                         => Stack(o) = [k \in 1..Held(proc[p], n) |-> mem[o][k].n]
                    /\ proc[p].obj # o => Stack(o) = [k \in 1..n |-> mem[o][k].n]
  BY DEF HeldFact
<1>1. \A q \in Procs : proc[q].pc \in {"value", "seal"} => q = p
  BY DEF Alone, AtRest
<1>2. ASSUME proc[p].obj = o, proc[p].pc \in {"value", "seal"}, Stands(proc[p], n)
      PROVE  Stack(o) = [k \in 1..Held(proc[p], n) |-> mem[o][k].n]
  <2>1. proc[p].cur = n /\ n > 0
    BY <1>2 DEF Stands
  <2>2. Pending(o) = {n}
    BY <1>1, <1>2, <2>1 DEF Pending
  <2> QED
    BY <1>2, <2>1, <2>2, StackIs DEF StackFact, Held
<1>3. ASSUME ~(proc[p].obj = o /\ proc[p].pc \in {"value", "seal"})
      PROVE  Stack(o) = [k \in 1..n |-> mem[o][k].n]
  <2>1. Pending(o) = {}
    BY <1>1, <1>3 DEF Pending
  <2> QED
    BY <2>1, StackIs DEF StackFact
<1> QED
  BY <1>2, <1>3 DEF Held

LEMMA HeldNext == HeldFact'
BY HeldIs, PTL

\* What a process with the variables r has been told.
Told(r) == IF r.pc = "return" THEN mem[r.obj][r.cur].n ELSE r.said

LEMMA SaidIs ==
  ASSUME NEW p \in Procs, Alone(p), proc \in [Procs -> Process], NEW r, NEW x,
         proc' = [proc EXCEPT ![p] = r], x = Told(r)'
  PROVE  \A q \in Procs : Said'[q] = IF q = p THEN x ELSE Said[q]
<1>1. \A q \in Procs : q # p => proc[q].pc # "return" /\ proc'[q] = proc[q]
  BY DEF Alone, AtRest
<1>2. proc'[p] = r
  OBVIOUS
<1>3. Said'[p] = x
  BY <1>2 DEF Said, Told, Node
<1>4. \A q \in Procs : q # p => Said'[q] = Said[q]
  BY <1>1 DEF Said
<1> QED
  BY <1>3, <1>4

\* While p works alone, on the object a: its list has n nodes, of which r is
\* where p stands.
Works(p, sz, a, n) ==
  /\ IInv /\ turns /\ sz \in Sizes /\ Turn(sz) /\ Alone(p)
  /\ a = proc[p].obj /\ a \in 1..Objects /\ n = sz[a]

LEMMA WorksIs ==
  ASSUME NEW p \in Procs, NEW sz, NEW a, NEW n, Works(p, sz, a, n)
  PROVE  /\ IInv /\ turns /\ sz \in Sizes /\ Turn(sz) /\ Alone(p) /\ proc \in [Procs -> Process]
         /\ a = proc[p].obj /\ a \in 1..Objects /\ n = sz[a] /\ n \in Index /\ n \in Nat
         /\ Ahead(a, n) /\ mem[a][0].n = 0 /\ Stands(proc[p], n)
<1>1. /\ IInv /\ turns /\ sz \in Sizes /\ Turn(sz) /\ Alone(p)
      /\ a = proc[p].obj /\ a \in 1..Objects /\ n = sz[a]
  BY DEF Works
<1>2. n \in Index /\ n \in Nat
  <2>1. a \in 0..Objects
    BY <1>1
  <2> QED
    BY <1>1, <2>1, ListAssumption DEF Sizes, Index
<1>3. Ahead(a, n) /\ mem[a][0].n = 0 /\ Stands(proc[p], n)
  BY <1>1 DEF Turn
<1> QED
  BY <1>1, <1>2, <1>3 DEF IInv

\* Of the objects only the list of a has changed, from what counted of n nodes
\* while p was at its variables, to what counts of m nodes while it is at r.
Moved(p, a, n, r, m) ==
  /\ Turned'
  /\ Stack(a) = [k \in 1..Held(proc[p], n) |-> mem[a][k].n]
  /\ Stack(a)' = [k \in 1..Held(r, m) |-> mem'[a][k].n]
  /\ \A o \in 1..Objects : o # a => Stack(o)' = Stack(o)

\* A step of p to the variables r, and to a list of m nodes.
LEMMA Moves ==
  ASSUME NEW p \in Procs, NEW sz, NEW a, NEW n, Works(p, sz, a, n), IInv', NEW r,
         proc' = [proc EXCEPT ![p] = r], r.obj \in {0, a},
         NEW m \in Index, Stands(r, m), Ahead(a, m)', mem'[a][0].n = 0,
         r.pc = "seal" => mem'[a][m].n = r.arg,
         \A o \in 1..Objects : o # a => mem'[o] = mem[o]
  PROVE  Moved(p, a, n, r, m)
<1>1. /\ IInv /\ sz \in Sizes /\ Turn(sz) /\ Alone(p) /\ proc \in [Procs -> Process]
      /\ a = proc[p].obj /\ a \in 1..Objects /\ n \in Index /\ Ahead(a, n) /\ Stands(proc[p], n)
  BY WorksIs
<1>2. proc'[p] = r /\ \A q \in Procs : q # p => proc'[q] = proc[q]
  BY <1>1
<1>3. \A q \in Procs : q # p => proc'[q].pc \in {"off", "menu"} /\ \A k : Stands(proc'[q], k)
  <2> SUFFICES ASSUME NEW q \in Procs, q # p, NEW k
               PROVE  proc'[q].pc \in {"off", "menu"} /\ Stands(proc'[q], k)
    OBVIOUS
  <2>1. AtRest(q) /\ Stands(proc[q], sz[proc[q].obj]) /\ proc'[q] = proc[q]
    BY <1>1, <1>2 DEF Alone, Turn
  <2> QED
    BY <2>1 DEF AtRest, Stands
<1>4. Alone(p)'
  BY <1>3 DEF Alone, AtRest
<1> DEFINE t == [sz EXCEPT ![a] = m]
<1>5. /\ t \in Sizes /\ t[a] = m /\ \A o \in 0..Objects : o # a => t[o] = sz[o]
      /\ a \in 0..Objects
  BY <1>1 DEF Sizes
<1> HIDE DEF t
<1>6. Turn(t)'
  <2>1. \A o \in 1..Objects : Ahead(o, t[o])' /\ mem'[o][0].n = 0
    <3> SUFFICES ASSUME NEW o \in 1..Objects, o # a PROVE Ahead(o, t[o])' /\ mem'[o][0].n = 0
      BY <1>5
    <3>1. Ahead(o, sz[o]) /\ mem[o][0].n = 0 /\ mem'[o] = mem[o] /\ t[o] = sz[o]
      BY <1>1, <1>5 DEF Turn
    <3> QED
      BY <3>1 DEF Ahead
  <2>2. Stands(r, t[r.obj]) /\ (r.pc = "seal" => mem'[r.obj][t[r.obj]].n = r.arg)
    <3>1. CASE r.obj = a
      BY <1>5, <3>1
    <3>2. CASE r.obj = 0
      <4>1. r.pc \in {"off", "killed"}
        BY <1>2, <3>2 DEF IInv, ProcOK
      <4> QED
        BY <4>1 DEF Stands
    <3> QED
      BY <3>1, <3>2
  <2>3. \A q \in Procs :
          /\ Stands(proc[q], t[proc[q].obj])'
          /\ (proc[q].pc = "seal" => mem[proc[q].obj][t[proc[q].obj]].n = proc[q].arg)'
    <3>1. ASSUME NEW q \in Procs
          PROVE  /\ Stands(proc'[q], t[proc'[q].obj])
                 /\ proc'[q].pc = "seal" => mem'[proc'[q].obj][t[proc'[q].obj]].n = proc'[q].arg
      BY <1>2, <1>3, <2>2
    <3> QED
      BY <3>1 DEF Stands
  <2>4. \A q1, q2 \in Procs : AtRest(q1)' \/ AtRest(q2)' \/ q1 = q2
    BY <1>4 DEF Alone
  <2> QED
    BY <2>1, <2>3, <2>4 DEF Turn
<1>7. Stack(a) = [k \in 1..Held(proc[p], n) |-> mem[a][k].n]
  BY <1>1, HeldIs DEF HeldFact
<1>8. Stack(a)' = [k \in 1..Held(r, m) |-> mem'[a][k].n]
  <2>1. CASE r.obj = a
    <3>1. Stands(proc[p], m)' /\ Held(proc[p], m)' = Held(r, m)
      BY <1>2 DEF Stands, Held
    <3> QED
      BY <1>1, <1>2, <1>4, <2>1, <3>1, HeldNext DEF HeldFact
  <2>2. CASE r.obj = 0
    <3>1. r.pc \in {"off", "killed"}
      BY <1>2, <2>2 DEF IInv, ProcOK
    <3>2. Held(r, m) = m /\ proc'[p].obj # a
      BY <1>1, <1>2, <2>2, <3>1 DEF Held
    <3>3. Stack(a)' = [k \in 1..m |-> mem'[a][k].n]
      BY <1>1, <1>4, <3>2, HeldNext DEF HeldFact
    <3> QED
      BY <3>2, <3>3
  <2> QED
    BY <2>1, <2>2
<1>9. ASSUME NEW o \in 1..Objects, o # a PROVE Stack(o)' = Stack(o)
  <2>1. Ahead(o, sz[o]) /\ sz[o] \in Index /\ Ahead(o, sz[o])' /\ mem'[o] = mem[o]
    BY <1>1, <1>9 DEF Turn, Ahead, Sizes
  <2>2. proc[p].obj # o /\ proc'[p].obj # o
    BY <1>1, <1>2, <1>9
  <2>3. Stack(o) = [k \in 1..sz[o] |-> mem[o][k].n]
    BY <1>1, <2>1, <2>2, HeldIs DEF HeldFact
  <2>4. Stack(o)' = [k \in 1..sz[o] |-> mem'[o][k].n]
    BY <1>4, <2>1, <2>2, HeldNext DEF HeldFact
  <2> QED
    BY <2>1, <2>3, <2>4
<1>10. Turned'
  BY <1>5, <1>6 DEF Turned
<1> QED
  BY <1>7, <1>8, <1>9, <1>10 DEF Moved

\* What a step of p must show.
Follows == Turned' /\ [Abstract!Next]_(Abstract!vars)

\* The variables of the abstract state that a command leaves alone.
Stays == turns' = turns /\ name' = name /\ made' = made /\ \A q \in Procs : proc'[q].obj = proc[q].obj

LEMMA StaysIs ==
  ASSUME NEW p \in Procs, proc \in [Procs -> Process], NEW r, proc' = [proc EXCEPT ![p] = r],
         r.obj = proc[p].obj, turns' = turns, name' = name, made' = made
  PROVE  Stays
BY DEF Stays

LEMMA Unseen ==
  ASSUME Stays, \A o \in 1..Objects : Stack(o)' = Stack(o), \A q \in Procs : Said'[q] = Said[q]
  PROVE  UNCHANGED Abstract!vars
<1>1. UNCHANGED [o \in 1..Objects |-> IF turns THEN Stack(o) ELSE <<>>]
  BY DEF Stays
<1>2. UNCHANGED [q \in Procs |-> IF turns THEN proc[q].obj ELSE 0]
  BY DEF Stays
<1>3. UNCHANGED [q \in Procs |-> IF turns THEN Said[q] ELSE 0]
  BY DEF Stays
<1>4. UNCHANGED <<IF turns THEN name ELSE 0, IF turns THEN made ELSE 0>>
  BY DEF Stays
<1> QED
  BY <1>1, <1>2, <1>3, <1>4 DEF Abstract!vars

\* The stack that p has.
LEMMA OwnIs ==
  ASSUME NEW p \in Procs, NEW sz, NEW a, NEW n, Works(p, sz, a, n)
  PROVE  Abstract!Own(p) = Stack(a) /\ [q \in Procs |-> IF turns THEN proc[q].obj ELSE 0][p] = a
BY WorksIs DEF Abstract!Own

\* p leaves the list s on its object and is told x.
LEMMA UseIs ==
  ASSUME NEW p \in Procs, NEW sz, NEW a, NEW n, Works(p, sz, a, n), NEW s, NEW x, Stays,
         Stack(a)' = s, \A o \in 1..Objects : o # a => Stack(o)' = Stack(o),
         \A q \in Procs : Said'[q] = IF q = p THEN x ELSE Said[q]
  PROVE  /\ [q \in Procs |-> IF turns THEN proc[q].obj ELSE 0][p] = a
         /\ [o \in 1..Objects |-> IF turns THEN Stack(o) ELSE <<>>]'
              = [[o \in 1..Objects |-> IF turns THEN Stack(o) ELSE <<>>] EXCEPT ![a] = s]
         /\ [q \in Procs |-> IF turns THEN Said[q] ELSE 0]'
              = [[q \in Procs |-> IF turns THEN Said[q] ELSE 0] EXCEPT ![p] = x]
         /\ UNCHANGED [q \in Procs |-> IF turns THEN proc[q].obj ELSE 0]
         /\ UNCHANGED <<IF turns THEN name ELSE 0, IF turns THEN made ELSE 0>>
<1>1. turns /\ turns' /\ a = proc[p].obj /\ a \in 1..Objects
  BY WorksIs DEF Stays
<1>2. [q \in Procs |-> IF turns THEN proc[q].obj ELSE 0][p] = a
  BY <1>1
<1>3. [o \in 1..Objects |-> IF turns THEN Stack(o) ELSE <<>>]'
        = [[o \in 1..Objects |-> IF turns THEN Stack(o) ELSE <<>>] EXCEPT ![a] = s]
  BY <1>1
<1>4. [q \in Procs |-> IF turns THEN Said[q] ELSE 0]'
        = [[q \in Procs |-> IF turns THEN Said[q] ELSE 0] EXCEPT ![p] = x]
  BY <1>1
<1>5. UNCHANGED [q \in Procs |-> IF turns THEN proc[q].obj ELSE 0]
  BY DEF Stays
<1>6. UNCHANGED <<IF turns THEN name ELSE 0, IF turns THEN made ELSE 0>>
  BY DEF Stays
<1> QED
  BY <1>2, <1>3, <1>4, <1>5, <1>6

\* An operation of p on the stack it has is a step of the abstract specification.
LEMMA UseNext ==
  ASSUME NEW p \in Procs, NEW sz, NEW a, NEW n, Works(p, sz, a, n),
         \/ \E v \in Values : Abstract!Insert(p, v)
         \/ Abstract!Pop(p) \/ Abstract!PopEmpty(p) \/ Abstract!Count(p) \/ Abstract!PopCrash(p)
  PROVE  [Abstract!Next]_(Abstract!vars)
<1>1. [q \in Procs |-> IF turns THEN proc[q].obj ELSE 0][p] # 0
  BY WorksIs, OwnIs
<1> QED
  BY <1>1 DEF Abstract!Next

\* A step that writes nothing and tells nothing new.
LEMMA Quiet ==
  ASSUME NEW p \in Procs, NEW sz, NEW a, NEW n, Works(p, sz, a, n), IInv', NEW from, NEW r, Local(p, from, r),
         {from, r.pc} \intersect {"value", "seal"} = {}, Stands(r, n), Told(r) = Told(proc[p]),
         r.obj = proc[p].obj
  PROVE  Follows
<1>1. /\ proc' = [proc EXCEPT ![p] = r] /\ mem' = mem /\ turns' = turns
      /\ name' = name /\ made' = made
      /\ proc[p].pc = from /\ r.pc # "seal"
  BY DEF Local, Step
<1>2. /\ n \in Index /\ Alone(p) /\ proc \in [Procs -> Process] /\ a = proc[p].obj
      /\ Ahead(a, n) /\ mem[a][0].n = 0
  BY WorksIs
<1>3. Ahead(a, n)' /\ mem'[a][0].n = 0
  BY <1>1, <1>2 DEF Ahead
<1>4. Moved(p, a, n, r, n)
  <2>1. r.obj \in {0, a} /\ (r.pc = "seal" => mem'[a][n].n = r.arg)
    BY <1>1, <1>2
  <2>2. \A o \in 1..Objects : o # a => mem'[o] = mem[o]
    BY <1>1
  <2>3. proc' = [proc EXCEPT ![p] = r] /\ n \in Index /\ Ahead(a, n)' /\ mem'[a][0].n = 0
    BY <1>1, <1>2, <1>3
  <2> QED
    BY <2>1, <2>2, <2>3, Moves
<1>5. Held(r, n) = n /\ Held(proc[p], n) = n
  BY <1>1 DEF Held
<1>6. Turned' /\ \A o \in 1..Objects : Stack(o)' = Stack(o)
  BY <1>1, <1>4, <1>5 DEF Moved
<1>7. PICK x : x = Told(r)
  OBVIOUS
<1>8. x = Told(r)'
  BY <1>1, <1>7 DEF Told
<1>9. \A q \in Procs : Said'[q] = IF q = p THEN x ELSE Said[q]
  BY <1>1, <1>2, <1>8, SaidIs
<1>10. Said[p] = x
  BY <1>7 DEF Told, Said, Node
<1>11. \A q \in Procs : Said'[q] = Said[q]
  BY <1>9, <1>10
<1>12. Stays
  BY <1>1, <1>2, StaysIs
<1> QED
  BY <1>6, <1>11, <1>12, Unseen DEF Follows

\* What p sees of the list.
LEMMA NodeSeen ==
  ASSUME NEW p \in Procs, NEW sz, NEW a, NEW n, Works(p, sz, a, n), ~AtRest(p)
  PROVE  /\ proc[p].obj = a /\ proc[p] \in Process /\ proc[p].cur \in Index
         /\ n \in Nat /\ n <= Limit /\ Limit \in Nat /\ Index = 0..Limit
         /\ Node(p) = mem[a][proc[p].cur]
         /\ Node(p).next = IF proc[p].cur < n THEN proc[p].cur + 1 ELSE 0
         /\ Stands(proc[p], n)
<1>1. IInv /\ proc[p].obj = a /\ Ahead(a, n) /\ n \in Index /\ Stands(proc[p], n)
  BY WorksIs
<1>2. proc[p] \in Process /\ proc[p].cur \in Index
  BY <1>1, ProcIs DEF ProcOK
<1> QED
  BY <1>1, <1>2, ListAssumption DEF Node, Ahead, Index

LEMMA CountTurn ==
  ASSUME NEW p \in Procs, NEW sz, NEW a, NEW n, Works(p, sz, a, n), IInv', NEW from \in {"count", "insert"}, CountOne(p, from)
  PROVE  Follows
<1> DEFINE c == IF proc[p].c > Limit THEN proc[p].c ELSE proc[p].c + 1
           r == [proc[p] EXCEPT !.c = c, !.cur = Node(p).next]
<1>1. /\ Local(p, from, [[proc[p] EXCEPT !.c = c] EXCEPT !.cur = Node(p).next])
      /\ Node(p).next # 0 /\ proc[p].pc = from
  BY DEF CountOne, Walk, Local, Step
<1>2. ~AtRest(p)
  BY <1>1 DEF AtRest
<1>3. proc[p].cur < n /\ Node(p).next = proc[p].cur + 1 /\ n \in Nat /\ n <= Limit /\ Limit \in Nat
      /\ proc[p] \in Process /\ proc[p].cur \in Nat /\ Stands(proc[p], n)
  BY <1>1, <1>2, NodeSeen
<1>4. proc[p].c = proc[p].cur
  BY <1>1, <1>3 DEF Stands
<1>5. c = proc[p].cur + 1
  BY <1>3, <1>4
<1>6. /\ r.pc = from /\ r.c = proc[p].cur + 1 /\ r.cur = proc[p].cur + 1 /\ r.arg = proc[p].arg
      /\ r.said = proc[p].said /\ r.obj = proc[p].obj
      /\ Local(p, from, r)
  BY <1>1, <1>3, <1>5 DEF Process
<1> HIDE DEF r, c
<1>7. Stands(r, n)
  BY <1>1, <1>3, <1>6 DEF Stands
<1>8. Told(r) = Told(proc[p])
  BY <1>1, <1>6 DEF Told
<1> QED
  BY <1>6, <1>7, <1>8, Quiet

LEMMA WalkTurn ==
  ASSUME NEW p \in Procs, NEW sz, NEW a, NEW n, Works(p, sz, a, n), IInv', InsertWalk(p) \/ PopWalk(p)
  PROVE  Follows
<1>1. ~AtRest(p) /\ Node(p).next # 0 /\ proc[p].pc \in {"find", "pop"}
  BY DEF AtRest, InsertWalk, PopWalk, Walk, Local, Step
<1>2. proc[p].cur < n /\ Node(p).next = proc[p].cur + 1 /\ n \in Nat /\ n <= Limit /\ Limit \in Nat
      /\ proc[p] \in Process /\ proc[p].cur \in Nat /\ Stands(proc[p], n)
  BY <1>1, NodeSeen
<1>3. CASE InsertWalk(p)
  <2> DEFINE r == [proc[p] EXCEPT !.cur = Node(p).next]
  <2>1. Local(p, "find", r) /\ proc[p].pc = "find"
    BY <1>3 DEF InsertWalk, Walk, Local, Step
  <2>2. /\ r.pc = "find" /\ r.c = proc[p].c /\ r.cur = proc[p].cur + 1 /\ r.arg = proc[p].arg
        /\ r.said = proc[p].said /\ r.obj = proc[p].obj
    BY <1>2, <2>1 DEF Process
  <2> HIDE DEF r
  <2>3. Stands(r, n)
    BY <1>2, <2>1, <2>2 DEF Stands
  <2>4. Told(r) = Told(proc[p])
    BY <2>1, <2>2 DEF Told
  <2> QED
    BY <2>1, <2>2, <2>3, <2>4, Quiet
<1>4. CASE PopWalk(p)
  <2> DEFINE r == [proc[p] EXCEPT !.prev = proc[p].cur, !.cur = Node(p).next]
  <2>1. Local(p, "pop", [[proc[p] EXCEPT !.prev = proc[p].cur] EXCEPT !.cur = Node(p).next]) /\ proc[p].pc = "pop"
    BY <1>4 DEF PopWalk, Walk, Local, Step
  <2>2. /\ r.pc = "pop" /\ r.prev = proc[p].cur /\ r.cur = proc[p].cur + 1 /\ r.said = proc[p].said
        /\ r.obj = proc[p].obj /\ Local(p, "pop", r)
    BY <1>2, <2>1 DEF Process
  <2> HIDE DEF r
  <2>3. Stands(r, n)
    BY <1>2, <2>1, <2>2 DEF Stands
  <2>4. Told(r) = Told(proc[p])
    BY <2>1, <2>2 DEF Told
  <2> QED
    BY <2>2, <2>3, <2>4, Quiet
<1> QED
  BY <1>3, <1>4

\* Back in the menu, told what it was told before or something else.
LEMMA DoneStands ==
  ASSUME turns, NEW p, NEW x, NEW n
  PROVE  /\ Stands(Done(p, x), n) /\ Told(Done(p, x)) = x
         /\ Done(p, x).pc = "menu" /\ Done(p, x).said = x /\ Done(p, x).obj = proc[p].obj
BY DEF Stands, Told, Done, Fresh

LEMMA FoundTurn ==
  ASSUME NEW p \in Procs, NEW sz, NEW a, NEW n, Works(p, sz, a, n), IInv',
         InsertCounted(p) \/ InsertFound(p) \/ PopFound(p) \/ PopReturn(p)
  PROVE  Follows
<1>1. ~AtRest(p) /\ proc[p].pc \in {"insert", "find", "pop", "return"}
  BY DEF AtRest, InsertCounted, InsertFound, PopFound, PopReturn, AtEnd, Local, Step
<1>2. /\ n \in Nat /\ n <= Limit /\ Limit \in Nat /\ proc[p] \in Process /\ proc[p].cur \in Nat
      /\ Stands(proc[p], n)
      /\ Node(p).next = 0 => ~(proc[p].cur < n)
  BY <1>1, NodeSeen
<1>3. CASE InsertCounted(p)
  <2>1. proc[p].pc = "insert" /\ Node(p).next = 0
    BY <1>3 DEF InsertCounted, AtEnd, Local, Step
  <2>2. proc[p].cur = n /\ proc[p].c = n
    BY <1>2, <2>1 DEF Stands
  <2>3. CASE proc[p].c < Limit
    <3> DEFINE r == [proc[p] EXCEPT !.pc = "find", !.cur = 0]
    <3>1. Local(p, "insert", r)
      BY <1>3, <2>3 DEF InsertCounted, AtEnd
    <3>2. /\ r.pc = "find" /\ r.c = proc[p].c /\ r.cur = 0 /\ r.arg = proc[p].arg /\ r.said = proc[p].said
          /\ r.obj = proc[p].obj
      BY <1>2 DEF Process
    <3> HIDE DEF r
    <3>3. Stands(r, n)
      BY <1>2, <2>1, <2>2, <2>3, <3>2 DEF Stands
    <3>4. Told(r) = Told(proc[p])
      BY <2>1, <3>2 DEF Told
    <3> QED
      BY <3>1, <3>2, <3>3, <3>4, Quiet
  <2>4. CASE ~(proc[p].c < Limit)
    <3>1. Local(p, "insert", Done(p, proc[p].said))
      BY <1>3, <2>4 DEF InsertCounted, AtEnd
    <3>2. Told(proc[p]) = proc[p].said
      BY <2>1 DEF Told
    <3>3. PICK r : r = Done(p, proc[p].said)
      OBVIOUS
    <3>4. r.pc = "menu" /\ Stands(r, n) /\ Told(r) = Told(proc[p]) /\ r.obj = proc[p].obj
      BY <3>2, <3>3, DoneStands, WorksIs
    <3> QED
      BY <3>1, <3>3, <3>4, Quiet
  <2> QED
    BY <2>3, <2>4
<1>4. CASE InsertFound(p)
  <2> DEFINE r == [proc[p] EXCEPT !.pc = "link"]
  <2>1. Local(p, "find", r) /\ proc[p].pc = "find" /\ Node(p).next = 0
    BY <1>4 DEF InsertFound, AtEnd, Local, Step
  <2>2. /\ r.pc = "link" /\ r.c = proc[p].c /\ r.cur = proc[p].cur /\ r.arg = proc[p].arg /\ r.said = proc[p].said
        /\ r.obj = proc[p].obj
    BY <1>2 DEF Process
  <2> HIDE DEF r
  <2>3. Stands(r, n)
    BY <1>2, <2>1, <2>2 DEF Stands
  <2>4. Told(r) = Told(proc[p])
    BY <2>1, <2>2 DEF Told
  <2> QED
    BY <2>1, <2>2, <2>3, <2>4, Quiet
<1>5. CASE PopFound(p)
  <2> DEFINE r == [proc[p] EXCEPT !.pc = "cut"]
  <2>1. Local(p, "pop", r) /\ proc[p].pc = "pop" /\ Node(p).next = 0
    BY <1>5 DEF PopFound, AtEnd, Local, Step
  <2>2. /\ r.pc = "cut" /\ r.prev = proc[p].prev /\ r.cur = proc[p].cur /\ r.said = proc[p].said
        /\ r.obj = proc[p].obj
    BY <1>2 DEF Process
  <2> HIDE DEF r
  <2>3. Stands(r, n)
    BY <1>2, <2>1, <2>2 DEF Stands
  <2>4. Told(r) = Told(proc[p])
    BY <2>1, <2>2 DEF Told
  <2> QED
    BY <2>1, <2>2, <2>3, <2>4, Quiet
<1>6. CASE PopReturn(p)
  <2>1. Local(p, "return", Done(p, Node(p).n)) /\ proc[p].pc = "return"
    BY <1>6 DEF PopReturn, Local, Step
  <2>2. Told(proc[p]) = Node(p).n
    BY <2>1 DEF Told, Node
  <2>3. PICK r : r = Done(p, Node(p).n)
    OBVIOUS
  <2>4. r.pc = "menu" /\ Stands(r, n) /\ Told(r) = Told(proc[p]) /\ r.obj = proc[p].obj
    BY <2>2, <2>3, DoneStands, WorksIs
  <2> QED
    BY <2>1, <2>3, <2>4, Quiet
<1> QED
  BY <1>3, <1>4, <1>5, <1>6

\* Of the nodes only k of the object a has changed, to node.
Wrote(a, k, node) ==
  /\ \A j \in Index : mem'[a][j] = IF j = k THEN node ELSE mem[a][j]
  /\ \A o \in 1..Objects : o # a => mem'[o] = mem[o]

LEMMA Written ==
  ASSUME NEW p \in Procs, NEW sz, NEW a, NEW n, Works(p, sz, a, n), NEW from, NEW r, NEW k \in Index, NEW node,
         Write(p, from, r, k, node)
  PROVE  /\ proc[p].pc = from /\ proc' = [proc EXCEPT ![p] = r] /\ turns' = turns
         /\ name' = name /\ made' = made
         /\ Wrote(a, k, node)
<1>1. a = proc[p].obj /\ a \in 1..Objects /\ MemOK
  BY WorksIs DEF IInv
<1>2. mem[a] \in [Index -> [n : Values \union {0}, next : Index]]
  BY <1>1 DEF MemOK
<1>3. mem' = [mem EXCEPT ![a][k] = node]
  BY <1>1 DEF Write
<1>4. \A j \in Index : mem'[a][j] = IF j = k THEN node ELSE mem[a][j]
  BY <1>1, <1>2, <1>3 DEF MemOK
<1>5. \A o \in 1..Objects : o # a => mem'[o] = mem[o]
  BY <1>1, <1>3 DEF MemOK
<1> QED
  BY <1>4, <1>5 DEF Write, Step, Wrote

LEMMA NodeType ==
  ASSUME NEW p \in Procs, NEW sz, NEW a, NEW n, Works(p, sz, a, n), NEW k \in Index
  PROVE  mem[a][k] \in [n : Values \union {0}, next : Index]
<1>1. IInv /\ a \in 1..Objects
  BY WorksIs
<1> QED
  BY <1>1 DEF IInv, MemOK

\* Said does not change when p is told nothing.
LEMMA SaidSame ==
  ASSUME NEW p \in Procs, NEW sz, NEW a, NEW n, Works(p, sz, a, n), NEW r, proc' = [proc EXCEPT ![p] = r],
         r.pc # "return", proc[p].pc # "return", r.said = proc[p].said
  PROVE  \A q \in Procs : Said'[q] = Said[q]
<1>1. Alone(p) /\ proc \in [Procs -> Process]
  BY WorksIs
<1>2. PICK x : x = r.said
  OBVIOUS
<1>3. x = Told(r)'
  BY <1>2 DEF Told
<1>4. \A q \in Procs : Said'[q] = IF q = p THEN x ELSE Said[q]
  BY <1>1, <1>3, SaidIs
<1>5. Said[p] = x
  BY <1>2 DEF Said
<1> QED
  BY <1>4, <1>5

LEMMA LinkTurn ==
  ASSUME NEW p \in Procs, NEW sz, NEW a, NEW n, Works(p, sz, a, n), IInv', InsertLink(p)
  PROVE  Follows
<1>0. PICK r : r = [proc[p] EXCEPT !.pc = "value", !.cur = proc[p].c + 1]
  OBVIOUS
<1> DEFINE node == [Node(p) EXCEPT !.next = proc[p].c + 1]
<1>1. Write(p, "link", r, proc[p].cur, node) /\ proc[p].pc = "link" /\ ~AtRest(p)
  BY <1>0 DEF InsertLink, Write, Step, AtRest
<1>2. /\ n \in Nat /\ n < Limit /\ Limit \in Nat /\ Index = 0..Limit /\ proc[p] \in Process
      /\ proc[p].c = n /\ proc[p].cur = n /\ proc[p].arg \in Values /\ Node(p) = mem[a][n]
      /\ Ahead(a, n) /\ mem[a][0].n = 0 /\ n \in Index /\ proc[p].obj = a /\ proc \in [Procs -> Process]
  BY <1>1, NodeSeen, WorksIs DEF Stands
<1>3. /\ proc' = [proc EXCEPT ![p] = r] /\ turns' = turns /\ name' = name /\ made' = made
      /\ \A o \in 1..Objects : o # a => mem'[o] = mem[o]
      /\ \A j \in Index : mem'[a][j] = IF j = n THEN node ELSE mem[a][j]
  <2>1. Write(p, "link", r, n, node) /\ n \in Index
    BY <1>1, <1>2
  <2> HIDE DEF node
  <2>2. /\ proc' = [proc EXCEPT ![p] = r] /\ turns' = turns /\ name' = name /\ made' = made
        /\ Wrote(a, n, node)
    BY <2>1, Written
  <2> QED
    BY <2>2 DEF Wrote
<1>4. r.pc = "value" /\ r.cur = n + 1 /\ r.arg \in Values /\ r.said = proc[p].said /\ r.obj = a
  BY <1>0, <1>2 DEF Process
<1>5. mem[a][n] \in [n : Values \union {0}, next : Index]
  BY <1>2, NodeType
<1>6. node.next = n + 1 /\ node.n = mem[a][n].n
  BY <1>2, <1>5
<1> HIDE DEF node
<1>7. \A j \in Index : mem'[a][j].n = mem[a][j].n
  BY <1>3, <1>6
<1>8. Ahead(a, n + 1)'
  <2> SUFFICES ASSUME NEW j \in Index PROVE mem'[a][j].next = IF j < n + 1 THEN j + 1 ELSE 0
    BY DEF Ahead
  <2>1. CASE j = n
    BY <1>2, <1>3, <1>6, <2>1
  <2>2. CASE j # n
    <3>1. mem'[a][j].next = IF j < n THEN j + 1 ELSE 0
      BY <1>2, <1>3, <2>2 DEF Ahead
    <3> QED
      BY <1>2, <2>2, <3>1
  <2> QED
    BY <2>1, <2>2
<1>9. n + 1 \in Index /\ Stands(r, n + 1) /\ mem'[a][0].n = 0 /\ r.pc # "seal"
  BY <1>2, <1>4, <1>7 DEF Stands
<1>10. Moved(p, a, n, r, n + 1)
  BY <1>3, <1>4, <1>8, <1>9, Moves
<1>11. Held(proc[p], n) = n /\ Held(r, n + 1) = n
  BY <1>1, <1>2, <1>4 DEF Held
<1>12. \A k \in 1..n : mem'[a][k].n = mem[a][k].n
  BY <1>2, <1>7
<1>13. Turned' /\ \A o \in 1..Objects : Stack(o)' = Stack(o)
  BY <1>10, <1>11, <1>12 DEF Moved
<1>14. \A q \in Procs : Said'[q] = Said[q]
  BY <1>1, <1>3, <1>4, SaidSame
<1>15. Stays
  BY <1>2, <1>3, <1>4, StaysIs
<1> QED
  BY <1>13, <1>14, <1>15, Unseen DEF Follows

LEMMA ValueTurn ==
  ASSUME NEW p \in Procs, NEW sz, NEW a, NEW n, Works(p, sz, a, n), IInv', InsertValue(p)
  PROVE  Follows
<1>0. PICK r : r = [proc[p] EXCEPT !.pc = "seal"]
  OBVIOUS
<1> DEFINE node == [Node(p) EXCEPT !.n = proc[p].arg]
<1>1. Write(p, "value", r, proc[p].cur, node) /\ proc[p].pc = "value" /\ ~AtRest(p)
  BY <1>0 DEF InsertValue, Write, Step, AtRest
<1>2. /\ n \in Nat /\ n > 0 /\ Limit \in Nat /\ Index = 0..Limit /\ proc[p] \in Process
      /\ proc[p].cur = n /\ proc[p].arg \in Values /\ Node(p) = mem[a][n]
      /\ Ahead(a, n) /\ mem[a][0].n = 0 /\ n \in Index /\ proc[p].obj = a /\ proc \in [Procs -> Process]
  BY <1>1, NodeSeen, WorksIs DEF Stands
<1>3. /\ proc' = [proc EXCEPT ![p] = r] /\ turns' = turns /\ name' = name /\ made' = made
      /\ \A o \in 1..Objects : o # a => mem'[o] = mem[o]
      /\ \A j \in Index : mem'[a][j] = IF j = n THEN node ELSE mem[a][j]
  <2>1. Write(p, "value", r, n, node) /\ n \in Index
    BY <1>1, <1>2
  <2> HIDE DEF node
  <2>2. /\ proc' = [proc EXCEPT ![p] = r] /\ turns' = turns /\ name' = name /\ made' = made
        /\ Wrote(a, n, node)
    BY <2>1, Written
  <2> QED
    BY <2>2 DEF Wrote
<1>4. r.pc = "seal" /\ r.cur = n /\ r.arg = proc[p].arg /\ r.said = proc[p].said /\ r.obj = a
  BY <1>0, <1>2 DEF Process
<1>5. mem[a][n] \in [n : Values \union {0}, next : Index]
  BY <1>2, NodeType
<1>6. node.next = mem[a][n].next /\ node.n = proc[p].arg
  BY <1>2, <1>5
<1> HIDE DEF node
<1>7. Ahead(a, n)'
  BY <1>2, <1>3, <1>6 DEF Ahead
<1>8. n \in Index /\ Stands(r, n) /\ mem'[a][0].n = 0 /\ mem'[a][n].n = r.arg
  BY <1>2, <1>3, <1>4, <1>6 DEF Stands
<1>9. Moved(p, a, n, r, n)
  BY <1>3, <1>4, <1>7, <1>8, Moves
<1>10. Held(proc[p], n) = n - 1 /\ Held(r, n) = n - 1
  BY <1>1, <1>4 DEF Held
<1>11. \A k \in 1..(n - 1) : mem'[a][k].n = mem[a][k].n
  BY <1>2, <1>3
<1>12. Turned' /\ \A o \in 1..Objects : Stack(o)' = Stack(o)
  BY <1>9, <1>10, <1>11 DEF Moved
<1>13. \A q \in Procs : Said'[q] = Said[q]
  BY <1>1, <1>3, <1>4, SaidSame
<1>14. Stays
  BY <1>2, <1>3, <1>4, StaysIs
<1> QED
  BY <1>12, <1>13, <1>14, Unseen DEF Follows

\* The sequence of the values of the nodes, one more or one less.
LEMMA OneMore ==
  ASSUME NEW n \in Nat, n > 0, NEW f, NEW s, s = [k \in 1..(n - 1) |-> f[k]], NEW t, t = [k \in 1..n |-> f[k]]
  PROVE  t = Append(s, f[n]) /\ Len(s) = n - 1
<1> DEFINE S == {f[k] : k \in 1..n}
<1>1. n - 1 \in Nat /\ (n - 1) + 1 = n
  OBVIOUS
<1>2. s \in Seq(S) /\ Len(s) = n - 1
  BY <1>1
<1>3. Append(s, f[n]) = [k \in 1..n |-> IF k = n THEN f[n] ELSE s[k]]
  BY <1>1, <1>2
<1>4. \A k \in 1..n : f[k] = IF k = n THEN f[n] ELSE s[k]
  BY <1>1
<1> QED
  BY <1>2, <1>3, <1>4

LEMMA OneLess ==
  ASSUME NEW n \in Nat, n > 0, NEW f, NEW s, s = [k \in 1..n |-> f[k]], NEW t, t = [k \in 1..(n - 1) |-> f[k]]
  PROVE  t = SubSeq(s, 1, Len(s) - 1) /\ Len(s) = n /\ s[n] = f[n]
<1> DEFINE S == {f[k] : k \in 1..n}
<1>1. s \in Seq(S) /\ Len(s) = n /\ s[n] = f[n]
  OBVIOUS
<1>2. SubSeq(s, 1, n - 1) = [k \in 1..(n - 1) |-> s[k]]
  BY <1>1
<1>3. \A k \in 1..(n - 1) : f[k] = s[k]
  OBVIOUS
<1> QED
  BY <1>1, <1>2, <1>3

LEMMA SealTurn ==
  ASSUME NEW p \in Procs, NEW sz, NEW a, NEW n, Works(p, sz, a, n), IInv', InsertSeal(p)
  PROVE  Follows
<1>0. PICK r : r = Done(p, proc[p].said)
  OBVIOUS
<1> DEFINE node == [Node(p) EXCEPT !.next = 0]
<1>1. Write(p, "seal", r, proc[p].cur, node) /\ proc[p].pc = "seal" /\ ~AtRest(p)
  BY <1>0 DEF InsertSeal, Write, Step, AtRest
<1>2. /\ n \in Nat /\ n > 0 /\ n <= Limit /\ Limit \in Nat /\ Index = 0..Limit
      /\ proc[p].cur = n /\ proc[p].arg \in Values /\ Node(p) = mem[a][n]
      /\ Ahead(a, n) /\ mem[a][0].n = 0 /\ n \in Index /\ proc[p].obj = a /\ proc \in [Procs -> Process]
  BY <1>1, NodeSeen, WorksIs DEF Stands
<1>3. mem[a][n].n = proc[p].arg
  BY <1>1, WorksIs DEF Turn
<1>4. /\ proc' = [proc EXCEPT ![p] = r] /\ turns' = turns /\ name' = name /\ made' = made
      /\ \A o \in 1..Objects : o # a => mem'[o] = mem[o]
      /\ \A j \in Index : mem'[a][j] = IF j = n THEN node ELSE mem[a][j]
  <2>1. Write(p, "seal", r, n, node) /\ n \in Index
    BY <1>1, <1>2
  <2> HIDE DEF node
  <2>2. /\ proc' = [proc EXCEPT ![p] = r] /\ turns' = turns /\ name' = name /\ made' = made
        /\ Wrote(a, n, node)
    BY <2>1, Written
  <2> QED
    BY <2>2 DEF Wrote
<1>5. r.pc = "menu" /\ r.pc # "seal" /\ r.said = proc[p].said /\ Stands(r, n) /\ r.obj = a
  BY <1>0, <1>2, DoneStands, WorksIs
<1>6. mem[a][n] \in [n : Values \union {0}, next : Index]
  BY <1>2, NodeType
<1>7. node.next = 0 /\ node.n = mem[a][n].n /\ mem[a][n].next = 0
  BY <1>2, <1>6 DEF Ahead
<1> HIDE DEF node
<1>8. \A j \in Index : mem'[a][j].n = mem[a][j].n /\ mem'[a][j].next = mem[a][j].next
  BY <1>4, <1>7
<1>9. n \in Index /\ Ahead(a, n)' /\ mem'[a][0].n = 0
  BY <1>2, <1>8 DEF Ahead
<1>10. Moved(p, a, n, r, n)
  BY <1>4, <1>5, <1>9, Moves
<1>11. Held(proc[p], n) = n - 1 /\ Held(r, n) = n
  BY <1>1, <1>5 DEF Held
<1> DEFINE f == [k \in Index |-> mem[a][k].n]
<1>12. Stack(a) = [k \in 1..(n - 1) |-> f[k]] /\ Stack(a)' = [k \in 1..n |-> f[k]]
  <2>1. \A k \in 1..n : k \in Index /\ mem[a][k].n = f[k] /\ mem'[a][k].n = f[k]
    BY <1>2, <1>8
  <2>2. \A k \in 1..(n - 1) : k \in 1..n
    BY <1>2
  <2> HIDE DEF f
  <2> QED
    BY <1>10, <1>11, <2>1, <2>2 DEF Moved
<1>13. f[n] = proc[p].arg
  BY <1>2, <1>3
<1> HIDE DEF f
<1>14. n \in Nat /\ n > 0
  BY <1>2
<1>15. PICK s : s = Stack(a)
  OBVIOUS
<1>16. Stack(a)' = Append(s, proc[p].arg) /\ Len(s) = n - 1
  <2>1. PICK u : u = Stack(a)'
    OBVIOUS
  <2>2. u = Append(s, f[n]) /\ Len(s) = n - 1
    BY <1>12, <1>14, <1>15, <2>1, OneMore
  <2> QED
    BY <1>13, <2>1, <2>2
<1>17. \A q \in Procs : Said'[q] = IF q = p THEN Said[p] ELSE Said[q]
  BY <1>1, <1>4, <1>5, SaidSame
<1>18. Len(s) < Limit
  BY <1>2, <1>16
<1>19. Stays
  BY <1>2, <1>4, <1>5, StaysIs
<1>20. PICK u : u = Append(s, proc[p].arg)
  OBVIOUS
<1>21. Abstract!Insert(p, proc[p].arg)
  <2>1. Abstract!Own(p) = s /\ turns
    BY <1>15, OwnIs, WorksIs
  <2>2. PICK x : x = Said[p]
    OBVIOUS
  <2>3. [q \in Procs |-> IF turns THEN Said[q] ELSE 0][p] = x
    BY <2>1, <2>2
  <2>4. /\ Stack(a)' = u /\ \A o \in 1..Objects : o # a => Stack(o)' = Stack(o)
        /\ \A q \in Procs : Said'[q] = IF q = p THEN x ELSE Said[q]
    BY <1>10, <1>16, <1>17, <1>20, <2>2 DEF Moved
  <2>5. /\ [q \in Procs |-> IF turns THEN proc[q].obj ELSE 0][p] = a
        /\ [o \in 1..Objects |-> IF turns THEN Stack(o) ELSE <<>>]'
             = [[o \in 1..Objects |-> IF turns THEN Stack(o) ELSE <<>>] EXCEPT ![a] = u]
        /\ [q \in Procs |-> IF turns THEN Said[q] ELSE 0]'
             = [[q \in Procs |-> IF turns THEN Said[q] ELSE 0] EXCEPT ![p] = x]
        /\ UNCHANGED [q \in Procs |-> IF turns THEN proc[q].obj ELSE 0]
        /\ UNCHANGED <<IF turns THEN name ELSE 0, IF turns THEN made ELSE 0>>
    BY <1>19, <2>4, UseIs
  <2> QED
    BY <1>18, <1>20, <2>1, <2>3, <2>5 DEF Abstract!Insert, Abstract!Use
<1>23. [Abstract!Next]_(Abstract!vars)
  BY <1>2, <1>21, UseNext
<1> QED
  BY <1>10, <1>23 DEF Follows, Moved

LEMMA CutTurn ==
  ASSUME NEW p \in Procs, NEW sz, NEW a, NEW n, Works(p, sz, a, n), IInv', PopCut(p)
  PROVE  Follows
<1>0. PICK r : r = [proc[p] EXCEPT !.pc = "return"]
  OBVIOUS
<1> DEFINE node == [mem[proc[p].obj][proc[p].prev] EXCEPT !.next = 0]
<1>1. Write(p, "cut", r, proc[p].prev, node) /\ proc[p].pc = "cut" /\ ~AtRest(p) /\ proc[p].prev # Unset
  BY <1>0 DEF PopCut, Cut, Write, Step, AtRest
<1>2. /\ n \in Nat /\ n <= Limit /\ Limit \in Nat /\ Index = 0..Limit /\ proc[p] \in Process
      /\ proc[p].cur = n /\ proc[p].obj = a /\ Ahead(a, n) /\ mem[a][0].n = 0 /\ proc \in [Procs -> Process]
      /\ proc[p].prev = IF n = 0 THEN Unset ELSE n - 1
  BY <1>1, NodeSeen, WorksIs DEF Stands
<1>3. n > 0 /\ proc[p].prev = n - 1 /\ n - 1 \in Index /\ n - 1 \in Nat /\ n \in Index
  BY <1>1, <1>2
<1>4. /\ proc' = [proc EXCEPT ![p] = r] /\ turns' = turns /\ name' = name /\ made' = made
      /\ \A o \in 1..Objects : o # a => mem'[o] = mem[o]
      /\ \A j \in Index : mem'[a][j] = IF j = n - 1 THEN node ELSE mem[a][j]
  <2>1. Write(p, "cut", r, n - 1, node) /\ n - 1 \in Index
    BY <1>1, <1>3
  <2> HIDE DEF node
  <2>2. /\ proc' = [proc EXCEPT ![p] = r] /\ turns' = turns /\ name' = name /\ made' = made
        /\ Wrote(a, n - 1, node)
    BY <2>1, Written
  <2> QED
    BY <2>2 DEF Wrote
<1>5. r.pc = "return" /\ r.pc # "seal" /\ r.cur = n /\ r.obj = a
  BY <1>0, <1>2 DEF Process
<1>6. mem[a][n - 1] \in [n : Values \union {0}, next : Index]
  BY <1>3, NodeType
<1>7. node.next = 0 /\ node.n = mem[a][n - 1].n
  BY <1>2, <1>3, <1>6
<1> HIDE DEF node
<1>8. \A j \in Index : mem'[a][j].n = mem[a][j].n
  BY <1>4, <1>7
<1>9. Ahead(a, n - 1)'
  <2> SUFFICES ASSUME NEW j \in Index PROVE mem'[a][j].next = IF j < n - 1 THEN j + 1 ELSE 0
    BY DEF Ahead
  <2>1. CASE j = n - 1
    BY <1>2, <1>3, <1>4, <1>7, <2>1
  <2>2. CASE j # n - 1
    <3>1. mem'[a][j].next = IF j < n THEN j + 1 ELSE 0
      BY <1>2, <1>4, <2>2 DEF Ahead
    <3> QED
      BY <1>2, <2>2, <3>1
  <2> QED
    BY <2>1, <2>2
<1>10. Stands(r, n - 1) /\ mem'[a][0].n = 0
  BY <1>2, <1>5, <1>8 DEF Stands
<1>11. Moved(p, a, n, r, n - 1)
  BY <1>3, <1>4, <1>5, <1>9, <1>10, Moves
<1>12. Held(proc[p], n) = n /\ Held(r, n - 1) = n - 1
  BY <1>1, <1>5 DEF Held
<1> DEFINE f == [k \in Index |-> mem[a][k].n]
<1>13. Stack(a) = [k \in 1..n |-> f[k]] /\ Stack(a)' = [k \in 1..(n - 1) |-> f[k]]
  <2>1. \A k \in 1..n : k \in Index /\ mem[a][k].n = f[k] /\ mem'[a][k].n = f[k]
    BY <1>2, <1>8
  <2>2. \A k \in 1..(n - 1) : k \in 1..n
    BY <1>2
  <2> HIDE DEF f
  <2> QED
    BY <1>11, <1>12, <2>1, <2>2 DEF Moved
<1>14. f[n] = mem[a][n].n
  BY <1>3
<1> HIDE DEF f
<1>15. PICK s : s = Stack(a)
  OBVIOUS
<1>16. Stack(a)' = SubSeq(s, 1, Len(s) - 1) /\ Len(s) = n /\ s[n] = f[n]
  <2>1. PICK u : u = Stack(a)'
    OBVIOUS
  <2>2. n \in Nat /\ n > 0
    BY <1>2, <1>3
  <2>3. u = SubSeq(s, 1, Len(s) - 1) /\ Len(s) = n /\ s[n] = f[n]
    BY <1>13, <1>15, <2>1, <2>2, OneLess
  <2> QED
    BY <2>1, <2>3
<1>17. PICK x : x = mem[a][n].n
  OBVIOUS
<1>18. x = Told(r)'
  BY <1>3, <1>5, <1>8, <1>17 DEF Told
<1>19. \A q \in Procs : Said'[q] = IF q = p THEN x ELSE Said[q]
  <2>1. Alone(p) /\ proc \in [Procs -> Process]
    BY WorksIs
  <2>2. proc' = [proc EXCEPT ![p] = r]
    BY <1>4
  <2> QED
    BY <1>18, <2>1, <2>2, SaidIs
<1>20. x = s[Len(s)] /\ s # <<>>
  BY <1>3, <1>14, <1>16, <1>17
<1>21. Stays
  BY <1>0, <1>2, <1>4, <1>5, StaysIs
<1>22. PICK u : u = SubSeq(s, 1, Len(s) - 1)
  OBVIOUS
<1>23. Stack(a)' = u /\ \A o \in 1..Objects : o # a => Stack(o)' = Stack(o)
  BY <1>11, <1>16, <1>22 DEF Moved
<1>24. Abstract!Pop(p)
  <2>1. Abstract!Own(p) = s
    BY <1>15, OwnIs
  <2>2. /\ [q \in Procs |-> IF turns THEN proc[q].obj ELSE 0][p] = a
        /\ [o \in 1..Objects |-> IF turns THEN Stack(o) ELSE <<>>]'
             = [[o \in 1..Objects |-> IF turns THEN Stack(o) ELSE <<>>] EXCEPT ![a] = u]
        /\ [q \in Procs |-> IF turns THEN Said[q] ELSE 0]'
             = [[q \in Procs |-> IF turns THEN Said[q] ELSE 0] EXCEPT ![p] = x]
        /\ UNCHANGED [q \in Procs |-> IF turns THEN proc[q].obj ELSE 0]
        /\ UNCHANGED <<IF turns THEN name ELSE 0, IF turns THEN made ELSE 0>>
    BY <1>19, <1>21, <1>23, UseIs
  <2> QED
    BY <1>20, <1>22, <2>1, <2>2 DEF Abstract!Pop, Abstract!Use
<1>25. [Abstract!Next]_(Abstract!vars)
  BY <1>24, UseNext
<1> QED
  BY <1>11, <1>25 DEF Follows, Moved

\* A list without nodes is the empty stack.
LEMMA NoneHeld == ASSUME NEW s, NEW f, s = [k \in 1..0 |-> f[k]] PROVE s = <<>>
OBVIOUS

\* p takes another object, or none, and nothing else that users see changes.
LEMMA TakesIs ==
  ASSUME NEW p \in Procs, turns, turns' = turns, proc \in [Procs -> Process], NEW r,
         proc' = [proc EXCEPT ![p] = r],
         \A o \in 1..Objects : Stack(o)' = Stack(o), \A q \in Procs : Said'[q] = Said[q]
  PROVE  /\ UNCHANGED [o \in 1..Objects |-> IF turns THEN Stack(o) ELSE <<>>]
         /\ UNCHANGED [q \in Procs |-> IF turns THEN Said[q] ELSE 0]
         /\ [q \in Procs |-> IF turns THEN proc[q].obj ELSE 0]'
              = [[q \in Procs |-> IF turns THEN proc[q].obj ELSE 0] EXCEPT ![p] = r.obj]
OBVIOUS

LEMMA EmptyTurn ==
  ASSUME NEW p \in Procs, NEW sz, NEW a, NEW n, Works(p, sz, a, n), IInv', PopEmpty(p)
  PROVE  Follows
<1>1. proc[p].pc = "cut" /\ ~AtRest(p) /\ proc[p].prev = Unset
  BY DEF PopEmpty, Cut, Write, Local, Step, AtRest
<1>2. /\ n \in Nat /\ n <= Limit /\ Limit \in Nat /\ Index = 0..Limit /\ proc[p] \in Process
      /\ proc[p].cur = n /\ proc[p].obj = a /\ Ahead(a, n) /\ mem[a][0].n = 0
      /\ proc \in [Procs -> Process] /\ Alone(p) /\ turns
      /\ proc[p].prev = IF n = 0 THEN Unset ELSE n - 1
  BY <1>1, NodeSeen, WorksIs DEF Stands
<1>3. n = 0 /\ 0 \in Index /\ Held(proc[p], n) = 0
  BY <1>1, <1>2 DEF Unset, Held
<1>0. PICK r : r = [proc[p] EXCEPT !.pc = "return"]
  OBVIOUS
<1>4. r.pc = "return" /\ r.pc # "seal" /\ r.cur = 0 /\ r.obj = a
  BY <1>0, <1>2, <1>3 DEF Process
<1>5. CASE Local(p, "cut", Fresh("off", 0, proc[p].said))
  <2>0. PICK f : f = Fresh("off", 0, proc[p].said)
    OBVIOUS
  <2>1. f.pc = "off" /\ f.pc # "seal" /\ f.obj = 0 /\ Stands(f, 0) /\ Held(f, 0) = 0 /\ f.said = proc[p].said
    BY <2>0 DEF Stands, Fresh, Held
  <2>2. /\ proc' = [proc EXCEPT ![p] = f] /\ mem' = mem /\ turns' = turns /\ name' = name /\ made' = made
    BY <1>5, <2>0 DEF Local, Step
  <2>3. Ahead(a, 0)' /\ mem'[a][0].n = 0 /\ \A o \in 1..Objects : o # a => mem'[o] = mem[o]
    BY <1>2, <1>3, <2>2 DEF Ahead
  <2>4. Moved(p, a, n, f, 0)
    <3>1. f.obj \in {0, a} /\ (f.pc = "seal" => mem'[a][0].n = f.arg)
      BY <2>1
    <3> QED
      BY <1>3, <2>1, <2>2, <2>3, <3>1, Moves
  <2>5. Turned' /\ Stack(a) = <<>> /\ Stack(a)' = <<>> /\ \A o \in 1..Objects : Stack(o)' = Stack(o)
    BY <1>3, <2>1, <2>4, NoneHeld DEF Moved
  <2>6. \A q \in Procs : Said'[q] = Said[q]
    BY <1>1, <2>1, <2>2, SaidSame
  <2>7. Abstract!PopCrash(p)
    <3>1. Abstract!Own(p) = <<>>
      BY <2>5, OwnIs
    <3>2. /\ UNCHANGED [o \in 1..Objects |-> IF turns THEN Stack(o) ELSE <<>>]
          /\ UNCHANGED [q \in Procs |-> IF turns THEN Said[q] ELSE 0]
          /\ [q \in Procs |-> IF turns THEN proc[q].obj ELSE 0]'
               = [[q \in Procs |-> IF turns THEN proc[q].obj ELSE 0] EXCEPT ![p] = 0]
      <4>1. /\ UNCHANGED [o \in 1..Objects |-> IF turns THEN Stack(o) ELSE <<>>]
            /\ UNCHANGED [q \in Procs |-> IF turns THEN Said[q] ELSE 0]
            /\ [q \in Procs |-> IF turns THEN proc[q].obj ELSE 0]'
                 = [[q \in Procs |-> IF turns THEN proc[q].obj ELSE 0] EXCEPT ![p] = f.obj]
        BY <1>2, <2>2, <2>5, <2>6, TakesIs
      <4> QED
        BY <2>1, <4>1
    <3> QED
      BY <2>2, <3>1, <3>2 DEF Abstract!PopCrash
  <2>8. [Abstract!Next]_(Abstract!vars)
    BY <2>7, UseNext
  <2> QED
    BY <2>5, <2>8 DEF Follows
<1>6. ASSUME proc' = [proc EXCEPT ![p] = r], turns' = turns, name' = name, made' = made,
             Ahead(a, 0)', mem'[a][0].n = 0, \A o \in 1..Objects : o # a => mem'[o] = mem[o]
      PROVE  Follows
  <2>1. Stands(r, 0) /\ Held(r, 0) = 0
    BY <1>2, <1>4 DEF Stands, Held
  <2>2. Moved(p, a, n, r, 0)
    <3>1. r.obj \in {0, a} /\ (r.pc = "seal" => mem'[a][0].n = r.arg)
      BY <1>4
    <3> QED
      BY <1>3, <1>6, <2>1, <3>1, Moves
  <2>3. /\ Turned' /\ Stack(a) = <<>> /\ Stack(a)' = <<>>
        /\ \A o \in 1..Objects : o # a => Stack(o)' = Stack(o)
    BY <1>3, <2>1, <2>2, NoneHeld DEF Moved
  <2>4. PICK x : x = 0
    OBVIOUS
  <2>5. x = Told(r)'
    BY <1>4, <1>6, <2>4 DEF Told
  <2>6. \A q \in Procs : Said'[q] = IF q = p THEN x ELSE Said[q]
    BY <1>2, <1>6, <2>5, SaidIs
  <2>7. Stays
    BY <1>2, <1>4, <1>6, StaysIs
  <2>8. Abstract!PopEmpty(p)
    <3>1. Abstract!Own(p) = <<>>
      BY <2>3, OwnIs
    <3>2. PICK u : u = <<>>
      OBVIOUS
    <3>3. /\ [q \in Procs |-> IF turns THEN proc[q].obj ELSE 0][p] = a
          /\ [o \in 1..Objects |-> IF turns THEN Stack(o) ELSE <<>>]'
               = [[o \in 1..Objects |-> IF turns THEN Stack(o) ELSE <<>>] EXCEPT ![a] = u]
          /\ [q \in Procs |-> IF turns THEN Said[q] ELSE 0]'
               = [[q \in Procs |-> IF turns THEN Said[q] ELSE 0] EXCEPT ![p] = x]
          /\ UNCHANGED [q \in Procs |-> IF turns THEN proc[q].obj ELSE 0]
          /\ UNCHANGED <<IF turns THEN name ELSE 0, IF turns THEN made ELSE 0>>
      <4>1. Stack(a)' = u
        BY <2>3, <3>2
      <4> QED
        BY <2>3, <2>6, <2>7, <4>1, UseIs
    <3> QED
      BY <2>4, <3>1, <3>2, <3>3 DEF Abstract!PopEmpty, Abstract!Use
  <2>9. [Abstract!Next]_(Abstract!vars)
    BY <2>8, UseNext
  <2> QED
    BY <2>3, <2>9 DEF Follows
<1>7. CASE Local(p, "cut", r)
  BY <1>2, <1>3, <1>6, <1>7 DEF Local, Step, Ahead
<1>8. ASSUME NEW k \in Index, Cut(p, k) PROVE Follows
  <2>0. PICK node : node = [mem[a][k] EXCEPT !.next = 0]
    OBVIOUS
  <2>1. Write(p, "cut", r, k, node)
    BY <1>0, <1>2, <1>8, <2>0 DEF Cut
  <2>2. mem[a][k] \in [n : Values \union {0}, next : Index] /\ mem[a][k].next = 0
    <3>1. mem[a][k] \in [n : Values \union {0}, next : Index]
      BY NodeType
    <3>2. k \in Nat /\ ~(k < 0)
      BY <1>2
    <3> QED
      BY <1>2, <1>3, <3>1, <3>2 DEF Ahead
  <2>3. node.next = 0 /\ node.n = mem[a][k].n
    BY <2>0, <2>2
  <2>4. /\ proc' = [proc EXCEPT ![p] = r] /\ turns' = turns /\ name' = name /\ made' = made
        /\ Wrote(a, k, node)
    BY <2>1, Written
  <2>5. \A j \in Index : mem'[a][j].next = mem[a][j].next /\ mem'[a][j].n = mem[a][j].n
    BY <2>2, <2>3, <2>4 DEF Wrote
  <2>6. Ahead(a, 0)' /\ mem'[a][0].n = 0 /\ \A o \in 1..Objects : o # a => mem'[o] = mem[o]
    BY <1>2, <1>3, <2>4, <2>5 DEF Ahead, Wrote
  <2> QED
    BY <1>6, <2>4, <2>6
<1> QED
  BY <1>0, <1>5, <1>7, <1>8 DEF PopEmpty

LEMMA CountedTurn ==
  ASSUME NEW p \in Procs, NEW sz, NEW a, NEW n, Works(p, sz, a, n), IInv', CountEnd(p)
  PROVE  Follows
<1>0. PICK r : r = Done(p, proc[p].c)
  OBVIOUS
<1>1. Local(p, "count", r) /\ proc[p].pc = "count" /\ ~AtRest(p) /\ Node(p).next = 0
  BY <1>0 DEF CountEnd, AtEnd, Local, Step, AtRest
<1>2. /\ n \in Nat /\ n \in Index /\ ~(proc[p].cur < n) /\ proc[p] \in Process
      /\ Ahead(a, n) /\ mem[a][0].n = 0 /\ Stands(proc[p], n) /\ proc[p].cur \in Nat
      /\ proc[p].obj = a /\ proc \in [Procs -> Process] /\ Alone(p) /\ turns
  BY <1>1, NodeSeen, WorksIs
<1>3. proc[p].c = n
  BY <1>1, <1>2 DEF Stands
<1>4. r.pc = "menu" /\ r.pc # "seal" /\ r.said = n /\ Stands(r, n) /\ r.obj = a
  BY <1>0, <1>2, <1>3, DoneStands
<1>5. proc' = [proc EXCEPT ![p] = r] /\ mem' = mem /\ turns' = turns /\ name' = name /\ made' = made
  BY <1>1 DEF Local, Step
<1>6. /\ Ahead(a, n)' /\ mem'[a][0].n = 0 /\ \A o \in 1..Objects : o # a => mem'[o] = mem[o]
  BY <1>2, <1>5 DEF Ahead
<1>7. Moved(p, a, n, r, n)
  <2>1. r.obj \in {0, a} /\ (r.pc = "seal" => mem'[a][n].n = r.arg)
    BY <1>4
  <2> QED
    BY <1>2, <1>4, <1>5, <1>6, <2>1, Moves
<1>8. Held(proc[p], n) = n /\ Held(r, n) = n
  BY <1>1, <1>4 DEF Held
<1>9. PICK s : s = Stack(a)
  OBVIOUS
<1>10. /\ Turned' /\ Stack(a)' = s /\ s = [k \in 1..n |-> mem[a][k].n]
       /\ \A o \in 1..Objects : o # a => Stack(o)' = Stack(o)
  BY <1>5, <1>7, <1>8, <1>9 DEF Moved
<1>11. Len(s) = n
  BY <1>2, <1>10
<1>12. n = Told(r)'
  BY <1>4 DEF Told
<1>13. \A q \in Procs : Said'[q] = IF q = p THEN n ELSE Said[q]
  BY <1>2, <1>5, <1>12, SaidIs
<1>14. Stays
  BY <1>2, <1>4, <1>5, StaysIs
<1>15. Abstract!Count(p)
  <2>1. Abstract!Own(p) = s
    BY <1>9, OwnIs
  <2>2. /\ [q \in Procs |-> IF turns THEN proc[q].obj ELSE 0][p] = a
        /\ [o \in 1..Objects |-> IF turns THEN Stack(o) ELSE <<>>]'
             = [[o \in 1..Objects |-> IF turns THEN Stack(o) ELSE <<>>] EXCEPT ![a] = s]
        /\ [q \in Procs |-> IF turns THEN Said[q] ELSE 0]'
             = [[q \in Procs |-> IF turns THEN Said[q] ELSE 0] EXCEPT ![p] = n]
        /\ UNCHANGED [q \in Procs |-> IF turns THEN proc[q].obj ELSE 0]
        /\ UNCHANGED <<IF turns THEN name ELSE 0, IF turns THEN made ELSE 0>>
    <3>1. Stack(a)' = s /\ \A o \in 1..Objects : o # a => Stack(o)' = Stack(o)
      BY <1>10
    <3>2. \A q \in Procs : Said'[q] = IF q = p THEN n ELSE Said[q]
      BY <1>13
    <3> QED
      BY <1>14, <3>1, <3>2, UseIs
  <2> QED
    BY <1>11, <2>1, <2>2 DEF Abstract!Count, Abstract!Use
<1>16. [Abstract!Next]_(Abstract!vars)
  BY <1>15, UseNext
<1> QED
  BY <1>10, <1>16 DEF Follows

\* A process that works, by itself.
LEMMA RunTurn ==
  ASSUME NEW p \in Procs, NEW sz, NEW a, NEW n, Works(p, sz, a, n), IInv', Run(p)
  PROVE  Follows
BY CountTurn, CountedTurn, WalkTurn, FoundTurn, LinkTurn, ValueTurn, SealTurn, CutTurn, EmptyTurn DEF Run

\* A command starts only when no other one runs.
LEMMA ChooseTurn ==
  ASSUME NEW p \in Procs, NEW sz \in Sizes, Turn(sz), IInv, IInv', turns,
         NEW pc \in {"count", "pop", "insert"}, NEW v, pc = "insert" => v \in Values, Choose(p, pc, v)
  PROVE  Follows
<1>0. PICK a, n : a = proc[p].obj /\ n = sz[a]
  OBVIOUS
<1> DEFINE r == [proc[p] EXCEPT !.pc = pc, !.arg = v]
<1>1. Local(p, "menu", r) /\ proc[p].pc = "menu" /\ \A q \in Procs : AtRest(q)
  BY DEF Choose, Local, Step
<1>2. Works(p, sz, a, n)
  <2>1. a \in 1..Objects
    BY <1>0, <1>1, NodeIs
  <2> QED
    BY <1>0, <1>1, <2>1 DEF Works, Alone
<1>3. proc[p] \in Process /\ Stands(proc[p], n) /\ n \in Nat
  BY <1>2, WorksIs DEF IInv
<1>4. /\ r.pc = pc /\ r.arg = v /\ r.cur = proc[p].cur /\ r.c = proc[p].c /\ r.prev = proc[p].prev
      /\ r.said = proc[p].said /\ r.obj = proc[p].obj
  BY <1>3 DEF Process
<1> HIDE DEF r
<1>5. Stands(r, n)
  BY <1>1, <1>3, <1>4 DEF Stands
<1>6. Told(r) = Told(proc[p])
  BY <1>1, <1>4 DEF Told
<1> QED
  BY <1>1, <1>2, <1>4, <1>5, <1>6, Quiet

\* A process comes or goes, while another one may work: the stacks stay.
LEMMA RestTurn ==
  ASSUME NEW p \in Procs, NEW sz \in Sizes, Turn(sz), IInv, IInv', turns,
         NEW r, AtRest(p), proc' = [proc EXCEPT ![p] = r], mem' = mem, turns' = turns,
         r.pc \in {"off", "menu"}, r.cur = 0, r.c = 0, r.prev = Unset, r.said = proc[p].said
  PROVE  /\ Turned'
         /\ \A o \in 1..Objects : Stack(o)' = Stack(o)
         /\ \A q \in Procs : Said'[q] = Said[q]
<1>1. proc'[p] = r /\ \A q \in Procs : q # p => proc'[q] = proc[q]
  BY DEF IInv
<1>2. \A k : Stands(r, k)
  BY DEF Stands
<1>3. Turn(sz)'
  <2>1. \A o \in 1..Objects : Ahead(o, sz[o])' /\ mem'[o][0].n = 0
    BY DEF Turn, Ahead
  <2>2. \A q \in Procs :
          /\ Stands(proc[q], sz[proc[q].obj])'
          /\ (proc[q].pc = "seal" => mem[proc[q].obj][sz[proc[q].obj]].n = proc[q].arg)'
    <3>1. ASSUME NEW q \in Procs
          PROVE  /\ Stands(proc'[q], sz[proc'[q].obj])
                 /\ proc'[q].pc = "seal" => mem'[proc'[q].obj][sz[proc'[q].obj]].n = proc'[q].arg
      <4>1. CASE q = p
        BY <1>1, <1>2, <4>1
      <4>2. CASE q # p
        BY <1>1, <4>2 DEF Turn
      <4> QED
        BY <4>1, <4>2
    <3> QED
      BY <3>1 DEF Stands
  <2>3. \A q1, q2 \in Procs : AtRest(q1)' \/ AtRest(q2)' \/ q1 = q2
    BY <1>1 DEF Turn, AtRest
  <2> QED
    BY <2>1, <2>2, <2>3 DEF Turn
<1>4. ASSUME NEW q \in Procs, NEW o \in 1..Objects, Alone(q), \A q2 \in Procs : q2 # q => AtRest(q2)',
             \/ proc'[q] = proc[q]
             \/ AtRest(q) /\ AtRest(q)'
      PROVE  Stack(o)' = Stack(o)
  <2>0. PICK n : n = sz[o]
    OBVIOUS
  <2>1. Ahead(o, n) /\ Ahead(o, n)' /\ n \in Index /\ mem'[o] = mem[o]
    BY <1>3, <2>0 DEF Turn, Sizes
  <2>2. Alone(q)'
    BY <1>4 DEF Alone
  <2>3. (proc[q].obj = o => Stands(proc[q], n)) /\ (proc'[q].obj = o => Stands(proc[q], n)')
    BY <1>3, <2>0 DEF Turn
  <2>4. PICK h, h1 : h = Held(proc[q], n) /\ h1 = Held(proc[q], n)'
    OBVIOUS
  <2>5. /\ proc[q].obj = o => Stack(o) = [k \in 1..h |-> mem[o][k].n]
        /\ proc[q].obj # o => Stack(o) = [k \in 1..n |-> mem[o][k].n]
    BY <1>4, <2>1, <2>3, <2>4, HeldIs DEF HeldFact
  <2>6. /\ proc'[q].obj = o => Stack(o)' = [k \in 1..h1 |-> mem[o][k].n]
        /\ proc'[q].obj # o => Stack(o)' = [k \in 1..n |-> mem[o][k].n]
    BY <2>1, <2>2, <2>3, <2>4, HeldNext DEF HeldFact
  <2>7. CASE proc'[q] = proc[q]
    <3>1. h = h1
      BY <2>4, <2>7 DEF Held
    <3> QED
      BY <2>5, <2>6, <2>7, <3>1
  <2>8. CASE AtRest(q) /\ AtRest(q)'
    <3>1. h = n /\ h1 = n
      BY <2>4, <2>8 DEF Held, AtRest
    <3> QED
      <4>1. Stack(o) = [k \in 1..n |-> mem[o][k].n]
        BY <2>5, <3>1
      <4>2. Stack(o)' = [k \in 1..n |-> mem[o][k].n]
        BY <2>6, <3>1
      <4> QED
        BY <4>1, <4>2
  <2> QED
    BY <1>4, <2>7, <2>8
<1>5. ASSUME NEW o \in 1..Objects PROVE Stack(o)' = Stack(o)
  <2>1. AtRest(p) /\ AtRest(p)'
    BY <1>1 DEF AtRest
  <2>2. CASE Alone(p)
    <3>1. \A q \in Procs : q # p => AtRest(q)'
      BY <1>1, <2>2 DEF Alone, AtRest
    <3> QED
      BY <1>4, <2>1, <2>2, <3>1
  <2>3. CASE ~Alone(p)
    <3>1. PICK q \in Procs : q # p /\ ~AtRest(q)
      BY <2>3 DEF Alone
    <3>2. Alone(q)
      BY <3>1 DEF Alone, Turn
    <3>3. \A q2 \in Procs : q2 # q => AtRest(q2)'
      BY <1>1, <2>1, <3>2 DEF Alone, AtRest
    <3> QED
      BY <1>1, <1>4, <3>1, <3>2, <3>3
  <2> QED
    BY <2>2, <2>3
<1>6. \A q \in Procs : Said'[q] = Said[q]
  BY <1>1 DEF Said, Node, AtRest
<1>7. Turned'
  BY <1>3 DEF Turned
<1> QED
  BY <1>5, <1>6, <1>7

\* Who starts takes the object that has the name, or a new one.
LEMMA StartTurn ==
  ASSUME NEW p \in Procs, NEW sz \in Sizes, Turn(sz), IInv, IInv', turns, Start(p)
  PROVE  Follows
<1>1. name \in Nat /\ made \in Nat /\ proc \in [Procs -> Process] /\ Stands(proc[p], sz[proc[p].obj])
  BY ListAssumption DEF IInv, Turn
<1>2. proc[p].pc = "off" /\ turns' = turns /\ mem' = mem
  BY DEF Start, Local, Step
<1>3. PICK m : /\ proc' = [proc EXCEPT ![p] = [proc[p] EXCEPT !.pc = "menu", !.obj = m]]
               /\ \/ name # 0 /\ m = name /\ name' = name /\ made' = made
                  \/ name = 0 /\ m = made + 1 /\ name' = made + 1 /\ made' = made + 1 /\ made < Objects
  BY <1>1 DEF Start, Local, Step
<1>4. PICK r : r = [proc[p] EXCEPT !.pc = "menu", !.obj = m]
  OBVIOUS
<1>5. /\ r.pc = "menu" /\ r.cur = 0 /\ r.c = 0 /\ r.prev = Unset /\ r.said = proc[p].said /\ r.obj = m
      /\ proc' = [proc EXCEPT ![p] = r] /\ AtRest(p) /\ proc[p].obj = 0
  BY <1>1, <1>2, <1>3, <1>4 DEF Process, Stands, AtRest, IInv, ProcOK
<1>6. /\ Turned' /\ \A o \in 1..Objects : Stack(o)' = Stack(o)
      /\ \A q \in Procs : Said'[q] = Said[q]
  BY <1>2, <1>5, RestTurn
<1>7. /\ UNCHANGED [o \in 1..Objects |-> IF turns THEN Stack(o) ELSE <<>>]
      /\ UNCHANGED [q \in Procs |-> IF turns THEN Said[q] ELSE 0]
      /\ [q \in Procs |-> IF turns THEN proc[q].obj ELSE 0]'
           = [[q \in Procs |-> IF turns THEN proc[q].obj ELSE 0] EXCEPT ![p] = r.obj]
  BY <1>1, <1>2, <1>5, <1>6, TakesIs
<1>8. [q \in Procs |-> IF turns THEN proc[q].obj ELSE 0][p] = 0
  BY <1>5
<1>9. Abstract!Start(p)
  BY <1>1, <1>2, <1>3, <1>5, <1>7, <1>8 DEF Abstract!Start
<1> QED
  BY <1>6, <1>9 DEF Follows, Abstract!Next

\* Who quits takes the name away, and keeps what it was told.
LEMMA QuitTurn ==
  ASSUME NEW p \in Procs, NEW sz \in Sizes, Turn(sz), IInv, IInv', turns, Quit(p)
  PROVE  Follows
<1>1. PICK r : r = Fresh("off", 0, proc[p].said)
  OBVIOUS
<1>2. /\ proc' = [proc EXCEPT ![p] = r] /\ mem' = mem /\ turns' = turns /\ AtRest(p)
      /\ name' = 0 /\ made' = made /\ proc[p].pc = "menu" /\ proc \in [Procs -> Process]
  BY <1>1 DEF Quit, Step, AtRest, IInv
<1>3. /\ r.pc = "off" /\ r.cur = 0 /\ r.c = 0 /\ r.prev = Unset /\ r.said = proc[p].said /\ r.obj = 0
  BY <1>1 DEF Fresh
<1>4. /\ Turned' /\ \A o \in 1..Objects : Stack(o)' = Stack(o)
      /\ \A q \in Procs : Said'[q] = Said[q]
  BY <1>2, <1>3, RestTurn
<1>5. /\ UNCHANGED [o \in 1..Objects |-> IF turns THEN Stack(o) ELSE <<>>]
      /\ UNCHANGED [q \in Procs |-> IF turns THEN Said[q] ELSE 0]
      /\ [q \in Procs |-> IF turns THEN proc[q].obj ELSE 0]'
           = [[q \in Procs |-> IF turns THEN proc[q].obj ELSE 0] EXCEPT ![p] = r.obj]
  BY <1>2, <1>4, TakesIs
<1>6. [q \in Procs |-> IF turns THEN proc[q].obj ELSE 0][p] # 0
  <2>1. proc[p].obj \in 1..Objects
    BY <1>2, NodeIs
  <2> QED
    BY <2>1
<1>7. Abstract!Quit(p)
  BY <1>2, <1>3, <1>5 DEF Abstract!Quit
<1> QED
  BY <1>4, <1>6, <1>7 DEF Follows, Abstract!Next

LEMMA TurnNext ==
  ASSUME TurnInv, [Next]_vars
  PROVE  TurnInv' /\ [Abstract!Next]_(Abstract!vars)
<1>1. IInv /\ IInv' /\ turns \in BOOLEAN
  BY NextKeeps DEF TurnInv, IInv
<1>2. CASE UNCHANGED vars
  BY <1>1, <1>2 DEF vars, TurnInv, Turned, Turn, Ahead, Stands, AtRest, Abstract!vars, Stack, Along, Pending, Said, Node
<1>3. CASE Next /\ ~turns
  <2>1. turns' = turns
    BY <1>3 DEF Next, Start, Quit, Kill, Choose, Run, Local, Write, Step, CountOne, CountEnd, InsertCounted,
                InsertWalk, InsertFound, InsertLink, InsertValue, InsertSeal, PopWalk, PopFound, PopCut, PopEmpty,
                PopReturn, Walk, AtEnd, Cut
  <2> QED
    BY <1>1, <1>3, <2>1 DEF TurnInv, Abstract!vars
<1>4. CASE Next /\ turns
  <2>1. PICK sz \in Sizes : Turn(sz)
    BY <1>4 DEF TurnInv, Turned
  <2>2. PICK p \in Procs : \/ Start(p) \/ Quit(p) \/ Kill(p)
                           \/ Choose(p, "count", 0) \/ Choose(p, "pop", 0)
                           \/ \E v \in Values : Choose(p, "insert", v)
                           \/ ~AtRest(p) /\ Run(p)
    BY <1>4 DEF Next
  <2>3. CASE Start(p)
    BY <1>1, <1>4, <2>1, <2>3, StartTurn DEF Follows, TurnInv
  <2>4. CASE Quit(p)
    BY <1>1, <1>4, <2>1, <2>4, QuitTurn DEF Follows, TurnInv
  <2>5. CASE Choose(p, "count", 0) \/ Choose(p, "pop", 0) \/ \E v \in Values : Choose(p, "insert", v)
    BY <1>1, <1>4, <2>1, <2>5, ChooseTurn DEF Follows, TurnInv
  <2>6. CASE ~AtRest(p) /\ Run(p)
    <3>1. PICK a, n : a = proc[p].obj /\ n = sz[a]
      OBVIOUS
    <3>2. Works(p, sz, a, n)
      <4>1. a \in 1..Objects
        BY <1>1, <2>6, <3>1, NodeIs DEF AtRest
      <4> QED
        BY <1>1, <1>4, <2>1, <2>6, <3>1, <4>1 DEF Works, Turn, Alone
    <3> QED
      BY <1>1, <2>6, <3>2, RunTurn DEF Follows, TurnInv
  <2> QED
    BY <1>4, <2>2, <2>3, <2>4, <2>5, <2>6 DEF Kill
<1> QED
  BY <1>1, <1>2, <1>3, <1>4

LEMMA TurnInit == Init => TurnInv /\ Abstract!Init
<1> SUFFICES ASSUME Init PROVE TurnInv /\ Abstract!Init
  OBVIOUS
<1>1. IInv /\ 0 \in Index
  BY InitGood, ListAssumption DEF Index
<1>2. \A o \in 1..Objects : mem[o] = [k \in Index |-> [n |-> 0, next |-> 0]]
  BY DEF Init
<1>3. \A o \in 1..Objects : Ahead(o, 0) /\ mem[o][0].n = 0
  BY <1>1, <1>2, ListAssumption DEF Ahead, Index
<1>4. \A p \in Procs : (\A k : Stands(proc[p], k)) /\ proc[p].pc = "off" /\ proc[p].said = 0 /\ proc[p].obj = 0
  <2>1. /\ \A k : Stands(Fresh("off", 0, 0), k)
        /\ Fresh("off", 0, 0).pc = "off" /\ Fresh("off", 0, 0).said = 0 /\ Fresh("off", 0, 0).obj = 0
    BY DEF Stands, Fresh
  <2>2. \A p \in Procs : proc[p] = Fresh("off", 0, 0)
    BY DEF Init
  <2> QED
    BY <2>1, <2>2
<1>5. Turned
  <2> DEFINE sz == [o \in 0..Objects |-> 0]
  <2>1. sz \in Sizes /\ \A o \in 1..Objects : sz[o] = 0
    BY <1>1 DEF Sizes
  <2> HIDE DEF sz
  <2>2. Turn(sz)
    BY <1>3, <1>4, <2>1 DEF Turn, AtRest
  <2> QED
    BY <2>1, <2>2 DEF Turned
<1>6. ASSUME NEW o \in 1..Objects PROVE Stack(o) = <<>>
  <2>1. Pending(o) = {}
    BY <1>4 DEF Pending
  <2>2. Stack(o) = [k \in 1..0 |-> mem[o][k].n]
    BY <1>1, <1>3, <2>1, StackIs DEF StackFact
  <2> QED
    BY <2>2, NoneHeld
<1>7. \A p \in Procs : Said[p] = 0
  BY <1>4 DEF Said
<1>8. /\ [o \in 1..Objects |-> IF turns THEN Stack(o) ELSE <<>>] = [o \in 1..Objects |-> <<>>]
      /\ [p \in Procs |-> IF turns THEN proc[p].obj ELSE 0] = [p \in Procs |-> 0]
      /\ [p \in Procs |-> IF turns THEN Said[p] ELSE 0] = [p \in Procs |-> 0]
  BY <1>4, <1>6, <1>7
<1>9. Abstract!Init
  BY <1>8 DEF Abstract!Init, Init
<1> QED
  BY <1>1, <1>5, <1>9 DEF TurnInv

\* Exercise: the processes manage one list by insert, pop and count.  While
\* their users wait for each other each command of lib/common.c is one operation
\* of a stack of at most Limit values, and each object, however many are made
\* one after the other, is a stack that those keep who have it.
THEOREM ImplementsHolds == Spec => Implements
<1>1. Init => TurnInv /\ Abstract!Init
  BY TurnInit
<1>2. TurnInv /\ [Next]_vars => TurnInv' /\ [Abstract!Next]_(Abstract!vars)
  BY TurnNext
<1> QED
  BY <1>1, <1>2, PTL DEF Spec, Implements, Abstract!Spec
=============================================================================
