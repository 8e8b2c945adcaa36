----------------------------- MODULE SharedList -----------------------------
(***************************************************************************)
(* esameSNP10 (built with MACOS): processes keep a linked list in a POSIX  *)
(* shared memory object.  Node 0 is the head, the node a process links to  *)
(* has the index the count gives it, and next holds an index, 0 at the     *)
(* end.  Nothing is locked; a step is one access to the shared memory.     *)
(* Whoever quits unlinks the object: who starts later gets a new one.      *)
(***************************************************************************)
EXTENDS Naturals, Sequences

CONSTANTS
  Procs,    \* the processes
  Values,   \* the numbers users insert
  Limit,    \* MACLIMIT
  Objects,  \* bound: shared memory objects 1..Objects are ever created,
  Crowded   \* bound: so many if the users do not wait for each other

ASSUME ListAssumption ==
  /\ Limit \in Nat \ {0} /\ Objects \in Nat \ {0} /\ Crowded \in 0..Objects
  /\ Values \subseteq Nat

VARIABLES
  mem,    \* the nodes of each object
  name,   \* the object "/esame10" names, or 0
  made,   \* objects created so far
  proc,   \* each process: where it stands, its object, its variables
  turns   \* whether the users always wait for a command to end, and kill nobody

vars == <<mem, name, made, proc, turns>>

Index == 0..Limit

Unset == Limit + 1   \* a pointer nobody has assigned

\* A process at pc, with its object and what it printed last, that works on
\* no command.  c goes up to Limit + 1, which stands for whatever is more than
\* Limit.
Fresh(pc, obj, said) ==
  [pc |-> pc, obj |-> obj, arg |-> 0, c |-> 0, cur |-> 0, prev |-> Unset, said |-> said]

Init ==
  /\ mem = [o \in 1..Objects |-> [k \in Index |-> [n |-> 0, next |-> 0]]]
  /\ name = 0 /\ made = 0
  /\ proc = [p \in Procs |-> Fresh("off", 0, 0)]
  /\ turns \in BOOLEAN

Node(p) == mem[proc[p].obj][proc[p].cur]

AtRest(p) == proc[p].pc \in {"off", "killed", "menu"}

\* Process p passes the point from, with r for its variables.
Step(p, from, r) ==
  /\ proc[p].pc = from
  /\ proc' = [proc EXCEPT ![p] = r]
  /\ UNCHANGED turns

Local(p, from, r) == Step(p, from, r) /\ UNCHANGED <<mem, name, made>>

Write(p, from, r, k, node) ==
  /\ Step(p, from, r)
  /\ mem' = [mem EXCEPT ![proc[p].obj][k] = node]
  /\ UNCHANGED <<name, made>>

\* shm_open(O_CREAT), ftruncate and mmap: what is there is kept.
Start(p) ==
  IF name # 0 THEN Local(p, "off", [proc[p] EXCEPT !.pc = "menu", !.obj = name])
  ELSE /\ made < IF turns THEN Objects ELSE Crowded
       /\ made' = made + 1 /\ name' = made + 1
       /\ Step(p, "off", [proc[p] EXCEPT !.pc = "menu", !.obj = made + 1])
       /\ UNCHANGED mem

Quit(p) ==
  /\ Step(p, "menu", Fresh("off", 0, proc[p].said))
  /\ name' = 0
  /\ UNCHANGED <<mem, made>>

\* SIGINT, at any point.  Bound: a process started after that is another p.
Kill(p) ==
  /\ ~turns /\ proc[p].pc \notin {"off", "killed"}
  /\ Local(p, proc[p].pc, Fresh("killed", 0, proc[p].said))

\* A command starts a walk from the head.
Choose(p, pc, v) ==
  /\ turns => \A q \in Procs : AtRest(q)
  /\ Local(p, "menu", [proc[p] EXCEPT !.pc = pc, !.arg = v])

\* Back to the menu, after x was printed; kept while the users wait for each other.
Done(p, x) == Fresh("menu", proc[p].obj, IF turns THEN x ELSE 0)

\* The loops go on while current->next != 0.
Walk(p, from, r) == Node(p).next # 0 /\ Local(p, from, [r EXCEPT !.cur = Node(p).next])

AtEnd(p, from, r) == Node(p).next = 0 /\ Local(p, from, r)

CountOne(p, from) ==
  Walk(p, from, [proc[p] EXCEPT !.c = IF @ > Limit THEN @ ELSE @ + 1])

CountEnd(p) == AtEnd(p, "count", Done(p, proc[p].c))

\* A plausible error: <= for <.
InsertCountedOneMore(p) ==
  AtEnd(p, "insert", IF proc[p].c <= Limit THEN [proc[p] EXCEPT !.pc = "find", !.cur = 0]
                     ELSE Done(p, proc[p].said))

InsertCounted(p) ==
  AtEnd(p, "insert", IF proc[p].c < Limit THEN [proc[p] EXCEPT !.pc = "find", !.cur = 0]
                     ELSE Done(p, proc[p].said))

InsertWalk(p) == Walk(p, "find", proc[p])

InsertFound(p) == AtEnd(p, "find", [proc[p] EXCEPT !.pc = "link"])

\* current->next = c+1; new->n = n; new->next = 0.
InsertLink(p) ==
  Write(p, "link", [proc[p] EXCEPT !.pc = "value", !.cur = proc[p].c + 1],
        proc[p].cur, [Node(p) EXCEPT !.next = proc[p].c + 1])

InsertValue(p) ==
  Write(p, "value", [proc[p] EXCEPT !.pc = "seal"],
        proc[p].cur, [Node(p) EXCEPT !.n = proc[p].arg])

\* A plausible error: the field is taken to be 0 still.
InsertSealNot(p) == Local(p, "seal", Done(p, proc[p].said))

InsertSeal(p) ==
  Write(p, "seal", Done(p, proc[p].said), proc[p].cur, [Node(p) EXCEPT !.next = 0])

PopWalk(p) == Walk(p, "pop", [proc[p] EXCEPT !.prev = proc[p].cur])

PopFound(p) == AtEnd(p, "pop", [proc[p] EXCEPT !.pc = "cut"])

Cut(p, k) ==
  Write(p, "cut", [proc[p] EXCEPT !.pc = "return"], k,
        [mem[proc[p].obj][k] EXCEPT !.next = 0])

\* A plausible error: current->next = 0, for prev->next.
PopCutLast(p) == proc[p].prev # Unset /\ Cut(p, proc[p].cur)

PopCut(p) == proc[p].prev # Unset /\ Cut(p, proc[p].prev)

\* The list is empty: prev->next = 0 goes wherever prev happens to point, to
\* a node, to nothing of interest, or to nothing at all.
PopEmpty(p) ==
  /\ proc[p].prev = Unset
  /\ \/ \E k \in Index : Cut(p, k)
     \/ Local(p, "cut", [proc[p] EXCEPT !.pc = "return"])
     \/ Local(p, "cut", Fresh("off", 0, proc[p].said))

PopReturn(p) == Local(p, "return", Done(p, Node(p).n))

Run(p) ==
  \/ CountOne(p, "count") \/ CountEnd(p)
  \/ CountOne(p, "insert") \/ InsertCounted(p) \/ InsertWalk(p) \/ InsertFound(p)
  \/ InsertLink(p) \/ InsertValue(p) \/ InsertSeal(p)
  \/ PopWalk(p) \/ PopFound(p) \/ PopCut(p) \/ PopEmpty(p) \/ PopReturn(p)

Next ==
  \E p \in Procs :
    \/ Start(p) \/ Quit(p) \/ Kill(p)
    \/ Choose(p, "count", 0) \/ Choose(p, "pop", 0) \/ (\E v \in Values : Choose(p, "insert", v))
    \/ (~AtRest(p) /\ Run(p))

(* A process that works on a command goes on.                              *)
Fairness == \A p \in Procs : WF_vars(~AtRest(p) /\ Run(p))

Spec == Init /\ [][Next]_vars /\ Fairness

-----------------------------------------------------------------------------

Points == {"off", "killed", "menu", "count", "insert", "find", "link", "value", "seal",
           "pop", "cut", "return"}

Process == [pc : Points, obj : 0..Objects, arg : Values \union {0}, c : 0..(Limit + 1),
            cur : Nat, prev : Nat, said : Nat]

TypeOK ==
  /\ mem \in [1..Objects -> [Index -> [n : Values \union {0}, next : Nat]]]
  /\ made \in 0..Objects /\ name \in 0..made
  /\ proc \in [Procs -> Process]
  /\ turns \in BOOLEAN
  /\ \A p \in Procs : proc[p].obj \in 0..made /\ (proc[p].obj = 0 <=> proc[p].pc \in {"off", "killed"})

\* README:4-5: with a limit the memory need not grow.  No index leaves the nodes
\* 0..Limit, however the processes run into each other.
InBounds ==
  /\ \A o \in 1..Objects : \A k \in Index : mem[o][k].next \in Index
  /\ \A p \in Procs : proc[p].cur \in Index /\ (proc[p].prev # Unset => proc[p].prev \in Index)

\* The links lead from each node of S to a node of S.
Closed(o, S) == \A k \in S : mem[o][k].next \in S \ {0}

\* However the commands of the processes overlap, if nobody is killed, when
\* they are over the list has an end: each link that could close a cycle is
\* followed by the 0 that opens it.
ListEnds ==
  (\A p \in Procs : proc[p].pc \in {"off", "menu"}) =>
    \A o \in 1..Objects : \A S \in SUBSET Index : Closed(o, S) => S = {}

\* However the commands overlap, if nobody is killed, once the users give no
\* more of them those that run come to their end: no walk goes round a cycle
\* for ever.
CommandsEnd ==
  [](\A p \in Procs : proc[p].pc # "killed") =>
    (<>[][\A p \in Procs : AtRest(p) => AtRest(p)']_vars => []<>(\A p \in Procs : AtRest(p)))

\* The nodes that are being inserted.
Pending(o) == {proc[p].cur : p \in {q \in Procs : proc[q].obj = o /\ proc[q].pc \in {"value", "seal"}}}

\* The nodes of object o in the order of the links, node 0 first.
Along(o) == LET at[k \in Index] == IF k = 0 THEN 0 ELSE mem[o][at[k - 1]].next IN at

\* A node that is being inserted counts once it is complete; a process that
\* has cut a node off has been told its value.
Stack(o) ==
  LET ends == {k \in Index \ {0} : Along(o)[k] \in {0} \union Pending(o)}
      last == IF ends = {} THEN Limit ELSE (CHOOSE k \in ends : \A j \in ends : k <= j) - 1
  IN [k \in 1..last |-> mem[o][Along(o)[k]].n]

Said == [p \in Procs |-> IF proc[p].pc = "return" THEN Node(p).n ELSE proc[p].said]

Abstract == INSTANCE SharedStack WITH
              stack <- [o \in 1..Objects |-> IF turns THEN Stack(o) ELSE <<>>],
              uses <- [p \in Procs |-> IF turns THEN proc[p].obj ELSE 0],
              name <- IF turns THEN name ELSE 0,
              made <- IF turns THEN made ELSE 0,
              said <- [p \in Procs |-> IF turns THEN Said[p] ELSE 0]

\* Exercise: the processes manage one list by insert, pop and count.  If the users wait for each
\* other it is a stack of at most Limit values, until one quits: who starts later has another one.
Implements == Abstract!Spec
=============================================================================
