----------------------------- MODULE SharedStack -----------------------------
(***************************************************************************)
(* What the list of esameSNP10 is for its users: insert puts a value at    *)
(* the end unless Limit values are there, pop takes the last one out and   *)
(* says which it was, count says how many there are.  Who starts gets the  *)
(* stack that has the name, or a new one; who quits takes the name away,   *)
(* and those who have the stack keep it.                                   *)
(***************************************************************************)
EXTENDS Naturals, Sequences

CONSTANTS Procs, Values, Limit, Objects

VARIABLES
  stack,  \* the stacks
  uses,   \* the stack each process has, or 0
  name,   \* the one that has the name, or 0
  made,   \* how many there are
  said    \* what each process was told last

vars == <<stack, uses, name, made, said>>

Init ==
  /\ stack = [o \in 1..Objects |-> <<>>]
  /\ uses = [p \in Procs |-> 0] /\ name = 0 /\ made = 0
  /\ said = [p \in Procs |-> 0]

Start(p) ==
  /\ uses[p] = 0
  /\ IF name = 0 THEN made < Objects /\ made' = made + 1 ELSE made' = made
  /\ name' = IF name = 0 THEN made' ELSE name
  /\ uses' = [uses EXCEPT ![p] = name']
  /\ UNCHANGED <<stack, said>>

Quit(p) ==
  /\ uses' = [uses EXCEPT ![p] = 0] /\ name' = 0
  /\ UNCHANGED <<stack, made, said>>

\* p leaves the stack s and is told x.
Use(p, s, x) ==
  /\ stack' = [stack EXCEPT ![uses[p]] = s]
  /\ said' = [said EXCEPT ![p] = x]
  /\ UNCHANGED <<uses, name, made>>

Own(p) == stack[uses[p]]

Insert(p, v) == Len(Own(p)) < Limit /\ Use(p, Append(Own(p), v), said[p])

Pop(p) == Own(p) # <<>> /\ Use(p, SubSeq(Own(p), 1, Len(Own(p)) - 1), Own(p)[Len(Own(p))])

PopEmpty(p) == Own(p) = <<>> /\ Use(p, <<>>, 0)

Count(p) == Use(p, Own(p), Len(Own(p)))

\* pop of an empty stack may also end the process.
PopCrash(p) ==
  /\ Own(p) = <<>>
  /\ uses' = [uses EXCEPT ![p] = 0]
  /\ UNCHANGED <<stack, name, made, said>>

Next ==
  \E p \in Procs :
    \/ Start(p)
    \/ /\ uses[p] # 0
       /\ \/ Quit(p) \/ (\E v \in Values : Insert(p, v))
          \/ Pop(p) \/ PopEmpty(p) \/ Count(p) \/ PopCrash(p)

Spec == Init /\ [][Next]_vars
=============================================================================
