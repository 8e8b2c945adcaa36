----------------------------- MODULE PlayerList -----------------------------
(***************************************************************************)
(* What the README of esameSNP12 promises of the list of players: who      *)
(* connects is linked at its end, who leaves is taken out of it.           *)
(***************************************************************************)
EXTENDS Integers, Sequences

CONSTANT Ids

VARIABLE list

Listed == {list[i] : i \in DOMAIN list}

Init == list = <<>>

Join(p) == p \notin Listed /\ list' = Append(list, p)

Leave(p) ==
  \E k \in DOMAIN list :
    /\ list[k] = p
    /\ list' = SubSeq(list, 1, k - 1) \o SubSeq(list, k + 1, Len(list))

Next == \E p \in Ids : Join(p) \/ Leave(p)

Spec == Init /\ [][Next]_list
=============================================================================
