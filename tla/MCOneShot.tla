----------------------------- MODULE MCOneShot -----------------------------
(***************************************************************************)
(* Three clients for OneShot: one asks with 12, which may come in two      *)
(* pieces, one with 2, and one with nothing.                               *)
(***************************************************************************)
EXTENDS OneShot

CONSTANTS a, b, mute

MCMessage == [c \in Clients |-> CASE c = a -> <<1, 2>> [] c = b -> <<2>> [] c = mute -> <<>>]
MCPort == [c \in Clients |-> IF c = b THEN 2 ELSE 1]
MCFile == << <<1>>, <<>>, <<2, 3>> >>
=============================================================================
