------------------------------ MODULE MCParts ------------------------------
(***************************************************************************)
(* The sizes TLC looks at for Parts.                                       *)
(***************************************************************************)
EXTENDS Parts

MCLimits == {3, 256, 4096, INFINITY}
MCErrors == {-256, -255}
MCLength == [a |-> 1, bb |-> 2]
=============================================================================
