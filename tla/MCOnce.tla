------------------------------- MODULE MCOnce -------------------------------
(***************************************************************************)
(* An instance of Once for TLC: runs of one job, and one of another.       *)
(***************************************************************************)
EXTENDS Once, TLC

CONSTANTS r1, r2, r3, r4, k1, k2

Keys == r1 :> k1 @@ r2 :> k1 @@ r3 :> k1 @@ r4 :> k2

=============================================================================
