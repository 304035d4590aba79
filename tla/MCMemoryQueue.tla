--------------------------- MODULE MCMemoryQueue ---------------------------
(***************************************************************************)
(* Instances of MemoryQueue for TLC.  The clock, the sequence and the      *)
(* receipts grow without bound in the specification; a step may take them  *)
(* no further than these bounds.                                           *)
(***************************************************************************)
EXTENDS MemoryQueue, TLC

CONSTANTS q1, MaxNow, MaxSeq, MaxReceipts

OneQueue == {<<q1>>}

\* No action tells one job ID from another.
JobSymmetry == Permutations(JobIDs)

Bounded == now' <= MaxNow /\ seq' <= MaxSeq /\ receipts' <= MaxReceipts

MCNext == Next /\ Bounded

MCSpec == Init /\ [][MCNext]_vars

============================================================================
