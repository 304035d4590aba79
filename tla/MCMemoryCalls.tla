--------------------------- MODULE MCMemoryCalls ---------------------------
(***************************************************************************)
(* Instances of MemoryCalls for TLC, bounded like MCMemoryQueue.           *)
(***************************************************************************)
EXTENDS MemoryCalls, TLC

CONSTANTS q1, MaxNow, MaxSeq, MaxReceipts

OneQueue == {<<q1>>}

JobSymmetry == Permutations(JobIDs)

Bounded == now' <= MaxNow /\ seq' <= MaxSeq /\ receipts' <= MaxReceipts

MCNext == CallsNext /\ Bounded

MCSpec == CallsInit /\ [][MCNext]_<<vars, caller>>

============================================================================
