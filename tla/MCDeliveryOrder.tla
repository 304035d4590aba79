-------------------------- MODULE MCDeliveryOrder --------------------------
(***************************************************************************)
(* Instances of DeliveryOrder for TLC, bounded like MCMemoryQueue.         *)
(***************************************************************************)
EXTENDS DeliveryOrder, TLC

CONSTANTS q1, MaxNow, MaxSeq, MaxReceipts

OneQueue == {<<q1>>}

JobSymmetry == Permutations(JobIDs)

Bounded == now' <= MaxNow /\ seq' <= MaxSeq /\ receipts' <= MaxReceipts

MCNext == OrderNext /\ Bounded

MCSpec == OrderInit /\ [][MCNext]_orderVars

============================================================================
