---------------------------- MODULE MCRedisCalls ----------------------------
(***************************************************************************)
(* Instances of RedisCalls for TLC, bounded like MCRedisQueue.             *)
(***************************************************************************)
EXTENDS RedisCalls, TLC

CONSTANTS MaxNow, MaxSeq, MaxReceipts

JobSymmetry == Permutations(JobIDs)

Bounded == now' <= MaxNow /\ seq' <= MaxSeq /\ receipts' <= MaxReceipts

MCNext == CallsNext /\ Bounded

MCSpec == CallsInit /\ [][MCNext]_<<vars, caller>>

=============================================================================
