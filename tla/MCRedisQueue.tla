---------------------------- MODULE MCRedisQueue ----------------------------
(***************************************************************************)
(* Bounds for model checking RedisQueue: how far the clock and the two     *)
(* counters run.                                                           *)
(***************************************************************************)
EXTENDS RedisQueue, TLC

CONSTANTS MaxNow, MaxSeq, MaxReceipts

JobSymmetry == Permutations(JobIDs)

Bounded == now' <= MaxNow /\ seq' <= MaxSeq /\ receipts' <= MaxReceipts

MCNext == EvictingNext /\ Bounded

MCSpec == Init /\ [][MCNext]_vars

=============================================================================
