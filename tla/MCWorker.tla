------------------------------ MODULE MCWorker ------------------------------
(***************************************************************************)
(* Instances of Worker for TLC.  Crashes, failed calls, shutdowns and      *)
(* postponements may recur forever in the specification; a behaviour of    *)
(* the instance has at most these many.                                    *)
(***************************************************************************)
EXTENDS Worker, TLC

CONSTANTS MaxFaults, MaxStops, MaxPostponed

WorkerSymmetry == Permutations(Procs) \cup Permutations(Slots) \cup Permutations(Jobs \ Undecodable)

Bounded ==
    /\ faults' <= MaxFaults
    /\ stops' <= MaxStops
    /\ \A j \in Jobs : takenBack'[j] <= MaxPostponed

MCNext == Next /\ Bounded

MCSpec == Init /\ [][MCNext]_vars

MCLiveSpec == MCSpec /\ Fairness

=============================================================================
