----------------------------- MODULE QueueCalls -----------------------------
(***************************************************************************)
(* The contract of JobQueue as a specification, with who calls and when: a *)
(* delivery is settled only by a call that shows its receipt, and delays,  *)
(* leases and claims run out only as the clock moves.                      *)
(***************************************************************************)
EXTENDS JobQueue

VARIABLES
    caller,  \* the receipt the last call showed
    time

CallsNext ==
    \/ Serve /\ UNCHANGED time
    \/ \E j \in Jobs, receipt \in 1..issued :
         Settle(j, receipt) /\ caller' = receipt /\ UNCHANGED time
    \/ TimePasses /\ time' # time
    \/ UNCHANGED queueVars

CallsSpec == QueueInit /\ [][CallsNext]_<<queueVars, caller, time>>

=============================================================================
