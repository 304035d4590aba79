------------------------------ MODULE JobQueue ------------------------------
(***************************************************************************)
(* What a queue driver promises: the Queue interface of jobs/queue.go,     *)
(* without clocks, storage or delivery order.  The drivers implement it    *)
(* (MemoryQueue.tla, RedisQueue.tla) and the worker relies on it           *)
(* (Worker.tla).                                                           *)
(*                                                                         *)
(* Time appears only through what it changes.  A waiting job is due or     *)
(* not, a lease has run out or not, a claim stands or has lapsed, and      *)
(* TimePasses turns any of them over, at any moment.                       *)
(***************************************************************************)
EXTENDS Integers

CONSTANTS
    Jobs,      \* the jobs that may be on a queue, by (queue, ID)
    UniqueKeys,
    NoKey,
    Nobody     \* the holder of a free key

ASSUME ContractAssumption == NoKey \notin UniqueKeys /\ Nobody \notin Jobs

VARIABLES
    job,     \* each job's record, "absent" when it is not on the queue
    holder,  \* the job that holds each uniqueness key
    issued,  \* receipts issued so far: each Reserve issues a new one
    closed

queueVars == <<job, holder, issued, closed>>

\* "due": a waiting job may be delivered; a reserved job's lease has run out.
\* "key": the uniqueness key the job holds until it is done.
JobRecord ==
    [state : {"absent", "waiting", "reserved", "failed"},
     due : BOOLEAN, attempts : Nat, receipt : Nat, key : UniqueKeys \cup {NoKey}]

Absent == [state |-> "absent", due |-> FALSE, attempts |-> 0, receipt |-> 0, key |-> NoKey]

QueueInit ==
    /\ job = [j \in Jobs |-> Absent]
    /\ holder = [u \in UniqueKeys |-> Nobody]
    /\ issued = 0
    /\ closed = FALSE

Push(j, due) ==
    /\ ~closed
    /\ job[j].state = "absent"
    /\ job' = [job EXCEPT ![j] = [Absent EXCEPT !.state = "waiting", !.due = due]]
    /\ UNCHANGED <<holder, issued, closed>>

\* The key is claimed for the job; until it is done, or for a window.
PushUnique(j, u, due, untilDone) ==
    /\ ~closed
    /\ job[j].state = "absent"
    /\ holder[u] = Nobody
    /\ job' = [job EXCEPT ![j] = [Absent EXCEPT !.state = "waiting", !.due = due,
                                                !.key = IF untilDone THEN u ELSE NoKey]]
    /\ holder' = [holder EXCEPT ![u] = j]
    /\ UNCHANGED <<issued, closed>>

\* Variants: the attempt is not counted; a lease that ran out is never taken
\* over.
ReserveUncounted(j) ==
    /\ ~closed
    /\ job[j].state \in {"waiting", "reserved"}
    /\ job[j].due
    /\ job' = [job EXCEPT ![j].state = "reserved", ![j].due = FALSE, ![j].receipt = issued + 1]
    /\ issued' = issued + 1
    /\ UNCHANGED <<holder, closed>>

ReserveWaiting(j) ==
    /\ ~closed
    /\ job[j].state = "waiting"
    /\ job[j].due
    /\ job' = [job EXCEPT ![j].state = "reserved", ![j].due = FALSE,
                          ![j].attempts = @ + 1, ![j].receipt = issued + 1]
    /\ issued' = issued + 1
    /\ UNCHANGED <<holder, closed>>

Reserve(j) ==
    /\ ~closed
    /\ job[j].state \in {"waiting", "reserved"}
    /\ job[j].due
    /\ job' = [job EXCEPT ![j].state = "reserved", ![j].due = FALSE,
                          ![j].attempts = @ + 1, ![j].receipt = issued + 1]
    /\ issued' = issued + 1
    /\ UNCHANGED <<holder, closed>>

\* Variant: any receipt will do.
LeasedByAnyone(j, receipt) == ~closed /\ job[j].state = "reserved"

\* The receipt is the job's current lease, run out or not.
Leased(j, receipt) ==
    /\ ~closed
    /\ job[j].state = "reserved"
    /\ job[j].receipt = receipt

\* The claims once job j is done or given up on.
HolderWithout(j) ==
    [u \in UniqueKeys |-> IF u = job[j].key /\ holder[u] = j THEN Nobody ELSE holder[u]]

Ack(j, receipt) ==
    /\ Leased(j, receipt)
    /\ job' = [job EXCEPT ![j] = Absent]
    /\ holder' = HolderWithout(j)
    /\ UNCHANGED <<issued, closed>>

Release(j, receipt, due) ==
    /\ Leased(j, receipt)
    /\ job' = [job EXCEPT ![j].state = "waiting", ![j].due = due, ![j].receipt = 0]
    /\ UNCHANGED <<holder, issued, closed>>

Postpone(j, receipt, due) ==
    /\ Leased(j, receipt)
    /\ job' = [job EXCEPT ![j].state = "waiting", ![j].due = due, ![j].receipt = 0,
                          ![j].attempts = @ - 1]
    /\ UNCHANGED <<holder, issued, closed>>

Extend(j, receipt) ==
    /\ Leased(j, receipt)
    /\ job' = [job EXCEPT ![j].due = FALSE]
    /\ UNCHANGED <<holder, issued, closed>>

Bury(j, receipt) ==
    /\ Leased(j, receipt)
    /\ job' = [job EXCEPT ![j].state = "failed", ![j].due = FALSE, ![j].receipt = 0]
    /\ holder' = HolderWithout(j)
    /\ UNCHANGED <<issued, closed>>

\* A retried job reclaims its key, unless another job holds it.
RetryFailed(j) ==
    /\ ~closed
    /\ job[j].state = "failed"
    /\ \A u \in UniqueKeys : job[j].key = u => holder[u] \in {Nobody, j}
    /\ job' = [job EXCEPT ![j].state = "waiting", ![j].due = TRUE, ![j].attempts = 0]
    /\ holder' = [u \in UniqueKeys |-> IF u = job[j].key THEN j ELSE holder[u]]
    /\ UNCHANGED <<issued, closed>>

\* ForgetFailed, PurgeFailed: failed jobs are deleted.
DeleteFailed(S) ==
    /\ ~closed
    /\ \A j \in S : job[j].state = "failed"
    /\ job' = [j \in Jobs |-> IF j \in S THEN Absent ELSE job[j]]
    /\ UNCHANGED <<holder, issued, closed>>

Close ==
    /\ closed' = TRUE
    /\ job' = [j \in Jobs |-> Absent]
    /\ UNCHANGED <<holder, issued>>

\* Delays and leases run out and claims lapse, never the other way.
TimePasses ==
    /\ \E S \in SUBSET {j \in Jobs : job[j].state \in {"waiting", "reserved"}} :
          job' = [j \in Jobs |-> IF j \in S THEN [job[j] EXCEPT !.due = TRUE] ELSE job[j]]
    /\ \E L \in SUBSET UniqueKeys :
          holder' = [u \in UniqueKeys |-> IF u \in L THEN Nobody ELSE holder[u]]
    /\ UNCHANGED <<issued, closed>>

\* A call with the receipt of a delivery.
Settle(j, receipt) ==
    \/ Ack(j, receipt)
    \/ Extend(j, receipt)
    \/ Bury(j, receipt)
    \/ \E due \in BOOLEAN : Release(j, receipt, due) \/ Postpone(j, receipt, due)

\* A call that needs none.
Serve ==
    \/ \E j \in Jobs, due \in BOOLEAN :
         \/ Push(j, due)
         \/ \E u \in UniqueKeys, untilDone \in BOOLEAN : PushUnique(j, u, due, untilDone)
    \/ \E j \in Jobs : Reserve(j) \/ RetryFailed(j)
    \/ \E S \in SUBSET Jobs : DeleteFailed(S)
    \/ Close

=============================================================================
