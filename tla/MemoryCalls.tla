---------------------------- MODULE MemoryCalls ----------------------------
(***************************************************************************)
(* The in-memory driver implements the contracts of Queue and OnceStore:   *)
(* MemoryQueue with a history of who made the last call.                   *)
(***************************************************************************)
EXTENDS MemoryQueue

VARIABLE caller  \* history: the receipt or the token the last call showed, if any

CallsInit == Init /\ caller = 0

CallsNext ==
    \/ Serve /\ caller' = 0
    \/ \E j \in JobKey, receipt \in 1..receipts : Settle(j, receipt) /\ caller' = receipt
    \/ \E k \in OnceKeys, token \in Tokens : UseOnce(k, token) /\ caller' = token
    \/ Tick /\ UNCHANGED caller

CallsSpec == CallsInit /\ [][CallsNext]_<<vars, caller>>

\* A job as the contract sees it: its delay or lease has run out once the
\* clock reaches "at".
ContractJob(j) ==
    IF ~On(j)
    THEN [state |-> "absent", due |-> FALSE, attempts |-> 0, receipt |-> 0, key |-> NoKey]
    ELSE [state |-> jobs[j].state, due |-> Available(j), attempts |-> jobs[j].attempts,
          receipt |-> jobs[j].receipt, key |-> jobs[j].unique]

\* A claim that expired is no claim, whether it was swept or not.
ContractHolder(u) == IF Live(uniques[u]) THEN uniques[u].holder ELSE NoJob

Contract == INSTANCE QueueCalls WITH
    Jobs <- JobKey, UniqueKeys <- UniqueKey, Nobody <- NoJob,
    job <- [j \in JobKey |-> ContractJob(j)],
    holder <- [u \in UniqueKey |-> ContractHolder(u)],
    issued <- receipts, time <- now

\* The driver keeps the contract of the Queue interface: each method is a step
\* the contract allows its caller, a late settlement with a receipt of the
\* past changes nothing, and claims and leases end with the clock only,
\* whatever sweepClaims drops.
ImplementsQueue == Contract!CallsSpec

\* A job on the queue changes by its holder's word only.  While it waits it can
\* only be delivered; while it is leased it is acked, released, renewed or
\* buried by a call that shows its current receipt, or delivered again once
\* the lease ran out; it leaves the queue by its holder's ack, from the failed
\* jobs, or with the queue itself (leased, Ack, release, Extend, Bury, Reserve,
\* PurgeFailed).
OnlyHolderSettles ==
    [][\A j \in JobKey : On(j) /\ jobs'[j] # jobs[j] /\ ~closed' =>
         \/ jobs[j].state = "failed"
         \/ jobs[j].state = "reserved" /\ caller' = jobs[j].receipt
         \/ Available(j) /\ jobs'[j] # NoJob /\ jobs'[j].receipt = receipts + 1]_<<vars, caller>>

OnceContract == INSTANCE OnceCalls WITH
    Free <- NoClaim, Done <- OnceDoneMarker,
    record <- [k \in OnceKeys |-> IF Live(once[k]) THEN once[k].holder ELSE NoClaim],
    time <- now

\* The driver keeps the contract of the OnceStore interface: a lock or record
\* stands until its own token finishes or abandons it or it expires, and
\* sweepClaims, which uniqueness claims trigger too, drops none before.
ImplementsOnceStore == OnceContract!CallsSpec

============================================================================
