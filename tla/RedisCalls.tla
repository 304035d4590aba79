----------------------------- MODULE RedisCalls -----------------------------
(***************************************************************************)
(* The Redis driver implements the contracts of Queue and OnceStore:       *)
(* RedisQueue with a history of who made the last call.                    *)
(***************************************************************************)
EXTENDS RedisQueue

VARIABLE caller  \* history: the receipt or the token the last call showed, if any

CallsInit == Init /\ caller = 0

CallsNext ==
    \/ Serve /\ caller' = 0
    \/ \E i \in JobIDs, receipt \in 1..receipts : Settle(i, receipt) /\ caller' = receipt
    \/ \E k \in OnceKeys, token \in Tokens : UseOnce(k, token) /\ caller' = token
    \/ Tick /\ UNCHANGED caller

CallsSpec == CallsInit /\ [][CallsNext]_<<vars, caller>>

\* The job a queue client sees.
ContractJob(i) ==
    LET entry == CHOOSE e \in pending \cup reserved : e.id = i
        state == IF IsFailed(i) THEN "failed"
                 ELSE IF entry \in reserved THEN "reserved" ELSE "waiting" IN
    IF Exists(i)
    THEN [state |-> state,
          due |-> IF IsFailed(i) THEN FALSE ELSE entry.score <= now,
          attempts |-> hash[i].attempts, receipt |-> hash[i].receipt,
          key |-> hash[i].unique]
    ELSE [state |-> "absent", due |-> FALSE, attempts |-> 0, receipt |-> 0, key |-> NoKey]

\* Closing a client leaves the queue as it is, for the others.
Contract == INSTANCE QueueCalls WITH
    Jobs <- JobIDs, UniqueKeys <- Keys, Nobody <- NoClaim,
    job <- [i \in JobIDs |-> ContractJob(i)],
    holder <- [k \in Keys |-> IF Taken(k) THEN unique[k].holder ELSE NoClaim],
    issued <- receipts, closed <- FALSE, time <- now

\* The scripts implement the Queue interface: whatever the order in which
\* clients run them, each is one operation of the contract, and a settlement
\* with a receipt of the past changes nothing.
ImplementsQueue == Contract!CallsSpec

OnceContract == INSTANCE OnceCalls WITH
    Free <- NoClaim, Done <- OnceDoneMarker,
    record <- [k \in OnceKeys |-> IF Live(once[k]) THEN once[k].holder ELSE NoClaim],
    time <- now

\* The Once scripts implement the OnceStore interface: only its own token
\* finishes or abandons a lock.
ImplementsOnceStore == OnceContract!CallsSpec

=============================================================================
