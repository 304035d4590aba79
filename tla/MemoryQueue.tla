---------------------------- MODULE MemoryQueue ----------------------------
(***************************************************************************)
(* The in-memory driver of the jobs queue, jobs/memory.go.                 *)
(*                                                                         *)
(* Every method of the driver runs under one mutex, so each is one action. *)
(* A method that returns an error and changes nothing is a stuttering step *)
(* and has no action of its own; one that is refused after it changed      *)
(* state (PushUnique sweeps before it refuses) is modelled in full.        *)
(*                                                                         *)
(* Time is the driver's clock, a natural number that Tick advances.  A     *)
(* receipt is a fresh UUID in the code and a fresh natural number here;    *)
(* receipt 0 is the empty receipt of a job that is not leased.             *)
(***************************************************************************)
EXTENDS Integers, Sequences

CONSTANTS
    Queues,       \* names of queues
    JobIDs,       \* envelope IDs, unique per queue
    Keys,         \* uniqueness keys
    OnceKeys,     \* keys of Once effects
    Tokens,       \* lock tokens of Once runs
    Orders,       \* the queue lists workers reserve from, in priority order
    Leases,       \* lease durations
    Delays,       \* delays of pushes and releases; 0 is "available now"
    TTLs,         \* uniqueness claim durations
    Locks, Keeps, \* Once lock and record durations
    SweepEvery,   \* claimSweepEvery
    NoJob, NoClaim, NoKey, OnceDoneMarker

\* A job ID is unique per queue (memoryKey), and so is a uniqueness key.
JobKey == Queues \X JobIDs

UniqueKey == Queues \X Keys

\* The durations are what the drivers validate: leases and claims are
\* positive, delays may be zero.  The "nothing" values are not data.
ASSUME QueueAssumption ==
    /\ Leases \subseteq Nat \ {0}
    /\ TTLs \subseteq Nat \ {0}
    /\ Locks \subseteq Nat \ {0}
    /\ Keeps \subseteq Nat \ {0}
    /\ Delays \subseteq Nat
    /\ SweepEvery \in Nat \ {0}
    /\ Orders \subseteq Seq(Queues)
    /\ NoKey \notin UniqueKey
    /\ OnceDoneMarker \notin Tokens

VARIABLES
    now,       \* the queue's clock
    jobs,      \* jobs held, by (queue, ID)
    uniques,   \* uniqueness claims, by (queue, key)
    once,      \* Once locks and records, by key
    seq,       \* push and release order
    ops,       \* claim operations since the last sweep
    receipts,  \* receipts issued so far
    closed,
    heldUntil, \* history: when the last claim granted to a job lapses
    windowEnd  \* history: when the last deduplication window of a key ends

claimVars == <<uniques, once, ops>>
vars == <<now, jobs, uniques, once, seq, ops, receipts, closed, heldUntil, windowEnd>>

\* memoryJob.  "state" stands for the reserved flag and the failure pointer;
\* "at" is the one time that is read in that state: availableAt, leaseDeadline
\* or failure.At (the others are overwritten before they are read again).
MemoryJob ==
    [state      : {"waiting", "reserved", "failed"},
     at         : Nat,
     attempts   : Nat,
     seq        : Nat,
     receipt    : Nat,
     unique     : UniqueKey \cup {NoKey},
     uniqueTTL  : Nat,
     heldUnique : BOOLEAN]

\* memoryClaim.
Claim(holders) == [holder : holders, expires : Nat]

ASSUME NothingAssumption ==
    /\ NoJob \notin MemoryJob
    /\ NoClaim \notin Claim(JobKey)
    /\ NoClaim \notin Claim(Tokens \cup {OnceDoneMarker})
    /\ NoClaim \notin Tokens \cup {OnceDoneMarker}
    /\ NoJob \notin JobKey

----------------------------------------------------------------------------

Init ==
    /\ now = 0
    /\ jobs = [j \in JobKey |-> NoJob]
    /\ uniques = [u \in UniqueKey |-> NoClaim]
    /\ once = [k \in OnceKeys |-> NoClaim]
    /\ seq = 0
    /\ ops = 0
    /\ receipts = 0
    /\ closed = FALSE
    /\ heldUntil = [j \in JobKey |-> 0]
    /\ windowEnd = [u \in UniqueKey |-> 0]

On(j) == jobs[j] # NoJob

\* A claim counts only until it expires.
Live(claim) == claim # NoClaim /\ now < claim.expires

\* sweepClaims: every SweepEvery claim operations the expired claims go.
SweepDue == ops + 1 >= SweepEvery

\* Variant: the sweep does not look at expiry.
SweptAll(claims) == IF SweepDue THEN [k \in DOMAIN claims |-> NoClaim] ELSE claims

Swept(claims) ==
    IF SweepDue
    THEN [k \in DOMAIN claims |-> IF Live(claims[k]) THEN claims[k] ELSE NoClaim]
    ELSE claims

SweepClaims == ops' = IF SweepDue THEN 0 ELSE ops + 1

\* A job as push stores it.
NewJob(delay, unique, ttl) ==
    [state |-> "waiting", at |-> now + delay, attempts |-> 0, seq |-> seq + 1,
     receipt |-> 0, unique |-> unique, uniqueTTL |-> ttl,
     heldUnique |-> unique # NoKey]

Push(j, delay) ==
    /\ ~closed
    /\ ~On(j)
    /\ jobs' = [jobs EXCEPT ![j] = NewJob(delay, NoKey, 0)]
    /\ seq' = seq + 1
    /\ UNCHANGED <<now, claimVars, receipts, closed, heldUntil, windowEnd>>

\* PushUnique of a job whose key is held, or whose ID is on the queue: only
\* the sweep takes effect.
PushRefused(j, u) ==
    /\ ~closed
    /\ Live(uniques[u]) \/ On(j)
    /\ SweepClaims
    /\ uniques' = Swept(uniques)
    /\ once' = Swept(once)
    /\ UNCHANGED <<now, jobs, seq, receipts, closed, heldUntil, windowEnd>>

PushUnique(j, u, delay, ttl, untilDone) ==
    /\ ~closed
    /\ ~Live(uniques[u])
    /\ ~On(j)
    /\ SweepClaims
    /\ uniques' = [Swept(uniques) EXCEPT ![u] = [holder |-> j, expires |-> now + ttl]]
    /\ once' = Swept(once)
    /\ jobs' = [jobs EXCEPT ![j] =
                  IF untilDone THEN NewJob(delay, u, ttl) ELSE NewJob(delay, NoKey, 0)]
    /\ seq' = seq + 1
    /\ heldUntil' = IF untilDone THEN [heldUntil EXCEPT ![j] = now + ttl] ELSE heldUntil
    /\ windowEnd' = IF untilDone THEN windowEnd ELSE [windowEnd EXCEPT ![u] = now + ttl]
    /\ UNCHANGED <<now, receipts, closed>>

----------------------------------------------------------------------------

\* Variant: a leased job is delivered without regard to its deadline.
AvailableLeased(j) ==
    /\ On(j)
    /\ jobs[j].state # "failed"
    /\ jobs[j].state = "reserved" \/ now >= jobs[j].at

\* available: waiting and due, or reserved with its lease expired.
Available(j) ==
    /\ On(j)
    /\ jobs[j].state # "failed"
    /\ now >= jobs[j].at

AvailableOn(q) == {j \in {q} \X JobIDs : Available(j)}

\* Variant: push order only.
BeforeBySeq(j, k) == jobs[j].seq < jobs[k].seq

\* before: by when they became available, then by push order.
Before(j, k) ==
    \/ jobs[j].at < jobs[k].at
    \/ jobs[j].at = jobs[k].at /\ jobs[j].seq < jobs[k].seq

\* The first queue of order that has a job available.
FirstReady(order, q) ==
    \E i \in DOMAIN order :
        /\ order[i] = q
        /\ \A h \in 1..(i-1) : AvailableOn(order[h]) = {}

Reserve(order, lease, j) ==
    /\ ~closed
    /\ FirstReady(order, j[1])
    /\ j \in AvailableOn(j[1])
    /\ \A k \in AvailableOn(j[1]) \ {j} : Before(j, k)
    /\ jobs' = [jobs EXCEPT ![j].state = "reserved",
                            ![j].at = now + lease,
                            ![j].attempts = @ + 1,
                            ![j].receipt = receipts + 1]
    /\ receipts' = receipts + 1
    /\ UNCHANGED <<now, claimVars, seq, closed, heldUntil, windowEnd>>

\* Variant: any receipt will do.
LeasedByAnyone(j, receipt) == ~closed /\ On(j) /\ jobs[j].state = "reserved"

\* leased: the delivery's receipt is the job's current lease.  A lease that
\* expired but that no other Reserve has taken yet still counts.
Leased(j, receipt) ==
    /\ ~closed
    /\ On(j)
    /\ jobs[j].state = "reserved"
    /\ jobs[j].receipt = receipt

\* Variant: the claim goes whoever holds it.
ReleaseUniqueOfAnyone(j) ==
    IF jobs[j].heldUnique THEN [uniques EXCEPT ![jobs[j].unique] = NoClaim] ELSE uniques

\* releaseUnique: the claim the job holds until done, if it still holds it.
ReleaseUnique(j) ==
    LET u == jobs[j].unique IN
    IF jobs[j].heldUnique /\ uniques[u] # NoClaim /\ uniques[u].holder = j
    THEN [uniques EXCEPT ![u] = NoClaim]
    ELSE uniques

Ack(j, receipt) ==
    /\ Leased(j, receipt)
    /\ uniques' = ReleaseUnique(j)
    /\ jobs' = [jobs EXCEPT ![j] = NoJob]
    /\ heldUntil' = [heldUntil EXCEPT ![j] = 0]
    /\ UNCHANGED <<now, once, seq, ops, receipts, closed, windowEnd>>

\* Variants: the receipt stays valid; the job keeps its place in the order.
ReleaseKeepsReceipt(j, receipt, delay, uncount) ==
    /\ Leased(j, receipt)
    /\ jobs' = [jobs EXCEPT ![j].state = "waiting", ![j].at = now + delay, ![j].seq = seq + 1]
    /\ seq' = seq + 1
    /\ UNCHANGED <<now, claimVars, receipts, closed, heldUntil, windowEnd>>

ReleaseKeepsSeq(j, receipt, delay, uncount) ==
    /\ Leased(j, receipt)
    /\ jobs' = [jobs EXCEPT ![j].state = "waiting", ![j].receipt = 0, ![j].at = now + delay]
    /\ UNCHANGED <<now, claimVars, seq, receipts, closed, heldUntil, windowEnd>>

\* release: Release keeps the attempt, Postpone takes it back.
Release(j, receipt, delay, uncount) ==
    /\ Leased(j, receipt)
    /\ jobs' = [jobs EXCEPT ![j].state = "waiting",
                            ![j].receipt = 0,
                            ![j].at = now + delay,
                            ![j].attempts = IF uncount /\ @ > 0 THEN @ - 1 ELSE @,
                            ![j].seq = seq + 1]
    /\ seq' = seq + 1
    /\ UNCHANGED <<now, claimVars, receipts, closed, heldUntil, windowEnd>>

\* Variant: the deadline moves the wrong way.
ExtendBackwards(j, receipt, lease) ==
    /\ Leased(j, receipt)
    /\ jobs' = [jobs EXCEPT ![j].at = now - lease]
    /\ UNCHANGED <<now, claimVars, seq, receipts, closed, heldUntil, windowEnd>>

Extend(j, receipt, lease) ==
    /\ Leased(j, receipt)
    /\ jobs' = [jobs EXCEPT ![j].at = now + lease]
    /\ UNCHANGED <<now, claimVars, seq, receipts, closed, heldUntil, windowEnd>>

\* Variant: the job keeps its claim.
BuryKeepsClaim(j, receipt, failedAt) ==
    /\ Leased(j, receipt)
    /\ jobs' = [jobs EXCEPT ![j].state = "failed", ![j].at = failedAt, ![j].receipt = 0,
                            ![j].heldUnique = FALSE]
    /\ UNCHANGED <<now, claimVars, seq, receipts, closed, heldUntil, windowEnd>>

\* Bury: the failure keeps the time the caller gave it, or gets the time of
\* the call.
Bury(j, receipt, failedAt) ==
    /\ Leased(j, receipt)
    /\ uniques' = ReleaseUnique(j)
    /\ jobs' = [jobs EXCEPT ![j].state = "failed",
                            ![j].at = failedAt,
                            ![j].receipt = 0,
                            ![j].heldUnique = FALSE]
    /\ heldUntil' = [heldUntil EXCEPT ![j] = 0]
    /\ UNCHANGED <<now, once, seq, ops, receipts, closed, windowEnd>>

----------------------------------------------------------------------------

Failed(j) == ~closed /\ On(j) /\ jobs[j].state = "failed"

\* A retried job reclaims its key, unless another job holds it now.
RetryFailed(j) ==
    LET u == jobs[j].unique IN
    /\ Failed(j)
    /\ u # NoKey => (Live(uniques[u]) => uniques[u].holder = j)
    /\ IF u = NoKey
       THEN UNCHANGED <<uniques, heldUntil>>
       ELSE LET expires == now + jobs[j].uniqueTTL IN
            /\ uniques' = [uniques EXCEPT ![u] = [holder |-> j, expires |-> expires]]
            /\ heldUntil' = [heldUntil EXCEPT ![j] = expires]
    /\ jobs' = [jobs EXCEPT ![j].state = "waiting",
                            ![j].at = now,
                            ![j].attempts = 0,
                            ![j].seq = seq + 1,
                            ![j].heldUnique = u # NoKey]
    /\ seq' = seq + 1
    /\ UNCHANGED <<now, once, ops, receipts, closed, windowEnd>>

ForgetFailed(j) ==
    /\ Failed(j)
    /\ jobs' = [jobs EXCEPT ![j] = NoJob]
    /\ UNCHANGED <<now, claimVars, seq, receipts, closed, heldUntil, windowEnd>>

\* PurgeFailed(q, before): a zero time purges every failed job, as any time
\* past now does.
PurgeFailed(q, before) ==
    /\ ~closed
    /\ jobs' = [j \in JobKey |-> IF j[1] = q /\ Failed(j) /\ jobs[j].at < before
                                THEN NoJob ELSE jobs[j]]
    /\ UNCHANGED <<now, claimVars, seq, receipts, closed, heldUntil, windowEnd>>

\* Close drops the jobs; the claims stay.
Close ==
    /\ closed' = TRUE
    /\ jobs' = [j \in JobKey |-> NoJob]
    /\ UNCHANGED <<now, claimVars, seq, receipts, heldUntil, windowEnd>>

\* Stats: the jobs of a queue by state, as sets, and when the longest-waiting
\* ready one became available.  A lease that expired counts as ready.
Stats(q) ==
    LET on        == {j \in {q} \X JobIDs : On(j)}
        failed    == {j \in on : jobs[j].state = "failed"}
        reserved  == {j \in on : jobs[j].state = "reserved" /\ now < jobs[j].at}
        scheduled == {j \in on : jobs[j].state = "waiting" /\ now < jobs[j].at}
        ready     == on \ (failed \cup reserved \cup scheduled)
    IN  [failed |-> failed, reserved |-> reserved, scheduled |-> scheduled, ready |-> ready,
         oldestReady |-> IF ready = {} THEN 0
                         ELSE CHOOSE t \in {jobs[j].at : j \in ready} :
                                \A j \in ready : t <= jobs[j].at]

----------------------------------------------------------------------------

\* BeginOnce takes a free key's lock; on a held or recorded key only the
\* sweep takes effect.  None of the three consults closed.
BeginOnce(k, token, lock) ==
    /\ SweepClaims
    /\ uniques' = Swept(uniques)
    /\ once' = IF Live(once[k]) THEN Swept(once)
               ELSE [Swept(once) EXCEPT ![k] = [holder |-> token, expires |-> now + lock]]
    /\ UNCHANGED <<now, jobs, seq, receipts, closed, heldUntil, windowEnd>>

\* Variant: an expired lock still counts.
HoldsOnceExpired(k, token) == once[k] # NoClaim /\ once[k].holder = token

\* FinishOnce: the token holds the lock only while it is unexpired.
HoldsOnce(k, token) == Live(once[k]) /\ once[k].holder = token

FinishOnce(k, token, keep) ==
    /\ HoldsOnce(k, token)
    /\ once' = [once EXCEPT ![k] = [holder |-> OnceDoneMarker, expires |-> now + keep]]
    /\ UNCHANGED <<now, jobs, uniques, seq, ops, receipts, closed, heldUntil, windowEnd>>

AbandonOnce(k, token) ==
    /\ once[k] # NoClaim /\ once[k].holder = token
    /\ once' = [once EXCEPT ![k] = NoClaim]
    /\ UNCHANGED <<now, jobs, uniques, seq, ops, receipts, closed, heldUntil, windowEnd>>

----------------------------------------------------------------------------

Tick ==
    /\ now' = now + 1
    /\ UNCHANGED <<jobs, claimVars, seq, receipts, closed, heldUntil, windowEnd>>

\* A consumer may use any receipt it was ever given, however late.
Settle(j, receipt) ==
    \/ Ack(j, receipt)
    \/ \E delay \in Delays, uncount \in BOOLEAN : Release(j, receipt, delay, uncount)
    \/ \E lease \in Leases : Extend(j, receipt, lease)
    \/ \E failedAt \in 0..now : Bury(j, receipt, failedAt)

Dispatch(j) ==
    \/ \E delay \in Delays : Push(j, delay)
    \/ \E u \in {j[1]} \X Keys :
         \/ PushRefused(j, u)
         \/ \E delay \in Delays, ttl \in TTLs, untilDone \in BOOLEAN :
                PushUnique(j, u, delay, ttl, untilDone)

Administer ==
    \/ \E j \in JobKey : RetryFailed(j) \/ ForgetFailed(j)
    \/ \E q \in Queues, before \in 1..(now + 1) : PurgeFailed(q, before)
    \/ Close

UseOnce(k, token) ==
    \/ \E lock \in Locks : BeginOnce(k, token, lock)
    \/ \E keep \in Keeps : FinishOnce(k, token, keep)
    \/ AbandonOnce(k, token)

Serve ==
    \/ \E j \in JobKey : Dispatch(j)
    \/ \E order \in Orders, lease \in Leases, j \in JobKey : Reserve(order, lease, j)
    \/ Administer

Next ==
    \/ Serve
    \/ \E j \in JobKey, receipt \in 1..receipts : Settle(j, receipt)
    \/ \E k \in OnceKeys, token \in Tokens : UseOnce(k, token)
    \/ Tick

Spec == Init /\ [][Next]_vars

----------------------------------------------------------------------------
(* Properties *)

\* Every variable has its type.
TypeOK ==
    /\ now \in Nat
    /\ jobs \in [JobKey -> MemoryJob \cup {NoJob}]
    /\ uniques \in [UniqueKey -> Claim(JobKey) \cup {NoClaim}]
    /\ once \in [OnceKeys -> Claim(Tokens \cup {OnceDoneMarker}) \cup {NoClaim}]
    /\ seq \in Nat
    /\ ops \in Nat
    /\ receipts \in Nat
    /\ closed \in BOOLEAN
    /\ heldUntil \in [JobKey -> Nat]
    /\ windowEnd \in [UniqueKey -> Nat]

\* The job was dispatched Unique and is queued, delayed or running, within
\* the TTL of the claim it was last granted.
Holds(j, u) ==
    /\ On(j)
    /\ jobs[j].state # "failed"
    /\ jobs[j].unique = u
    /\ now < heldUntil[j]

\* Unique: "only one job with this key at a time".  Two jobs never hold one
\* key together, whatever claims lapsed, were released, swept or reclaimed
\* by a retry meanwhile (push, releaseUnique, sweepClaims, RetryFailed).
OneHolderPerKey ==
    \A u \in UniqueKey : \A j, k \in JobKey :
        Holds(j, u) /\ Holds(k, u) => j = k

\* UniqueFor: until the window of a key ends, the claim that opened it stands,
\* so a second dispatch is refused even after the first job is done.
WindowStands ==
    \A u \in UniqueKey :
        now < windowEnd[u] => Live(uniques[u]) /\ uniques[u].expires = windowEnd[u]

\* A job that is done or given up on blocks no later dispatch: outside a
\* deduplication window, a key is held only by a job that is queued, delayed
\* or running and will release it (Ack, Bury).
NoOrphanClaim ==
    ~closed =>
      \A u \in UniqueKey :
        Live(uniques[u]) /\ now >= windowEnd[u] =>
            LET j == uniques[u].holder IN
            On(j) /\ jobs[j].unique = u /\ jobs[j].heldUnique

\* A lease has one receipt: no two leases share one, and a job that is not
\* leased answers to none (leased, Reserve, release, Bury).
ReceiptsIdentifyLeases ==
    \A j, k \in {i \in JobKey : On(i)} :
        /\ jobs[j].state = "reserved" <=> jobs[j].receipt # 0
        /\ jobs[j].receipt <= receipts
        /\ jobs[j].receipt # 0 /\ jobs[j].receipt = jobs[k].receipt => j = k

\* While a lease runs no other consumer gets the job: its receipt is replaced
\* only once its deadline has passed (available, Reserve).
LeaseRespected ==
    [][\A j \in JobKey :
         (On(j) /\ jobs[j].state = "reserved" /\ now < jobs[j].at /\ jobs'[j] # NoJob)
            => jobs'[j].receipt \in {jobs[j].receipt, 0}]_vars

============================================================================
