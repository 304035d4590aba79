# A TLA+ model of gombit

gombit is a Go framework for web services: an application container, typed
resources with generated clients, authentication, object storage with uploads,
a cache, and background jobs. This directory models the parts of it whose
correctness depends on *order*: what happens when two processes, a timer and a
crash meet. It holds TLA+ modules, TLC configurations, and proofs checked by
TLAPS. Paths below are relative to `src/`.

## Inventory

| Part | State | Operations | What is hard | Modelled by |
|---|---|---|---|---|
| Queue contract `jobs/queue.go` | jobs, leases, failed jobs, uniqueness claims | Push, PushUnique, Reserve, Ack, Release, Postpone, Extend, Bury, RetryFailed, ForgetFailed, PurgeFailed, Close | at-least-once delivery: settlements arrive late or never | `JobQueue` |
| In-memory driver `jobs/memory.go` | maps of jobs and claims, clock, push sequence | the same, Stats, the Once store | claims that lapse, are swept, reclaimed by a retry; order of delivery | `MemoryQueue`, `DeliveryOrder` |
| Redis driver `jobs/redis.go` | a hash per job, three sorted sets, claim keys | one Lua script per operation | a hash and its set members change or vanish separately | `RedisQueue` |
| Worker `jobs/worker.go` | the deliveries in its slots, its shutdown phase | Run, reserve, process, renewLease, shutdown | crashes, lost replies, lost leases, a stop in the middle of any of it | `Worker` |
| Once `jobs/unique.go` | a lock or a record per key | Once over BeginOnce, FinishOnce, AbandonOnce | locks that run out under their holder | `OnceStore`, `Once` |
| Dispatcher, registry, policy `jobs/` | handlers and options, fixed at start | Dispatch, Encode, Run | – | as inputs of `Worker` |
| Refresh rotation, sessions `auth/service.go`, `auth/sessions.go` | refresh-token chains, sessions | rotate, revoke, revoke all, cap | concurrent rotation, reuse detection, revocation | planned |
| One-time tokens, passwords `auth/onetime.go` ... | token rows, user state | issue, activate, supersede, consume | a mail that fails after the row is written | planned |
| Mail queue, throttle `auth/background.go`, `auth/throttle.go` | a bounded queue; sliding windows | submit, close; reserve, refund | close against submit; refunds after the window slid | planned |
| Storage claims `storage/claims/claims.go` | a claim row per object | insert, promote, finish, abandon, sweep | a crash between the object and its row; publish against sweep | planned |
| Uploads `storage/upload`, `storage/lifecycle.go` | staged and published objects | save, authorize, confirm, fence | several steps, each of which can fail | planned |
| Cache `cache/` | entries with expiry | Get, Set, increment, sweep | expiry against read-modify-write | planned |
| Application `framework/app.go` | lifecycle phase, stop hooks | RunContext, shutdown | after the drain every stop hook runs, last first, whichever of them fail | planned |
| Database, migrations, CLI, generators, admin, config | – | – | sequential, and about text | not modelled |

How the modelled parts interact: a dispatcher pushes a job on a queue; worker
processes reserve it under a lease, run its handler, renew the lease meanwhile
and settle the delivery with Ack, Release, Postpone or Bury. A handler guards a
side effect with Once, whose records live in the queue's storage. When Once
finds the effect in progress elsewhere the worker postpones the job.

## Modules

    JobQueue ................ the calls of the Queue interface (untimed)
      QueueCalls ............ the contract: those calls, by whom and when
        MemoryCalls ......... MemoryQueue implements it
        RedisCalls .......... RedisQueue implements it
      Worker ................ uses JobQueue
    OnceStore ............... the calls of the OnceStore interface
      OnceCalls ............. the contract, which both drivers implement
      Once .................. uses OnceStore
    DeliveryOrder ........... MemoryQueue with a history of deliveries
    MC*.tla, *.cfg .......... instances for TLC
    MemoryQueueProofs, MemoryCallsProofs, WorkerProofs, OnceProofs ... theorems

The contracts carry the composition. A driver has clocks and storage; a worker
has processes and failures; checking both at once is out of reach. Instead each
driver is shown to implement `QueueCalls` and `OnceCalls` through a refinement
mapping, and `Worker` and `Once` are checked over the calls alone.

Why the contracts name the caller: that a lease was ended shows in the queue,
but not *who* ended it, and a driver that took any receipt for the right one
would reach the same states. `MemoryCalls` and `RedisCalls` record the receipt
or token of the last call, and the contract lets a delivery change only in a
call that showed its receipt. For the same reason the contract has a clock:
leases, delays, claims and locks may run out only in a step that moves it, so a
sweep that drops a standing claim is no step of the contract.

**JobQueue.** One record per job: absent, waiting, reserved or failed; `due`
says that its delay or lease has run out. `TimePasses` turns any of these over
at any moment. `Leased` is deliberately true of a lease that ran out and that no
Reserve took: both drivers accept a late settlement then.

**MemoryQueue.** One action per method, since every method holds the mutex. The
pair (`reserved` flag, `failure` pointer) is the field `state`, and the three
times of `memoryJob` are one field `at`, since only one is read in each state.
A receipt (a UUID) is a fresh number. A buried job's failure keeps the time its
caller gave it, any time up to the call. `sweepClaims` runs inside PushUnique and
BeginOnce, as in the code, including a PushUnique that is then refused. Calls
that fail without changing anything are stuttering steps. `heldUntil` and
`windowEnd` are histories for the properties.

**RedisQueue.** One action per Lua script; the three sorted sets are sets of
entries, the loop of `reserveScript` that skips vanished hashes included.
`EvictingSpec` adds hashes that disappear. ZADD, ZREM and key expiry are
modelled from their use. Every script touches the keys of one queue, so the
module has one queue.

**Worker.** A process is a phase and a slot per concurrent job; `Run`, `reserve`
and `process` are split after every queue call and around the handler, where
others can act. A settling call takes effect, is refused or fails. A call whose
reply is lost is the first of these as far as the queue can tell, and the worker
drops the delivery in any case. A renewal may still be made after the run's
context is canceled, since `renewLease` selects between the two; that renewing
ends (context done, client closed) is the absence of further renewals, which no
fairness demands. `Crash` and `Start` are the process and its manager. Among the
histories, `latest` is the receipt of each job's last delivery.

**Once.** A run is one call of Once; every exit of the function is an action.

Operators called "Variant" in a comment are single-fault versions of the
operator that follows. They are not part of any specification; each shows that a
property can fail when the code it is about is wrong.

## Runs

| Run | Instance | Shows |
|---|---|---|
| memory_unique | 3 jobs, 1 key, 1 queue | uniqueness claims, windows, receipts and leases |
| memory_contract | 2 jobs, 1 key | MemoryQueue implements the Queue contract; a job changes or leaves only by its holder's call |
| memory_once | 2 keys, 2 tokens | MemoryQueue implements the OnceStore contract |
| delivery_order | 1 queue | no starvation; Stats agrees with Reserve |
| redis_contract | 2 jobs, 1 key | hash and sets stay consistent; RedisQueue implements the Queue contract |
| redis_evict | the same, hashes vanish | the other jobs stay in exactly one set |
| redis_once | Once keys only | RedisQueue implements the OnceStore contract |
| worker_crash | 2 processes, 1 job, 3 faults, 1 stop | no job lost, no settlement by an overtaken worker, attempts counted |
| worker_slots | 1 process, 2 slots, 2 jobs, one undecodable | the loop's settlements against the slots' |
| worker_live | 2 processes, 1 job, 1 fault, 1 stop | every job settles |
| worker_interrupted | 1 job | **violated**: see Findings |
| once | 4 runs, 2 keys | effects repeat only after a lapse |

Deadlock is not checked: the bounded instances stop at their bounds, and a queue
with nothing on it may really rest.

**Bounds.** `MaxNow`, `MaxSeq` and `MaxReceipts` cap the clock, the sequence and
the receipts; `MaxFaults`, `MaxStops` and `MaxPostponed` cap what the
environment does to a worker. They are chosen so that the hard cases occur: in
memory_unique a claim can lapse, be retaken by a second job, and be given up or
retried by the first; in worker_crash a lease can be lost twice on the way to
MaxAttempts + 1; in once three runs share a key, so a run can be late behind a
second that is late behind a third. Symmetry is over job IDs (or processes and
slots), which no action tells apart, and is not used in the liveness run.

**Fairness** (worker_live). Weak fairness of the worker's own steps (a running
process polls; a queue call ends by its deadline; the shutdown timers fire), of
delays and abandoned leases running out, and of the process manager's restart.
That a handler returns is an assumption about handlers; the code imposes no
limit unless a Timeout is set. Faults, stops and postponements are not fair,
and bounded: a job whose Once key stays busy for ever is postponed for ever, by
design.

## Findings

**An interrupted last attempt can be given up on** (worker_interrupted).
`docs/jobs.md` says that "an interrupted attempt is never given up on, even the
last one". That is so when the handler returns within `ShutdownGrace`. When it
does not, its lease runs out, the next Reserve counts attempt MaxAttempts + 1
with `LeaseExpired`, and `reserve` sets the job aside as exhausted without
running it (`jobs/worker.go:215-247`). The trace has no crash and no failed
call. The job is kept with the failed jobs, so `NoJobLost` still holds.

## Proofs

TLAPS proves these for all values of the constants, under the assumptions named
in the modules (`QueueAssumption`, `NothingAssumption`, `StoreAssumption`,
`RunsAssumption`, `ContractAssumption`, `WorkerAssumption`: durations are positive,
"nothing" values are not data).

*MemoryQueueProofs*

- `TypeCorrect`: `TypeOK`.
- `UniqueCorrect`, `WindowCorrect`, `ReleaseCorrect`: `OneHolderPerKey`,
  `WindowStands`, `NoOrphanClaim`. None is inductive. A job might hold its key
  by the history while the claim says otherwise, and then a second dispatch
  would succeed. `UniqueInv` adds the link: a job within its claim's TTL is the
  holder of a live claim with that very expiry (`HolderOwnsClaim`); a window's
  claim and a job's claim on one key exclude each other (`WindowOwnsClaim`); a
  failed job holds nothing (`FailedHoldsNothing`). The steps fall into a few
  kinds, each a lemma: those that leave claims alone (`QuietStep`), sweeps
  (`SweepStep`), grants (`DispatchUnique`, `RetryUnique`), releases
  (`ReleaseStep`) and the clock (`TickUnique`).
- `ReceiptsCorrect` and `LeaseCorrect`: `ReceiptsIdentifyLeases`,
  `LeaseRespected`.

*MemoryCallsProofs*

- `HolderCorrect`: `OnlyHolderSettles`. With the caller's receipt recorded, each
  method is looked at once: it leaves a job that is on the queue alone, or had
  its receipt, or is a delivery of an available job, or manages failed jobs.
- `OnceStoreCorrect`: the refinement `ImplementsOnceStore`. The history of
  callers restricts no step (`CallsRefine`), so `TypeCorrect` applies; then each
  method is a step of its own token, a tick is an expiry, and the sweep is
  invisible because the mapping reads an expired claim as free.

*WorkerProofs*

- `TypeCorrect`: `TypeOK`, which needs that a leased job's delivery was counted
  (`Counted`), or a postponement could take an attempt below zero.
- `LatestCorrect`: `LatestDeliveryStands`. It is not inductive: if two slots
  could hold one receipt, the settlement of either would end the lease of the
  other. `LeaseInv` adds that receipts in use were issued and that no two slots
  share one (`LeasesApart`). Then a new lease has a receipt above every one in
  use (`LeaseToStep`), a settlement that takes effect ends the lease of its own
  slot (`SettleStep`), and every other step leaves leases alone (`CarryStep`).

*OnceProofs*

- `OnceRepeats`, `OnceExcludes`, `OnceNil`: from `OnceInv`, whose core is that a
  run inside the effect holds its lock or has lapsed (`RunningHoldsLock`), and
  that a run whose effect completed owns its key's lock or record, or has lapsed
  (`EffectedOwnsKey`).

Only model-checked: both refinements of `QueueCalls`, the other properties of
`Worker`, everything about `RedisQueue` and `DeliveryOrder`. Liveness under
fairness is beyond the prover and stays with TLC.

## Limits

- Clients of Redis share one clock, which the driver's documentation asks for.
- Durations are abstract units. Rounding to milliseconds (a TTL below one
  millisecond is `PX 0`) is not visible.
- Delivery order is checked for one queue. The priority among several is in
  `FirstReady`, but the instances have a single queue.
- The Redis client's closed flag and `Failed`'s paged reads are not modelled.
- Failed, FailedJob and metrics only read and have no action.

## Plan

1. *jobs*: renewal against the clock (how many failed renewals a lease
   survives); paged reads of the failed set; several queues.
2. *storage*: a module of claim states with the object store beside it, crashes
   between the two; then uploads over it. Aim: a referenced object is never
   deleted, an unreferenced one is eventually.
3. *auth*: rotation with the user row lock, single flight and reuse detection
   against an abstract "chain of tokens, one live"; the session cap; one-time
   tokens; the mail queue and the throttle as small modules of their own.
4. *cache* and *application lifecycle*.
5. Proofs: `MemoryQueue` and `RedisQueue` implement `QueueCalls`; `OneSetPerJob`
   for any number of jobs; `NoJobLost` and the attempt bounds of
   `Worker`; then the safety invariants of the modules above.
