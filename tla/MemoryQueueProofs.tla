------------------------- MODULE MemoryQueueProofs -------------------------
(***************************************************************************)
(* Proofs about the in-memory queue driver, for every set of queues, jobs, *)
(* keys and durations.                                                     *)
(***************************************************************************)
EXTENDS MemoryQueue, TLAPS

JobsType == [JobKey -> MemoryJob \cup {NoJob}]
UniquesType == [UniqueKey -> Claim(JobKey) \cup {NoClaim}]
OnceType == [OnceKeys -> Claim(Tokens \cup {OnceDoneMarker}) \cup {NoClaim}]

\* The sweep keeps the type of a map of claims (sweepClaims).
LEMMA SweptType ==
    ASSUME TypeOK
    PROVE  /\ Swept(uniques) \in UniquesType
           /\ Swept(once) \in OnceType
BY Zenon DEF Swept, TypeOK, UniquesType, OnceType

\* So does releasing a job's claim (releaseUnique).
LEMMA ReleaseUniqueType ==
    ASSUME NEW j \in JobKey, TypeOK
    PROVE  ReleaseUnique(j) \in UniquesType
BY Zenon DEF ReleaseUnique, TypeOK, UniquesType

\* push stores a job of the right type.
LEMMA NewJobType ==
    ASSUME TypeOK, NEW delay \in Delays, NEW u \in UniqueKey \cup {NoKey}, NEW ttl \in Nat
    PROVE  NewJob(delay, u, ttl) \in MemoryJob
<1> DEFINE held == u # NoKey
<1>1. held \in BOOLEAN OBVIOUS
<1>2. now + delay \in Nat /\ seq + 1 \in Nat BY QueueAssumption DEF TypeOK
<1> HIDE DEF held
<1>3. [state |-> "waiting", at |-> now + delay, attempts |-> 0, seq |-> seq + 1,
       receipt |-> 0, unique |-> u, uniqueTTL |-> ttl, heldUnique |-> held] \in MemoryJob
  BY <1>1, <1>2 DEF MemoryJob
<1> QED BY <1>3 DEF NewJob, held

\* A claim as the driver stores it.
LEMMA ClaimType ==
    ASSUME TypeOK, NEW H, NEW h \in H, NEW ttl \in Nat
    PROVE  [holder |-> h, expires |-> now + ttl] \in Claim(H)
BY DEF Claim, TypeOK

\* Dispatching keeps the types (push).
LEMMA DispatchType ==
    ASSUME TypeOK, NEW j \in JobKey, Dispatch(j)
    PROVE  TypeOK'
<1> USE QueueAssumption
<1>0. \A u \in {j[1]} \X Keys : u \in UniqueKey BY DEF JobKey, UniqueKey
<1>1. ASSUME NEW delay \in Delays, Push(j, delay)
      PROVE  TypeOK'
  <2>1. NewJob(delay, NoKey, 0) \in MemoryJob BY NewJobType
  <2>2. UNCHANGED <<now, uniques, once, ops, receipts, closed, heldUntil, windowEnd>>
    BY <1>1 DEF Push, claimVars
  <2>3. seq' \in Nat BY <1>1 DEF Push, TypeOK
  <2>4. jobs' \in JobsType BY <1>1, <2>1 DEF Push, TypeOK, JobsType
  <2> QED BY Zenon, <2>2, <2>3, <2>4 DEF TypeOK, JobsType
<1>2. ASSUME NEW u \in UniqueKey, PushRefused(j, u)
      PROVE  TypeOK'
  <2>1. UNCHANGED <<now, jobs, seq, receipts, closed, heldUntil, windowEnd>>
    BY <1>2 DEF PushRefused
  <2>2. ops' \in Nat BY <1>2 DEF PushRefused, SweepClaims, SweepDue, TypeOK
  <2>3. uniques' \in UniquesType /\ once' \in OnceType BY <1>2, SweptType DEF PushRefused
  <2> QED BY Zenon, <2>1, <2>2, <2>3 DEF TypeOK, UniquesType, OnceType
<1>3. ASSUME NEW u \in UniqueKey, NEW delay \in Delays, NEW ttl \in TTLs,
             NEW untilDone \in BOOLEAN, PushUnique(j, u, delay, ttl, untilDone)
      PROVE  TypeOK'
  <2>1. NewJob(delay, NoKey, 0) \in MemoryJob /\ NewJob(delay, u, ttl) \in MemoryJob
    BY NewJobType
  <2>2. [holder |-> j, expires |-> now + ttl] \in Claim(JobKey) BY ClaimType
  <2>3. UNCHANGED <<now, receipts, closed>> BY <1>3 DEF PushUnique
  <2>4. seq' \in Nat /\ ops' \in Nat
    BY <1>3 DEF PushUnique, SweepClaims, SweepDue, TypeOK
  <2>5. jobs' \in JobsType BY <1>3, <2>1 DEF PushUnique, TypeOK, JobsType
  <2>6. uniques' \in UniquesType BY <1>3, <2>2, SweptType DEF PushUnique, UniquesType
  <2>7. once' \in OnceType BY <1>3, SweptType DEF PushUnique
  <2>8. heldUntil' \in [JobKey -> Nat] /\ windowEnd' \in [UniqueKey -> Nat]
    BY <1>3 DEF PushUnique, TypeOK
  <2> QED BY Zenon, <2>3, <2>4, <2>5, <2>6, <2>7, <2>8
     DEF TypeOK, JobsType, UniquesType, OnceType
<1> QED BY <1>0, <1>1, <1>2, <1>3 DEF Dispatch

\* Reserve keeps the types.
LEMMA ReserveType ==
    ASSUME TypeOK, NEW order \in Orders, NEW lease \in Leases, NEW j \in JobKey,
           Reserve(order, lease, j)
    PROVE  TypeOK'
<1>1. On(j) BY DEF Reserve, AvailableOn, Available
<1>2. jobs[j] \in MemoryJob BY <1>1 DEF On, TypeOK
<1>3. now + lease \in Nat /\ jobs[j].attempts + 1 \in Nat /\ receipts + 1 \in Nat
  BY <1>2, QueueAssumption DEF TypeOK, MemoryJob
<1>4. [jobs[j] EXCEPT !.state = "reserved", !.at = now + lease,
                      !.attempts = jobs[j].attempts + 1, !.receipt = receipts + 1] \in MemoryJob
  BY Zenon, <1>2, <1>3 DEF MemoryJob
<1>5. jobs' \in JobsType BY <1>4 DEF Reserve, TypeOK, JobsType
<1>6. UNCHANGED <<now, uniques, once, ops, seq, closed, heldUntil, windowEnd>>
  BY DEF Reserve, claimVars
<1>7. receipts' \in Nat BY <1>3 DEF Reserve
<1> QED BY Zenon, <1>5, <1>6, <1>7 DEF TypeOK, JobsType

\* Settling a delivery keeps the types (Ack, release, Extend, Bury).
LEMMA SettleType ==
    ASSUME TypeOK, NEW j \in JobKey, NEW receipt \in 1..receipts, Settle(j, receipt)
    PROVE  TypeOK'
<1> USE QueueAssumption
<1>1. CASE Ack(j, receipt)
  <2>1. jobs' \in JobsType BY <1>1 DEF Ack, TypeOK, JobsType
  <2>2. uniques' \in UniquesType BY <1>1, ReleaseUniqueType DEF Ack
  <2>3. heldUntil' \in [JobKey -> Nat] BY <1>1 DEF Ack, TypeOK
  <2>4. UNCHANGED <<now, once, seq, ops, receipts, closed, windowEnd>> BY <1>1 DEF Ack
  <2> QED BY Zenon, <2>1, <2>2, <2>3, <2>4 DEF TypeOK, JobsType, UniquesType
<1>2. ASSUME NEW delay \in Delays, NEW uncount \in BOOLEAN, Release(j, receipt, delay, uncount)
      PROVE  TypeOK'
  <2>1. jobs[j] \in MemoryJob BY <1>2 DEF Release, Leased, On, TypeOK
  <2> DEFINE n == IF uncount /\ jobs[j].attempts > 0 THEN jobs[j].attempts - 1
                  ELSE jobs[j].attempts
  <2>2. n \in Nat /\ now + delay \in Nat /\ seq + 1 \in Nat
    BY <2>1 DEF MemoryJob, TypeOK
  <2> HIDE DEF n
  <2>3. [jobs[j] EXCEPT !.state = "waiting", !.receipt = 0, !.at = now + delay,
                        !.attempts = n, !.seq = seq + 1] \in MemoryJob
    BY Zenon, <2>1, <2>2 DEF MemoryJob
  <2>4. jobs' \in JobsType BY <1>2, <2>3 DEF Release, TypeOK, JobsType, n
  <2>5. seq' \in Nat BY <1>2, <2>2 DEF Release
  <2>6. UNCHANGED <<now, uniques, once, ops, receipts, closed, heldUntil, windowEnd>>
    BY <1>2 DEF Release, claimVars
  <2> QED BY Zenon, <2>4, <2>5, <2>6 DEF TypeOK, JobsType
<1>3. ASSUME NEW lease \in Leases, Extend(j, receipt, lease)
      PROVE  TypeOK'
  <2>1. jobs[j] \in MemoryJob BY <1>3 DEF Extend, Leased, On, TypeOK
  <2>0. now + lease \in Nat BY DEF TypeOK
  <2>2. [jobs[j] EXCEPT !.at = now + lease] \in MemoryJob BY Zenon, <2>0, <2>1 DEF MemoryJob
  <2>3. jobs' \in JobsType BY <1>3, <2>2 DEF Extend, TypeOK, JobsType
  <2>4. UNCHANGED <<now, uniques, once, ops, seq, receipts, closed, heldUntil, windowEnd>>
    BY <1>3 DEF Extend, claimVars
  <2> QED BY Zenon, <2>3, <2>4 DEF TypeOK, JobsType
<1>4. ASSUME NEW failedAt \in 0..now, Bury(j, receipt, failedAt)
      PROVE  TypeOK'
  <2>1. jobs[j] \in MemoryJob BY <1>4 DEF Bury, Leased, On, TypeOK
  <2>0. failedAt \in Nat BY DEF TypeOK
  <2>2. [jobs[j] EXCEPT !.state = "failed", !.at = failedAt, !.receipt = 0, !.heldUnique = FALSE]
          \in MemoryJob
    BY Zenon, <2>0, <2>1 DEF MemoryJob
  <2>3. jobs' \in JobsType BY <1>4, <2>2 DEF Bury, TypeOK, JobsType
  <2>4. uniques' \in UniquesType BY <1>4, ReleaseUniqueType DEF Bury
  <2>5. heldUntil' \in [JobKey -> Nat] BY <1>4 DEF Bury, TypeOK
  <2>6. UNCHANGED <<now, once, seq, ops, receipts, closed, windowEnd>> BY <1>4 DEF Bury
  <2> QED BY Zenon, <2>3, <2>4, <2>5, <2>6 DEF TypeOK, JobsType, UniquesType
<1> QED BY <1>1, <1>2, <1>3, <1>4 DEF Settle

\* Managing the failed jobs keeps the types, and so does closing the queue.
LEMMA AdministerType ==
    ASSUME TypeOK, Administer
    PROVE  TypeOK'
<1>1. ASSUME NEW j \in JobKey, RetryFailed(j)
      PROVE  TypeOK'
  <2> DEFINE u == jobs[j].unique
             held == u # NoKey
  <2>1. jobs[j] \in MemoryJob BY <1>1 DEF RetryFailed, Failed, On, TypeOK
  <2>2. u \in UniqueKey \cup {NoKey} /\ jobs[j].uniqueTTL \in Nat BY <2>1 DEF MemoryJob
  <2>3. held \in BOOLEAN /\ seq + 1 \in Nat /\ now \in Nat BY DEF TypeOK
  <2> HIDE DEF held
  <2>6. [jobs[j] EXCEPT !.state = "waiting", !.at = now, !.attempts = 0, !.seq = seq + 1,
                        !.heldUnique = held] \in MemoryJob
    BY Zenon, <2>1, <2>3 DEF MemoryJob
  <2>7. jobs' \in JobsType BY <1>1, <2>6 DEF RetryFailed, TypeOK, JobsType, held
  <2>8. seq' \in Nat /\ UNCHANGED <<now, once, ops, receipts, closed, windowEnd>>
    BY <1>1, <2>3 DEF RetryFailed
  <2>4. CASE u = NoKey
    <3>1. UNCHANGED <<uniques, heldUntil>> BY <1>1, <2>4 DEF RetryFailed
    <3> QED BY Zenon, <2>7, <2>8, <3>1 DEF TypeOK, JobsType
  <2>5. CASE u # NoKey
    <3>1. [holder |-> j, expires |-> now + jobs[j].uniqueTTL] \in Claim(JobKey)
      BY <2>2, ClaimType
    <3>2. uniques' \in UniquesType BY <1>1, <2>5, <3>1 DEF RetryFailed, TypeOK, UniquesType
    <3>3. heldUntil' \in [JobKey -> Nat]
      BY <1>1, <2>2, <2>3, <2>5 DEF RetryFailed, TypeOK
    <3> QED BY Zenon, <2>7, <2>8, <3>2, <3>3 DEF TypeOK, JobsType, UniquesType
  <2> QED BY <2>4, <2>5
<1>2. ASSUME NEW j \in JobKey, ForgetFailed(j)
      PROVE  TypeOK'
  <2>1. UNCHANGED <<now, uniques, once, ops, seq, receipts, closed, heldUntil, windowEnd>>
    BY <1>2 DEF ForgetFailed, claimVars
  <2>2. jobs' \in JobsType BY <1>2 DEF ForgetFailed, TypeOK, JobsType
  <2> QED BY Zenon, <2>1, <2>2 DEF TypeOK, JobsType
<1>3. ASSUME NEW q \in Queues, NEW before \in 1..(now + 1), PurgeFailed(q, before)
      PROVE  TypeOK'
  <2>1. UNCHANGED <<now, uniques, once, ops, seq, receipts, closed, heldUntil, windowEnd>>
    BY <1>3 DEF PurgeFailed, claimVars
  <2>2. jobs' \in JobsType BY <1>3 DEF PurgeFailed, TypeOK, JobsType
  <2> QED BY Zenon, <2>1, <2>2 DEF TypeOK, JobsType
<1>4. CASE Close
  <2>1. UNCHANGED <<now, uniques, once, ops, seq, receipts, heldUntil, windowEnd>>
    BY <1>4 DEF Close, claimVars
  <2>2. jobs' \in JobsType /\ closed' \in BOOLEAN BY <1>4 DEF Close, JobsType
  <2> QED BY Zenon, <2>1, <2>2 DEF TypeOK, JobsType
<1> QED BY <1>1, <1>2, <1>3, <1>4 DEF Administer

\* Once calls keep the types (BeginOnce, FinishOnce, AbandonOnce).
LEMMA UseOnceType ==
    ASSUME TypeOK, NEW k \in OnceKeys, NEW token \in Tokens, UseOnce(k, token)
    PROVE  TypeOK'
<1> USE QueueAssumption
<1>2. ASSUME NEW lock \in Locks, BeginOnce(k, token, lock)
      PROVE  TypeOK'
  <2>1. [holder |-> token, expires |-> now + lock] \in Claim(Tokens \cup {OnceDoneMarker})
    BY ClaimType
  <2>2. once' \in OnceType BY Zenon, <1>2, <2>1, SweptType DEF BeginOnce, OnceType
  <2>3. uniques' \in UniquesType BY <1>2, SweptType DEF BeginOnce
  <2>4. ops' \in Nat BY <1>2 DEF BeginOnce, SweepClaims, SweepDue, TypeOK
  <2>5. UNCHANGED <<now, jobs, seq, receipts, closed, heldUntil, windowEnd>>
    BY <1>2 DEF BeginOnce
  <2> QED BY Zenon, <2>2, <2>3, <2>4, <2>5 DEF TypeOK, OnceType, UniquesType
<1>3. ASSUME NEW keep \in Keeps, FinishOnce(k, token, keep)
      PROVE  TypeOK'
  <2>1. [holder |-> OnceDoneMarker, expires |-> now + keep] \in Claim(Tokens \cup {OnceDoneMarker})
    BY ClaimType
  <2>2. once' \in OnceType BY Zenon, <1>3, <2>1 DEF FinishOnce, OnceType, TypeOK
  <2>3. UNCHANGED <<now, jobs, uniques, seq, ops, receipts, closed, heldUntil, windowEnd>>
    BY <1>3 DEF FinishOnce
  <2> QED BY Zenon, <2>2, <2>3 DEF TypeOK, OnceType
<1>4. CASE AbandonOnce(k, token)
  BY Zenon, <1>4 DEF AbandonOnce, TypeOK
<1> QED BY <1>2, <1>3, <1>4 DEF UseOnce

\* Every step of the driver keeps the types.
LEMMA TypeStep == TypeOK /\ [Next]_vars => TypeOK'
<1> SUFFICES ASSUME TypeOK, [Next]_vars PROVE TypeOK'
    OBVIOUS
<1>1. CASE Tick
  <2>1. UNCHANGED <<jobs, uniques, once, ops, seq, receipts, closed, heldUntil, windowEnd>>
    BY <1>1 DEF Tick, claimVars
  <2>2. now' \in Nat BY <1>1 DEF Tick, TypeOK
  <2> QED BY Zenon, <2>1, <2>2 DEF TypeOK
<1>2. CASE UNCHANGED vars
  BY Zenon, <1>2 DEF vars, TypeOK
<1> QED BY <1>1, <1>2, DispatchType, ReserveType, SettleType, AdministerType, UseOnceType
   DEF Next, Serve

\* The variables of the driver always have their types.
THEOREM TypeCorrect == Spec => []TypeOK
<1>1. Init => TypeOK
  <2> SUFFICES ASSUME Init PROVE TypeOK OBVIOUS
  <2>1. /\ jobs \in JobsType /\ uniques \in UniquesType /\ once \in OnceType
        /\ heldUntil \in [JobKey -> Nat] /\ windowEnd \in [UniqueKey -> Nat]
    BY DEF Init, JobsType, UniquesType, OnceType
  <2>2. closed \in BOOLEAN BY Zenon DEF Init
  <2>3. now \in Nat /\ seq \in Nat /\ ops \in Nat /\ receipts \in Nat BY DEF Init
  <2> QED BY Zenon, <2>1, <2>2, <2>3 DEF TypeOK, JobsType, UniquesType, OnceType
<1> QED BY <1>1, TypeStep, PTL DEF Spec

----------------------------------------------------------------------------
(* Uniqueness *)

\* A job that holds a key within its TTL owns the claim on it.
HolderOwnsClaim ==
    \A j \in JobKey, u \in UniqueKey :
        Holds(j, u) => uniques[u] = [holder |-> j, expires |-> heldUntil[j]]

\* The claim of a deduplication window is not one its job would release.
WindowOwnsClaim ==
    \A u \in UniqueKey :
        now < windowEnd[u] =>
            /\ Live(uniques[u])
            /\ uniques[u].expires = windowEnd[u]
            /\ On(uniques[u].holder) => jobs[uniques[u].holder].unique # u

\* A failed job has given up its claim.
FailedHoldsNothing ==
    \A j \in JobKey : On(j) /\ jobs[j].state = "failed" => ~jobs[j].heldUnique

UniqueInv ==
    /\ HolderOwnsClaim
    /\ WindowOwnsClaim
    /\ NoOrphanClaim
    /\ FailedHoldsNothing

\* A claim as stored is a claim, and has the fields it was given.
LEMMA StoredClaim ==
    ASSUME NEW k \in JobKey, NEW e \in Nat, NEW c, c = [holder |-> k, expires |-> e]
    PROVE  c # NoClaim /\ c.holder = k /\ c.expires = e
<1>1. c \in Claim(JobKey) BY Zenon DEF Claim
<1>2. c # NoClaim BY Zenon, <1>1, NothingAssumption
<1>3. c.holder = k /\ c.expires = e OBVIOUS
<1> QED BY Zenon, <1>2, <1>3

\* The claim of a job whose time has not run out counts.
LEMMA HeldIsLive ==
    ASSUME TypeOK, NEW k \in JobKey, NEW u \in UniqueKey, now < heldUntil[k],
           uniques[u] = [holder |-> k, expires |-> heldUntil[k]]
    PROVE  Live(uniques[u]) /\ uniques[u].holder = k
<1>1. heldUntil[k] \in Nat BY Zenon DEF TypeOK
<1>2. uniques[u] # NoClaim /\ uniques[u].holder = k /\ uniques[u].expires = heldUntil[k]
  BY <1>1, StoredClaim
<1> QED BY Zenon, <1>2 DEF Live

\* The holder of a claim that counts is a job.
LEMMA LiveHolder ==
    ASSUME TypeOK, NEW u \in UniqueKey, Live(uniques[u])
    PROVE  uniques[u].holder \in JobKey
<1>1. uniques[u] \in Claim(JobKey) BY Zenon DEF TypeOK, Live
<1> QED BY Zenon, <1>1 DEF Claim

\* A step that leaves the claims and the clock alone, and of the jobs only
\* drops some that hold nothing or changes what the invariant does not read.
LEMMA QuietStep ==
    ASSUME TypeOK, UniqueInv, UNCHANGED <<now, uniques, heldUntil, windowEnd>>,
           closed' \/ closed' = closed,
           \A j \in JobKey : jobs'[j] # NoJob =>
               /\ jobs[j] # NoJob
               /\ jobs'[j].unique = jobs[j].unique
               /\ jobs'[j].heldUnique = jobs[j].heldUnique
               /\ jobs'[j].state = "failed" <=> jobs[j].state = "failed",
           \A j \in JobKey : jobs[j] # NoJob /\ jobs[j].heldUnique =>
               jobs'[j] # NoJob \/ closed'
    PROVE  UniqueInv'
<1>1. HolderOwnsClaim' BY DEF UniqueInv, HolderOwnsClaim, Holds, On
<1>2. WindowOwnsClaim'
  BY NothingAssumption DEF UniqueInv, WindowOwnsClaim, Live, On, TypeOK, Claim
<1>3. NoOrphanClaim'
  BY NothingAssumption DEF UniqueInv, NoOrphanClaim, Live, On, TypeOK, Claim
<1>4. FailedHoldsNothing' BY DEF UniqueInv, FailedHoldsNothing, On
<1> QED BY <1>1, <1>2, <1>3, <1>4 DEF UniqueInv

\* A step that only sweeps claims: a claim that counts is kept, and no claim
\* appears (sweepClaims).
LEMMA SweepStep ==
    ASSUME TypeOK, UniqueInv, uniques' = Swept(uniques),
           UNCHANGED <<now, jobs, closed, heldUntil, windowEnd>>
    PROVE  UniqueInv'
<1>0. \A u \in UniqueKey : /\ Live(uniques[u]) => uniques'[u] = uniques[u]
                           /\ uniques'[u] \in {uniques[u], NoClaim}
  BY DEF Swept, TypeOK
<1>1. HolderOwnsClaim'
  <2> SUFFICES ASSUME NEW j \in JobKey, NEW u \in UniqueKey, Holds(j, u)
               PROVE  uniques'[u] = [holder |-> j, expires |-> heldUntil[j]]
    BY DEF HolderOwnsClaim, Holds, On
  <2>1. uniques[u] = [holder |-> j, expires |-> heldUntil[j]] /\ now < heldUntil[j]
    BY DEF UniqueInv, HolderOwnsClaim, Holds
  <2>2. uniques[u] \in Claim(JobKey) BY <2>1 DEF Claim, TypeOK
  <2>3. Live(uniques[u]) BY <2>1, <2>2, NothingAssumption DEF Live
  <2> QED BY <2>1, <2>3, <1>0
<1>2. WindowOwnsClaim' BY <1>0 DEF UniqueInv, WindowOwnsClaim, Live, On
<1>3. NoOrphanClaim' BY <1>0 DEF UniqueInv, NoOrphanClaim, Live, On
<1>4. FailedHoldsNothing' BY DEF UniqueInv, FailedHoldsNothing, On
<1> QED BY <1>1, <1>2, <1>3, <1>4 DEF UniqueInv

\* push: the claim is granted only while nobody holds the key.
LEMMA DispatchUnique ==
    ASSUME TypeOK, UniqueInv, NEW j \in JobKey, Dispatch(j)
    PROVE  UniqueInv'
<1> USE QueueAssumption, NothingAssumption
<1>0. \A u \in {j[1]} \X Keys : u \in UniqueKey BY DEF JobKey, UniqueKey
<1>1. ASSUME NEW delay \in Delays, Push(j, delay)
      PROVE  UniqueInv'
  <2>1. /\ UNCHANGED <<now, uniques, heldUntil, windowEnd, closed>>
        /\ ~On(j)
    BY <1>1 DEF Push, claimVars
  <2>2. jobs'[j].unique = NoKey /\ jobs'[j].state = "waiting"
    BY <1>1 DEF Push, NewJob, TypeOK
  <2>3. \A k \in JobKey \ {j} : jobs'[k] = jobs[k] BY Zenon, <1>1 DEF Push, TypeOK
  <2>4. HolderOwnsClaim' BY <2>1, <2>2, <2>3 DEF UniqueInv, HolderOwnsClaim, Holds, On
  <2>5. WindowOwnsClaim'
    BY <2>1, <2>2, <2>3 DEF UniqueInv, WindowOwnsClaim, Live, On, TypeOK, Claim
  <2>6. NoOrphanClaim'
    BY <2>1, <2>2, <2>3 DEF UniqueInv, NoOrphanClaim, Live, On, TypeOK, Claim
  <2>7. FailedHoldsNothing' BY Zenon, <2>1, <2>2, <2>3 DEF UniqueInv, FailedHoldsNothing, On
  <2> QED BY <2>4, <2>5, <2>6, <2>7 DEF UniqueInv
<1>2. ASSUME NEW u \in UniqueKey, PushRefused(j, u)
      PROVE  UniqueInv'
  BY <1>2, SweepStep DEF PushRefused
<1>3. ASSUME NEW u \in UniqueKey, NEW delay \in Delays, NEW ttl \in TTLs,
             NEW untilDone \in BOOLEAN, PushUnique(j, u, delay, ttl, untilDone)
      PROVE  UniqueInv'
  <2>1. ~Live(uniques[u]) /\ ~On(j) /\ ~closed /\ UNCHANGED <<now, closed>>
    BY <1>3 DEF PushUnique
  <2>2. /\ uniques'[u] = [holder |-> j, expires |-> now + ttl]
        /\ \A v \in UniqueKey \ {u} :
             /\ Live(uniques[v]) => uniques'[v] = uniques[v]
             /\ uniques'[v] \in {uniques[v], NoClaim}
    BY <1>3 DEF PushUnique, Swept, TypeOK
  <2>3. \A k \in JobKey \ {j} : jobs'[k] = jobs[k] BY <1>3 DEF PushUnique, TypeOK
  <2>4. jobs'[j] = IF untilDone THEN NewJob(delay, u, ttl) ELSE NewJob(delay, NoKey, 0)
    BY Zenon, <1>3 DEF PushUnique, TypeOK
  <2>5. /\ jobs'[j].state = "waiting"
        /\ untilDone => jobs'[j].unique = u /\ jobs'[j].heldUnique
        /\ ~untilDone => jobs'[j].unique = NoKey
    BY <2>4 DEF NewJob
  <2>6. /\ untilDone => heldUntil'[j] = now + ttl /\ windowEnd' = windowEnd
        /\ ~untilDone => heldUntil' = heldUntil /\ windowEnd'[u] = now + ttl
        /\ \A k \in JobKey \ {j} : heldUntil'[k] = heldUntil[k]
        /\ \A v \in UniqueKey \ {u} : windowEnd'[v] = windowEnd[v]
    BY Zenon, <1>3 DEF PushUnique, TypeOK
  <2>7. \A k \in JobKey : ~Holds(k, u)
    <3> SUFFICES ASSUME NEW k \in JobKey, Holds(k, u) PROVE FALSE
      BY Zenon
    <3>1. uniques[u] = [holder |-> k, expires |-> heldUntil[k]] /\ now < heldUntil[k]
      BY Zenon DEF UniqueInv, HolderOwnsClaim, Holds
    <3> QED BY Zenon, <2>1, <3>1, HeldIsLive
  <2>8. HolderOwnsClaim'
    <3> SUFFICES ASSUME NEW k \in JobKey, NEW v \in UniqueKey, Holds(k, v)'
                 PROVE  uniques'[v] = [holder |-> k, expires |-> heldUntil'[k]]
      BY DEF HolderOwnsClaim
    <3>1. CASE k = j
      BY Zenon, <3>1, <2>2, <2>5, <2>6 DEF Holds
    <3>2. CASE k # j
      <4>1. Holds(k, v) /\ v # u BY Zenon, <3>2, <2>1, <2>3, <2>6, <2>7 DEF Holds, On
      <4>2. uniques[v] = [holder |-> k, expires |-> heldUntil[k]] /\ now < heldUntil[k]
        BY Zenon, <4>1 DEF UniqueInv, HolderOwnsClaim, Holds
      <4>3. Live(uniques[v]) BY Zenon, <4>2, HeldIsLive
      <4> QED BY Zenon, <4>1, <4>2, <4>3, <3>2, <2>2, <2>6
    <3> QED BY <3>1, <3>2
  <2>9. WindowOwnsClaim'
    <3> SUFFICES ASSUME NEW v \in UniqueKey, (now < windowEnd[v])'
                 PROVE  /\ Live(uniques[v])'
                        /\ (uniques[v].expires = windowEnd[v])'
                        /\ On(uniques[v].holder)' => (jobs[uniques[v].holder].unique # v)'
      BY DEF WindowOwnsClaim
    <3>1. CASE v = u
      <4>1. ~untilDone BY <3>1, <2>1, <2>6 DEF UniqueInv, WindowOwnsClaim
      <4>2. now + ttl \in Nat /\ uniques'[u] = [holder |-> j, expires |-> now + ttl]
        BY <2>2 DEF TypeOK
      <4>3. uniques'[u] # NoClaim /\ uniques'[u].expires = now + ttl /\ uniques'[u].holder = j
        BY <4>2, StoredClaim
      <4> QED BY Zenon, <3>1, <4>1, <4>3, <2>1, <2>5, <2>6 DEF Live
    <3>2. CASE v # u
      <4>1. /\ Live(uniques[v]) /\ uniques[v].expires = windowEnd[v]
            /\ On(uniques[v].holder) => jobs[uniques[v].holder].unique # v
        BY Zenon, <3>2, <2>1, <2>6 DEF UniqueInv, WindowOwnsClaim
      <4>2. uniques'[v] = uniques[v] /\ uniques[v].holder \in JobKey
        BY Zenon, <3>2, <4>1, <2>2, LiveHolder
      <4>3. windowEnd'[v] = windowEnd[v] BY Zenon, <3>2, <2>6
      <4>4. jobs'[j].unique # v BY Zenon, <3>2, <2>5
      <4>5. On(uniques[v].holder)' => (jobs[uniques[v].holder].unique # v)'
        BY Zenon, <4>1, <4>2, <4>4, <2>3 DEF On
      <4> QED BY Zenon, <4>1, <4>2, <4>3, <4>5, <2>1 DEF Live
    <3> QED BY <3>1, <3>2
  <2>10. NoOrphanClaim'
    <3> SUFFICES ASSUME NEW v \in UniqueKey, Live(uniques[v])', (now >= windowEnd[v])'
                 PROVE  LET k == uniques'[v].holder IN
                        jobs'[k] # NoJob /\ jobs'[k].unique = v /\ jobs'[k].heldUnique
      BY DEF NoOrphanClaim, On
    <3>0. NewJob(delay, u, ttl) # NoJob BY Zenon, NewJobType
    <3>1. CASE v = u
      <4>1. now + ttl \in Nat /\ ~(now >= now + ttl) BY DEF TypeOK
      <4>2. untilDone BY Zenon, <3>1, <4>1, <2>1, <2>6
      <4>3. uniques'[u] = [holder |-> j, expires |-> now + ttl] BY Zenon, <2>2
      <4>4. uniques'[u].holder = j BY Zenon, <4>1, <4>3, StoredClaim
      <4> QED BY Zenon, <3>0, <3>1, <4>2, <4>4, <2>4, <2>5
    <3>2. CASE v # u
      <4>1. Live(uniques[v]) /\ uniques'[v] = uniques[v] BY Zenon, <3>2, <2>1, <2>2 DEF Live
      <4>2. LET k == uniques[v].holder IN
            On(k) /\ jobs[k].unique = v /\ jobs[k].heldUnique
        BY <3>2, <4>1, <2>1, <2>6 DEF UniqueInv, NoOrphanClaim
      <4>3. uniques[v].holder \in JobKey BY <4>1 DEF Live, TypeOK, Claim
      <4> QED BY Zenon, <4>1, <4>2, <4>3, <2>1, <2>3 DEF On
    <3> QED BY <3>1, <3>2
  <2>11. FailedHoldsNothing' BY Zenon, <2>3, <2>5 DEF UniqueInv, FailedHoldsNothing, On
  <2> QED BY <2>8, <2>9, <2>10, <2>11 DEF UniqueInv
<1> QED BY <1>0, <1>1, <1>2, <1>3 DEF Dispatch

\* A job that is done, or given up on, takes its own claim with it and no
\* other (Ack and Bury, with releaseUnique).
LEMMA ReleaseStep ==
    ASSUME TypeOK, UniqueInv, NEW j \in JobKey, On(j), jobs[j].state = "reserved", ~closed,
           uniques' = ReleaseUnique(j), UNCHANGED <<now, windowEnd, closed>>,
           \A k \in JobKey \ {j} : jobs'[k] = jobs[k] /\ heldUntil'[k] = heldUntil[k],
           jobs'[j] # NoJob => /\ jobs'[j].state = "failed"
                               /\ jobs'[j].unique = jobs[j].unique
                               /\ ~jobs'[j].heldUnique
    PROVE  UniqueInv'
<1> USE NothingAssumption
<1>0. \A u \in UniqueKey :
        /\ uniques'[u] \in {uniques[u], NoClaim}
        /\ uniques'[u] # uniques[u] => /\ uniques[u] # NoClaim /\ uniques[u].holder = j
                                       /\ jobs[j].heldUnique /\ jobs[j].unique = u
        /\ jobs[j].heldUnique /\ jobs[j].unique = u /\ uniques[u] # NoClaim
             => uniques[u].holder # j \/ uniques'[u] = NoClaim
  BY Zenon DEF ReleaseUnique, TypeOK
<1>1. HolderOwnsClaim'
  <2> SUFFICES ASSUME NEW k \in JobKey, NEW u \in UniqueKey, Holds(k, u)'
               PROVE  uniques'[u] = [holder |-> k, expires |-> heldUntil'[k]]
    BY DEF HolderOwnsClaim
  <2>1. k # j BY Zenon DEF Holds, On
  <2>2. Holds(k, u) BY Zenon, <2>1 DEF Holds, On
  <2>3. uniques[u] = [holder |-> k, expires |-> heldUntil[k]]
    BY Zenon, <2>2 DEF UniqueInv, HolderOwnsClaim
  <2>4. uniques[u].holder = k BY <2>3
  <2> QED BY Zenon, <2>1, <2>3, <2>4, <1>0
<1>2. WindowOwnsClaim'
  <2> SUFFICES ASSUME NEW u \in UniqueKey, now < windowEnd[u]
               PROVE  /\ Live(uniques[u])'
                      /\ (uniques[u].expires = windowEnd[u])'
                      /\ On(uniques[u].holder)' => (jobs[uniques[u].holder].unique # u)'
    BY Zenon DEF WindowOwnsClaim
  <2>1. /\ Live(uniques[u]) /\ uniques[u].expires = windowEnd[u]
        /\ On(uniques[u].holder) => jobs[uniques[u].holder].unique # u
    BY Zenon DEF UniqueInv, WindowOwnsClaim
  <2>2. uniques'[u] = uniques[u] /\ uniques[u].holder \in JobKey
    BY Zenon, <1>0, <2>1, LiveHolder
  <2> QED BY Zenon, <2>1, <2>2 DEF Live, On
<1>3. NoOrphanClaim'
  <2> SUFFICES ASSUME NEW u \in UniqueKey, Live(uniques[u])', (now >= windowEnd[u])'
               PROVE  LET k == uniques'[u].holder IN
                      jobs'[k] # NoJob /\ jobs'[k].unique = u /\ jobs'[k].heldUnique
    BY Zenon DEF NoOrphanClaim, On
  <2>1. uniques'[u] # NoClaim /\ now' < uniques'[u].expires BY Zenon DEF Live
  <2>2. uniques'[u] = uniques[u] BY Zenon, <1>0, <2>1
  <2>3. Live(uniques[u]) /\ uniques[u].holder \in JobKey
    BY Zenon, <2>1, <2>2 DEF Live, TypeOK, Claim
  <2>4. LET k == uniques[u].holder IN
        On(k) /\ jobs[k].unique = u /\ jobs[k].heldUnique
    BY Zenon, <2>3 DEF UniqueInv, NoOrphanClaim
  <2>5. uniques[u].holder # j BY Zenon, <2>1, <2>2, <2>4, <1>0
  <2>6. jobs'[uniques[u].holder] = jobs[uniques[u].holder] BY Zenon, <2>3, <2>5
  <2> QED BY Zenon, <2>2, <2>4, <2>6 DEF On
<1>4. FailedHoldsNothing' BY Zenon DEF UniqueInv, FailedHoldsNothing, On
<1> QED BY Zenon, <1>1, <1>2, <1>3, <1>4 DEF UniqueInv

\* RetryFailed: the job takes its key again only if no other job holds it.
LEMMA RetryUnique ==
    ASSUME TypeOK, UniqueInv, NEW j \in JobKey, RetryFailed(j)
    PROVE  UniqueInv'
<1> USE NothingAssumption, QueueAssumption
<1> DEFINE u == jobs[j].unique
           granted == [holder |-> j, expires |-> now + jobs[j].uniqueTTL]
<1>1. On(j) /\ jobs[j].state = "failed" /\ ~closed /\ UNCHANGED <<now, windowEnd, closed>>
  BY DEF RetryFailed, Failed
<1>2. jobs[j] \in MemoryJob BY <1>1 DEF On, TypeOK
<1>3. u \in UniqueKey \cup {NoKey} /\ jobs[j].uniqueTTL \in Nat BY <1>2 DEF MemoryJob
<1>4. \A k \in JobKey \ {j} : jobs'[k] = jobs[k] BY DEF RetryFailed, TypeOK
<1>5. /\ jobs'[j] # NoJob /\ jobs'[j].state = "waiting" /\ jobs'[j].unique = u
      /\ jobs'[j].heldUnique <=> u # NoKey
  <2> DEFINE held == u # NoKey
  <2>1. held \in BOOLEAN /\ seq + 1 \in Nat /\ now \in Nat BY DEF TypeOK
  <2>2. jobs'[j] = [jobs[j] EXCEPT !.state = "waiting", !.at = now, !.attempts = 0,
                                   !.seq = seq + 1, !.heldUnique = held]
    BY DEF RetryFailed, TypeOK
  <2> HIDE DEF held
  <2>3. [jobs[j] EXCEPT !.state = "waiting", !.at = now, !.attempts = 0, !.seq = seq + 1,
                        !.heldUnique = held] \in MemoryJob
    BY Zenon, <1>2, <2>1 DEF MemoryJob
  <2>4. jobs'[j].state = "waiting" /\ jobs'[j].unique = u /\ jobs'[j].heldUnique = held
    BY <1>2, <2>2 DEF MemoryJob
  <2> QED BY Zenon, <2>2, <2>3, <2>4 DEF held
<1>6. FailedHoldsNothing' BY <1>4, <1>5 DEF UniqueInv, FailedHoldsNothing, On
<1>7. CASE u = NoKey
  <2>1. UNCHANGED <<uniques, heldUntil>> BY Zenon, <1>7 DEF RetryFailed
  <2>2. HolderOwnsClaim'
    <3> SUFFICES ASSUME NEW k \in JobKey, NEW v \in UniqueKey, Holds(k, v)'
                 PROVE  uniques'[v] = [holder |-> k, expires |-> heldUntil'[k]]
      BY Zenon DEF HolderOwnsClaim
    <3>1. k # j BY Zenon, <1>5, <1>7 DEF Holds
    <3>2. Holds(k, v) BY Zenon, <3>1, <1>1, <1>4, <2>1 DEF Holds, On
    <3> QED BY Zenon, <3>2, <2>1 DEF UniqueInv, HolderOwnsClaim
  <2>3. WindowOwnsClaim'
    <3> SUFFICES ASSUME NEW v \in UniqueKey, now < windowEnd[v]
                 PROVE  /\ Live(uniques[v])'
                        /\ (uniques[v].expires = windowEnd[v])'
                        /\ On(uniques[v].holder)' => (jobs[uniques[v].holder].unique # v)'
      BY Zenon, <1>1 DEF WindowOwnsClaim
    <3>1. /\ Live(uniques[v]) /\ uniques[v].expires = windowEnd[v]
          /\ On(uniques[v].holder) => jobs[uniques[v].holder].unique # v
      BY Zenon DEF UniqueInv, WindowOwnsClaim
    <3>2. uniques[v].holder \in JobKey BY Zenon, <3>1, LiveHolder
    <3>3. jobs'[j].unique # v BY Zenon, <1>5, <1>7
    <3>4. On(uniques[v].holder)' => (jobs[uniques[v].holder].unique # v)'
      BY Zenon, <1>4, <2>1, <3>1, <3>2, <3>3 DEF On
    <3> QED BY Zenon, <1>1, <2>1, <3>1, <3>4 DEF Live
  <2>4. NoOrphanClaim'
    BY <1>1, <1>4, <1>5, <1>7, <2>1 DEF UniqueInv, NoOrphanClaim, Live, On, TypeOK, Claim
  <2> QED BY <1>6, <2>2, <2>3, <2>4 DEF UniqueInv
<1>8. CASE u # NoKey
  <2>0. u \in UniqueKey BY <1>3, <1>8
  <2>1. Live(uniques[u]) => uniques[u].holder = j BY <1>8 DEF RetryFailed
  <2>2. /\ uniques'[u] = granted
        /\ \A v \in UniqueKey \ {u} : uniques'[v] = uniques[v]
        /\ heldUntil'[j] = now + jobs[j].uniqueTTL
        /\ \A k \in JobKey \ {j} : heldUntil'[k] = heldUntil[k]
    BY Zenon, <1>8, <2>0 DEF RetryFailed, TypeOK
  <2>3. granted \in Claim(JobKey) BY Zenon, <1>3, ClaimType
  <2>4. \A k \in JobKey \ {j} : ~Holds(k, u)
    <3> SUFFICES ASSUME NEW k \in JobKey \ {j}, Holds(k, u) PROVE FALSE
      BY Zenon
    <3>1. uniques[u] = [holder |-> k, expires |-> heldUntil[k]] /\ now < heldUntil[k]
      BY Zenon, <2>0 DEF UniqueInv, HolderOwnsClaim, Holds
    <3> QED BY Zenon, <2>0, <2>1, <3>1, HeldIsLive
  <2>5. ~(now < windowEnd[u])
    BY Zenon, <1>1, <2>0, <2>1 DEF UniqueInv, WindowOwnsClaim
  <2>6. HolderOwnsClaim'
    <3> SUFFICES ASSUME NEW k \in JobKey, NEW v \in UniqueKey, Holds(k, v)'
                 PROVE  uniques'[v] = [holder |-> k, expires |-> heldUntil'[k]]
      BY Zenon DEF HolderOwnsClaim
    <3>1. CASE k = j BY Zenon, <3>1, <1>5, <2>2 DEF Holds
    <3>2. CASE k # j
      <4>1. Holds(k, v) BY Zenon, <3>2, <1>1, <1>4, <2>2 DEF Holds, On
      <4>2. v # u BY Zenon, <3>2, <4>1, <2>4
      <4>3. uniques[v] = [holder |-> k, expires |-> heldUntil[k]]
        BY Zenon, <4>1 DEF UniqueInv, HolderOwnsClaim
      <4>4. uniques'[v] = uniques[v] /\ heldUntil'[k] = heldUntil[k]
        BY Zenon, <3>2, <4>2, <2>2
      <4> QED BY Zenon, <4>3, <4>4
    <3> QED BY Zenon, <3>1, <3>2
  <2>7. WindowOwnsClaim'
    <3> SUFFICES ASSUME NEW v \in UniqueKey, now < windowEnd[v]
                 PROVE  /\ Live(uniques[v])'
                        /\ (uniques[v].expires = windowEnd[v])'
                        /\ On(uniques[v].holder)' => (jobs[uniques[v].holder].unique # v)'
      BY <1>1 DEF WindowOwnsClaim
    <3>1. v # u BY Zenon, <2>5
    <3>2. /\ Live(uniques[v]) /\ uniques[v].expires = windowEnd[v]
          /\ On(uniques[v].holder) => jobs[uniques[v].holder].unique # v
      BY Zenon DEF UniqueInv, WindowOwnsClaim
    <3>3. uniques[v].holder \in JobKey /\ uniques'[v] = uniques[v]
      BY Zenon, <2>2, <3>1, <3>2 DEF Live, TypeOK, Claim
    <3> QED BY Zenon, <1>1, <1>4, <1>5, <3>1, <3>2, <3>3 DEF Live, On
  <2>8. NoOrphanClaim'
    <3> SUFFICES ASSUME NEW v \in UniqueKey, Live(uniques[v])', (now >= windowEnd[v])'
                 PROVE  LET k == uniques'[v].holder IN
                        jobs'[k] # NoJob /\ jobs'[k].unique = v /\ jobs'[k].heldUnique
      BY Zenon DEF NoOrphanClaim, On
    <3>1. CASE v = u
      <4>1. uniques'[v].holder = j BY <2>2, <3>1
      <4> QED BY Zenon, <1>5, <1>8, <3>1, <4>1
    <3>2. CASE v # u
      <4>1. uniques'[v] = uniques[v] /\ Live(uniques[v]) BY Zenon, <1>1, <2>2, <3>2 DEF Live
      <4>2. LET k == uniques[v].holder IN
            On(k) /\ jobs[k].unique = v /\ jobs[k].heldUnique
        BY Zenon, <1>1, <4>1 DEF UniqueInv, NoOrphanClaim
      <4>3. uniques[v].holder \in JobKey BY Zenon, <4>1 DEF Live, TypeOK, Claim
      <4> QED BY Zenon, <1>4, <3>2, <4>1, <4>2, <4>3 DEF On
    <3> QED BY Zenon, <3>1, <3>2
  <2> QED BY <1>6, <2>6, <2>7, <2>8 DEF UniqueInv
<1> QED BY <1>7, <1>8

\* A step that changes one active job's schedule, attempts or receipt only.
LEMMA TouchStep ==
    ASSUME TypeOK, UniqueInv, UNCHANGED <<now, uniques, heldUntil, windowEnd, closed>>,
           NEW j \in JobKey, jobs[j] # NoJob, jobs[j].state # "failed",
           NEW r \in MemoryJob, jobs' = [jobs EXCEPT ![j] = r], r.state # "failed",
           r.unique = jobs[j].unique, r.heldUnique = jobs[j].heldUnique
    PROVE  UniqueInv'
<1>1. jobs'[j] = r /\ \A k \in JobKey \ {j} : jobs'[k] = jobs[k] BY DEF TypeOK
<1>2. r # NoJob BY NothingAssumption
<1>3. \A k \in JobKey : jobs'[k] # NoJob =>
        /\ jobs[k] # NoJob
        /\ jobs'[k].unique = jobs[k].unique
        /\ jobs'[k].heldUnique = jobs[k].heldUnique
        /\ jobs'[k].state = "failed" <=> jobs[k].state = "failed"
  BY <1>1
<1>4. \A k \in JobKey : jobs[k] # NoJob /\ jobs[k].heldUnique => jobs'[k] # NoJob \/ closed'
  BY <1>1, <1>2
<1>5. closed' \/ closed' = closed OBVIOUS
<1>6. UNCHANGED <<now, uniques, heldUntil, windowEnd>> OBVIOUS
<1> QED BY <1>3, <1>4, <1>5, <1>6, QuietStep

\* Reserve leaves the claims alone.
LEMMA ReserveUnique ==
    ASSUME TypeOK, UniqueInv, NEW order \in Orders, NEW lease \in Leases, NEW j \in JobKey,
           Reserve(order, lease, j)
    PROVE  UniqueInv'
<1> DEFINE r == [jobs[j] EXCEPT !.state = "reserved", !.at = now + lease,
                                !.attempts = jobs[j].attempts + 1, !.receipt = receipts + 1]
<1>1. jobs[j] # NoJob /\ jobs[j].state # "failed" BY DEF Reserve, AvailableOn, Available, On
<1>2. jobs[j] \in MemoryJob BY <1>1 DEF TypeOK
<1>3. now + lease \in Nat /\ jobs[j].attempts + 1 \in Nat /\ receipts + 1 \in Nat
  BY <1>2, QueueAssumption DEF TypeOK, MemoryJob
<1>4. r \in MemoryJob BY Zenon, <1>2, <1>3 DEF MemoryJob
<1>5. r.state # "failed" /\ r.unique = jobs[j].unique /\ r.heldUnique = jobs[j].heldUnique
  BY <1>2 DEF MemoryJob
<1>6. jobs' = [jobs EXCEPT ![j] = r] BY Zenon DEF Reserve
<1>7. UNCHANGED <<now, uniques, heldUntil, windowEnd, closed>> BY DEF Reserve, claimVars
<1> HIDE DEF r
<1> QED BY Zenon, <1>1, <1>4, <1>5, <1>6, <1>7, TouchStep

\* Settling a delivery keeps the invariant on claims.
LEMMA SettleUnique ==
    ASSUME TypeOK, UniqueInv, NEW j \in JobKey, NEW receipt \in 1..receipts, Settle(j, receipt)
    PROVE  UniqueInv'
<1> USE QueueAssumption
<1>1. On(j) /\ jobs[j].state = "reserved" /\ ~closed
  BY Zenon DEF Settle, Ack, Release, Extend, Bury, Leased
<1>2. jobs[j] \in MemoryJob /\ jobs[j] # NoJob BY Zenon, <1>1 DEF On, TypeOK
<1>3. CASE Ack(j, receipt)
  <2>1. uniques' = ReleaseUnique(j) /\ UNCHANGED <<now, windowEnd, closed>> BY <1>3 DEF Ack
  <2>2. \A k \in JobKey \ {j} : jobs'[k] = jobs[k] /\ heldUntil'[k] = heldUntil[k]
    BY <1>3 DEF Ack, TypeOK
  <2>3. jobs'[j] = NoJob BY Zenon, <1>3 DEF Ack, TypeOK
  <2> QED BY <1>1, <2>1, <2>2, <2>3, ReleaseStep
<1>4. ASSUME NEW failedAt \in 0..now, Bury(j, receipt, failedAt)
      PROVE  UniqueInv'
  <2>1. uniques' = ReleaseUnique(j) /\ UNCHANGED <<now, windowEnd, closed>> BY <1>4 DEF Bury
  <2>2. \A k \in JobKey \ {j} : jobs'[k] = jobs[k] /\ heldUntil'[k] = heldUntil[k]
    BY <1>4 DEF Bury, TypeOK
  <2>3. jobs'[j] = [jobs[j] EXCEPT !.state = "failed", !.at = failedAt, !.receipt = 0,
                                   !.heldUnique = FALSE]
    BY <1>4 DEF Bury, TypeOK
  <2>4. jobs'[j].state = "failed" /\ jobs'[j].unique = jobs[j].unique /\ ~jobs'[j].heldUnique
    BY <1>2, <2>3 DEF MemoryJob
  <2> QED BY <1>1, <2>1, <2>2, <2>4, ReleaseStep
<1>5. ASSUME NEW delay \in Delays, NEW uncount \in BOOLEAN, Release(j, receipt, delay, uncount)
      PROVE  UniqueInv'
  <2> DEFINE n == IF uncount /\ jobs[j].attempts > 0 THEN jobs[j].attempts - 1
                  ELSE jobs[j].attempts
             r == [jobs[j] EXCEPT !.state = "waiting", !.receipt = 0, !.at = now + delay,
                                  !.attempts = n, !.seq = seq + 1]
  <2>1. n \in Nat /\ now + delay \in Nat /\ seq + 1 \in Nat BY <1>2 DEF MemoryJob, TypeOK
  <2>2. jobs' = [jobs EXCEPT ![j] = r] BY Zenon, <1>5 DEF Release
  <2> HIDE DEF n
  <2>3. r \in MemoryJob BY Zenon, <1>2, <2>1 DEF MemoryJob
  <2>4. r.state # "failed" /\ r.unique = jobs[j].unique /\ r.heldUnique = jobs[j].heldUnique
    BY <1>2 DEF MemoryJob
  <2>5. UNCHANGED <<now, uniques, heldUntil, windowEnd, closed>> BY <1>5 DEF Release, claimVars
  <2> HIDE DEF r
  <2> QED BY Zenon, <1>1, <1>2, <2>2, <2>3, <2>4, <2>5, TouchStep
<1>6. ASSUME NEW lease \in Leases, Extend(j, receipt, lease)
      PROVE  UniqueInv'
  <2> DEFINE r == [jobs[j] EXCEPT !.at = now + lease]
  <2>1. now + lease \in Nat BY DEF TypeOK
  <2>2. jobs' = [jobs EXCEPT ![j] = r] BY <1>6 DEF Extend
  <2>3. r \in MemoryJob BY Zenon, <1>2, <2>1 DEF MemoryJob
  <2>4. r.state # "failed" /\ r.unique = jobs[j].unique /\ r.heldUnique = jobs[j].heldUnique
    BY <1>1, <1>2 DEF MemoryJob
  <2>5. UNCHANGED <<now, uniques, heldUntil, windowEnd, closed>> BY <1>6 DEF Extend, claimVars
  <2> HIDE DEF r
  <2> QED BY Zenon, <1>1, <1>2, <2>2, <2>3, <2>4, <2>5, TouchStep
<1> QED BY <1>3, <1>4, <1>5, <1>6 DEF Settle

\* So does managing the failed jobs, and closing the queue.
LEMMA AdministerUnique ==
    ASSUME TypeOK, UniqueInv, Administer
    PROVE  UniqueInv'
<1>1. ASSUME NEW j \in JobKey, ForgetFailed(j)
      PROVE  UniqueInv'
  <2>1. UNCHANGED <<now, uniques, heldUntil, windowEnd>> /\ closed' = closed
    BY <1>1 DEF ForgetFailed, claimVars
  <2>2. jobs[j] # NoJob /\ ~jobs[j].heldUnique
    BY <1>1 DEF ForgetFailed, Failed, On, UniqueInv, FailedHoldsNothing
  <2>3. jobs'[j] = NoJob /\ \A k \in JobKey \ {j} : jobs'[k] = jobs[k]
    BY Zenon, <1>1 DEF ForgetFailed, TypeOK
  <2> QED BY <2>1, <2>2, <2>3, QuietStep
<1>2. ASSUME NEW q \in Queues, NEW before \in 1..(now + 1), PurgeFailed(q, before)
      PROVE  UniqueInv'
  <2>1. UNCHANGED <<now, uniques, heldUntil, windowEnd>> /\ closed' = closed
    BY <1>2 DEF PurgeFailed, claimVars
  <2>2. \A k \in JobKey : jobs'[k] = jobs[k] \/ (Failed(k) /\ jobs'[k] = NoJob)
    BY <1>2 DEF PurgeFailed
  <2>3. \A k \in JobKey : Failed(k) => ~jobs[k].heldUnique
    BY DEF Failed, UniqueInv, FailedHoldsNothing
  <2> QED BY <2>1, <2>2, <2>3, QuietStep
<1>3. CASE Close
  <2>1. UNCHANGED <<now, uniques, heldUntil, windowEnd>> /\ closed'
    BY <1>3 DEF Close, claimVars
  <2>2. \A k \in JobKey : jobs'[k] = NoJob BY <1>3 DEF Close
  <2> QED BY <2>1, <2>2, QuietStep
<1> QED BY <1>1, <1>2, <1>3, RetryUnique DEF Administer

\* Once calls touch the uniqueness claims only by sweeping them.
LEMMA UseOnceUnique ==
    ASSUME TypeOK, UniqueInv, NEW k \in OnceKeys, NEW token \in Tokens, UseOnce(k, token)
    PROVE  UniqueInv'
<1>2. ASSUME NEW lock \in Locks, BeginOnce(k, token, lock)
      PROVE  UniqueInv'
  BY <1>2, SweepStep DEF BeginOnce
<1>3. ASSUME NEW keep \in Keeps, FinishOnce(k, token, keep)
      PROVE  UniqueInv'
  <2>1. UNCHANGED <<now, uniques, heldUntil, windowEnd>> /\ jobs' = jobs /\ closed' = closed
    BY <1>3 DEF FinishOnce
  <2> QED BY <2>1, QuietStep
<1>4. CASE AbandonOnce(k, token)
  <2>1. UNCHANGED <<now, uniques, heldUntil, windowEnd>> /\ jobs' = jobs /\ closed' = closed
    BY <1>4 DEF AbandonOnce
  <2> QED BY <2>1, QuietStep
<1> QED BY <1>2, <1>3, <1>4 DEF UseOnce

\* As time passes claims lapse, and with them what the invariant asks of them.
LEMMA TickUnique ==
    ASSUME TypeOK, UniqueInv, Tick
    PROVE  UniqueInv'
<1>1. now' = now + 1 /\ now \in Nat BY DEF Tick, TypeOK
<1>2. UNCHANGED <<jobs, uniques, closed, heldUntil, windowEnd>> BY DEF Tick, claimVars
<1>3. /\ \A j \in JobKey : heldUntil[j] \in Nat
      /\ \A u \in UniqueKey : /\ windowEnd[u] \in Nat
                              /\ uniques[u] # NoClaim => uniques[u].expires \in Nat
  BY DEF TypeOK, Claim
<1>4. HolderOwnsClaim'
  BY <1>1, <1>2, <1>3 DEF UniqueInv, HolderOwnsClaim, Holds, On
<1>5. WindowOwnsClaim'
  BY <1>1, <1>2, <1>3 DEF UniqueInv, WindowOwnsClaim, Live, On
<1>6. NoOrphanClaim'
  <2> SUFFICES ASSUME ~closed, NEW u \in UniqueKey, Live(uniques[u])', (now >= windowEnd[u])'
               PROVE  LET k == uniques[u].holder IN
                      jobs[k] # NoJob /\ jobs[k].unique = u /\ jobs[k].heldUnique
    BY <1>2 DEF NoOrphanClaim, On
  <2>1. Live(uniques[u]) /\ uniques[u].expires > now + 1 BY <1>1, <1>2, <1>3 DEF Live
  <2>2. now >= windowEnd[u]
    BY <1>1, <1>2, <1>3, <2>1 DEF UniqueInv, WindowOwnsClaim
  <2> QED BY <2>1, <2>2 DEF UniqueInv, NoOrphanClaim, On
<1>7. FailedHoldsNothing' BY <1>2 DEF UniqueInv, FailedHoldsNothing, On
<1> QED BY <1>4, <1>5, <1>6, <1>7 DEF UniqueInv

\* Every step of the driver keeps the invariant on claims.
LEMMA UniqueStep == TypeOK /\ UniqueInv /\ [Next]_vars => UniqueInv'
<1> SUFFICES ASSUME TypeOK, UniqueInv, [Next]_vars PROVE UniqueInv'
    BY Zenon
<1>1. CASE UNCHANGED vars
  BY <1>1 DEF vars, UniqueInv, HolderOwnsClaim, WindowOwnsClaim, NoOrphanClaim,
              FailedHoldsNothing, Holds, Live, On
<1> QED BY <1>1, DispatchUnique, ReserveUnique, SettleUnique, AdministerUnique, UseOnceUnique,
           TickUnique DEF Next, Serve

\* The invariant holds of every behaviour of the driver.
THEOREM UniqueInvariant == Spec => []UniqueInv
<1>1. Init => UniqueInv
  BY DEF Init, UniqueInv, HolderOwnsClaim, WindowOwnsClaim, NoOrphanClaim, FailedHoldsNothing,
         Holds, Live, On
<1> QED BY <1>1, UniqueStep, TypeCorrect, PTL DEF Spec

\* Two jobs never hold one uniqueness key together (PushUnique, releaseUnique,
\* sweepClaims, RetryFailed).
THEOREM UniqueCorrect == Spec => []OneHolderPerKey
<1>1. UniqueInv => OneHolderPerKey
  <2> SUFFICES ASSUME UniqueInv, NEW u \in UniqueKey, NEW j \in JobKey, NEW k \in JobKey,
                      Holds(j, u), Holds(k, u)
               PROVE  j = k
    BY DEF OneHolderPerKey
  <2>1. /\ uniques[u] = [holder |-> j, expires |-> heldUntil[j]]
        /\ uniques[u] = [holder |-> k, expires |-> heldUntil[k]]
    BY Zenon DEF UniqueInv, HolderOwnsClaim
  <2>2. uniques[u].holder = j /\ uniques[u].holder = k BY <2>1
  <2> QED BY <2>2
<1> QED BY <1>1, UniqueInvariant, PTL

\* A deduplication window refuses dispatches to its end (PushUnique with
\* UniqueFor, releaseUnique, sweepClaims).
THEOREM WindowCorrect == Spec => []WindowStands
<1>1. UniqueInv => WindowStands
  BY DEF UniqueInv, WindowOwnsClaim, WindowStands
<1> QED BY <1>1, UniqueInvariant, PTL

\* A job that is done or given up on leaves no claim behind (Ack, Bury).
THEOREM ReleaseCorrect == Spec => []NoOrphanClaim
<1>1. UniqueInv => NoOrphanClaim BY DEF UniqueInv
<1> QED BY <1>1, UniqueInvariant, PTL

----------------------------------------------------------------------------
(* Leases *)

\* A new job waits and has no lease (push).
LEMMA NewJobWaits ==
    ASSUME NEW delay, NEW u, NEW ttl
    PROVE  NewJob(delay, u, ttl).state = "waiting" /\ NewJob(delay, u, ttl).receipt = 0
BY DEF NewJob

\* A dispatch writes at most the entry of its job, which was not on the queue
\* and then waits (push).
LEMMA DispatchWrites ==
    ASSUME TypeOK, NEW j \in JobKey, Dispatch(j)
    PROVE  /\ receipts' = receipts
           /\ \A k \in JobKey \ {j} : jobs'[k] = jobs[k]
           /\ \/ jobs'[j] = jobs[j]
              \/ ~On(j) /\ jobs'[j].state = "waiting" /\ jobs'[j].receipt = 0
<1>1. jobs \in [JobKey -> MemoryJob \cup {NoJob}] BY Zenon DEF TypeOK
<1>2. receipts' = receipts
  BY Zenon DEF Dispatch, Push, PushRefused, PushUnique
<1>3. \/ jobs' = jobs
      \/ ~On(j) /\ \E delay, u, ttl : jobs' = [jobs EXCEPT ![j] = NewJob(delay, u, ttl)]
  <2>1. CASE \E delay \in Delays : Push(j, delay)
    BY Zenon, <2>1 DEF Push
  <2>2. CASE \E u \in {j[1]} \X Keys : PushRefused(j, u)
    BY Zenon, <2>2 DEF PushRefused
  <2>3. ASSUME NEW u, NEW delay, NEW ttl, NEW untilDone \in BOOLEAN,
               PushUnique(j, u, delay, ttl, untilDone)
        PROVE  ~On(j) /\ \E d, v, t : jobs' = [jobs EXCEPT ![j] = NewJob(d, v, t)]
    <3>1. CASE untilDone BY Zenon, <2>3, <3>1 DEF PushUnique
    <3>2. CASE ~untilDone BY Zenon, <2>3, <3>2 DEF PushUnique
    <3> QED BY Zenon, <3>1, <3>2
  <2> QED BY Zenon, <2>1, <2>2, <2>3 DEF Dispatch
<1>4. ASSUME NEW v, jobs' = [jobs EXCEPT ![j] = v]
      PROVE  jobs'[j] = v /\ \A k \in JobKey \ {j} : jobs'[k] = jobs[k]
  BY Zenon, <1>1, <1>4
<1>5. CASE jobs' = jobs BY Zenon, <1>2, <1>5
<1>6. ASSUME ~On(j), NEW delay, NEW u, NEW ttl, jobs' = [jobs EXCEPT ![j] = NewJob(delay, u, ttl)]
      PROVE  /\ \A k \in JobKey \ {j} : jobs'[k] = jobs[k]
             /\ ~On(j) /\ jobs'[j].state = "waiting" /\ jobs'[j].receipt = 0
  <2>1. jobs'[j] = NewJob(delay, u, ttl) /\ \A k \in JobKey \ {j} : jobs'[k] = jobs[k]
    BY Zenon, <1>4, <1>6
  <2>2. NewJob(delay, u, ttl).state = "waiting" /\ NewJob(delay, u, ttl).receipt = 0
    BY Zenon, NewJobWaits
  <2> QED BY Zenon, <1>6, <2>1, <2>2
<1> QED BY Zenon, <1>2, <1>3, <1>5, <1>6

\* Every step of the driver keeps the receipts of leases apart.
LEMMA ReceiptsStep ==
    TypeOK /\ ReceiptsIdentifyLeases /\ [Next]_vars => ReceiptsIdentifyLeases'
<1> SUFFICES ASSUME TypeOK, ReceiptsIdentifyLeases, [Next]_vars PROVE ReceiptsIdentifyLeases'
    OBVIOUS
<1> USE QueueAssumption, NothingAssumption
<1>0. ASSUME receipts' = receipts,
             \A j \in JobKey : jobs'[j] # NoJob =>
               \/ jobs'[j].state # "reserved" /\ jobs'[j].receipt = 0
               \/ /\ jobs[j] # NoJob
                  /\ jobs'[j].state = jobs[j].state /\ jobs'[j].receipt = jobs[j].receipt
      PROVE  ReceiptsIdentifyLeases'
  <2>1. \A j \in JobKey : jobs[j] # NoJob => jobs[j].receipt \in Nat BY DEF TypeOK, MemoryJob
  <2>2. receipts \in Nat BY DEF TypeOK
  <2> QED BY SMTT(30), <1>0, <2>1, <2>2 DEF ReceiptsIdentifyLeases, On
<1>1. ASSUME NEW j \in JobKey, Dispatch(j)
      PROVE  ReceiptsIdentifyLeases'
  <2>1. /\ receipts' = receipts
        /\ \A k \in JobKey \ {j} : jobs'[k] = jobs[k]
        /\ \/ jobs'[j] = jobs[j]
           \/ jobs'[j].state = "waiting" /\ jobs'[j].receipt = 0
    BY Zenon, <1>1, DispatchWrites
  <2>2. jobs'[j] = jobs[j] \/ (jobs'[j].state # "reserved" /\ jobs'[j].receipt = 0)
    BY Zenon, <2>1
  <2>3. \A k \in JobKey : jobs'[k] = jobs[k]
                          \/ (jobs'[k].state # "reserved" /\ jobs'[k].receipt = 0)
    BY Zenon, <2>1, <2>2
  <2> QED BY Zenon, <1>0, <2>1, <2>3
<1>2. ASSUME NEW order \in Orders, NEW lease \in Leases, NEW j \in JobKey,
             Reserve(order, lease, j)
      PROVE  ReceiptsIdentifyLeases'
  <2>1. jobs[j] # NoJob BY <1>2 DEF Reserve, AvailableOn, Available, On
  <2>2. jobs[j] \in MemoryJob BY <2>1 DEF TypeOK
  <2>3. jobs'[j].state = "reserved" /\ jobs'[j].receipt = receipts + 1
    BY <1>2, <2>2 DEF Reserve, TypeOK, MemoryJob
  <2>4. receipts' = receipts + 1 /\ receipts \in Nat BY <1>2 DEF Reserve, TypeOK
  <2>5. \A k \in JobKey \ {j} : jobs'[k] = jobs[k] BY Zenon, <1>2 DEF Reserve, TypeOK
  <2>6. \A k \in JobKey : jobs[k] # NoJob => jobs[k].receipt \in Nat BY DEF TypeOK, MemoryJob
  <2> QED BY <2>3, <2>4, <2>5, <2>6 DEF ReceiptsIdentifyLeases, On
<1>3. ASSUME NEW j \in JobKey, NEW receipt \in 1..receipts, Settle(j, receipt)
      PROVE  ReceiptsIdentifyLeases'
  <2>1. jobs[j] # NoJob /\ jobs[j] \in MemoryJob
    BY ZenonT(30), <1>3 DEF Settle, Ack, Release, Extend, Bury, Leased, On, TypeOK
  <2>2. receipts' = receipts BY ZenonT(30), <1>3 DEF Settle, Ack, Release, Extend, Bury
  <2>3. \A k \in JobKey \ {j} : jobs'[k] = jobs[k]
    BY Zenon, <1>3 DEF Settle, Ack, Release, Extend, Bury, TypeOK
  <2>4. CASE Ack(j, receipt)
    <3>1. jobs'[j] = NoJob BY Zenon, <2>4 DEF Ack, TypeOK
    <3> QED BY <1>0, <2>2, <2>3, <3>1
  <2>5. CASE \E delay \in Delays, uncount \in BOOLEAN : Release(j, receipt, delay, uncount)
    <3>1. jobs'[j].state = "waiting" /\ jobs'[j].receipt = 0
      BY <2>1, <2>5 DEF Release, TypeOK, MemoryJob
    <3> QED BY <1>0, <2>2, <2>3, <3>1
  <2>6. CASE \E lease \in Leases : Extend(j, receipt, lease)
    <3>1. jobs'[j].state = jobs[j].state /\ jobs'[j].receipt = jobs[j].receipt
      BY <2>1, <2>6 DEF Extend, TypeOK, MemoryJob
    <3> QED BY <1>0, <2>1, <2>2, <2>3, <3>1
  <2>7. CASE \E failedAt \in 0..now : Bury(j, receipt, failedAt)
    <3>1. jobs'[j].state = "failed" /\ jobs'[j].receipt = 0
      BY <2>1, <2>7 DEF Bury, TypeOK, MemoryJob
    <3> QED BY <1>0, <2>2, <2>3, <3>1
  <2> QED BY SMTT(30), <1>3, <2>4, <2>5, <2>6, <2>7 DEF Settle
<1>4. CASE Administer
  <2>1. receipts' = receipts
    BY Zenon, <1>4 DEF Administer, RetryFailed, ForgetFailed, PurgeFailed, Close
  <2>2. ASSUME NEW j \in JobKey, RetryFailed(j)
        PROVE  ReceiptsIdentifyLeases'
    <3>1. jobs[j] # NoJob /\ jobs[j] \in MemoryJob /\ jobs[j].state = "failed"
      BY <2>2 DEF RetryFailed, Failed, On, TypeOK
    <3>2. jobs[j].receipt = 0 BY <3>1 DEF ReceiptsIdentifyLeases, On
    <3>3. jobs'[j].state = "waiting" /\ jobs'[j].receipt = 0
      BY <2>2, <3>1, <3>2 DEF RetryFailed, TypeOK, MemoryJob
    <3>4. \A k \in JobKey \ {j} : jobs'[k] = jobs[k] BY <2>2 DEF RetryFailed, TypeOK
    <3> QED BY <1>0, <2>1, <3>3, <3>4
  <2>3. CASE (\E j \in JobKey : ForgetFailed(j)) \/ Close
             \/ \E q \in Queues, before \in 1..(now + 1) : PurgeFailed(q, before)
    <3>1. \A k \in JobKey : jobs'[k] \in {jobs[k], NoJob}
      BY <2>3 DEF ForgetFailed, PurgeFailed, Close, TypeOK
    <3> QED BY Zenon, <1>0, <2>1, <3>1
  <2> QED BY SMTT(30), <1>4, <2>2, <2>3 DEF Administer
<1>5. CASE (\E k \in OnceKeys, token \in Tokens : UseOnce(k, token)) \/ Tick \/ UNCHANGED vars
  <2>1. jobs' = jobs /\ receipts' = receipts
    BY <1>5 DEF UseOnce, BeginOnce, FinishOnce, AbandonOnce, Tick, vars
  <2> QED BY Zenon, <1>0, <2>1
<1> QED BY SMTT(30), <1>1, <1>2, <1>3, <1>4, <1>5 DEF Next, Serve

\* A receipt names one lease, and a job that is not leased answers to none
\* (Reserve, leased, release, Bury).
THEOREM ReceiptsCorrect == Spec => []ReceiptsIdentifyLeases
<1>1. Init => ReceiptsIdentifyLeases BY DEF Init, ReceiptsIdentifyLeases, On
<1> QED BY <1>1, ReceiptsStep, TypeCorrect, PTL DEF Spec

\* While a lease runs its job is delivered to nobody else (available,
\* Reserve).
THEOREM LeaseCorrect == Spec => LeaseRespected
<1> DEFINE Kept == \A j \in JobKey :
             (On(j) /\ jobs[j].state = "reserved" /\ now < jobs[j].at /\ jobs'[j] # NoJob)
                => jobs'[j].receipt \in {jobs[j].receipt, 0}
<1>1. TypeOK /\ [Next]_vars => [Kept]_vars
  <2> SUFFICES ASSUME TypeOK, Next,
                      NEW j \in JobKey, On(j), jobs[j].state = "reserved", now < jobs[j].at
               PROVE  jobs'[j] = NoJob \/ jobs'[j].receipt \in {jobs[j].receipt, 0}
    OBVIOUS
  <2>0. jobs[j] \in MemoryJob /\ now \in Nat BY Zenon DEF On, TypeOK
  <2>a. jobs[j].at \in Nat BY Zenon, <2>0 DEF MemoryJob
  <2>1. ASSUME NEW k \in JobKey, Dispatch(k)
        PROVE  jobs'[j] = jobs[j]
    BY Zenon, <2>1, DispatchWrites
  <2>2. ASSUME NEW order \in Orders, NEW lease \in Leases, NEW k \in JobKey,
               Reserve(order, lease, k)
        PROVE  jobs'[j] = jobs[j]
    <3>1. Available(k) BY Zenon, <2>2 DEF Reserve, AvailableOn
    <3>2. ~Available(j) BY <2>0, <2>a DEF Available
    <3> QED BY <2>2, <3>1, <3>2 DEF Reserve, TypeOK
  <2>3. ASSUME NEW k \in JobKey, NEW receipt \in 1..receipts, Settle(k, receipt)
        PROVE  jobs'[j] = NoJob \/ jobs'[j].receipt \in {jobs[j].receipt, 0}
    <3>1. CASE k # j BY ZenonT(30), <2>3, <3>1 DEF Settle, Ack, Release, Extend, Bury, TypeOK
    <3>2. CASE k = j
      <4>1. CASE Ack(j, receipt) BY <4>1 DEF Ack, TypeOK
      <4>2. CASE \E delay \in Delays, uncount \in BOOLEAN : Release(j, receipt, delay, uncount)
        BY <2>0, <4>2 DEF Release, TypeOK, MemoryJob
      <4>3. CASE \E lease \in Leases : Extend(j, receipt, lease)
        BY <2>0, <4>3 DEF Extend, TypeOK, MemoryJob
      <4>4. CASE \E failedAt \in 0..now : Bury(j, receipt, failedAt)
        BY SMTT(30), <2>0, <4>4 DEF Bury, TypeOK, MemoryJob
      <4> QED BY <2>3, <3>2, <4>1, <4>2, <4>3, <4>4 DEF Settle
    <3> QED BY SMTT(30), <3>1, <3>2
  <2>4. ASSUME Administer
        PROVE  jobs'[j] \in {jobs[j], NoJob}
    BY ZenonT(30), <2>4
       DEF Administer, RetryFailed, ForgetFailed, PurgeFailed, Close, Failed, TypeOK
  <2>5. ASSUME (\E k \in OnceKeys, token \in Tokens : UseOnce(k, token)) \/ Tick
        PROVE  jobs'[j] = jobs[j]
    BY <2>5 DEF UseOnce, BeginOnce, FinishOnce, AbandonOnce, Tick
  <2> QED BY ZenonT(30), <2>1, <2>2, <2>3, <2>4, <2>5 DEF Next, Serve
<1> QED BY <1>1, TypeCorrect, PTL DEF Spec, LeaseRespected

=============================================================================
