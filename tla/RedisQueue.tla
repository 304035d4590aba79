----------------------------- MODULE RedisQueue -----------------------------
(***************************************************************************)
(* The Redis driver of the jobs queue, jobs/redis.go: one queue's keys and *)
(* the Lua scripts that change them.  Redis runs a script atomically, so   *)
(* each script, with the Go method around it, is one action; a call that   *)
(* is refused and changes nothing is a stuttering step.                    *)
(*                                                                         *)
(* The sorted sets hold members "<sequence>:<id>"; here a member is the    *)
(* pair of the two and an entry is a member with its score.  Clients share *)
(* one clock, which the driver asks for, and it also stands for the        *)
(* server's, which times the claims.  Every queue has keys of its own and  *)
(* no script touches two queues, so one queue stands for all.              *)
(***************************************************************************)
EXTENDS Integers, FiniteSets

CONSTANTS
    JobIDs, Keys, OnceKeys, Tokens,
    Leases, Delays, TTLs, Locks, Keeps,  \* durations, as in MemoryQueue
    PurgeBatch,                          \* purgeBatch
    NoHash, NoClaim, NoKey,
    OnceDoneMarker                       \* the value of a completed Once key

ASSUME RedisAssumption ==
    /\ Leases \subseteq Nat \ {0}
    /\ TTLs \subseteq Nat \ {0}
    /\ Delays \subseteq Nat
    /\ Locks \subseteq Nat \ {0}
    /\ Keeps \subseteq Nat \ {0}
    /\ PurgeBatch \in Nat \ {0}
    /\ NoKey \notin Keys
    /\ OnceDoneMarker \notin Tokens

VARIABLES
    now,
    hash,      \* the job hashes, by ID
    pending,   \* sorted set of waiting jobs, scored by when they are available
    reserved,  \* sorted set of leased jobs, scored by lease deadline
    failed,    \* sorted set of failed jobs (IDs), scored by when they failed
    unique,    \* the uniqueness keys, with their expiry
    once,      \* the Once keys, with their expiry
    seq,
    receipts   \* receipts issued so far

vars == <<now, hash, pending, reserved, failed, unique, once, seq, receipts>>

\* The fields of a job hash: receipt 0 is the empty receipt, member the
\* sequence part of the job's member, unique the claim it holds until done.
Hash == [attempts : Nat, receipt : Nat, member : Nat,
         unique : Keys \cup {NoKey}, uniqueTTL : Nat, failure : BOOLEAN]

Entry == [id : JobIDs, seq : Nat, score : Nat]

Init ==
    /\ now = 0
    /\ hash = [i \in JobIDs |-> NoHash]
    /\ pending = {} /\ reserved = {} /\ failed = {}
    /\ unique = [k \in Keys |-> NoClaim]
    /\ once = [k \in OnceKeys |-> NoClaim]
    /\ seq = 0 /\ receipts = 0

Exists(i) == hash[i] # NoHash

\* GET of a key set with PX: Redis has dropped it once its TTL ran out.
Live(claim) == claim # NoClaim /\ now < claim.expires

Taken(k) == Live(unique[k])

ZAdd(set, i, n, score) ==
    {e \in set : <<e.id, e.seq>> # <<i, n>>} \cup {[id |-> i, seq |-> n, score |-> score]}

ZRem(set, i, n) == {e \in set : <<e.id, e.seq>> # <<i, n>>}

\* The order of a sorted set: by score, then by member.
Precedes(e, f) == e.score < f.score \/ (e.score = f.score /\ e.seq < f.seq)

-----------------------------------------------------------------------------

NewHash(k, ttl) ==
    [attempts |-> 0, receipt |-> 0, member |-> seq + 1, unique |-> k, uniqueTTL |-> ttl,
     failure |-> FALSE]

\* pushScript.
Push(i, delay) ==
    /\ ~Exists(i)
    /\ seq' = seq + 1
    /\ hash' = [hash EXCEPT ![i] = NewHash(NoKey, 0)]
    /\ pending' = ZAdd(pending, i, seq + 1, now + delay)
    /\ UNCHANGED <<now, reserved, failed, unique, receipts, once>>

\* pushUniqueScript.
PushUnique(i, k, delay, ttl, untilDone) ==
    /\ ~Taken(k)
    /\ ~Exists(i)
    /\ unique' = [unique EXCEPT ![k] = [holder |-> i, expires |-> now + ttl]]
    /\ seq' = seq + 1
    /\ hash' = [hash EXCEPT ![i] = IF untilDone THEN NewHash(k, ttl) ELSE NewHash(NoKey, 0)]
    /\ pending' = ZAdd(pending, i, seq + 1, now + delay)
    /\ UNCHANGED <<now, reserved, failed, receipts, once>>

\* reserveScript: the entries of both sets that are due; the loop drops the
\* ones whose hash is gone until it finds a job to lease.
Due(set) == {e \in set : e.score <= now}

Reserve(e, lease) ==
    LET due  == Due(pending) \cup Due(reserved)
        gone == {d \in due : Precedes(d, e)} IN
    /\ e \in due
    /\ Exists(e.id)
    /\ \A d \in gone : ~Exists(d.id)
    /\ hash' = [hash EXCEPT ![e.id].attempts = @ + 1, ![e.id].receipt = receipts + 1]
    /\ receipts' = receipts + 1
    /\ pending' = pending \ (gone \cup {e})
    /\ reserved' = ZAdd(reserved \ (gone \cup {e}), e.id, e.seq, now + lease)
    /\ UNCHANGED <<now, failed, unique, seq, once>>

\* A Reserve that finds only entries whose hash is gone drops them.
ReserveNothing ==
    LET due == Due(pending) \cup Due(reserved) IN
    /\ \A d \in due : ~Exists(d.id)
    /\ pending' = pending \ due
    /\ reserved' = reserved \ due
    /\ UNCHANGED <<now, hash, failed, unique, seq, receipts, once>>

-----------------------------------------------------------------------------

\* Variant: any receipt will do.
LeasedByAnyone(i, receipt) == Exists(i) /\ hash[i].receipt # 0

\* The receipt check every settling script starts with.
Leased(i, receipt) == Exists(i) /\ hash[i].receipt = receipt

\* releaseUniqueLua.
ReleaseUnique(i) ==
    [k \in Keys |-> IF hash[i].unique = k /\ Taken(k) /\ unique[k].holder = i
                    THEN NoClaim ELSE unique[k]]

\* ackScript.
Ack(i, receipt) ==
    /\ Leased(i, receipt)
    /\ unique' = ReleaseUnique(i)
    /\ reserved' = ZRem(reserved, i, hash[i].member)
    /\ pending' = ZRem(pending, i, hash[i].member)
    /\ hash' = [hash EXCEPT ![i] = NoHash]
    /\ UNCHANGED <<now, failed, seq, receipts, once>>

\* Variant: the old member stays in the reserved set.
ReleaseKeepsEntry(i, receipt, delay, uncount) ==
    /\ Leased(i, receipt)
    /\ seq' = seq + 1
    /\ hash' = [hash EXCEPT ![i].receipt = 0, ![i].member = seq + 1]
    /\ pending' = ZAdd(pending, i, seq + 1, now + delay)
    /\ UNCHANGED <<now, reserved, failed, unique, once, receipts>>

\* releaseScript: Release, or Postpone when uncount.
Release(i, receipt, delay, uncount) ==
    /\ Leased(i, receipt)
    /\ reserved' = ZRem(reserved, i, hash[i].member)
    /\ seq' = seq + 1
    /\ hash' = [hash EXCEPT ![i].attempts = IF uncount /\ @ > 0 THEN @ - 1 ELSE @,
                            ![i].receipt = 0, ![i].member = seq + 1]
    /\ pending' = ZAdd(pending, i, seq + 1, now + delay)
    /\ UNCHANGED <<now, failed, unique, receipts, once>>

\* Variant: the deadline moves the wrong way.
ExtendBackwards(i, receipt, lease) ==
    /\ Leased(i, receipt)
    /\ reserved' = ZAdd(reserved, i, hash[i].member, now - lease)
    /\ UNCHANGED <<now, hash, pending, failed, unique, seq, receipts, once>>

\* extendScript.
Extend(i, receipt, lease) ==
    /\ Leased(i, receipt)
    /\ reserved' = ZAdd(reserved, i, hash[i].member, now + lease)
    /\ UNCHANGED <<now, hash, pending, failed, unique, seq, receipts, once>>

\* Variant: the member stays in the reserved set.
BuryKeepsEntry(i, receipt, failedAt) ==
    /\ Leased(i, receipt)
    /\ unique' = ReleaseUnique(i)
    /\ hash' = [hash EXCEPT ![i].receipt = 0, ![i].failure = TRUE]
    /\ failed' = failed \cup {[id |-> i, score |-> failedAt]}
    /\ UNCHANGED <<now, pending, reserved, seq, receipts, once>>

\* buryScript, with the failure's time: the caller's, or that of the call.
Bury(i, receipt, failedAt) ==
    /\ Leased(i, receipt)
    /\ unique' = ReleaseUnique(i)
    /\ reserved' = ZRem(reserved, i, hash[i].member)
    /\ hash' = [hash EXCEPT ![i].receipt = 0, ![i].failure = TRUE]
    /\ failed' = {f \in failed : f.id # i} \cup {[id |-> i, score |-> failedAt]}
    /\ UNCHANGED <<now, pending, seq, receipts, once>>

-----------------------------------------------------------------------------

IsFailed(i) == \E f \in failed : f.id = i

Unfail(I) == {f \in failed : f.id \notin I}

\* retryFailedScript: the job reclaims its key unless another job holds it.
RetryFailed(i) ==
    /\ IsFailed(i)
    /\ Exists(i)
    /\ \A k \in Keys : hash[i].unique = k => (Taken(k) => unique[k].holder = i)
    /\ unique' = [k \in Keys |-> IF hash[i].unique = k
                                 THEN [holder |-> i, expires |-> now + hash[i].uniqueTTL]
                                 ELSE unique[k]]
    /\ failed' = Unfail({i})
    /\ seq' = seq + 1
    /\ hash' = [hash EXCEPT ![i].attempts = 0, ![i].receipt = 0, ![i].member = seq + 1,
                            ![i].failure = FALSE]
    /\ pending' = ZAdd(pending, i, seq + 1, now)
    /\ UNCHANGED <<now, reserved, receipts, once>>

\* A failed ID whose hash is gone is dropped by a retry, and by a Failed read
\* that passes it.
DropGone(i) ==
    /\ IsFailed(i)
    /\ ~Exists(i)
    /\ failed' = Unfail({i})
    /\ UNCHANGED <<now, hash, pending, reserved, unique, seq, receipts, once>>

\* Variant: the failed set keeps the ID.
ForgetKeepsEntry(i) ==
    /\ IsFailed(i)
    /\ hash' = [hash EXCEPT ![i] = NoHash]
    /\ UNCHANGED <<now, pending, reserved, failed, unique, seq, receipts, once>>

\* forgetFailedScript.
ForgetFailed(i) ==
    /\ IsFailed(i)
    /\ failed' = Unfail({i})
    /\ hash' = [hash EXCEPT ![i] = NoHash]
    /\ UNCHANGED <<now, pending, reserved, unique, seq, receipts, once>>

\* purgeFailedScript, one batch: the oldest failed jobs before a time, at
\* most PurgeBatch of them.
PurgeFailed(before, I) ==
    LET old == {f.id : f \in {g \in failed : g.score < before}} IN
    /\ I \subseteq old /\ I # {}
    /\ Cardinality(I) = PurgeBatch \/ I = old
    /\ Cardinality(I) <= PurgeBatch
    /\ \A f, g \in failed : f.id \in I /\ g.score < f.score => g.id \in I
    /\ failed' = Unfail(I)
    /\ hash' = [i \in JobIDs |-> IF i \in I THEN NoHash ELSE hash[i]]
    /\ UNCHANGED <<now, pending, reserved, unique, seq, receipts, once>>

\* A job hash is evicted, or deleted by hand; its members stay behind.
Evict(i) ==
    /\ Exists(i)
    /\ hash' = [hash EXCEPT ![i] = NoHash]
    /\ UNCHANGED <<now, pending, reserved, failed, unique, seq, receipts, once>>

Tick ==
    /\ now' = now + 1
    /\ UNCHANGED <<hash, pending, reserved, failed, unique, seq, receipts, once>>

-----------------------------------------------------------------------------

\* onceBeginScript, when the key is free.
BeginOnce(k, token, lock) ==
    /\ ~Live(once[k])
    /\ once' = [once EXCEPT ![k] = [holder |-> token, expires |-> now + lock]]
    /\ UNCHANGED <<now, hash, pending, reserved, failed, unique, seq, receipts>>

\* Variant: any token will do.
HoldsOnceAnyToken(k, token) == Live(once[k])

HoldsOnce(k, token) == Live(once[k]) /\ once[k].holder = token

\* onceFinishScript.
FinishOnce(k, token, keep) ==
    /\ HoldsOnce(k, token)
    /\ once' = [once EXCEPT ![k] = [holder |-> OnceDoneMarker, expires |-> now + keep]]
    /\ UNCHANGED <<now, hash, pending, reserved, failed, unique, seq, receipts>>

\* onceAbandonScript.
AbandonOnce(k, token) ==
    /\ HoldsOnce(k, token)
    /\ once' = [once EXCEPT ![k] = NoClaim]
    /\ UNCHANGED <<now, hash, pending, reserved, failed, unique, seq, receipts>>

-----------------------------------------------------------------------------

Dispatch(i) ==
    \E delay \in Delays :
      \/ Push(i, delay)
      \/ \E k \in Keys, ttl \in TTLs, untilDone \in BOOLEAN :
           PushUnique(i, k, delay, ttl, untilDone)

\* A settling call, with any receipt issued so far: the caller may be late.
Settle(i, receipt) ==
    \/ Ack(i, receipt)
    \/ \E delay \in Delays, uncount \in BOOLEAN : Release(i, receipt, delay, uncount)
    \/ \E lease \in Leases : Extend(i, receipt, lease)
    \/ \E failedAt \in 0..now : Bury(i, receipt, failedAt)

UseOnce(k, token) ==
    \/ \E lock \in Locks : BeginOnce(k, token, lock)
    \/ \E keep \in Keeps : FinishOnce(k, token, keep)
    \/ AbandonOnce(k, token)

Serve ==
    \/ \E i \in JobIDs : Dispatch(i) \/ RetryFailed(i) \/ ForgetFailed(i)
    \/ \E e \in pending \cup reserved, lease \in Leases : Reserve(e, lease)
    \/ ReserveNothing
    \/ \E before \in 0..(now + 1), I \in SUBSET JobIDs : PurgeFailed(before, I)

Next ==
    \/ Serve
    \/ \E i \in JobIDs, receipt \in 1..receipts : Settle(i, receipt)
    \/ \E k \in OnceKeys, token \in Tokens : UseOnce(k, token)
    \/ Tick

Spec == Init /\ [][Next]_vars

\* The members left behind when a hash is evicted carry a random ID, which
\* no later push uses.
Indexed(i) == IsFailed(i) \/ \E e \in pending \cup reserved : e.id = i

EvictingNext ==
    \/ Next /\ \A i \in JobIDs : Indexed(i) /\ ~Exists(i) => hash'[i] = NoHash
    \/ \E i \in JobIDs : Evict(i) \/ DropGone(i)

EvictingSpec == Init /\ [][EvictingNext]_vars

-----------------------------------------------------------------------------

\* Every variable has its type.
TypeOK ==
    /\ now \in Nat /\ seq \in Nat /\ receipts \in Nat
    /\ hash \in [JobIDs -> Hash \cup {NoHash}]
    /\ pending \subseteq Entry /\ reserved \subseteq Entry
    /\ failed \subseteq [id : JobIDs, score : Nat]
    /\ unique \in [Keys -> [holder : JobIDs, expires : Nat] \cup {NoClaim}]
    /\ once \in [OnceKeys -> [holder : Tokens \cup {OnceDoneMarker}, expires : Nat] \cup {NoClaim}]

EntriesOf(i, set) == {e \in set : e.id = i}

\* A job that exists is in exactly one of the three sets, under the member its
\* hash records: reserved while a receipt is out, failed once buried, pending
\* otherwise.  No sequence of scripts, whichever hashes were evicted in
\* between, leaves a job in two sets (delivered twice) or in none (stranded).
OneSetPerJob ==
    \A i \in JobIDs : Exists(i) =>
        LET where == {<<e.seq, "pending">> : e \in EntriesOf(i, pending)}
                     \cup {<<e.seq, "reserved">> : e \in EntriesOf(i, reserved)}
                     \cup {<<hash[i].member, "failed">> : f \in EntriesOf(i, failed)} IN
        /\ where = {<<hash[i].member,
                      IF hash[i].failure THEN "failed"
                      ELSE IF hash[i].receipt # 0 THEN "reserved" ELSE "pending">>}
        /\ Cardinality(EntriesOf(i, failed)) <= 1

\* Unless hashes are evicted, no set keeps an entry of a job that is gone: Ack,
\* ForgetFailed and PurgeFailed delete the job's entries with its hash.
NoDanglingEntry == \A i \in JobIDs : Indexed(i) => Exists(i)

=============================================================================
