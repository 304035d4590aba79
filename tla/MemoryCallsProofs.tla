------------------------- MODULE MemoryCallsProofs -------------------------
(***************************************************************************)
(* The in-memory driver implements the OnceStore contract, for every set   *)
(* of queues, jobs, keys, tokens and durations.                            *)
(***************************************************************************)
EXTENDS MemoryCalls, MemoryQueueProofs

\* The history of callers restricts no step of the driver.
LEMMA CallsRefine == CallsSpec => Spec
<1>1. [CallsNext]_<<vars, caller>> => [Next]_vars BY DEF CallsNext, Next
<1> QED BY <1>1, PTL DEF CallsSpec, CallsInit, Spec

\* A key's record as the OnceStore contract sees it.
Record == [k \in OnceKeys |-> IF Live(once[k]) THEN once[k].holder ELSE NoClaim]

\* Sweeping changes no record the contract sees (sweepClaims).
LEMMA SweepKeepsRecord ==
    ASSUME TypeOK, once' = Swept(once), now' = now
    PROVE  Record' = Record
BY DEF Swept, Record, Live, TypeOK

\* Every step of the driver is a step of the OnceStore contract, or changes
\* no record of it.
LEMMA OnceStep ==
    TypeOK /\ [CallsNext]_<<vars, caller>> => [OnceContract!CallsNext]_<<Record, caller, now>>
<1> SUFFICES ASSUME TypeOK, [CallsNext]_<<vars, caller>>
             PROVE  OnceContract!CallsNext \/ Record' = Record
    BY DEF Record, OnceContract!CallsNext
<1> USE QueueAssumption, NothingAssumption
<1>1. ASSUME NEW j \in JobKey, Dispatch(j)
      PROVE  Record' = Record
  <2>1. (once' = once \/ once' = Swept(once)) /\ now' = now
    BY <1>1 DEF Dispatch, Push, PushRefused, PushUnique, claimVars
  <2> QED BY <2>1, SweepKeepsRecord DEF Record, Live
<1>2. ASSUME \/ \E order \in Orders, lease \in Leases, j \in JobKey : Reserve(order, lease, j)
             \/ \E j \in JobKey, receipt \in 1..receipts : Settle(j, receipt)
             \/ Administer
             \/ UNCHANGED vars
      PROVE  Record' = Record
  <2>1. CASE \E order \in Orders, lease \in Leases, j \in JobKey : Reserve(order, lease, j)
    BY <2>1 DEF Reserve, claimVars, Record, Live
  <2>2. CASE \E j \in JobKey, receipt \in 1..receipts : Settle(j, receipt)
    <3>1. PICK j \in JobKey, receipt \in 1..receipts : Settle(j, receipt) BY SMTT(30), <2>2
    <3>2. once' = once /\ now' = now
      BY Zenon, <3>1 DEF Settle, Ack, Release, Extend, Bury, claimVars
    <3> QED BY <3>2 DEF Record, Live
  <2>3. CASE Administer
    <3>1. ASSUME NEW j \in JobKey, RetryFailed(j)
          PROVE  once' = once /\ now' = now
      BY <3>1 DEF RetryFailed
    <3>2. once' = once /\ now' = now
      BY <2>3, <3>1 DEF Administer, ForgetFailed, PurgeFailed, Close, claimVars
    <3> QED BY <3>2 DEF Record, Live
  <2>4. CASE UNCHANGED vars BY <2>4 DEF vars, Record, Live
  <2> QED BY <1>2, <2>1, <2>2, <2>3, <2>4
<1>3. ASSUME NEW k \in OnceKeys, NEW token \in Tokens, NEW lock \in Locks,
             BeginOnce(k, token, lock), caller' = token
      PROVE  OnceContract!CallsNext \/ Record' = Record
  <2>1. CASE Live(once[k])
    BY <1>3, <2>1, SweepKeepsRecord DEF BeginOnce
  <2>2. CASE ~Live(once[k])
    <3>1. [holder |-> token, expires |-> now + lock] \in Claim(Tokens \cup {OnceDoneMarker})
      BY Zenon, ClaimType
    <3>2. Record' = [Record EXCEPT ![k] = token]
      <4>1. once' = [Swept(once) EXCEPT ![k] = [holder |-> token, expires |-> now + lock]]
            /\ now' = now
        BY <1>3, <2>2 DEF BeginOnce
      <4>2. now < now + lock BY DEF TypeOK
      <4> QED BY Zenon, <3>1, <4>1, <4>2 DEF Swept, Record, Live, TypeOK
    <3>3. Record[k] = NoClaim BY <2>2 DEF Record
    <3>4. now' = now BY <1>3 DEF BeginOnce
    <3> QED BY Zenon, <1>3, <3>2, <3>3, <3>4
       DEF OnceContract!CallsNext, OnceContract!Use, OnceContract!BeginOnce, Record
  <2> QED BY <2>1, <2>2
<1>4. ASSUME NEW k \in OnceKeys, NEW token \in Tokens, NEW keep \in Keeps,
             FinishOnce(k, token, keep), caller' = token
      PROVE  OnceContract!CallsNext
  <2>1. [holder |-> OnceDoneMarker, expires |-> now + keep] \in Claim(Tokens \cup {OnceDoneMarker})
    BY ClaimType
  <2>2. once' = [once EXCEPT ![k] = [holder |-> OnceDoneMarker, expires |-> now + keep]]
        /\ now' = now /\ now < now + keep
    BY <1>4 DEF FinishOnce, TypeOK
  <2>3. Record' = [Record EXCEPT ![k] = OnceDoneMarker]
    BY Zenon, <2>1, <2>2 DEF Record, Live, TypeOK
  <2>4. Record[k] = token BY <1>4 DEF FinishOnce, HoldsOnce, Record
  <2> QED BY Zenon, <1>4, <2>2, <2>3, <2>4
     DEF OnceContract!CallsNext, OnceContract!Use, OnceContract!FinishOnce, Record
<1>5. ASSUME NEW k \in OnceKeys, NEW token \in Tokens, AbandonOnce(k, token), caller' = token
      PROVE  OnceContract!CallsNext \/ Record' = Record
  <2>1. Record' = [Record EXCEPT ![k] = NoClaim]
    BY Zenon, <1>5 DEF AbandonOnce, Record, Live, TypeOK
  <2>2. CASE Live(once[k])
    <3>1. Record[k] = token BY <1>5, <2>2 DEF AbandonOnce, Record
    <3>2. now' = now BY <1>5 DEF AbandonOnce
    <3> QED BY Zenon, <1>5, <2>1, <3>1, <3>2
       DEF OnceContract!CallsNext, OnceContract!Use, OnceContract!AbandonOnce, Record
  <2>3. CASE ~Live(once[k])
    <3>1. Record[k] = NoClaim BY <2>3 DEF Record
    <3> QED BY Zenon, <2>1, <3>1 DEF Record
  <2> QED BY <2>2, <2>3
<1>6. CASE Tick
  <2> DEFINE K == {k \in OnceKeys : ~Live(once[k])'}
  <2>1. now' = now + 1 /\ once' = once BY <1>6 DEF Tick, claimVars
  <2>2. Record' = [k \in OnceKeys |-> IF k \in K THEN NoClaim ELSE Record[k]]
    BY <2>1 DEF Record, Live, TypeOK, Claim
  <2>3. now' # now BY <2>1 DEF TypeOK
  <2> QED BY Zenon, <2>2, <2>3 DEF OnceContract!CallsNext, OnceContract!Expire, Record
<1>7. ASSUME NEW k \in OnceKeys, NEW token \in Tokens, UseOnce(k, token), caller' = token
      PROVE  OnceContract!CallsNext \/ Record' = Record
  BY <1>3, <1>4, <1>5, <1>7 DEF UseOnce
<1> QED BY <1>1, <1>2, <1>6, <1>7 DEF CallsNext, Serve

\* The driver's Once methods implement the OnceStore contract: a lock or a
\* record is touched by its own token only and stands until it expires
\* (BeginOnce, FinishOnce, AbandonOnce, sweepClaims).
THEOREM OnceStoreCorrect == CallsSpec => ImplementsOnceStore
<1>1. CallsInit => OnceContract!StoreInit
  BY DEF CallsInit, Init, OnceContract!StoreInit, Live
<1>2. CallsSpec => []TypeOK BY CallsRefine, TypeCorrect, PTL
<1> QED BY <1>1, <1>2, OnceStep, PTL
        DEF CallsSpec, ImplementsOnceStore, OnceContract!CallsSpec, Record

\* A job on the queue changes by its holder's word only (leased, Ack, release,
\* Extend, Bury, Reserve, PurgeFailed).
THEOREM HolderCorrect == CallsSpec => OnlyHolderSettles
<1> DEFINE Allowed(j) == \/ jobs[j].state = "failed"
                         \/ jobs[j].state = "reserved" /\ caller' = jobs[j].receipt
                         \/ Available(j) /\ jobs'[j] # NoJob /\ jobs'[j].receipt = receipts + 1
           Kept == \A j \in JobKey : On(j) /\ jobs'[j] # jobs[j] /\ ~closed' => Allowed(j)
<1>1. TypeOK /\ [CallsNext]_<<vars, caller>> => [Kept]_<<vars, caller>>
  <2> SUFFICES ASSUME TypeOK, CallsNext, NEW j \in JobKey, On(j), jobs'[j] # jobs[j], ~closed'
               PROVE  Allowed(j)
    OBVIOUS
  <2>1. ASSUME NEW k \in JobKey, Dispatch(k)
        PROVE  FALSE
    BY Zenon, <2>1, DispatchWrites
  <2>2. ASSUME NEW order \in Orders, NEW lease \in Leases, NEW k \in JobKey,
               Reserve(order, lease, k)
        PROVE  Allowed(j)
    <3>1. k = j BY Zenon, <2>2 DEF Reserve, TypeOK
    <3>2. Available(j) BY Zenon, <2>2, <3>1 DEF Reserve, AvailableOn
    <3>3. jobs[j] \in MemoryJob BY Zenon DEF On, TypeOK
    <3>4. now + lease \in Nat /\ receipts + 1 \in Nat /\ jobs[j].attempts + 1 \in Nat
      BY <3>3, QueueAssumption DEF TypeOK, MemoryJob
    <3> DEFINE r == [jobs[j] EXCEPT !.state = "reserved", !.at = now + lease,
                                    !.attempts = jobs[j].attempts + 1, !.receipt = receipts + 1]
    <3>5. r \in MemoryJob /\ r.receipt = receipts + 1
      BY Zenon, <3>3, <3>4 DEF MemoryJob
    <3>6. jobs'[j] = r BY <2>2, <3>1 DEF Reserve, TypeOK
    <3> HIDE DEF r
    <3>7. jobs'[j] # NoJob /\ jobs'[j].receipt = receipts + 1
      BY Zenon, <3>5, <3>6, NothingAssumption
    <3> QED BY Zenon, <3>2, <3>7
  <2>3. ASSUME NEW k \in JobKey, NEW receipt \in 1..receipts, Settle(k, receipt),
               caller' = receipt
        PROVE  Allowed(j)
    <3>1. k = j BY ZenonT(30), <2>3 DEF Settle, Ack, Release, Extend, Bury, TypeOK
    <3>2. Leased(k, receipt) BY ZenonT(30), <2>3 DEF Settle, Ack, Release, Extend, Bury
    <3> QED BY Zenon, <2>3, <3>1, <3>2 DEF Leased
  <2>4. ASSUME Administer
        PROVE  Allowed(j)
    BY ZenonT(30), <2>4
       DEF Administer, RetryFailed, ForgetFailed, PurgeFailed, Close, Failed, TypeOK
  <2>5. ASSUME (\E k \in OnceKeys, token \in Tokens : UseOnce(k, token)) \/ Tick
        PROVE  FALSE
    BY <2>5 DEF UseOnce, BeginOnce, FinishOnce, AbandonOnce, Tick
  <2> HIDE DEF Allowed
  <2> QED BY ZenonT(30), <2>1, <2>2, <2>3, <2>4, <2>5 DEF CallsNext, Serve
<1>2. CallsSpec => []TypeOK BY CallsRefine, TypeCorrect, PTL
<1> QED BY <1>1, <1>2, PTL DEF CallsSpec, OnlyHolderSettles

============================================================================
