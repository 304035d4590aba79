----------------------------- MODULE OnceProofs -----------------------------
(***************************************************************************)
(* Proofs about jobs.Once, for every set of keys and runs.                 *)
(***************************************************************************)
EXTENDS Once, TLAPS

\* A lock is of the key its run guards, and a record of an effect that
\* completed under that key.
OwnersFit ==
    \A k \in OnceKeys :
        /\ record[k] \in Tokens => KeyOf[record[k]] = k
        /\ record[k] = Done => recorder[k] \in effected /\ KeyOf[recorder[k]] = k

\* Until its lock runs out a run between BeginOnce and the end holds it.
RunningHoldsLock ==
    \A r \in Runs :
        pc[r] \in {"effect", "finishing", "abandoning"} /\ r \notin lapsed => record[KeyOf[r]] = r

\* Until its lock or its record runs out, the key of a run that completed the
\* effect is locked by it or records it.
EffectedOwnsKey ==
    \A r \in effected : r \notin lapsed => Owner(KeyOf[r]) = r

\* A run completed the effect only past it, never on the way to abandoning,
\* and records nothing else.
EffectedLater ==
    /\ \A r \in effected : pc[r] \in {"finishing", "ok", "dead"}
    /\ \A r \in Runs : pc[r] = "finishing" => r \in effected

OnceInv ==
    /\ TypeOK
    /\ OwnersFit
    /\ RunningHoldsLock
    /\ EffectedOwnsKey
    /\ EffectedLater
    /\ NilMeansEffected

\* Every step of a run, and of time, keeps the invariant.
LEMMA OnceInvStep == OnceInv /\ [OnceNext]_onceVars => OnceInv'
<1> SUFFICES ASSUME OnceInv, [OnceNext]_onceVars PROVE OnceInv'
    OBVIOUS
<1> USE StoreAssumption, RunsAssumption DEF Runs
<1>0. /\ TypeOK /\ OwnersFit /\ RunningHoldsLock /\ EffectedOwnsKey /\ EffectedLater
      /\ NilMeansEffected
  BY DEF OnceInv
<1>1. ASSUME NEW r \in Runs, Begin(r)
      PROVE  OnceInv'
  <2>1. /\ record[KeyOf[r]] = Free /\ record' = [record EXCEPT ![KeyOf[r]] = r]
        /\ pc[r] = "start" /\ pc' = [pc EXCEPT ![r] = "effect"]
        /\ UNCHANGED <<effected, recorder, lapsed>>
    BY <1>1 DEF Begin, BeginOnce, Goto
  <2>2. TypeOK' BY <1>0, <2>1 DEF TypeOK, PC
  <2>3. OwnersFit' BY <1>0, <2>1 DEF OwnersFit, TypeOK
  <2>4. RunningHoldsLock' BY <1>0, <2>1 DEF RunningHoldsLock, TypeOK
  <2>5. EffectedOwnsKey' BY <1>0, <2>1 DEF EffectedOwnsKey, EffectedLater, Owner, TypeOK
  <2>6. EffectedLater' BY <1>0, <2>1 DEF EffectedLater, TypeOK
  <2>7. NilMeansEffected' BY <1>0, <2>1 DEF NilMeansEffected, TypeOK
  <2> QED BY <2>2, <2>3, <2>4, <2>5, <2>6, <2>7 DEF OnceInv
<1>2. ASSUME NEW r \in Runs, SkipDone(r) \/ SkipBusy(r)
      PROVE  OnceInv'
  <2>1. /\ UNCHANGED <<record, effected, recorder, lapsed>>
        /\ pc[r] = "start"
        /\ \E l \in {"ok", "inProgress"} :
             pc' = [pc EXCEPT ![r] = l] /\ (l = "ok" => record[KeyOf[r]] = Done)
    BY <1>2 DEF SkipDone, SkipBusy, Goto
  <2>2. TypeOK' BY <1>0, <2>1 DEF TypeOK, PC
  <2>3. OwnersFit' BY <1>0, <2>1 DEF OwnersFit, TypeOK
  <2>4. RunningHoldsLock' BY <1>0, <2>1 DEF RunningHoldsLock, TypeOK
  <2>5. EffectedOwnsKey' BY <1>0, <2>1 DEF EffectedOwnsKey, Owner, TypeOK
  <2>6. EffectedLater' BY <1>0, <2>1 DEF EffectedLater, TypeOK
  <2>7. NilMeansEffected' BY <1>0, <2>1 DEF NilMeansEffected, OwnersFit, TypeOK
  <2> QED BY <2>2, <2>3, <2>4, <2>5, <2>6, <2>7 DEF OnceInv
<1>3. ASSUME NEW r \in Runs, BeginFails(r)
      PROVE  OnceInv'
  <2>1. /\ \/ record[KeyOf[r]] = Free /\ record' = [record EXCEPT ![KeyOf[r]] = r]
           \/ record' = record
        /\ pc[r] = "start" /\ pc' = [pc EXCEPT ![r] = "error"]
        /\ UNCHANGED <<effected, recorder, lapsed>>
    BY <1>3 DEF BeginFails, BeginOnce, Goto
  <2>2. TypeOK' BY <1>0, <2>1 DEF TypeOK, PC
  <2>3. OwnersFit' BY <1>0, <2>1 DEF OwnersFit, TypeOK
  <2>4. RunningHoldsLock' BY <1>0, <2>1 DEF RunningHoldsLock, TypeOK
  <2>5. EffectedOwnsKey' BY <1>0, <2>1 DEF EffectedOwnsKey, EffectedLater, Owner, TypeOK
  <2>6. EffectedLater' BY <1>0, <2>1 DEF EffectedLater, TypeOK
  <2>7. NilMeansEffected' BY <1>0, <2>1 DEF NilMeansEffected, TypeOK
  <2> QED BY <2>2, <2>3, <2>4, <2>5, <2>6, <2>7 DEF OnceInv
<1>4. ASSUME NEW r \in Runs, EffectSucceeds(r)
      PROVE  OnceInv'
  <2>1. /\ UNCHANGED <<record, recorder, lapsed>> /\ effected' = effected \cup {r}
        /\ pc[r] = "effect" /\ pc' = [pc EXCEPT ![r] = "finishing"]
    BY <1>4 DEF EffectSucceeds, Goto
  <2>2. TypeOK' BY <1>0, <2>1 DEF TypeOK, PC
  <2>3. OwnersFit' BY <1>0, <2>1 DEF OwnersFit, TypeOK
  <2>4. RunningHoldsLock' BY <1>0, <2>1 DEF RunningHoldsLock, TypeOK
  <2>5. EffectedOwnsKey' BY <1>0, <2>1 DEF EffectedOwnsKey, RunningHoldsLock, Owner, TypeOK
  <2>6. EffectedLater' BY <1>0, <2>1 DEF EffectedLater, TypeOK
  <2>7. NilMeansEffected' BY <1>0, <2>1 DEF NilMeansEffected, TypeOK
  <2> QED BY <2>2, <2>3, <2>4, <2>5, <2>6, <2>7 DEF OnceInv
<1>5. ASSUME NEW r \in Runs, EffectFails(r) \/ AbandonFails(r) \/ Die(r)
      PROVE  OnceInv'
  <2>1. /\ UNCHANGED <<record, effected, recorder, lapsed>>
        /\ \/ pc[r] = "effect" /\ pc' = [pc EXCEPT ![r] = "abandoning"]
           \/ pc[r] = "abandoning" /\ pc' = [pc EXCEPT ![r] = "error"]
           \/ pc[r] \in {"effect", "finishing", "abandoning"} /\ pc' = [pc EXCEPT ![r] = "dead"]
    BY <1>5 DEF EffectFails, AbandonFails, Die, Goto
  <2>2. TypeOK' BY <1>0, <2>1 DEF TypeOK, PC
  <2>3. OwnersFit' BY <1>0, <2>1 DEF OwnersFit, TypeOK
  <2>4. RunningHoldsLock' BY <1>0, <2>1 DEF RunningHoldsLock, TypeOK
  <2>5. EffectedOwnsKey' BY <1>0, <2>1 DEF EffectedOwnsKey, Owner, TypeOK
  <2>6. EffectedLater' BY <1>0, <2>1 DEF EffectedLater, TypeOK
  <2>7. NilMeansEffected' BY <1>0, <2>1 DEF NilMeansEffected, TypeOK
  <2> QED BY <2>2, <2>3, <2>4, <2>5, <2>6, <2>7 DEF OnceInv
<1>6. ASSUME NEW r \in Runs, Finish(r)
      PROVE  OnceInv'
  <2>1. /\ record[KeyOf[r]] = r /\ record' = [record EXCEPT ![KeyOf[r]] = Done]
        /\ recorder' = [recorder EXCEPT ![KeyOf[r]] = r]
        /\ pc[r] = "finishing" /\ pc' = [pc EXCEPT ![r] = "ok"]
        /\ UNCHANGED <<effected, lapsed>>
    BY <1>6 DEF Finish, FinishOnce, Goto
  <2>2. TypeOK' BY <1>0, <2>1 DEF TypeOK, PC
  <2>3. OwnersFit' BY <1>0, <2>1 DEF OwnersFit, EffectedLater, TypeOK
  <2>4. RunningHoldsLock' BY <1>0, <2>1 DEF RunningHoldsLock, TypeOK
  <2>5. EffectedOwnsKey' BY <1>0, <2>1 DEF EffectedOwnsKey, Owner, TypeOK
  <2>6. EffectedLater' BY <1>0, <2>1 DEF EffectedLater, TypeOK
  <2>7. NilMeansEffected' BY <1>0, <2>1 DEF NilMeansEffected, EffectedLater, TypeOK
  <2> QED BY <2>2, <2>3, <2>4, <2>5, <2>6, <2>7 DEF OnceInv
<1>7. ASSUME NEW r \in Runs, FinishFails(r)
      PROVE  OnceInv'
  <2>1. /\ UNCHANGED <<record, effected, recorder, lapsed>>
        /\ pc[r] = "finishing" /\ pc' = [pc EXCEPT ![r] = "ok"]
    BY <1>7 DEF FinishFails, Goto
  <2>2. TypeOK' BY <1>0, <2>1 DEF TypeOK, PC
  <2>3. OwnersFit' BY <1>0, <2>1 DEF OwnersFit, TypeOK
  <2>4. RunningHoldsLock' BY <1>0, <2>1 DEF RunningHoldsLock, TypeOK
  <2>5. EffectedOwnsKey' BY <1>0, <2>1 DEF EffectedOwnsKey, Owner, TypeOK
  <2>6. EffectedLater' BY <1>0, <2>1 DEF EffectedLater, TypeOK
  <2>7. NilMeansEffected' BY <1>0, <2>1 DEF NilMeansEffected, EffectedLater, TypeOK
  <2> QED BY <2>2, <2>3, <2>4, <2>5, <2>6, <2>7 DEF OnceInv
<1>8. ASSUME NEW r \in Runs, Abandon(r)
      PROVE  OnceInv'
  <2>1. /\ record[KeyOf[r]] = r /\ record' = [record EXCEPT ![KeyOf[r]] = Free]
        /\ pc[r] = "abandoning" /\ pc' = [pc EXCEPT ![r] = "error"]
        /\ UNCHANGED <<effected, recorder, lapsed>>
    BY <1>8 DEF Abandon, AbandonOnce, Goto
  <2>2. TypeOK' BY <1>0, <2>1 DEF TypeOK, PC
  <2>3. OwnersFit' BY <1>0, <2>1 DEF OwnersFit, TypeOK
  <2>4. RunningHoldsLock' BY <1>0, <2>1 DEF RunningHoldsLock, TypeOK
  <2>5. EffectedOwnsKey' BY <1>0, <2>1 DEF EffectedOwnsKey, EffectedLater, Owner, TypeOK
  <2>6. EffectedLater' BY <1>0, <2>1 DEF EffectedLater, TypeOK
  <2>7. NilMeansEffected' BY <1>0, <2>1 DEF NilMeansEffected, TypeOK
  <2> QED BY <2>2, <2>3, <2>4, <2>5, <2>6, <2>7 DEF OnceInv
<1>9. ASSUME NEW k \in OnceKeys, RunOut(k)
      PROVE  OnceInv'
  <2>0. Owner(k) \in Runs BY <1>0, <1>9 DEF RunOut, Owner, OwnersFit, TypeOK
  <2>a. record' = [record EXCEPT ![k] = Free] BY Zenon, <1>0, <1>9 DEF RunOut, Expire, TypeOK
  <2>1. /\ record' = [record EXCEPT ![k] = Free]
        /\ lapsed' = lapsed \cup {Owner(k)} /\ Owner(k) \in Runs
        /\ UNCHANGED <<pc, effected, recorder>>
    BY <1>9, <2>0, <2>a DEF RunOut
  <2>2. TypeOK' BY <1>0, <2>1 DEF TypeOK
  <2>3. OwnersFit' BY <1>0, <2>1 DEF OwnersFit, TypeOK
  <2>4. RunningHoldsLock' BY <1>0, <2>1 DEF RunningHoldsLock, Owner, TypeOK
  <2>5. EffectedOwnsKey' BY <1>0, <2>1 DEF EffectedOwnsKey, Owner, TypeOK
  <2>6. EffectedLater' BY <1>0, <2>1 DEF EffectedLater
  <2>7. NilMeansEffected' BY <1>0, <2>1 DEF NilMeansEffected
  <2> QED BY <2>2, <2>3, <2>4, <2>5, <2>6, <2>7 DEF OnceInv
<1>10. CASE UNCHANGED onceVars
  BY <1>10 DEF onceVars, OnceInv, TypeOK, OwnersFit, RunningHoldsLock, EffectedOwnsKey,
               EffectedLater, NilMeansEffected, Owner
<1> QED BY <1>1, <1>2, <1>3, <1>4, <1>5, <1>6, <1>7, <1>8, <1>9, <1>10 DEF OnceNext

\* The invariant holds of every behaviour.
THEOREM OnceInvariant == OnceSpec => []OnceInv
<1>1. OnceInit => OnceInv
  BY StoreAssumption, RunsAssumption
     DEF OnceInit, StoreInit, OnceInv, TypeOK, OwnersFit, RunningHoldsLock, EffectedOwnsKey,
         EffectedLater, NilMeansEffected, Runs, PC
<1> QED BY <1>1, OnceInvStep, PTL DEF OnceSpec

\* Once repeats an effect only after a lock or a record ran out, whatever
\* crashes, failing calls and lost replies it met.
THEOREM OnceRepeats == OnceSpec => []RepeatOnlyAfterLapse
<1>1. OnceInv => RepeatOnlyAfterLapse
  BY DEF OnceInv, EffectedOwnsKey, RepeatOnlyAfterLapse
<1> QED BY <1>1, OnceInvariant, PTL

\* Two runs are in the effect of one key together only if a lock ran out.
THEOREM OnceExcludes == OnceSpec => []EffectExclusive
<1>1. OnceInv => EffectExclusive
  BY DEF OnceInv, RunningHoldsLock, EffectExclusive
<1> QED BY <1>1, OnceInvariant, PTL

\* Once returns nil only when the effect of its key completed.
THEOREM OnceNil == OnceSpec => []NilMeansEffected
<1>1. OnceInv => NilMeansEffected BY DEF OnceInv
<1> QED BY <1>1, OnceInvariant, PTL

=============================================================================
