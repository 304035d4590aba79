----------------------------- MODULE OnceStore -----------------------------
(***************************************************************************)
(* What a store of Once records promises: the OnceStore interface of       *)
(* jobs/unique.go.  A key is free, locked by the token of a run, or done;  *)
(* locks and records run out with time.                                    *)
(***************************************************************************)
CONSTANTS OnceKeys, Tokens, Free, Done

ASSUME StoreAssumption == Free \notin Tokens /\ Done \notin Tokens /\ Free # Done

VARIABLE record

StoreInit == record = [k \in OnceKeys |-> Free]

\* Variant: a lock that is held does not keep others out.
BeginOnceIgnoresLock(k, token) ==
    /\ record[k] # Done
    /\ record' = [record EXCEPT ![k] = token]

\* BeginOnce reports Done or Busy for a key that is not free, and changes
\* nothing; it takes the lock of a free one.
BeginOnce(k, token) ==
    /\ record[k] = Free
    /\ record' = [record EXCEPT ![k] = token]

FinishOnce(k, token) ==
    /\ record[k] = token
    /\ record' = [record EXCEPT ![k] = Done]

\* Variant: any token will do.
AbandonOnceOfAnyone(k, token) ==
    /\ record[k] # Done
    /\ record' = [record EXCEPT ![k] = Free]

AbandonOnce(k, token) ==
    /\ record[k] = token
    /\ record' = [record EXCEPT ![k] = Free]

\* Locks and records of the keys in K run out.
Expire(K) == record' = [k \in OnceKeys |-> IF k \in K THEN Free ELSE record[k]]

\* A call with the token of a run.
Use(k, token) == BeginOnce(k, token) \/ FinishOnce(k, token) \/ AbandonOnce(k, token)

============================================================================
