----------------------------- MODULE OnceCalls -----------------------------
(***************************************************************************)
(* The contract of OnceStore as a specification, with who calls and when:  *)
(* a lock is finished or abandoned only by a call that shows its token,    *)
(* and locks and records run out only as the clock moves.                  *)
(***************************************************************************)
EXTENDS OnceStore

VARIABLES
    caller,  \* the token the last call showed
    time

CallsNext ==
    \/ \E k \in OnceKeys, token \in Tokens :
         Use(k, token) /\ caller' = token /\ UNCHANGED time
    \/ \E K \in SUBSET OnceKeys : Expire(K) /\ time' # time
    \/ UNCHANGED record

CallsSpec == StoreInit /\ [][CallsNext]_<<record, caller, time>>

============================================================================
