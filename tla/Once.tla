-------------------------------- MODULE Once --------------------------------
(***************************************************************************)
(* jobs.Once (jobs/unique.go): runs of a job that guard a side effect with *)
(* a key, over the store of OnceStore.  A run takes the key's lock, runs   *)
(* the effect, and records it or gives the lock back; it can crash, its    *)
(* calls can fail or lose their reply, and its lock can run out under it.  *)
(*                                                                         *)
(* A run is one call of Once; its token is the run itself (a UUID in the   *)
(* code).                                                                  *)
(***************************************************************************)
EXTENDS OnceStore

CONSTANTS KeyOf  \* the key each run guards its effect with

ASSUME RunsAssumption == KeyOf \in [Tokens -> OnceKeys]

Runs == Tokens

VARIABLES
    pc,
    effected,  \* history: runs whose effect completed
    recorder,  \* history: the run whose effect a key's record is of
    lapsed     \* history: runs whose lock, or whose record, ran out

onceVars == <<record, pc, effected, recorder, lapsed>>

\* "effect": fn runs.  "finishing" and "abandoning": fn succeeded or failed
\* and the store call is on its way.  "ok", "inProgress", "error": what Once
\* returned.  "dead": the process died.
PC == {"start", "effect", "finishing", "abandoning", "ok", "inProgress", "error", "dead"}

OnceInit ==
    /\ StoreInit
    /\ pc = [r \in Runs |-> "start"]
    /\ effected = {}
    /\ recorder = [k \in OnceKeys |-> Free]
    /\ lapsed = {}

Goto(r, l) == pc' = [pc EXCEPT ![r] = l]

\* BeginOnce: the key is free and the run has the lock.
Begin(r) ==
    /\ pc[r] = "start"
    /\ BeginOnce(KeyOf[r], r)
    /\ Goto(r, "effect")
    /\ UNCHANGED <<effected, recorder, lapsed>>

\* The effect is done already, or another run has the lock.
SkipDone(r) ==
    /\ pc[r] = "start"
    /\ record[KeyOf[r]] = Done
    /\ Goto(r, "ok")
    /\ UNCHANGED <<record, effected, recorder, lapsed>>

\* Variant: a busy key is taken for a done one.
SkipBusyAsDone(r) ==
    /\ pc[r] = "start"
    /\ record[KeyOf[r]] \notin {Free, Done}
    /\ Goto(r, "ok")
    /\ UNCHANGED <<record, effected, recorder, lapsed>>

SkipBusy(r) ==
    /\ pc[r] = "start"
    /\ record[KeyOf[r]] \notin {Free, Done}
    /\ Goto(r, "inProgress")
    /\ UNCHANGED <<record, effected, recorder, lapsed>>

\* BeginOnce fails, and Once returns its error without giving back the lock
\* the store may have taken for it.
BeginFails(r) ==
    /\ pc[r] = "start"
    /\ BeginOnce(KeyOf[r], r) \/ UNCHANGED record
    /\ Goto(r, "error")
    /\ UNCHANGED <<effected, recorder, lapsed>>

EffectSucceeds(r) ==
    /\ pc[r] = "effect"
    /\ Goto(r, "finishing")
    /\ effected' = effected \cup {r}
    /\ UNCHANGED <<record, recorder, lapsed>>

\* fn returns an error or panics.
EffectFails(r) ==
    /\ pc[r] = "effect"
    /\ Goto(r, "abandoning")
    /\ UNCHANGED <<record, effected, recorder, lapsed>>

\* FinishOnce takes effect.
Finish(r) ==
    /\ pc[r] = "finishing"
    /\ FinishOnce(KeyOf[r], r)
    /\ recorder' = [recorder EXCEPT ![KeyOf[r]] = r]
    /\ Goto(r, "ok")
    /\ UNCHANGED <<effected, lapsed>>

\* FinishOnce is refused (the lock ran out) or fails: Once returns nil all
\* the same, since failing would repeat the effect.
FinishFails(r) ==
    /\ pc[r] = "finishing"
    /\ Goto(r, "ok")
    /\ UNCHANGED <<record, effected, recorder, lapsed>>

Abandon(r) ==
    /\ pc[r] = "abandoning"
    /\ AbandonOnce(KeyOf[r], r)
    /\ Goto(r, "error")
    /\ UNCHANGED <<effected, recorder, lapsed>>

\* AbandonOnce finds the lock gone, or fails and leaves it until it expires.
AbandonFails(r) ==
    /\ pc[r] = "abandoning"
    /\ Goto(r, "error")
    /\ UNCHANGED <<record, effected, recorder, lapsed>>

\* The process of a run dies between two of its steps.
Die(r) ==
    /\ pc[r] \in {"effect", "finishing", "abandoning"}
    /\ Goto(r, "dead")
    /\ UNCHANGED <<record, effected, recorder, lapsed>>

\* The run a key's lock or record belongs to.
Owner(k) == IF record[k] = Done THEN recorder[k] ELSE record[k]

RunOut(k) ==
    /\ record[k] # Free
    /\ Expire({k})
    /\ lapsed' = lapsed \cup {Owner(k)}
    /\ UNCHANGED <<pc, effected, recorder>>

OnceNext ==
    \/ \E r \in Runs :
         \/ Begin(r) \/ SkipDone(r) \/ SkipBusy(r) \/ BeginFails(r)
         \/ EffectSucceeds(r) \/ EffectFails(r)
         \/ Finish(r) \/ FinishFails(r) \/ Abandon(r) \/ AbandonFails(r)
         \/ Die(r)
    \/ \E k \in OnceKeys : RunOut(k)

OnceSpec == OnceInit /\ [][OnceNext]_onceVars

-----------------------------------------------------------------------------
(* Properties *)

\* Every variable has its type.
TypeOK ==
    /\ record \in [OnceKeys -> Tokens \cup {Free, Done}]
    /\ pc \in [Runs -> PC]
    /\ effected \subseteq Runs
    /\ recorder \in [OnceKeys -> Tokens \cup {Free}]
    /\ lapsed \subseteq Runs

\* An effect is repeated only through the windows the comment of Once names:
\* of two runs that both completed the effect of a key, the lock or the
\* record of one ran out.  Crashes, lost replies, failing store calls and late
\* AbandonOnce calls repeat nothing by themselves.
RepeatOnlyAfterLapse ==
    \A r, q \in effected :
        KeyOf[r] = KeyOf[q] /\ r # q => r \in lapsed \/ q \in lapsed

\* Two runs are inside the effect together only if a lock ran out under one.
EffectExclusive ==
    \A r, q \in Runs :
        pc[r] = "effect" /\ pc[q] = "effect" /\ KeyOf[r] = KeyOf[q] /\ r # q
            => r \in lapsed \/ q \in lapsed

\* Once returns nil only when the effect of its key completed, in this run
\* or an earlier one, so a job that is acked did not skip its effect.
NilMeansEffected ==
    \A r \in Runs : pc[r] = "ok" => \E q \in effected : KeyOf[q] = KeyOf[r]

=============================================================================
