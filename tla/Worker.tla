------------------------------- MODULE Worker -------------------------------
(***************************************************************************)
(* The worker, jobs/worker.go: processes that reserve jobs from a queue,   *)
(* run their handlers under a renewed lease and settle each delivery, with *)
(* crashes, queue calls that fail, and shutdowns that interrupt jobs.      *)
(*                                                                         *)
(* The queue is the contract of JobQueue.  A queue call the worker makes   *)
(* takes effect or not; when its reply is lost (the Redis client does not  *)
(* retry) the worker goes on as if it had failed.  For a call that settles *)
(* a delivery the two differ only in the queue, because the worker drops   *)
(* the delivery either way.                                                *)
(*                                                                         *)
(* A process is one Worker.Run: a loop that reserves into a free slot, and *)
(* one goroutine per slot that processes a delivery.  Run, reserve,        *)
(* process and shutdown are split where another actor can act in between:  *)
(* after every queue call and while the handler runs.                      *)
(***************************************************************************)
EXTENDS JobQueue, FiniteSets

CONSTANTS
    Procs,        \* worker processes
    Slots,        \* each process's slots: Concurrency of them
    MaxAttempts,  \* the jobs' policy
    Undecodable   \* jobs whose stored envelope does not decode

ASSUME WorkerAssumption ==
    /\ MaxAttempts \in Nat \ {0}
    /\ Undecodable \subseteq Jobs

VARIABLES
    phase,  \* where each process is in its life
    slot    \* the delivery each slot works on

\* History: what happened, for the properties and the bounds.  No action
\* depends on it, except that a job is dispatched once (its ID is a UUID).
VARIABLES
    dispatched,   \* jobs dispatched
    succeeded,    \* jobs some run of which returned no error
    failedRuns,   \* runs of a job whose handler failed, not interrupted
    delivered,    \* deliveries of a job
    takenBack,    \* deliveries of a job that were postponed
    reason,       \* why a job was given up on
    interrupted,  \* jobs canceled by a shutdown whose handler has not run since
    lessee,       \* the process each job was last delivered to, if still that one
    latest,       \* the receipt of each job's last delivery
    unsettled,    \* processes that left a delivery leased when a queue call failed
    faults,       \* crashes, failed calls and outlived leases so far
    stops         \* shutdowns so far

history == <<dispatched, succeeded, failedRuns, delivered, takenBack, reason,
             interrupted, lessee, latest, unsettled, faults, stops>>
vars == <<queueVars, phase, slot, history>>

\* "running": Run reserves and processes.  "stopping": its context is
\* canceled and in-flight jobs have ShutdownTimeout to finish.  "canceled":
\* their context is canceled too, and they have ShutdownGrace.  "stopped":
\* Run returned.  "down": the process is gone.
Phase == {"down", "running", "stopping", "canceled", "stopped"}

\* The queue calls that end a delivery; the reasons are the ones Bury records.
Reasons == {"exhausted", "permanent", "undecodable"}

Op == {"none", "ack", "retry", "interrupt", "postpone"} \cup Reasons

\* "reserved": the loop holds a delivery Reserve returned.  "running": the
\* handler runs.  "settling": the queue call op is on its way; byLoop when
\* the loop makes it rather than process.
Slot ==
    [pc : {"idle", "reserved", "running", "settling"}, job : Jobs \cup {Nobody},
     receipt : Nat, attempt : Nat, leaseExpired : BOOLEAN, lost : BOOLEAN,
     op : Op, byLoop : BOOLEAN]

Idle ==
    [pc |-> "idle", job |-> Nobody, receipt |-> 0, attempt |-> 0, leaseExpired |-> FALSE,
     lost |-> FALSE, op |-> "none", byLoop |-> FALSE]

Init ==
    /\ QueueInit
    /\ phase = [p \in Procs |-> "running"]
    /\ slot = [p \in Procs |-> [s \in Slots |-> Idle]]
    /\ dispatched = {} /\ succeeded = {} /\ interrupted = {} /\ unsettled = {}
    /\ failedRuns = [j \in Jobs |-> 0]
    /\ delivered = [j \in Jobs |-> 0]
    /\ takenBack = [j \in Jobs |-> 0]
    /\ reason = [j \in Jobs |-> "none"]
    /\ lessee = [j \in Jobs |-> Nobody]
    /\ latest = [j \in Jobs |-> 0]
    /\ faults = 0 /\ stops = 0

-----------------------------------------------------------------------------
(* The environment: dispatchers and time *)

Dispatch(j) ==
    /\ j \notin dispatched
    /\ \E due \in BOOLEAN : Push(j, due)
    /\ dispatched' = dispatched \cup {j}
    /\ UNCHANGED <<phase, slot, succeeded, failedRuns, delivered, takenBack, reason,
                   interrupted, lessee, latest, unsettled, faults, stops>>

\* Some slot works under j's current lease.
Held(j) ==
    \E p \in Procs, s \in Slots :
        slot[p][s].pc # "idle" /\ slot[p][s].job = j /\ slot[p][s].receipt = job[j].receipt

RunsOut(j) ==
    /\ job[j].state \in {"waiting", "reserved"}
    /\ ~job[j].due
    /\ TimePasses
    /\ job' = [job EXCEPT ![j].due = TRUE]

\* A delay runs out, or a lease that nobody works under any more.
Lapse(j) ==
    /\ ~Held(j)
    /\ RunsOut(j)
    /\ UNCHANGED <<phase, slot, history>>

\* A lease runs out under a worker that is still alive: it stalled, or its
\* renewals kept failing.
LeaseOutlived(j) ==
    /\ Held(j)
    /\ RunsOut(j)
    /\ faults' = faults + 1
    /\ UNCHANGED <<phase, slot, dispatched, succeeded, failedRuns, delivered, takenBack, reason,
                   interrupted, lessee, latest, unsettled, stops>>

-----------------------------------------------------------------------------
(* Run: the loop *)

\* The loop is between two Reserve calls: it holds no delivery.
LoopFree(p) ==
    \A s \in Slots : slot[p][s].pc # "reserved" /\ ~slot[p][s].byLoop

\* Reserve issues a lease to process p.
LeaseTo(p, j) ==
    /\ Reserve(j)
    /\ delivered' = [delivered EXCEPT ![j] = @ + 1]
    /\ lessee' = [lessee EXCEPT ![j] = p]
    /\ latest' = [latest EXCEPT ![j] = issued + 1]

TakeJob(p, s, j) ==
    /\ phase[p] = "running"
    /\ LoopFree(p)
    /\ slot[p][s].pc = "idle"
    /\ LeaseTo(p, j)
    /\ slot' = [slot EXCEPT ![p][s] =
                  [Idle EXCEPT !.pc = "reserved", !.job = j, !.receipt = issued + 1,
                               !.attempt = job[j].attempts + 1,
                               !.leaseExpired = (job[j].state = "reserved")]]
    /\ UNCHANGED <<phase, dispatched, succeeded, failedRuns, takenBack, reason,
                   interrupted, unsettled, faults, stops>>

\* The queue leased a job but the reply was lost: the loop sees an error and
\* polls again after a wait.
LoseReserveReply(p, j) ==
    /\ phase[p] = "running"
    /\ LoopFree(p)
    /\ \E s \in Slots : slot[p][s].pc = "idle"
    /\ LeaseTo(p, j)
    /\ unsettled' = unsettled \cup {p}
    /\ faults' = faults + 1
    /\ UNCHANGED <<phase, slot, dispatched, succeeded, failedRuns, takenBack, reason,
                   interrupted, stops>>

\* What the loop does with a delivery: reserve sets aside one that cannot be
\* run, an undecodable envelope or an expired-lease redelivery past
\* MaxAttempts, before Run looks at its context; Run hands back one that
\* lands after the stop; any other is processed.
LoopOp(p, d) ==
    IF d.job \in Undecodable THEN "undecodable"
    ELSE IF d.leaseExpired /\ d.attempt > MaxAttempts THEN "exhausted"
    ELSE IF phase[p] # "running" THEN "interrupt"
    ELSE "none"

HandleDelivery(p, s) ==
    LET d  == slot[p][s]
        op == LoopOp(p, d) IN
    /\ d.pc = "reserved"
    /\ slot' = [slot EXCEPT ![p][s] =
                 IF op = "none" THEN [d EXCEPT !.pc = "running"]
                 ELSE [d EXCEPT !.pc = "settling", !.op = op, !.byLoop = TRUE]]
    /\ interrupted' = IF op = "none" THEN interrupted \ {d.job} ELSE interrupted
    /\ UNCHANGED <<queueVars, phase, dispatched, succeeded, failedRuns, delivered, takenBack,
                   reason, lessee, latest, unsettled, faults, stops>>

-----------------------------------------------------------------------------
(* process: one delivery *)

\* runCtx is canceled: the shutdown timeout ran out.
Canceled(p) == phase[p] \in {"canceled", "stopped"}

\* renewLease, every Lease/3.  A renewal that fails for another reason than
\* a lost lease changes nothing and is tried again.  Renewing ends when the
\* run's context is done or the queue's client is closed; a tick that is due
\* may still be taken after the context is done, so cancellation is no guard,
\* and that renewing ends shows as no more renewals: none is ever owed.
RenewLease(p, s) ==
    LET d == slot[p][s] IN
    /\ d.pc = "running" /\ ~d.lost
    /\ IF Leased(d.job, d.receipt)
       THEN Extend(d.job, d.receipt) /\ UNCHANGED slot
       ELSE slot' = [slot EXCEPT ![p][s].lost = TRUE] /\ UNCHANGED queueVars
    /\ UNCHANGED <<phase, history>>

Result == {"ok", "error", "permanent", "inProgress"}

\* Variants: an interrupted job is acked, or dropped; one attempt too many, or
\* too few.
OutcomeAcksInterrupted(p, d, result) ==
    IF d.lost THEN "none" ELSE IF result = "ok" \/ Canceled(p) THEN "ack" ELSE "retry"

OutcomeDropsInterrupted(p, d, result) ==
    IF d.lost THEN "none"
    ELSE IF result = "ok" THEN "ack"
    ELSE IF Canceled(p) THEN "none"
    ELSE IF d.attempt >= MaxAttempts THEN "exhausted" ELSE "retry"

OutcomeOneMore(p, d, result) ==
    IF d.lost THEN "none"
    ELSE IF result = "ok" THEN "ack"
    ELSE IF Canceled(p) THEN "interrupt"
    ELSE IF d.attempt > MaxAttempts THEN "exhausted" ELSE "retry"

OutcomeOneLess(p, d, result) ==
    IF d.lost THEN "none"
    ELSE IF result = "ok" THEN "ack"
    ELSE IF Canceled(p) THEN "interrupt"
    ELSE IF d.attempt + 1 >= MaxAttempts THEN "exhausted" ELSE "retry"

\* What process does with the handler's result, in the order it looks.
Outcome(p, d, result) ==
    IF d.lost THEN "none"
    ELSE IF result = "ok" THEN "ack"
    ELSE IF Canceled(p) THEN "interrupt"
    ELSE IF result = "inProgress" THEN "postpone"
    ELSE IF result = "permanent" THEN "permanent"
    ELSE IF d.attempt >= MaxAttempts THEN "exhausted"
    ELSE "retry"

\* The handler returns; a lost lease is abandoned without a queue call.
HandlerReturns(p, s, result) ==
    LET d  == slot[p][s]
        op == Outcome(p, d, result) IN
    /\ d.pc = "running"
    /\ slot' = [slot EXCEPT ![p][s] = IF op = "none" THEN Idle
                                      ELSE [d EXCEPT !.pc = "settling", !.op = op]]
    /\ succeeded' = IF result = "ok" THEN succeeded \cup {d.job} ELSE succeeded
    /\ failedRuns' = IF result = "error" /\ ~Canceled(p)
                     THEN [failedRuns EXCEPT ![d.job] = @ + 1] ELSE failedRuns
    /\ UNCHANGED <<queueVars, phase, dispatched, delivered, takenBack, reason, interrupted,
                   lessee, latest, unsettled, faults, stops>>

\* The queue call that settles a delivery takes effect.  An interrupted job
\* is available at once, a failed one after its backoff.
SettleTakesEffect(p, s) ==
    LET d == slot[p][s] IN
    /\ d.pc = "settling"
    /\ \/ d.op = "ack" /\ Ack(d.job, d.receipt)
       \/ d.op = "interrupt" /\ Release(d.job, d.receipt, TRUE)
       \/ d.op = "retry" /\ \E due \in BOOLEAN : Release(d.job, d.receipt, due)
       \/ d.op = "postpone" /\ \E due \in BOOLEAN : Postpone(d.job, d.receipt, due)
       \/ d.op \in Reasons /\ Bury(d.job, d.receipt)
    /\ slot' = [slot EXCEPT ![p][s] = Idle]
    /\ takenBack' = IF d.op = "postpone" THEN [takenBack EXCEPT ![d.job] = @ + 1] ELSE takenBack
    /\ reason' = IF d.op \in Reasons THEN [reason EXCEPT ![d.job] = d.op] ELSE reason
    /\ UNCHANGED <<phase, dispatched, succeeded, failedRuns, delivered, interrupted, lessee, latest,
                   unsettled, faults, stops>>

\* The queue refuses it: the job was delivered again meanwhile, or is gone.
SettleRefused(p, s) ==
    /\ slot[p][s].pc = "settling"
    /\ ~Leased(slot[p][s].job, slot[p][s].receipt)
    /\ slot' = [slot EXCEPT ![p][s] = Idle]
    /\ UNCHANGED <<queueVars, phase, history>>

\* The call fails: the job stays leased until its lease expires.
SettleFails(p, s) ==
    /\ slot[p][s].pc = "settling"
    /\ slot' = [slot EXCEPT ![p][s] = Idle]
    /\ unsettled' = unsettled \cup {p}
    /\ faults' = faults + 1
    /\ UNCHANGED <<queueVars, phase, dispatched, succeeded, failedRuns, delivered, takenBack,
                   reason, interrupted, lessee, latest, stops>>

-----------------------------------------------------------------------------
(* Shutdown and crashes *)

InFlight(p) == {s \in Slots : slot[p][s].pc \in {"running", "settling"}}

\* Run's context is canceled (SIGTERM).
Stop(p) ==
    /\ phase[p] = "running"
    /\ phase' = [phase EXCEPT ![p] = "stopping"]
    /\ stops' = stops + 1
    /\ UNCHANGED <<queueVars, slot, dispatched, succeeded, failedRuns, delivered, takenBack,
                   reason, interrupted, lessee, latest, unsettled, faults>>

\* ShutdownTimeout runs out: cancelJobs.
CancelJobs(p) ==
    /\ phase[p] = "stopping"
    /\ LoopFree(p)
    /\ InFlight(p) # {}
    /\ phase' = [phase EXCEPT ![p] = "canceled"]
    /\ interrupted' = interrupted \cup
                        {slot[p][s].job : s \in {t \in Slots : slot[p][t].pc = "running"}}
    /\ UNCHANGED <<queueVars, slot, dispatched, succeeded, failedRuns, delivered, takenBack,
                   reason, lessee, latest, unsettled, faults, stops>>

\* Run returns: every in-flight job has ended, or ShutdownGrace ran out.
RunReturns(p) ==
    /\ phase[p] \in {"stopping", "canceled"}
    /\ LoopFree(p)
    /\ phase[p] = "stopping" => InFlight(p) = {}
    /\ phase' = [phase EXCEPT ![p] = "stopped"]
    /\ UNCHANGED <<queueVars, slot, history>>

\* The process exits after Run returned, or dies before.
Exit(p) ==
    /\ phase[p] = "stopped"
    /\ phase' = [phase EXCEPT ![p] = "down"]
    /\ slot' = [slot EXCEPT ![p] = [s \in Slots |-> Idle]]
    /\ UNCHANGED <<queueVars, history>>

Crash(p) ==
    /\ phase[p] \in {"running", "stopping", "canceled"}
    /\ phase' = [phase EXCEPT ![p] = "down"]
    /\ slot' = [slot EXCEPT ![p] = [s \in Slots |-> Idle]]
    /\ faults' = faults + 1
    /\ UNCHANGED <<queueVars, dispatched, succeeded, failedRuns, delivered, takenBack, reason,
                   interrupted, lessee, latest, unsettled, stops>>

\* The process manager starts the worker again.
Start(p) ==
    /\ phase[p] = "down"
    /\ phase' = [phase EXCEPT ![p] = "running"]
    /\ unsettled' = unsettled \ {p}
    /\ lessee' = [j \in Jobs |-> IF lessee[j] = p THEN Nobody ELSE lessee[j]]
    /\ UNCHANGED <<queueVars, slot, dispatched, succeeded, failedRuns, delivered, takenBack,
                   reason, interrupted, latest, faults, stops>>

-----------------------------------------------------------------------------

SlotStep(p, s) ==
    \/ \E j \in Jobs : TakeJob(p, s, j)
    \/ HandleDelivery(p, s)
    \/ RenewLease(p, s)
    \/ \E result \in Result : HandlerReturns(p, s, result)
    \/ SettleTakesEffect(p, s)
    \/ SettleRefused(p, s)
    \/ SettleFails(p, s)

ProcStep(p) ==
    \/ \E j \in Jobs : LoseReserveReply(p, j)
    \/ Stop(p) \/ CancelJobs(p) \/ RunReturns(p)
    \/ Exit(p) \/ Crash(p) \/ Start(p)

Next ==
    \/ \E j \in Jobs : Dispatch(j) \/ Lapse(j) \/ LeaseOutlived(j)
    \/ \E p \in Procs, s \in Slots : SlotStep(p, s)
    \/ \E p \in Procs : ProcStep(p)

Spec == Init /\ [][Next]_vars

\* What the scheduling of the code guarantees: a running process polls, a
\* queue call ends within its deadline, timers fire, and the process manager
\* restarts what exited.  That handlers return is an assumption on them.
Fairness ==
    /\ \A j \in Jobs : WF_vars(Lapse(j))
    /\ \A p \in Procs, s \in Slots :
         /\ WF_vars(\E j \in Jobs : TakeJob(p, s, j))
         /\ WF_vars(HandleDelivery(p, s))
         /\ WF_vars(\E result \in Result : HandlerReturns(p, s, result))
         /\ WF_vars(SettleTakesEffect(p, s) \/ SettleRefused(p, s) \/ SettleFails(p, s))
    /\ \A p \in Procs :
         WF_vars(CancelJobs(p)) /\ WF_vars(RunReturns(p)) /\ WF_vars(Exit(p)) /\ WF_vars(Start(p))

-----------------------------------------------------------------------------
(* Properties *)

\* Every variable has its type.
TypeOK ==
    /\ job \in [Jobs -> JobRecord]
    /\ holder \in [UniqueKeys -> Jobs \cup {Nobody}]
    /\ issued \in Nat
    /\ closed \in BOOLEAN
    /\ phase \in [Procs -> Phase]
    /\ slot \in [Procs -> [Slots -> Slot]]
    /\ dispatched \subseteq Jobs /\ succeeded \subseteq Jobs /\ interrupted \subseteq Jobs
    /\ failedRuns \in [Jobs -> Nat]
    /\ delivered \in [Jobs -> Nat]
    /\ takenBack \in [Jobs -> Nat]
    /\ reason \in [Jobs -> Reasons \cup {"none"}]
    /\ lessee \in [Jobs -> Procs \cup {Nobody}]
    /\ latest \in [Jobs -> Nat]
    /\ unsettled \subseteq Procs
    /\ faults \in Nat /\ stops \in Nat

\* Docs: "Nothing is lost when a worker crashes."  A dispatched job is on the
\* queue, or with its failed jobs, until some run of its handler succeeded,
\* through crashes, lost replies, failed calls, interruptions and late
\* settlements (reserve, process, shutdown).
NoJobLost ==
    \A j \in dispatched : job[j].state = "absent" => j \in succeeded

\* process: "Another worker holds the job now; its outcome is that worker's to
\* record, and this lease can neither ack nor release it".  While a slot works
\* on the last delivery of a job, the job stays leased under that delivery's
\* receipt: no worker that stalled, was interrupted or was overtaken on an
\* earlier delivery of it acks, releases, postpones or buries it meanwhile.
LatestDeliveryStands ==
    \A p \in Procs, s \in Slots :
        LET d == slot[p][s] IN
        d.pc # "idle" /\ d.receipt = latest[d.job] =>
            job[d.job].state = "reserved" /\ job[d.job].receipt = d.receipt

\* MaxAttempts bounds the runs that fail, counting those of crashed or
\* overtaken workers, however deliveries, postponements, interruptions and
\* lost settlements interleave (Attempt, Postpone, reserve, giveUp).
FailuresWithinMaxAttempts ==
    \A j \in Jobs : failedRuns[j] <= MaxAttempts

\* A job is given up on as exhausted only when MaxAttempts deliveries of it
\* were spent, waits for another run's Once lock not among them (Postpone).
ExhaustedOnlyWhenSpent ==
    \A j \in Jobs :
        job[j].state = "failed" /\ reason[j] = "exhausted" =>
            delivered[j] - takenBack[j] >= MaxAttempts

\* A worker that stopped in order, none of whose queue calls failed, left no
\* job leased: what it could not finish is back on the queue (Run hands back
\* what it reserved during the stop, process what it interrupted).
CleanStopLeavesNoLease ==
    \A p \in Procs :
        phase[p] = "stopped" /\ InFlight(p) = {} /\ p \notin unsettled =>
            \A j \in Jobs : ~(job[j].state = "reserved" /\ lessee[j] = p)

\* Every dispatched job is done or given up on in the end.
EveryJobSettles ==
    \A j \in Jobs : j \in dispatched ~> job[j].state \in {"absent", "failed"}

\* docs/jobs.md: "An interrupted attempt is never given up on, even the last
\* one".  A job whose run a shutdown canceled runs again before it can be
\* given up on as exhausted.
InterruptedRunsAgain ==
    \A j \in Jobs :
        job[j].state = "failed" /\ reason[j] = "exhausted" => j \notin interrupted

=============================================================================
