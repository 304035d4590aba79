---------------------------- MODULE WorkerProofs ----------------------------
(***************************************************************************)
(* The worker's types, and that a late worker never settles a job that was *)
(* delivered again, for any number of processes, slots, jobs and faults.   *)
(***************************************************************************)
EXTENDS Worker, TLAPS

QueueType ==
    /\ job \in [Jobs -> JobRecord]
    /\ holder \in [UniqueKeys -> Jobs \cup {Nobody}]
    /\ issued \in Nat
    /\ closed \in BOOLEAN

\* A leased job's delivery was counted, so that a postponement can take it
\* back.
Counted == \A j \in Jobs : job[j].state = "reserved" => job[j].attempts > 0

\* A slot that is not idle works on a job.
SlotsHoldJobs ==
    \A p \in Procs, s \in Slots : slot[p][s].pc # "idle" => slot[p][s].job \in Jobs

LifeType == phase \in [Procs -> Phase] /\ slot \in [Procs -> [Slots -> Slot]]

HistoryType ==
    /\ dispatched \subseteq Jobs /\ succeeded \subseteq Jobs /\ interrupted \subseteq Jobs
    /\ failedRuns \in [Jobs -> Nat]
    /\ delivered \in [Jobs -> Nat]
    /\ takenBack \in [Jobs -> Nat]
    /\ reason \in [Jobs -> Reasons \cup {"none"}]
    /\ lessee \in [Jobs -> Procs \cup {Nobody}]
    /\ latest \in [Jobs -> Nat]
    /\ unsettled \subseteq Procs
    /\ faults \in Nat /\ stops \in Nat

TypeInv == QueueType /\ Counted /\ LifeType /\ SlotsHoldJobs /\ HistoryType

\* Two slots never work under one receipt.
LeasesApart ==
    \A p, q \in Procs, s, t \in Slots :
        slot[p][s].pc # "idle" /\ slot[q][t].pc # "idle"
          /\ slot[p][s].receipt = slot[q][t].receipt => p = q /\ s = t

\* Every receipt in use was issued, and none is in two slots.
LeaseInv ==
    /\ \A j \in Jobs : latest[j] <= issued
    /\ \A p \in Procs, s \in Slots : slot[p][s].pc # "idle" => slot[p][s].receipt <= issued
    /\ LeasesApart
    /\ LatestDeliveryStands

Inv == TypeInv /\ LeaseInv

-----------------------------------------------------------------------------
(* The queue's calls *)

\* One job's record changes, to one of the right type.
LEMMA RecordChanges ==
    ASSUME QueueType, Counted, NEW j \in Jobs, NEW r \in JobRecord,
           r.state = "reserved" => r.attempts > 0,
           job' = [job EXCEPT ![j] = r]
    PROVE  /\ job' \in [Jobs -> JobRecord]
           /\ Counted'
           /\ job'[j] = r
           /\ \A k \in Jobs \ {j} : job'[k] = job[k]
  BY DEF QueueType, Counted

\* A push keeps the queue's types.
LEMMA PushType ==
    ASSUME QueueType, Counted, NEW j \in Jobs, NEW due \in BOOLEAN, Push(j, due)
    PROVE  QueueType' /\ Counted'
<1> DEFINE r == [Absent EXCEPT !.state = "waiting", !.due = due]
<1>1. r \in JobRecord /\ r.state # "reserved" BY DEF Absent, JobRecord
<1>2. job' = [job EXCEPT ![j] = r] /\ UNCHANGED <<holder, issued, closed>> BY DEF Push
<1> HIDE DEF r
<1>3. job' \in [Jobs -> JobRecord] /\ Counted' BY <1>1, <1>2, RecordChanges
<1> QED BY Zenon, <1>2, <1>3 DEF QueueType

\* Reserve counts the delivery and leases the job under a receipt of its own.
LEMMA ReserveType ==
    ASSUME QueueType, Counted, NEW j \in Jobs, Reserve(j)
    PROVE  /\ QueueType' /\ Counted'
           /\ job'[j].state = "reserved" /\ job'[j].receipt = issued + 1
           /\ issued' = issued + 1
           /\ \A k \in Jobs \ {j} : job'[k] = job[k]
<1> DEFINE r == [job[j] EXCEPT !.state = "reserved", !.due = FALSE,
                               !.attempts = job[j].attempts + 1, !.receipt = issued + 1]
<1>0. job[j] \in JobRecord BY DEF QueueType
<1>1. job[j].attempts + 1 \in Nat /\ job[j].attempts + 1 > 0 /\ issued + 1 \in Nat
  BY <1>0 DEF QueueType, JobRecord
<1>2. /\ r \in JobRecord /\ r.state = "reserved" /\ r.receipt = issued + 1
      /\ r.attempts = job[j].attempts + 1
  BY Zenon, <1>0, <1>1 DEF JobRecord
<1>3. job' = [job EXCEPT ![j] = r] /\ issued' = issued + 1 /\ UNCHANGED <<holder, closed>>
  BY <1>0 DEF Reserve, QueueType
<1> HIDE DEF r
<1>4. /\ job' \in [Jobs -> JobRecord] /\ Counted' /\ job'[j] = r
      /\ \A k \in Jobs \ {j} : job'[k] = job[k]
  BY <1>1, <1>2, <1>3, RecordChanges
<1> QED BY Zenon, <1>1, <1>2, <1>3, <1>4 DEF QueueType

\* A call that settles a delivery keeps the queue's types, needs the job's
\* current receipt and touches that job only (leased in both drivers, Ack,
\* Release, Postpone, Extend, Bury).
LEMMA SettleCall ==
    ASSUME QueueType, Counted, NEW j \in Jobs, NEW receipt \in Nat, Settle(j, receipt)
    PROVE  /\ QueueType' /\ Counted'
           /\ job[j].state = "reserved" /\ job[j].receipt = receipt
           /\ issued' = issued
           /\ \A k \in Jobs \ {j} : job'[k] = job[k]
<1>0. job[j] \in JobRecord BY DEF QueueType
<1>1. Leased(j, receipt) BY Zenon DEF Settle, Ack, Extend, Bury, Release, Postpone
<1>2. issued' = issued /\ closed' = closed
  BY Zenon DEF Settle, Ack, Extend, Bury, Release, Postpone
<1>3. holder' = holder \/ holder' = HolderWithout(j)
  BY Zenon DEF Settle, Ack, Extend, Bury, Release, Postpone
<1>4. holder' \in [UniqueKeys -> Jobs \cup {Nobody}] BY <1>3 DEF HolderWithout, QueueType
<1> DEFINE Rewritten == \E r \in JobRecord : /\ r.state = "reserved" => r.attempts > 0
                                             /\ job' = [job EXCEPT ![j] = r]
<1>5. Rewritten
  <2>1. CASE Ack(j, receipt)
    <3>1. Absent \in JobRecord /\ Absent.state # "reserved" BY DEF Absent, JobRecord
    <3> QED BY <2>1, <3>1 DEF Ack
  <2>2. CASE Extend(j, receipt)
    <3> DEFINE r == [job[j] EXCEPT !.due = FALSE]
    <3>1. r \in JobRecord /\ r.state = job[j].state /\ r.attempts = job[j].attempts
      BY <1>0 DEF JobRecord
    <3>2. job' = [job EXCEPT ![j] = r] BY <2>2 DEF Extend
    <3> QED BY <3>1, <3>2 DEF Counted
  <2>3. CASE Bury(j, receipt)
    <3> DEFINE r == [job[j] EXCEPT !.state = "failed", !.due = FALSE, !.receipt = 0]
    <3>1. r \in JobRecord /\ r.state # "reserved" BY <1>0 DEF JobRecord
    <3>2. job' = [job EXCEPT ![j] = r] BY <2>3 DEF Bury
    <3> QED BY <3>1, <3>2
  <2>4. ASSUME NEW due \in BOOLEAN, Release(j, receipt, due)
        PROVE  Rewritten
    <3> DEFINE r == [job[j] EXCEPT !.state = "waiting", !.due = due, !.receipt = 0]
    <3>1. r \in JobRecord /\ r.state # "reserved" BY <1>0 DEF JobRecord
    <3>2. job' = [job EXCEPT ![j] = r] BY <2>4 DEF Release
    <3> QED BY <3>1, <3>2
  <2>5. ASSUME NEW due \in BOOLEAN, Postpone(j, receipt, due)
        PROVE  Rewritten
    <3> DEFINE r == [job[j] EXCEPT !.state = "waiting", !.due = due, !.receipt = 0,
                                   !.attempts = job[j].attempts - 1]
    <3>1. job[j].attempts - 1 \in Nat BY <1>0, <1>1 DEF Leased, Counted, JobRecord
    <3>2. r \in JobRecord /\ r.state # "reserved" BY <1>0, <3>1 DEF JobRecord
    <3>3. job' = [job EXCEPT ![j] = r] BY <1>0, <2>5 DEF Postpone, QueueType
    <3> QED BY <3>2, <3>3
  <2> QED BY <2>1, <2>2, <2>3, <2>4, <2>5 DEF Settle
<1>6. PICK r \in JobRecord : /\ r.state = "reserved" => r.attempts > 0
                             /\ job' = [job EXCEPT ![j] = r]
  BY <1>5
<1>7. /\ job' \in [Jobs -> JobRecord] /\ Counted'
      /\ \A k \in Jobs \ {j} : job'[k] = job[k]
  BY <1>6, RecordChanges
<1> QED BY Zenon, <1>1, <1>2, <1>4, <1>7 DEF QueueType, Leased

\* A delay or a lease that runs out changes nothing else of its job.
LEMMA RunsOutType ==
    ASSUME QueueType, Counted, NEW j \in Jobs, RunsOut(j)
    PROVE  /\ QueueType' /\ Counted'
           /\ issued' = issued
           /\ \A k \in Jobs : job'[k].state = job[k].state /\ job'[k].receipt = job[k].receipt
<1> DEFINE r == [job[j] EXCEPT !.due = TRUE]
<1>0. job[j] \in JobRecord BY DEF QueueType
<1>1. /\ r \in JobRecord /\ r.state = job[j].state /\ r.attempts = job[j].attempts
      /\ r.receipt = job[j].receipt
  BY <1>0 DEF JobRecord
<1>2. job' = [job EXCEPT ![j] = r] BY DEF RunsOut
<1>3. r.state = "reserved" => r.attempts > 0 BY <1>1 DEF Counted
<1> HIDE DEF r
<1>4. /\ job' \in [Jobs -> JobRecord] /\ Counted' /\ job'[j] = r
      /\ \A k \in Jobs \ {j} : job'[k] = job[k]
  BY <1>1, <1>2, <1>3, RecordChanges
<1>5. issued' = issued /\ closed' = closed BY DEF RunsOut, TimePasses
<1>6. holder' \in [UniqueKeys -> Jobs \cup {Nobody}] BY DEF RunsOut, TimePasses, QueueType
<1>7. \A k \in Jobs : job'[k].state = job[k].state /\ job'[k].receipt = job[k].receipt
  BY Zenon, <1>1, <1>4
<1> QED BY Zenon, <1>4, <1>5, <1>6, <1>7 DEF QueueType

-----------------------------------------------------------------------------
(* The slots *)

\* A slot that changes goes idle, or keeps its delivery.
Carries(d, e) == e.pc = "idle" \/ (d.pc # "idle" /\ e.job = d.job /\ e.receipt = d.receipt)

SlotsCarry == \A p \in Procs, s \in Slots : Carries(slot[p][s], slot'[p][s])

\* The leases under which slots still work stand.
LeasesStand ==
    \A p \in Procs, s \in Slots :
        LET d == slot[p][s] IN
        /\ slot'[p][s].pc # "idle"
        /\ job[d.job].state = "reserved"
        /\ job[d.job].receipt = d.receipt
        => job'[d.job].state = "reserved" /\ job'[d.job].receipt = job[d.job].receipt

\* A step that hands out no lease and ends none that a slot still works under
\* keeps the invariant on leases.
LEMMA CarryStep ==
    ASSUME TypeInv, LeaseInv, SlotsCarry, LeasesStand, issued' = issued, latest' = latest
    PROVE  LeaseInv'
<1>1. \A p \in Procs, s \in Slots : slot'[p][s].pc # "idle" =>
        /\ slot[p][s].pc # "idle"
        /\ slot'[p][s].job = slot[p][s].job
        /\ slot'[p][s].receipt = slot[p][s].receipt
  BY DEF SlotsCarry, Carries
<1>2. (\A j \in Jobs : latest[j] <= issued)' BY DEF LeaseInv
<1>3. (\A p \in Procs, s \in Slots : slot[p][s].pc # "idle" => slot[p][s].receipt <= issued)'
  BY <1>1 DEF LeaseInv
<1>4. LeasesApart' BY <1>1 DEF LeaseInv, LeasesApart
<1>5. LatestDeliveryStands'
  <2> SUFFICES ASSUME NEW p \in Procs, NEW s \in Slots, slot'[p][s].pc # "idle",
                      slot'[p][s].receipt = latest'[slot'[p][s].job]
               PROVE  /\ job'[slot'[p][s].job].state = "reserved"
                      /\ job'[slot'[p][s].job].receipt = slot'[p][s].receipt
    BY DEF LatestDeliveryStands
  <2>1. /\ job[slot[p][s].job].state = "reserved"
        /\ job[slot[p][s].job].receipt = slot[p][s].receipt
    BY <1>1 DEF LeaseInv, LatestDeliveryStands
  <2> QED BY <1>1, <2>1 DEF LeasesStand
<1> QED BY <1>2, <1>3, <1>4, <1>5 DEF LeaseInv

\* An idle slot is one.
LEMMA IdleSlot == Idle \in Slot /\ Idle.pc = "idle"
  BY DEF Idle, Slot, Op

\* One slot goes idle or keeps its delivery, and every other stays.
LEMMA OneSlotCarries ==
    ASSUME TypeInv, NEW p \in Procs, NEW s \in Slots, NEW d \in Slot,
           Carries(slot[p][s], d),
           slot' = [slot EXCEPT ![p][s] = d]
    PROVE  /\ slot' \in [Procs -> [Slots -> Slot]]
           /\ SlotsHoldJobs'
           /\ SlotsCarry
<1>1. d.pc # "idle" => d.job \in Jobs BY DEF Carries, TypeInv, SlotsHoldJobs
<1>2. LifeType BY DEF TypeInv
<1>3. slot' \in [Procs -> [Slots -> Slot]] BY <1>2 DEF LifeType
<1>4. \A q \in Procs, t \in Slots : slot'[q][t] = IF q = p /\ t = s THEN d ELSE slot[q][t]
  BY <1>2 DEF LifeType
<1>5. SlotsHoldJobs' BY <1>1, <1>4 DEF TypeInv, SlotsHoldJobs
<1>6. SlotsCarry BY <1>4 DEF SlotsCarry, Carries
<1> QED BY Zenon, <1>3, <1>5, <1>6

\* All slots of a process go idle.
LEMMA SlotsEmptied ==
    ASSUME TypeInv, NEW p \in Procs, slot' = [slot EXCEPT ![p] = [s \in Slots |-> Idle]]
    PROVE  /\ slot' \in [Procs -> [Slots -> Slot]]
           /\ SlotsHoldJobs'
           /\ SlotsCarry
<1>1. slot' \in [Procs -> [Slots -> Slot]] BY IdleSlot DEF TypeInv, LifeType
<1>2. \A q \in Procs, t \in Slots : slot'[q][t] = IF q = p THEN Idle ELSE slot[q][t]
  BY DEF TypeInv, LifeType
<1>3. SlotsHoldJobs' BY <1>2, IdleSlot DEF TypeInv, SlotsHoldJobs
<1>4. SlotsCarry
  <2> SUFFICES ASSUME NEW q \in Procs, NEW t \in Slots
               PROVE  Carries(slot[q][t], slot'[q][t])
    BY DEF SlotsCarry
  <2>1. CASE q = p
    <3>1. slot'[q][t] = Idle BY <1>2, <2>1
    <3> QED BY <3>1, IdleSlot DEF Carries
  <2>2. CASE q # p
    <3>1. slot'[q][t] = slot[q][t] BY <1>2, <2>2
    <3> QED BY <3>1 DEF Carries
  <2> QED BY <2>1, <2>2
<1> QED BY Zenon, <1>1, <1>3, <1>4

\* A queue that stays as it is keeps its leases.
LEMMA QueueSame ==
    ASSUME TypeInv, UNCHANGED queueVars
    PROVE  QueueType' /\ Counted' /\ LeasesStand /\ issued' = issued
  BY DEF TypeInv, queueVars, QueueType, Counted, LeasesStand

\* Slots that stay as they are keep their deliveries.
LEMMA SlotsSame ==
    ASSUME TypeInv, slot' = slot
    PROVE  slot' \in [Procs -> [Slots -> Slot]] /\ SlotsHoldJobs' /\ SlotsCarry
  BY DEF TypeInv, LifeType, SlotsHoldJobs, SlotsCarry, Carries

-----------------------------------------------------------------------------
(* The steps *)

\* A dispatch leaves every leased job alone (Push).
LEMMA DispatchStep ==
    ASSUME Inv, NEW j \in Jobs, Dispatch(j)
    PROVE  Inv'
<1> USE DEF Inv
<1>1. PICK due \in BOOLEAN : Push(j, due) BY DEF Dispatch
<1>2. QueueType' /\ Counted' BY <1>1, PushType DEF TypeInv
<1>3. issued' = issued /\ slot' = slot /\ latest' = latest /\ phase' = phase
  BY <1>1 DEF Dispatch, Push
<1>4. \A k \in Jobs : job[k].state = "reserved" => job'[k] = job[k]
  BY <1>1 DEF Push, TypeInv, QueueType
<1>5. slot' \in [Procs -> [Slots -> Slot]] /\ SlotsHoldJobs' /\ SlotsCarry BY <1>3, SlotsSame
<1>6. LeasesStand BY <1>3, <1>4 DEF LeasesStand, TypeInv, SlotsHoldJobs
<1>7. LeaseInv' BY <1>3, <1>5, <1>6, CarryStep
<1>8. HistoryType' BY DEF Dispatch, TypeInv, HistoryType
<1> QED BY <1>2, <1>3, <1>5, <1>7, <1>8 DEF TypeInv, LifeType

\* A delay or a lease that runs out takes no lease away (Lapse,
\* LeaseOutlived).
LEMMA RunsOutStep ==
    ASSUME Inv, NEW j \in Jobs, Lapse(j) \/ LeaseOutlived(j)
    PROVE  Inv'
<1> USE DEF Inv
<1>1. RunsOut(j) BY DEF Lapse, LeaseOutlived
<1>2. /\ QueueType' /\ Counted' /\ issued' = issued
      /\ \A k \in Jobs : job'[k].state = job[k].state /\ job'[k].receipt = job[k].receipt
  BY <1>1, RunsOutType DEF TypeInv
<1>3. slot' = slot /\ latest' = latest /\ phase' = phase
  BY DEF Lapse, LeaseOutlived, history
<1>4. slot' \in [Procs -> [Slots -> Slot]] /\ SlotsHoldJobs' /\ SlotsCarry BY <1>3, SlotsSame
<1>5. LeasesStand BY <1>2, <1>3 DEF LeasesStand, TypeInv, SlotsHoldJobs
<1>6. LeaseInv' BY <1>2, <1>3, <1>4, <1>5, CarryStep
<1>7. HistoryType' BY DEF Lapse, LeaseOutlived, history, TypeInv, HistoryType
<1> QED BY <1>2, <1>3, <1>4, <1>6, <1>7 DEF TypeInv, LifeType

\* At most one slot changes, to a delivery of job j under the next receipt.
TakesOne(j) ==
    /\ \A p \in Procs, s \in Slots : slot'[p][s] # slot[p][s] =>
         slot'[p][s].job = j /\ slot'[p][s].receipt = issued + 1
    /\ \A p, q \in Procs, s, t \in Slots :
         slot'[p][s] # slot[p][s] /\ slot'[q][t] # slot[q][t] => p = q /\ s = t

\* A new lease is recorded.
LEMMA LeaseToHistory ==
    ASSUME Inv, NEW p \in Procs, NEW j \in Jobs, LeaseTo(p, j)
    PROVE  /\ delivered' \in [Jobs -> Nat]
           /\ lessee' \in [Jobs -> Procs \cup {Nobody}]
           /\ latest' \in [Jobs -> Nat]
<1>1. HistoryType /\ issued + 1 \in Nat BY DEF Inv, TypeInv, QueueType
<1>2. delivered' \in [Jobs -> Nat] BY <1>1 DEF LeaseTo, HistoryType
<1>3. lessee' \in [Jobs -> Procs \cup {Nobody}] BY <1>1 DEF LeaseTo, HistoryType
<1>4. latest' \in [Jobs -> Nat] BY <1>1 DEF LeaseTo, HistoryType
<1> QED BY <1>2, <1>3, <1>4

\* A new lease: its receipt is above every one in use, so every delivery of
\* the job that a slot still works on is no longer the latest (Reserve).
LEMMA LeaseToStep ==
    ASSUME Inv, NEW p \in Procs, NEW j \in Jobs, LeaseTo(p, j),
           slot' \in [Procs -> [Slots -> Slot]], TakesOne(j)
    PROVE  LeaseInv' /\ QueueType' /\ Counted' /\ SlotsHoldJobs'
<1> USE DEF Inv, TakesOne
<1>1. /\ QueueType' /\ Counted'
      /\ job'[j].state = "reserved" /\ job'[j].receipt = issued + 1
      /\ issued' = issued + 1
      /\ \A k \in Jobs \ {j} : job'[k] = job[k]
  BY ReserveType DEF LeaseTo, TypeInv
<1>2. issued \in Nat /\ latest \in [Jobs -> Nat] BY DEF TypeInv, QueueType, HistoryType
<1>3. latest' = [latest EXCEPT ![j] = issued + 1] BY DEF LeaseTo
<1>4. latest'[j] = issued + 1 /\ \A k \in Jobs \ {j} : latest'[k] = latest[k] BY <1>2, <1>3
<1>5. \A q \in Procs, t \in Slots : slot[q][t].pc # "idle" =>
         slot[q][t].receipt \in Nat /\ slot[q][t].receipt <= issued /\ slot[q][t].job \in Jobs
  BY DEF LeaseInv, TypeInv, LifeType, SlotsHoldJobs, Slot
<1>6. SlotsHoldJobs' BY <1>5 DEF SlotsHoldJobs
<1>7. (\A k \in Jobs : latest[k] <= issued)' BY <1>1, <1>2, <1>4 DEF LeaseInv
<1>8. (\A q \in Procs, t \in Slots : slot[q][t].pc # "idle" => slot[q][t].receipt <= issued)'
  <2> SUFFICES ASSUME NEW q \in Procs, NEW t \in Slots, slot'[q][t].pc # "idle"
               PROVE  slot'[q][t].receipt <= issued + 1
    BY <1>1
  <2>1. CASE slot'[q][t] # slot[q][t] BY <1>2, <2>1
  <2>2. CASE slot'[q][t] = slot[q][t] BY <1>2, <1>5, <2>2
  <2> QED BY <2>1, <2>2
<1>9. LeasesApart'
  <2> SUFFICES ASSUME NEW q \in Procs, NEW r \in Procs, NEW t \in Slots, NEW u \in Slots,
                      slot'[q][t].pc # "idle", slot'[r][u].pc # "idle",
                      slot'[q][t].receipt = slot'[r][u].receipt
               PROVE  q = r /\ t = u
    BY DEF LeasesApart
  <2>1. CASE slot'[q][t] # slot[q][t] /\ slot'[r][u] # slot[r][u] BY <2>1
  <2>2. CASE slot'[q][t] # slot[q][t] /\ slot'[r][u] = slot[r][u] BY <1>2, <1>5, <2>2
  <2>3. CASE slot'[q][t] = slot[q][t] /\ slot'[r][u] # slot[r][u] BY <1>2, <1>5, <2>3
  <2>4. CASE slot'[q][t] = slot[q][t] /\ slot'[r][u] = slot[r][u] BY <2>4 DEF LeaseInv, LeasesApart
  <2> QED BY <2>1, <2>2, <2>3, <2>4
<1>10. LatestDeliveryStands'
  <2> SUFFICES ASSUME NEW q \in Procs, NEW t \in Slots, slot'[q][t].pc # "idle",
                      slot'[q][t].receipt = latest'[slot'[q][t].job]
               PROVE  /\ job'[slot'[q][t].job].state = "reserved"
                      /\ job'[slot'[q][t].job].receipt = slot'[q][t].receipt
    BY DEF LatestDeliveryStands
  <2>1. CASE slot'[q][t] # slot[q][t] BY <1>1, <2>1
  <2>2. CASE slot'[q][t] = slot[q][t]
    <3>1. slot'[q][t] = slot[q][t] BY <2>2
    <3>2. slot[q][t].job # j BY <1>2, <1>4, <1>5, <3>1
    <3>3. slot[q][t].job \in Jobs \ {j} /\ slot[q][t].pc # "idle" BY <1>5, <3>1, <3>2
    <3>4. /\ job'[slot[q][t].job] = job[slot[q][t].job]
          /\ latest'[slot[q][t].job] = latest[slot[q][t].job]
      BY Zenon, <1>1, <1>4, <3>3
    <3>5. slot[q][t].receipt = latest[slot[q][t].job] BY <3>1, <3>4
    <3>6. LatestDeliveryStands BY DEF LeaseInv
    <3>7. /\ job[slot[q][t].job].state = "reserved"
          /\ job[slot[q][t].job].receipt = slot[q][t].receipt
      BY Zenon, <3>3, <3>5, <3>6 DEF LatestDeliveryStands
    <3> QED BY <3>1, <3>4, <3>7
  <2> QED BY <2>1, <2>2
<1> QED BY <1>1, <1>6, <1>7, <1>8, <1>9, <1>10 DEF LeaseInv

\* The loop takes a job into an idle slot (Run, reserve).
LEMMA TakeJobStep ==
    ASSUME Inv, NEW p \in Procs, NEW s \in Slots, NEW j \in Jobs, TakeJob(p, s, j)
    PROVE  Inv'
<1> USE DEF Inv
<1> DEFINE d == [Idle EXCEPT !.pc = "reserved", !.job = j, !.receipt = issued + 1,
                             !.attempt = job[j].attempts + 1,
                             !.leaseExpired = (job[j].state = "reserved")]
<1>1. job[j].attempts + 1 \in Nat /\ issued + 1 \in Nat BY DEF TypeInv, QueueType, JobRecord
<1>2. d \in Slot /\ d.job = j /\ d.job \in Jobs /\ d.receipt = issued + 1
  BY <1>1 DEF Idle, Slot, Op
<1>3. slot' = [slot EXCEPT ![p][s] = d] /\ LeaseTo(p, j) /\ phase' = phase BY DEF TakeJob
<1> HIDE DEF d
<1>4. /\ slot' \in [Procs -> [Slots -> Slot]]
      /\ \A q \in Procs, t \in Slots :
           slot'[q][t] = IF q = p /\ t = s THEN d ELSE slot[q][t]
  <2>1. LifeType BY DEF TypeInv
  <2> QED BY <1>2, <1>3, <2>1 DEF LifeType
<1>5. TakesOne(j) BY <1>2, <1>4 DEF TakesOne
<1>6. LeaseInv' /\ QueueType' /\ Counted' /\ SlotsHoldJobs'
  BY <1>3, <1>4, <1>5, LeaseToStep
<1>7. HistoryType'
  <2>1. HistoryType BY DEF TypeInv
  <2>2. UNCHANGED <<dispatched, succeeded, failedRuns, takenBack, reason, interrupted,
                    unsettled, faults, stops>>
    BY DEF TakeJob
  <2> QED BY Zenon, <1>3, <2>1, <2>2, LeaseToHistory DEF HistoryType
<1> QED BY <1>3, <1>4, <1>6, <1>7 DEF TypeInv, LifeType

\* The queue leases a job and the reply is lost: no slot has the delivery.
LEMMA LoseReserveReplyStep ==
    ASSUME Inv, NEW p \in Procs, NEW j \in Jobs, LoseReserveReply(p, j)
    PROVE  Inv'
<1> USE DEF Inv
<1>1. LeaseTo(p, j) /\ slot' = slot /\ phase' = phase BY DEF LoseReserveReply
<1>2. slot' \in [Procs -> [Slots -> Slot]] BY <1>1, SlotsSame
<1>3. LeaseInv' /\ QueueType' /\ Counted' /\ SlotsHoldJobs'
  <2>1. TakesOne(j) BY <1>1 DEF TakesOne
  <2> QED BY <1>1, <1>2, <2>1, LeaseToStep
<1>4. HistoryType'
  <2>1. HistoryType BY DEF TypeInv
  <2>2. unsettled' \subseteq Procs BY <2>1 DEF LoseReserveReply, HistoryType
  <2>3. faults' \in Nat BY <2>1 DEF LoseReserveReply, HistoryType
  <2>4. UNCHANGED <<dispatched, succeeded, failedRuns, takenBack, reason, interrupted, stops>>
    BY DEF LoseReserveReply
  <2> QED BY Zenon, <1>1, <2>1, <2>2, <2>3, <2>4, LeaseToHistory DEF HistoryType
<1> QED BY <1>1, <1>2, <1>3, <1>4 DEF TypeInv, LifeType

\* What a slot does without a queue call that takes effect keeps every lease:
\* handling a delivery, finding its lease lost, the handler's return, a
\* settlement that is refused or fails.
LEMMA SlotStepKeeps ==
    ASSUME Inv, NEW p \in Procs, NEW s \in Slots, NEW d \in Slot, Carries(slot[p][s], d),
           slot' = [slot EXCEPT ![p][s] = d],
           UNCHANGED <<queueVars, phase, latest>>, HistoryType'
    PROVE  Inv'
<1> USE DEF Inv
<1>1. /\ slot' \in [Procs -> [Slots -> Slot]] /\ SlotsHoldJobs' /\ SlotsCarry
  BY OneSlotCarries
<1>2. QueueType' /\ Counted' /\ LeasesStand /\ issued' = issued BY QueueSame
<1>3. LeaseInv' BY <1>1, <1>2, CarryStep
<1> QED BY <1>1, <1>2, <1>3 DEF TypeInv, LifeType

\* The loop hands a delivery to process, or settles it itself (Run, reserve).
LEMMA HandleDeliveryStep ==
    ASSUME Inv, NEW p \in Procs, NEW s \in Slots, HandleDelivery(p, s)
    PROVE  Inv'
<1> DEFINE d  == slot[p][s]
           op == LoopOp(p, d)
           e  == IF op = "none" THEN [d EXCEPT !.pc = "running"]
                 ELSE [d EXCEPT !.pc = "settling", !.op = op, !.byLoop = TRUE]
<1>1. d \in Slot /\ d.pc = "reserved" /\ d.job \in Jobs
  BY DEF Inv, TypeInv, LifeType, SlotsHoldJobs, HandleDelivery
<1>2. op \in Op BY DEF LoopOp, Op, Reasons
<1>3. /\ slot' = [slot EXCEPT ![p][s] = e]
      /\ UNCHANGED <<queueVars, phase, latest>>
  BY DEF HandleDelivery
<1>4. HistoryType' BY DEF HandleDelivery, Inv, TypeInv, HistoryType
<1> HIDE DEF op
<1>5. e \in Slot /\ Carries(d, e) BY <1>1, <1>2 DEF Slot, Carries
<1> QED BY Zenon, <1>3, <1>4, <1>5, SlotStepKeeps

\* The handler returns (process).
LEMMA HandlerReturnsStep ==
    ASSUME Inv, NEW p \in Procs, NEW s \in Slots, NEW result \in Result,
           HandlerReturns(p, s, result)
    PROVE  Inv'
<1> DEFINE d  == slot[p][s]
           op == Outcome(p, d, result)
           e  == IF op = "none" THEN Idle ELSE [d EXCEPT !.pc = "settling", !.op = op]
<1>1. d \in Slot /\ d.pc = "running" /\ d.job \in Jobs
  BY DEF Inv, TypeInv, LifeType, SlotsHoldJobs, HandlerReturns
<1>2. op \in Op BY DEF Outcome, Op, Reasons
<1>3. /\ slot' = [slot EXCEPT ![p][s] = e]
      /\ UNCHANGED <<queueVars, phase, latest>>
  BY DEF HandlerReturns
<1>4. HistoryType' BY <1>1 DEF HandlerReturns, Inv, TypeInv, HistoryType
<1> HIDE DEF op
<1>5. e \in Slot /\ Carries(d, e) BY <1>1, <1>2, IdleSlot DEF Slot, Carries
<1> QED BY Zenon, <1>3, <1>4, <1>5, SlotStepKeeps

\* A settlement the queue refuses, or that fails, only empties its slot.
LEMMA NotSettledStep ==
    ASSUME Inv, NEW p \in Procs, NEW s \in Slots, SettleRefused(p, s) \/ SettleFails(p, s)
    PROVE  Inv'
<1>1. slot' = [slot EXCEPT ![p][s] = Idle] /\ UNCHANGED <<queueVars, phase, latest>>
  BY DEF SettleRefused, SettleFails, history
<1>2. HistoryType' BY DEF SettleRefused, SettleFails, history, Inv, TypeInv, HistoryType
<1>3. Carries(slot[p][s], Idle) BY IdleSlot DEF Carries
<1> QED BY Zenon, <1>1, <1>2, <1>3, IdleSlot, SlotStepKeeps

\* A renewal leaves the lease where it is, or tells the slot it lost it.
LEMMA RenewLeaseStep ==
    ASSUME Inv, NEW p \in Procs, NEW s \in Slots, RenewLease(p, s)
    PROVE  Inv'
<1> DEFINE d == slot[p][s]
           e == [d EXCEPT !.lost = TRUE]
<1>1. d \in Slot /\ d.pc = "running" /\ d.job \in Jobs /\ d.receipt \in Nat
  BY DEF Inv, TypeInv, LifeType, SlotsHoldJobs, RenewLease, Slot
<1>2. phase' = phase /\ latest' = latest /\ HistoryType'
  BY DEF RenewLease, history, Inv, TypeInv, HistoryType
<1>3. CASE Extend(d.job, d.receipt) /\ slot' = slot
  <2>1. Settle(d.job, d.receipt) BY <1>3 DEF Settle
  <2>2. QueueType' /\ Counted' /\ issued' = issued
    BY <1>1, <2>1, SettleCall DEF Inv, TypeInv
  <2>3. \A k \in Jobs : job'[k].state = job[k].state /\ job'[k].receipt = job[k].receipt
    BY <1>1, <1>3 DEF Extend, Inv, TypeInv, QueueType, JobRecord
  <2>4. slot' \in [Procs -> [Slots -> Slot]] /\ SlotsHoldJobs' /\ SlotsCarry
    BY <1>3, SlotsSame DEF Inv
  <2>5. LeasesStand BY <1>3, <2>3 DEF LeasesStand, Inv, TypeInv, SlotsHoldJobs
  <2>6. LeaseInv' BY <1>2, <2>2, <2>4, <2>5, CarryStep DEF Inv
  <2> QED BY <1>2, <2>2, <2>4, <2>6 DEF Inv, TypeInv, LifeType
<1>4. CASE slot' = [slot EXCEPT ![p][s] = e] /\ UNCHANGED queueVars
  <2>1. e \in Slot /\ Carries(d, e) BY <1>1 DEF Slot, Carries
  <2> QED BY Zenon, <1>2, <1>4, <2>1, SlotStepKeeps
<1>5. \/ Extend(d.job, d.receipt) /\ slot' = slot
      \/ slot' = [slot EXCEPT ![p][s] = e] /\ UNCHANGED queueVars
  BY DEF RenewLease
<1> QED BY <1>3, <1>4, <1>5

\* A settlement that takes effect ends the lease of its own slot, which no
\* other slot shares (ack, retry, postpone, giveUp, settled).
LEMMA SettleStep ==
    ASSUME Inv, NEW p \in Procs, NEW s \in Slots, SettleTakesEffect(p, s)
    PROVE  Inv'
<1> DEFINE d == slot[p][s]
<1>1. d \in Slot /\ d.pc # "idle" /\ d.job \in Jobs /\ d.receipt \in Nat
  BY DEF Inv, TypeInv, LifeType, SlotsHoldJobs, SettleTakesEffect, Slot
<1>2. Settle(d.job, d.receipt) BY DEF SettleTakesEffect, Settle
<1>3. /\ QueueType' /\ Counted'
      /\ job[d.job].receipt = d.receipt
      /\ issued' = issued
      /\ \A k \in Jobs \ {d.job} : job'[k] = job[k]
  BY <1>1, <1>2, SettleCall DEF Inv, TypeInv
<1>4. slot' = [slot EXCEPT ![p][s] = Idle] /\ phase' = phase /\ latest' = latest
  BY DEF SettleTakesEffect
<1>5. /\ slot' \in [Procs -> [Slots -> Slot]] /\ SlotsHoldJobs' /\ SlotsCarry
      /\ slot'[p][s] = Idle
      /\ \A q \in Procs, t \in Slots : (q # p \/ t # s) => slot'[q][t] = slot[q][t]
  <2>1. Carries(slot[p][s], Idle) BY IdleSlot DEF Carries
  <2>2. TypeInv BY DEF Inv
  <2>3. Idle \in Slot BY IdleSlot
  <2>4. slot' = [slot EXCEPT ![p][s] = Idle] BY <1>4
  <2>5. slot' \in [Procs -> [Slots -> Slot]] /\ SlotsHoldJobs' /\ SlotsCarry
    BY Zenon, <2>1, <2>2, <2>3, <2>4, OneSlotCarries
  <2>6. /\ slot'[p][s] = Idle
        /\ \A q \in Procs, t \in Slots : (q # p \/ t # s) => slot'[q][t] = slot[q][t]
    BY <2>2, <2>4 DEF TypeInv, LifeType
  <2> QED BY Zenon, <2>5, <2>6
<1>6. LeasesStand
  <2> SUFFICES ASSUME NEW q \in Procs, NEW t \in Slots, slot'[q][t].pc # "idle",
                      job[slot[q][t].job].receipt = slot[q][t].receipt
               PROVE  job'[slot[q][t].job] = job[slot[q][t].job]
    BY DEF LeasesStand
  <2>1. q # p \/ t # s BY <1>5, IdleSlot
  <2>2. slot[q][t].pc # "idle" BY <1>5, <2>1
  <2>3. slot[q][t].receipt # d.receipt BY <1>1, <2>1, <2>2 DEF Inv, LeaseInv, LeasesApart
  <2>4. slot[q][t].job # d.job BY <1>3, <2>3
  <2>5. slot[q][t].job \in Jobs BY <2>2 DEF Inv, TypeInv, SlotsHoldJobs
  <2> QED BY <1>3, <2>4, <2>5
<1>7. LeaseInv' BY <1>3, <1>4, <1>5, <1>6, CarryStep DEF Inv
<1>8. HistoryType'
  <2>1. HistoryType BY DEF Inv, TypeInv
  <2>2. UNCHANGED <<dispatched, succeeded, failedRuns, delivered, interrupted, lessee, latest,
                    unsettled, faults, stops>>
    BY DEF SettleTakesEffect
  <2>3. takenBack' = takenBack \/ takenBack' = [takenBack EXCEPT ![d.job] = @ + 1]
    BY Zenon DEF SettleTakesEffect
  <2>4. takenBack' \in [Jobs -> Nat] BY <2>1, <2>3 DEF HistoryType
  <2>5. reason' = reason \/ (d.op \in Reasons /\ reason' = [reason EXCEPT ![d.job] = d.op])
    BY Zenon DEF SettleTakesEffect
  <2>6. reason' \in [Jobs -> Reasons \cup {"none"}] BY <2>1, <2>5 DEF HistoryType
  <2> QED BY Zenon, <2>1, <2>2, <2>4, <2>6 DEF HistoryType
<1> QED BY <1>3, <1>4, <1>5, <1>7, <1>8 DEF Inv, TypeInv, LifeType

\* Shutdown, exit, crash and restart touch no lease.
LEMMA LifeStep ==
    ASSUME Inv, NEW p \in Procs,
           Stop(p) \/ CancelJobs(p) \/ RunReturns(p) \/ Exit(p) \/ Crash(p) \/ Start(p)
    PROVE  Inv'
<1>1. UNCHANGED queueVars /\ latest' = latest
  BY DEF Stop, CancelJobs, RunReturns, Exit, Crash, Start, history
<1>2. phase' \in [Procs -> Phase]
  BY DEF Stop, CancelJobs, RunReturns, Exit, Crash, Start, Phase, Inv, TypeInv, LifeType
<1>3. slot' = slot \/ slot' = [slot EXCEPT ![p] = [s \in Slots |-> Idle]]
  BY DEF Stop, CancelJobs, RunReturns, Exit, Crash, Start
<1>4. slot' \in [Procs -> [Slots -> Slot]] /\ SlotsHoldJobs' /\ SlotsCarry
  BY <1>3, SlotsSame, SlotsEmptied DEF Inv
<1>5. QueueType' /\ Counted' /\ LeasesStand /\ issued' = issued BY <1>1, QueueSame DEF Inv
<1>6. LeaseInv' BY <1>1, <1>4, <1>5, CarryStep DEF Inv
<1>7. HistoryType'
  <2>0. HistoryType BY DEF Inv, TypeInv
  <2>1. CASE CancelJobs(p)
    <3>1. \A s \in Slots : slot[p][s].pc = "running" => slot[p][s].job \in Jobs
      BY DEF Inv, TypeInv, SlotsHoldJobs
    <3>2. interrupted' \subseteq Jobs
      <4>1. interrupted' = interrupted \cup
                {slot[p][s].job : s \in {t \in Slots : slot[p][t].pc = "running"}}
        BY <2>1 DEF CancelJobs
      <4>2. interrupted \subseteq Jobs BY <2>0 DEF HistoryType
      <4> QED BY <3>1, <4>1, <4>2
    <3>3. UNCHANGED <<dispatched, succeeded, failedRuns, delivered, takenBack, reason, lessee,
                      latest, unsettled, faults, stops>>
      BY <2>1 DEF CancelJobs
    <3> QED BY Zenon, <2>0, <3>2, <3>3 DEF HistoryType
  <2>2. CASE Stop(p)
    <3>1. stops' \in Nat BY <2>0, <2>2 DEF Stop, HistoryType
    <3>2. UNCHANGED <<dispatched, succeeded, failedRuns, delivered, takenBack, reason,
                      interrupted, lessee, latest, unsettled, faults>>
      BY <2>2 DEF Stop
    <3> QED BY Zenon, <2>0, <3>1, <3>2 DEF HistoryType
  <2>3. CASE RunReturns(p) \/ Exit(p)
    BY Zenon, <2>0, <2>3 DEF RunReturns, Exit, history, HistoryType
  <2>4. CASE Crash(p)
    <3>1. faults' \in Nat BY <2>0, <2>4 DEF Crash, HistoryType
    <3>2. UNCHANGED <<dispatched, succeeded, failedRuns, delivered, takenBack, reason,
                      interrupted, lessee, latest, unsettled, stops>>
      BY <2>4 DEF Crash
    <3> QED BY Zenon, <2>0, <3>1, <3>2 DEF HistoryType
  <2>5. CASE Start(p) BY <2>0, <2>5 DEF Start, HistoryType
  <2> QED BY <2>1, <2>2, <2>3, <2>4, <2>5
<1> QED BY <1>2, <1>4, <1>5, <1>6, <1>7 DEF Inv, TypeInv, LifeType

-----------------------------------------------------------------------------

\* No slot works and nothing is leased at the start.
LEMMA InvInit == Init => Inv
<1> SUFFICES ASSUME Init PROVE Inv OBVIOUS
<1>1. Absent \in JobRecord /\ Absent.state # "reserved" BY DEF Absent, JobRecord
<1>2. QueueType /\ Counted BY <1>1 DEF Init, QueueInit, QueueType, Counted
<1>3. \A p \in Procs, s \in Slots : slot[p][s].pc = "idle" BY IdleSlot DEF Init
<1>4. LifeType /\ HistoryType BY IdleSlot DEF Init, LifeType, Phase, HistoryType, Reasons
<1>5. SlotsHoldJobs BY <1>3 DEF SlotsHoldJobs
<1>6. LeaseInv BY <1>3 DEF Init, QueueInit, LeaseInv, LeasesApart, LatestDeliveryStands
<1> QED BY <1>2, <1>4, <1>5, <1>6 DEF Inv, TypeInv

\* Every step keeps the invariant.
LEMMA InvStep == Inv /\ [Next]_vars => Inv'
<1> SUFFICES ASSUME Inv, [Next]_vars PROVE Inv' OBVIOUS
<1>1. ASSUME NEW j \in Jobs, Dispatch(j) \/ Lapse(j) \/ LeaseOutlived(j)
      PROVE  Inv'
  BY <1>1, DispatchStep, RunsOutStep
<1>2. ASSUME NEW p \in Procs, NEW s \in Slots, SlotStep(p, s)
      PROVE  Inv'
  BY <1>2, TakeJobStep, HandleDeliveryStep, RenewLeaseStep, HandlerReturnsStep, SettleStep,
     NotSettledStep DEF SlotStep
<1>3. ASSUME NEW p \in Procs, ProcStep(p)
      PROVE  Inv'
  BY <1>3, LoseReserveReplyStep, LifeStep DEF ProcStep
<1>4. CASE UNCHANGED vars
  <2>0. TypeInv /\ LeaseInv BY DEF Inv
  <2>1. UNCHANGED <<queueVars, phase, slot, history>> /\ latest' = latest
    BY <1>4 DEF vars, history
  <2>2. slot' \in [Procs -> [Slots -> Slot]] /\ SlotsHoldJobs' /\ SlotsCarry
    BY <2>0, <2>1, SlotsSame
  <2>3. QueueType' /\ Counted' /\ LeasesStand /\ issued' = issued BY <2>0, <2>1, QueueSame
  <2>4. LeaseInv' BY <2>0, <2>1, <2>2, <2>3, CarryStep
  <2>5. HistoryType' BY Zenon, <2>0, <2>1 DEF TypeInv, history, HistoryType
  <2> QED BY <2>0, <2>1, <2>2, <2>3, <2>4, <2>5 DEF Inv, TypeInv, LifeType
<1> QED BY <1>1, <1>2, <1>3, <1>4 DEF Next

\* The types of the queue, the processes and their slots hold in every state;
\* a postponement never takes back an attempt that was not counted.
THEOREM TypeCorrect == Spec => []TypeOK
<1>1. Inv => TypeOK
  BY DEF Inv, TypeInv, QueueType, LifeType, HistoryType, TypeOK
<1> QED BY <1>1, InvInit, InvStep, PTL DEF Spec

\* However many workers stall, crash, stop or lose replies, the job a slot
\* works on under its last delivery is never settled by anyone else (process,
\* settled, renewLease).
THEOREM LatestCorrect == Spec => []LatestDeliveryStands
<1>1. Inv => LatestDeliveryStands BY DEF Inv, LeaseInv
<1> QED BY <1>1, InvInit, InvStep, PTL DEF Spec

=============================================================================
