--------------------------- MODULE DeliveryOrder ---------------------------
(***************************************************************************)
(* The order in which the in-memory driver delivers jobs: MemoryQueue with *)
(* a history of which jobs were delivered ahead of each waiting one.       *)
(***************************************************************************)
EXTENDS MemoryQueue

VARIABLE passed  \* history: jobs reserved from j's queue while j stayed available

orderVars == <<vars, passed>>

\* The job the step delivers, if it is a Reserve.
Delivered == {k \in JobKey : receipts' # receipts /\ jobs'[k] # NoJob /\ jobs'[k].receipt = receipts'}

Track ==
    passed' = [j \in JobKey |->
        IF Available(j) /\ jobs'[j] = jobs[j]
        THEN passed[j] \cup {k \in Delivered : k[1] = j[1]}
        ELSE {}]

OrderInit == Init /\ passed = [j \in JobKey |-> {}]

OrderNext == Next /\ Track

OrderSpec == OrderInit /\ [][OrderNext]_orderVars

\* No job is starved on its queue: while it is available, every other job of
\* the queue is delivered ahead of it at most once, however often that job is
\* released, postponed, retried or its lease runs out (before, release and
\* RetryFailed put a returning job behind the ones already due).
NoJobPassedTwice ==
    [][\A j \in JobKey : Available(j) /\ jobs'[j] = jobs[j] =>
         \A k \in Delivered : k[1] = j[1] => k \notin passed[j]]_orderVars

\* What Stats reports as ready is what Reserve can deliver, a lapsed lease
\* included, and the oldest of it is what Reserve delivers first.
StatsMatchReserve ==
    \A q \in Queues :
        /\ Stats(q).ready = AvailableOn(q)
        /\ \A j \in AvailableOn(q) :
              (\A k \in AvailableOn(q) \ {j} : Before(j, k)) => jobs[j].at = Stats(q).oldestReady

============================================================================
