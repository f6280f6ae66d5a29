-------------------------------- MODULE Rest --------------------------------
(***************************************************************************)
(* The REST side of coin-data-rs for one market: the depth-snapshot        *)
(* scheduler with its weighted token bucket (src/src/snapshot.rs), the     *)
(* open-interest poller (src/src/futures_poll.rs) and the back-off they    *)
(* share with the other markets (src/src/rate_limit.rs).  Instants are     *)
(* modelled by the time that is left until them (0 once they have passed), *)
(* so the state space is finite without a bound on time.                   *)
(***************************************************************************)
EXTENDS Integers, Sequences, FiniteSets, Functions

CONSTANTS
    Symbols,
    Concurrency,  \* snapshot_concurrency
    Interval,     \* snapshot_interval_seconds, in units of Tick, like every time below
    Order,        \* the symbols, as initial_jobs enumerates them
    Offset,       \* [Symbols -> Nat]: their first next_run, staggered over the interval
    RetryDelay,   \* pause after a failure without back-off (30 s)
    PauseCap,     \* longest pause of the limiter (60 s)
    RetryCap,     \* longest delay of a failed job (300 s)
    SleepCap,     \* longest sleep of the loop (5 s)
    Blocks,       \* lengths of a back-off: the clamped Retry-After, or 300 s and 60 s
    OtherBlocks,  \* lengths of the back-offs other markets cause
    Capacity,     \* 80 % of the exchange's weight limit per minute
    Refill,       \* what the bucket earns in one Tick
    Weight,       \* request_weight
    Minute,       \* Ticks in a window of the exchange's weight counter
    Polling       \* TRUE if the market has an open-interest poller (not spot)

ASSUME SchedulerAssumption ==   \* validate
    /\ IsFiniteSet(Symbols) /\ Symbols # {} /\ Concurrency \in Nat \ {0}
    /\ Interval \in Nat \ {0} /\ Offset \in [Symbols -> Nat]
    /\ Order \in Seq(Symbols) /\ Range(Order) = Symbols
    /\ \A i, j \in 1..Len(Order) : i < j => Order[i] # Order[j] /\ Offset[Order[i]] <= Offset[Order[j]]
    /\ RetryDelay \in Nat \ {0} /\ PauseCap \in Nat \ {0} /\ RetryCap \in Nat \ {0}
    /\ SleepCap \in Nat \ {0} /\ Blocks \subseteq Nat \ {0} /\ OtherBlocks \subseteq Blocks
    /\ Polling \in BOOLEAN
ASSUME BucketAssumption ==
    /\ Capacity \in Nat /\ Refill \in Nat \ {0} /\ Minute \in Nat \ {0}
    /\ Weight \in Nat \ {0} /\ Weight <= Capacity

\* weight_limit, request_weight_for and the depth limits validate admits: no request weighs
\* more than the bucket holds.
weight_limit(market) == IF market = "spot" THEN 6000 ELSE 2400
request_weight_for(market, limit) ==
    CASE market = "spot" -> IF limit <= 100 THEN 5 ELSE IF limit <= 500 THEN 25
                            ELSE IF limit <= 1000 THEN 50 ELSE 250
      [] market # "spot" -> IF limit <= 50 THEN 2 ELSE IF limit <= 100 THEN 5
                            ELSE IF limit <= 500 THEN 10 ELSE 20
DepthLimits == {5, 10, 20, 50, 100, 500, 1000, 5000}
ASSUME WeightsFit ==
    \A market \in {"spot", "usdm", "coinm"}, limit \in DepthLimits :
        10 * request_weight_for(market, limit) <= 8 * weight_limit(market)

VARIABLES
    tokens,    \* WeightedLimiter.tokens as of last_refill
    earned,    \* refill since last_refill, not yet in tokens
    pause,     \* time left until paused_until
    blocked,   \* time left until BINANCE_REST_BLOCKED_UNTIL
    pc,        \* "fill" (the inner loop), "next" (active.next()), "sleep"
    nap,       \* time left of the sleep
    limited,   \* limiter_wait
    jobs,      \* Seq(Symbols): the VecDeque, sorted by next_run
    next_run,  \* [Symbols -> Nat]: time left until a job is due
    active,    \* [Symbols -> Stage]: where the request of a job is; "no" for a job in jobs
    seen,      \* [Symbols -> Nat]: the used weight its response reported
    poll,      \* symbols whose open interest a round has still to fetch
    polled,    \* symbols fetched in the round
    used,      \* the exchange's weight counter of the current minute
    second     \* Ticks since the minute began

limiter == <<tokens, earned, pause>>
scheduler == <<pc, nap, limited, jobs, next_run, active, seen>>
poller == <<poll, polled>>
vars == <<limiter, blocked, scheduler, poller, used, second>>

Stage == {"no", "sent", "answered"}
Lesser(a, b) == IF a <= b THEN a ELSE b
Less(a) == IF a > 0 THEN a - 1 ELSE 0

Init ==
    /\ tokens = Capacity /\ earned = 0 /\ pause = 0 /\ blocked = 0
    /\ pc = "fill" /\ nap = 0 /\ limited = 0
    /\ jobs = Order /\ next_run = Offset
    /\ active = [s \in Symbols |-> "no"] /\ seen = [s \in Symbols |-> 0]
    /\ poll = {} /\ polled = {} /\ used = 0 /\ second = 0

-----------------------------------------------------------------------------

\* A unit of time.  What the bucket earns beyond its capacity is never used.
Tick ==
    /\ earned' = Lesser(earned + Refill, Capacity)
    /\ pause' = Less(pause) /\ blocked' = Less(blocked) /\ nap' = Less(nap)
    /\ next_run' = [s \in Symbols |-> Less(next_run[s])]
    /\ second' = (second + 1) % Minute
    /\ used' = IF second + 1 = Minute THEN 0 ELSE used
    /\ UNCHANGED <<jobs, tokens, pc, limited, active, seen, poller>>

\* block_for: fetch_max.
Block(length) == blocked' = IF length > blocked THEN length ELSE blocked

\* Another market's REST client is turned away.
OtherBlocked ==
    /\ \E length \in OtherBlocks : Block(length)
    /\ UNCHANGED <<limiter, scheduler, poller, used, second>>

-----------------------------------------------------------------------------
(* WeightedLimiter.                                                        *)

\* refill
\* Mutant: the bucket fills up beyond its capacity.
RefilledUncapped == tokens + earned
Refilled == Lesser(tokens + earned, Capacity)

\* wait_for takes the weight, or says how long to wait.
Grants == pause = 0 /\ Weight <= Refilled
WaitFor == IF pause > 0 THEN pause ELSE (Weight - Refilled + Refill - 1) \div Refill

\* observe_used_weight: what is not yet refilled is not looked at.
Observed(weight) == Lesser(tokens, IF Capacity > weight THEN Capacity - weight ELSE 0)

-----------------------------------------------------------------------------
(* SnapshotSyncer::run.                                                    *)

InFlight == {s \in Symbols : active[s] # "no"}
HasSlot == Cardinality(InFlight) < Concurrency
Front(s) == jobs # <<>> /\ s = Head(jobs)
MayStart(s) == pc = "fill" /\ HasSlot /\ Front(s) /\ next_run[s] = 0

\* push_back and the sort at the top of the loop: a job goes behind those due no later than
\* it, which stand in front.
\* Mutant: the queue is not sorted and the job goes to the front.
Sooner(delay) == Cardinality({i \in 1..Len(jobs) : next_run[jobs[i]] <= delay})
RequeuedFirst(s, delay) == <<s>> \o jobs
Requeued(s, delay) ==
    SubSeq(jobs, 1, Sooner(delay)) \o <<s>> \o SubSeq(jobs, Sooner(delay) + 1, Len(jobs))
Requeue(s, delay) ==
    /\ jobs' = Requeued(s, delay)
    /\ next_run' = [next_run EXCEPT ![s] = delay]
    /\ active' = [active EXCEPT ![s] = "no"] /\ seen' = [seen EXCEPT ![s] = 0]

\* The front job is due and the limiter grants its weight: the request goes out.
\* Mutant: the weight is not taken from the bucket.
StartRequestFree(s) ==
    /\ MayStart(s) /\ Grants
    /\ tokens' = Refilled /\ earned' = 0
    /\ jobs' = Tail(jobs) /\ active' = [active EXCEPT ![s] = "sent"]
    /\ used' = used + Weight
    /\ UNCHANGED <<pause, blocked, pc, nap, limited, next_run, seen, poller, second>>
StartRequest(s) ==
    /\ MayStart(s) /\ Grants
    /\ tokens' = Refilled - Weight /\ earned' = 0
    /\ jobs' = Tail(jobs) /\ active' = [active EXCEPT ![s] = "sent"]
    /\ used' = used + Weight
    /\ UNCHANGED <<pause, blocked, pc, nap, limited, next_run, seen, poller, second>>

\* It is due and the limiter does not: the job stays in front.
Limited(s) ==
    /\ MayStart(s) /\ ~Grants
    /\ tokens' = Refilled /\ earned' = 0
    /\ limited' = WaitFor
    /\ pc' = "next"
    /\ UNCHANGED <<jobs, pause, blocked, nap, next_run, active, seen, poller, used, second>>

\* Every slot is taken, or no job is due.
Filled ==
    /\ pc = "fill" /\ \A s \in Symbols : ~MayStart(s)
    /\ pc' = "next"
    /\ UNCHANGED <<jobs, limiter, blocked, nap, limited, next_run, active, seen, poller, used, second>>

\* The requests run inside active.next(): one that ends is handled at once, the others are
\* not polled before the next round.

\* A failure: the job is queued again and the limiter pauses, both for a bounded time.
Retry(s, remaining) ==
    LET retry == IF remaining > 0 THEN remaining ELSE RetryDelay IN
    /\ Requeue(s, Lesser(retry, RetryCap))
    /\ pause' = Lesser(retry, PauseCap)
    /\ pc' = "fill" /\ limited' = 0

\* observe_response: 418 and 429 start a back-off.
Rejected(s) ==
    /\ pc = "next" /\ active[s] = "sent"
    /\ \E length \in Blocks : Block(length)
    /\ Retry(s, blocked')
    /\ UNCHANGED <<tokens, earned, nap, poller, used, second>>

\* Any other error, of the request or of the upload.
Failed(s) ==
    /\ pc = "next" /\ active[s] \in {"sent", "answered"}
    /\ Retry(s, blocked)
    /\ UNCHANGED <<tokens, earned, blocked, nap, poller, used, second>>

\* The response reports the used weight, or has no such header; the upload begins.
Answered(s) ==
    /\ pc = "next" /\ active[s] = "sent"
    /\ active' = [active EXCEPT ![s] = "answered"]
    /\ \E weight \in {0, used} : seen' = [seen EXCEPT ![s] = weight]
    /\ UNCHANGED <<jobs, limiter, blocked, pc, nap, limited, next_run, poller, used, second>>

\* The snapshot is stored: only now does the limiter hear of the used weight.
Stored(s) ==
    /\ pc = "next" /\ active[s] = "answered"
    /\ tokens' = Observed(seen[s])
    /\ Requeue(s, Interval)
    /\ pc' = "fill" /\ limited' = 0
    /\ UNCHANGED <<earned, pause, blocked, nap, poller, used, second>>

\* Nothing is in flight: sleep until the front job is due or the limiter is.
Sleep(s) ==
    /\ pc = "next" /\ InFlight = {} /\ Front(s)
    /\ nap' = Lesser(SleepCap, IF limited = 0 THEN next_run[s]
                               ELSE IF next_run[s] = 0 THEN limited
                               ELSE Lesser(next_run[s], limited))
    /\ pc' = "sleep"
    /\ UNCHANGED <<jobs, limiter, blocked, limited, next_run, active, seen, poller, used, second>>

Wake ==
    /\ pc = "sleep" /\ nap = 0
    /\ pc' = "fill" /\ limited' = 0
    /\ UNCHANGED <<jobs, limiter, blocked, nap, next_run, active, seen, poller, used, second>>

-----------------------------------------------------------------------------
(* OpenInterestPoller::run, once a minute; skipped during a back-off.      *)

PollStart ==
    /\ Polling /\ poll = {} /\ polled = {} /\ blocked = 0
    /\ poll' = Symbols
    /\ UNCHANGED <<limiter, blocked, scheduler, polled, used, second>>

\* One request is answered; a failure during a back-off ends the round.
PollAnswer(s) ==
    /\ s \in poll
    /\ \/ poll' = poll \ {s} /\ polled' = polled \cup {s} /\ UNCHANGED blocked
       \/ poll' = (IF blocked > 0 THEN {} ELSE poll \ {s}) /\ UNCHANGED <<polled, blocked>>
       \/ poll' = {} /\ UNCHANGED polled /\ \E length \in Blocks : Block(length)
    /\ UNCHANGED <<limiter, scheduler, used, second>>

\* writer.records of what the round got.
PollDone ==
    /\ poll = {} /\ polled # {}
    /\ polled' = {}
    /\ UNCHANGED <<limiter, blocked, scheduler, poll, used, second>>

-----------------------------------------------------------------------------

Scheduler ==
    \/ Filled \/ Wake
    \/ \E s \in Symbols : StartRequest(s) \/ Limited(s) \/ Sleep(s)
Fetch(s) == Rejected(s) \/ Failed(s) \/ Answered(s) \/ Stored(s)

Next ==
    \/ Tick \/ OtherBlocked \/ Scheduler
    \/ \E s \in Symbols : Fetch(s) \/ PollAnswer(s)
    \/ PollStart \/ PollDone

Spec == Init /\ [][Next]_vars

\* Time passes; the runtime polls the scheduler and its requests; every request ends, in one
\* way or another (REST_TIMEOUT; the S3 client's own limits).  FuturesUnordered polls woken
\* requests in the order in which they woke, so none is passed over forever.
Fairness ==
    /\ WF_vars(Tick) /\ WF_vars(Scheduler)
    /\ \A s \in Symbols : SF_vars(Fetch(s))

LiveSpec == Spec /\ Fairness

-----------------------------------------------------------------------------

\* Every variable keeps its type: the bucket is never overdrawn or overfull, no more requests
\* are in flight than allowed, and each symbol has its one job, queued or in flight.
BucketTypes == tokens \in 0..Capacity /\ earned \in 0..Capacity /\ used \in Nat /\ second \in 0..(Minute - 1)
TypeOK ==
    /\ BucketTypes
    /\ pause \in Nat /\ blocked \in Nat /\ nap \in Nat /\ limited \in Nat
    /\ pc \in {"fill", "next", "sleep"}
    /\ next_run \in [Symbols -> Nat] /\ active \in [Symbols -> Stage] /\ seen \in [Symbols -> Nat]
    /\ poll \subseteq Symbols /\ polled \subseteq Symbols
    /\ jobs \in Seq(Symbols) /\ Range(jobs) = Symbols \ InFlight
    /\ Len(jobs) = Cardinality(Range(jobs)) /\ Cardinality(InFlight) <= Concurrency

\* In every minute of the exchange's counter the scheduler spends at most a full bucket and
\* what it earns in the part of the minute that has passed, however requests overlap, fail
\* or report their weight late.
BucketLaw == used <= Capacity + Refill * second

\* No symbol is forgotten: its snapshot is requested again and again, though other requests
\* fail, back-offs follow each other and the bucket runs dry.
NeverStarved == \A s \in Symbols : []<>(active[s] = "sent")

\* "HTTP 429/418 responses pause the scheduler": no snapshot is requested before the end of
\* a back-off.
NoRequestWhileBlocked ==
    [][\A s \in Symbols : active[s] = "no" /\ active'[s] = "sent" => blocked = 0]_vars

=============================================================================
