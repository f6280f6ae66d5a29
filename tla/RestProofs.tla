----------------------------- MODULE RestProofs -----------------------------
(***************************************************************************)
(* The law of the weighted token bucket, for every number of symbols,      *)
(* every concurrency and every rate.                                       *)
(***************************************************************************)
EXTENDS Rest, FiniteSetTheorems, TLAPS

\* What the scheduler has spent in this minute and could spend at once is at most a full
\* bucket and what the minute has earned so far.
SpentBound == used + Refilled <= Capacity + Refill * second
BucketInv == BucketTypes /\ SpentBound

LEMMA LesserBounds ==
    ASSUME NEW a \in Int, NEW b \in Int
    PROVE  Lesser(a, b) \in Int /\ Lesser(a, b) <= a /\ Lesser(a, b) <= b
  BY DEF Lesser

\* The arithmetic of the steps, with the product named.
LEMMA SumStarts ==
    ASSUME NEW u, u = 0, NEW r \in Int, NEW k, k = 0, NEW c \in Nat, r <= c
    PROVE  u + r <= c + k
  OBVIOUS
LEMMA SumStays ==
    ASSUME NEW u \in Nat, NEW r \in Int, NEW r2 \in Int, NEW k \in Int, NEW c \in Nat,
           u + r <= c + k, r2 <= r
    PROVE  u + r2 <= c + k
  OBVIOUS
LEMMA SumGrows ==
    ASSUME NEW u \in Nat, NEW r \in Int, NEW r2 \in Int, NEW k \in Int, NEW k2 \in Int,
           NEW c \in Nat, NEW d \in Nat, u + r <= c + k, r2 <= r + d, k2 = k + d
    PROVE  u + r2 <= c + k2
  OBVIOUS

LEMMA BucketInit == Init => BucketInv
  BY BucketAssumption DEF Init, BucketInv, BucketTypes, SpentBound, Refilled, Lesser

\* A Tick adds at most Refill to both sides; a new minute forgets what was spent.
LEMMA BucketTick == ASSUME BucketInv, Tick PROVE BucketInv'
<1> USE BucketAssumption
<1>1. /\ earned' = Lesser(earned + Refill, Capacity) /\ tokens' = tokens
      /\ second' = (second + 1) % Minute
      /\ used' = IF second + 1 = Minute THEN 0 ELSE used
  BY DEF Tick
<1>2. /\ tokens \in 0..Capacity /\ earned \in 0..Capacity /\ used \in Nat
      /\ second \in 0..(Minute - 1) /\ SpentBound
  BY DEF BucketInv, BucketTypes
<1>3. earned' \in 0..Capacity /\ tokens' \in 0..Capacity
  BY <1>1, <1>2 DEF Lesser
<1>4. Refilled' = Lesser(tokens' + earned', Capacity) /\ tokens' + earned' \in Int
  BY <1>3 DEF Refilled
<1>5. CASE second + 1 = Minute
  <2>1. second' = 0 /\ used' = 0
    BY <1>1, <1>2, <1>5
  <2>2. Refill * second' = 0
    BY <2>1
  <2>3. Refilled' <= Capacity /\ Refilled' \in Int
    BY <1>4, LesserBounds
  <2>4. used' + Refilled' <= Capacity + Refill * second'
    BY <2>1, <2>2, <2>3, SumStarts
  <2>5. second' \in 0..(Minute - 1) /\ used' \in Nat
    BY <2>1
  <2>6. QED
    BY <1>3, <2>4, <2>5 DEF BucketInv, BucketTypes, SpentBound
<1>6. CASE second + 1 # Minute
  <2>1. second' = second + 1 /\ used' = used /\ second' \in 0..(Minute - 1)
    BY <1>1, <1>2, <1>6
  <2>2. Refill * second' = Refill * second + Refill
    BY <1>2, <2>1
  <2>3. /\ Refill * second \in Nat /\ Refill * second' \in Nat
    BY <1>2, <2>1
  <2>4. Refilled' <= Refilled + Refill
    BY <1>1, <1>2, <1>3 DEF Refilled, Lesser
  <2>5. Refilled \in Int
    BY <1>2 DEF Refilled, Lesser
  <2>6. Refilled' \in Int
    BY <1>4, LesserBounds
  <2>7. used + Refilled' <= Capacity + Refill * second'
    BY <1>2, <2>2, <2>3, <2>4, <2>5, <2>6, SumGrows DEF SpentBound
  <2>8. SpentBound'
    BY <2>1, <2>7 DEF SpentBound
  <2>9. QED
    BY <1>3, <1>2, <2>1, <2>8 DEF BucketInv, BucketTypes
<1>7. QED
  BY <1>5, <1>6

\* A request is paid for from the bucket.
LEMMA BucketStart == ASSUME BucketInv, NEW s \in Symbols, StartRequest(s) PROVE BucketInv'
<1> USE BucketAssumption
<1>1. /\ Weight <= Refilled /\ tokens' = Refilled - Weight /\ earned' = 0
      /\ used' = used + Weight /\ second' = second
  BY DEF StartRequest, Grants
<1>2. /\ tokens \in 0..Capacity /\ earned \in 0..Capacity /\ used \in Nat
      /\ second \in 0..(Minute - 1) /\ SpentBound
  BY DEF BucketInv, BucketTypes
<1>3. Refilled \in 0..Capacity
  BY <1>2 DEF Refilled, Lesser
<1>4. tokens' \in 0..Capacity /\ earned' \in 0..Capacity /\ used' \in Nat
  BY <1>1, <1>2, <1>3
<1>5. Refilled' = Refilled - Weight
  BY <1>1, <1>3, <1>4 DEF Refilled, Lesser
<1>6. Refill * second \in Nat
  BY <1>2
<1>7. SpentBound'
  BY <1>1, <1>2, <1>3, <1>5, <1>6 DEF SpentBound
<1>8. QED
  BY <1>1, <1>2, <1>4, <1>7 DEF BucketInv, BucketTypes

\* Refilling early changes nothing; an observed weight only takes away.
LEMMA BucketLimited == ASSUME BucketInv, NEW s \in Symbols, Limited(s) PROVE BucketInv'
<1> USE BucketAssumption
<1>1. tokens' = Refilled /\ earned' = 0 /\ used' = used /\ second' = second
  BY DEF Limited
<1>2. /\ tokens \in 0..Capacity /\ earned \in 0..Capacity /\ used \in Nat
      /\ second \in 0..(Minute - 1) /\ SpentBound
  BY DEF BucketInv, BucketTypes
<1>3. Refilled \in 0..Capacity
  BY <1>2 DEF Refilled, Lesser
<1>4. Refilled' = Refilled
  BY <1>1, <1>3 DEF Refilled, Lesser
<1>5. QED
  BY <1>1, <1>2, <1>3, <1>4 DEF BucketInv, BucketTypes, SpentBound

LEMMA BucketObserved ==
    ASSUME BucketInv, NEW s \in Symbols, seen[s] \in Nat, Stored(s) PROVE BucketInv'
<1> USE BucketAssumption
<1>1. tokens' = Observed(seen[s]) /\ earned' = earned /\ used' = used /\ second' = second
  BY DEF Stored
<1>2. /\ tokens \in 0..Capacity /\ earned \in 0..Capacity /\ used \in Nat
      /\ second \in 0..(Minute - 1) /\ SpentBound
  BY DEF BucketInv, BucketTypes
<1>3. tokens' \in 0..Capacity /\ tokens' <= tokens
  BY <1>1, <1>2 DEF Observed, Lesser
<1>4. Refilled' <= Refilled /\ Refilled \in Int /\ Refilled' \in Int
  BY <1>1, <1>2, <1>3 DEF Refilled, Lesser
<1>5. Refill * second \in Nat
  BY <1>2
<1>6. used + Refilled' <= Capacity + Refill * second
  <2>1. used + Refilled <= Capacity + Refill * second
    BY <1>2 DEF SpentBound
  <2>2. used \in Nat /\ Capacity \in Nat
    BY <1>2
  <2>3. QED
    BY <1>4, <1>5, <2>1, <2>2, SumStays
<1>7. SpentBound'
  BY <1>1, <1>6 DEF SpentBound
<1>8. QED
  BY <1>1, <1>2, <1>3, <1>7 DEF BucketInv, BucketTypes

\* Reported weights stay numbers.
SeenInv == used \in Nat /\ seen \in [Symbols -> Nat]

LEMMA SeenStep == ASSUME SeenInv, [Next]_vars PROVE SeenInv'
<1> USE BucketAssumption DEF SeenInv
<1>1. CASE Tick
  BY <1>1 DEF Tick
<1>2. CASE OtherBlocked
  BY <1>2 DEF OtherBlocked, scheduler
<1>3. CASE Filled \/ Wake
  BY <1>3 DEF Filled, Wake
<1>4. ASSUME NEW s \in Symbols, StartRequest(s) \/ Limited(s) \/ Sleep(s) PROVE SeenInv'
  BY <1>4 DEF StartRequest, Limited, Sleep
<1>5. ASSUME NEW s \in Symbols, Fetch(s) PROVE SeenInv'
  <2>1. CASE Rejected(s) \/ Failed(s) \/ Stored(s)
    BY <2>1 DEF Rejected, Failed, Stored, Retry, Requeue
  <2>2. CASE Answered(s)
    BY <2>2 DEF Answered
  <2>3. QED
    BY <1>5, <2>1, <2>2 DEF Fetch
<1>6. ASSUME NEW s \in Symbols, PollAnswer(s) PROVE SeenInv'
  BY <1>6 DEF PollAnswer, scheduler
<1>7. CASE PollStart \/ PollDone \/ UNCHANGED vars
  BY <1>7 DEF PollStart, PollDone, scheduler, vars
<1>8. QED
  BY <1>1, <1>2, <1>3, <1>4, <1>5, <1>6, <1>7 DEF Next, Scheduler

LEMMA BucketStep == ASSUME BucketInv, SeenInv, [Next]_vars PROVE BucketInv'
<1>0. ASSUME UNCHANGED <<tokens, earned, used, second>> PROVE BucketInv'
  BY <1>0 DEF BucketInv, BucketTypes, SpentBound, Refilled
<1>1. CASE Tick
  BY <1>1, BucketTick
<1>2. CASE OtherBlocked
  BY <1>0, <1>2 DEF OtherBlocked, limiter
<1>3. CASE Filled \/ Wake
  BY <1>0, <1>3 DEF Filled, Wake, limiter
<1>4. ASSUME NEW s \in Symbols, StartRequest(s) \/ Limited(s) \/ Sleep(s) PROVE BucketInv'
  <2>1. CASE Sleep(s)
    BY <1>0, <2>1 DEF Sleep, limiter
  <2>2. QED
    BY <1>4, <2>1, BucketStart, BucketLimited
<1>5. ASSUME NEW s \in Symbols, Fetch(s) PROVE BucketInv'
  <2>1. CASE Rejected(s) \/ Failed(s)
    BY <1>0, <2>1 DEF Rejected, Failed
  <2>2. CASE Answered(s)
    BY <1>0, <2>2 DEF Answered, limiter
  <2>3. CASE Stored(s)
    BY <2>3, BucketObserved DEF SeenInv
  <2>4. QED
    BY <1>5, <2>1, <2>2, <2>3 DEF Fetch
<1>6. ASSUME NEW s \in Symbols, PollAnswer(s) PROVE BucketInv'
  BY <1>0, <1>6 DEF PollAnswer, limiter
<1>7. CASE PollStart \/ PollDone \/ UNCHANGED vars
  BY <1>0, <1>7 DEF PollStart, PollDone, limiter, vars
<1>8. QED
  BY <1>1, <1>2, <1>3, <1>4, <1>5, <1>6, <1>7 DEF Next, Scheduler

\* In no minute of the exchange's counter do the snapshot requests of a market weigh more
\* than the capacity of its WeightedLimiter and what the bucket has earned in that minute,
\* in whatever order requests start, fail, answer and are observed.
THEOREM BucketHolds == Spec => []BucketLaw
<1>1. Init => BucketInv /\ SeenInv
  BY BucketInit DEF Init, SeenInv
<1>2. BucketInv /\ SeenInv /\ [Next]_vars => BucketInv' /\ SeenInv'
  BY BucketStep, SeenStep
<1>3. BucketInv => BucketLaw
  <2> SUFFICES ASSUME BucketInv PROVE BucketLaw
    OBVIOUS
  <2>1. Refilled >= 0 /\ Refilled \in Int /\ used \in Nat /\ Refill * second \in Int
    BY BucketAssumption DEF BucketInv, BucketTypes, Refilled, Lesser
  <2>2. QED
    BY <2>1, BucketAssumption DEF BucketInv, SpentBound, BucketLaw
<1>4. QED
  BY <1>1, <1>2, <1>3, PTL DEF Spec

-----------------------------------------------------------------------------
(* The jobs: the queue is sorted, and each symbol is in it or in flight.   *)

ClockInv ==
    /\ pause \in Nat /\ blocked \in Nat /\ nap \in Nat /\ limited \in Nat
    /\ pc \in {"fill", "next", "sleep"}
    /\ next_run \in [Symbols -> Nat] /\ active \in [Symbols -> Stage]
    /\ poll \subseteq Symbols /\ polled \subseteq Symbols

JobsOnce == \A i, j \in 1..Len(jobs) : jobs[i] = jobs[j] => i = j
JobsIdle == \A s \in Symbols : active[s] = "no" <=> \E i \in 1..Len(jobs) : jobs[i] = s
\* The loop looks at the front job only: it is the one that is due first.
JobsSorted == \A i, j \in 1..Len(jobs) : i < j => next_run[jobs[i]] <= next_run[jobs[j]]
SlotsKept == Cardinality(InFlight) <= Concurrency

JobInv == jobs \in Seq(Symbols) /\ JobsOnce /\ JobsIdle /\ JobsSorted /\ SlotsKept

LEMMA LesserNat == ASSUME NEW a \in Nat, NEW b \in Nat PROVE Lesser(a, b) \in Nat
  BY DEF Lesser

LEMMA LessNat ==
    ASSUME NEW a \in Nat, NEW b \in Nat
    PROVE  Less(a) \in Nat /\ (a <= b => Less(a) <= Less(b))
  BY DEF Less

LEMMA QuotientNat == ASSUME NEW a \in Nat, NEW b \in Nat \ {0} PROVE a \div b \in Nat
  OBVIOUS

LEMMA WaitForNat == ASSUME BucketInv, ClockInv, ~Grants PROVE WaitFor \in Nat
<1> USE BucketAssumption
<1>1. Refilled \in Nat
  BY DEF BucketInv, BucketTypes, Refilled, Lesser
<1>2. CASE pause > 0
  BY <1>2 DEF ClockInv, WaitFor
<1>3. CASE ~(pause > 0)
  <2>1. pause = 0
    BY <1>3 DEF ClockInv
  <2>2. Weight - Refilled + Refill - 1 \in Nat
    BY <1>1, <2>1 DEF Grants
  <2>3. QED
    BY <2>2, <1>3, QuotientNat DEF WaitFor
<1>4. QED
  BY <1>2, <1>3

LEMMA BlockNat == ASSUME ClockInv, NEW length \in Nat, Block(length) PROVE blocked' \in Nat
  BY DEF Block, ClockInv

LEMMA RetryClock ==
    ASSUME ClockInv, NEW s \in Symbols, NEW remaining \in Nat, Retry(s, remaining)
    PROVE  /\ pause' \in Nat /\ limited' \in Nat /\ pc' = "fill"
           /\ next_run' \in [Symbols -> Nat] /\ active' \in [Symbols -> Stage]
           /\ \E delay \in Nat : Requeue(s, delay)
<1> DEFINE retry == IF remaining > 0 THEN remaining ELSE RetryDelay
<1>1. retry \in Nat
  BY SchedulerAssumption
<1>2. /\ Requeue(s, Lesser(retry, RetryCap)) /\ pause' = Lesser(retry, PauseCap)
      /\ pc' = "fill" /\ limited' = 0
  BY DEF Retry
<1> HIDE DEF retry
<1>3. Lesser(retry, RetryCap) \in Nat /\ Lesser(retry, PauseCap) \in Nat
  BY <1>1, SchedulerAssumption, LesserNat
<1>4. next_run' = [next_run EXCEPT ![s] = Lesser(retry, RetryCap)] /\ active' = [active EXCEPT ![s] = "no"]
  BY <1>2 DEF Requeue
<1>5. QED
  BY <1>2, <1>3, <1>4 DEF ClockInv, Stage

LEMMA ClockInit == Init => ClockInv
  BY SchedulerAssumption DEF Init, ClockInv, Stage

LEMMA ClockFetch == ASSUME ClockInv, NEW s \in Symbols, Fetch(s) PROVE ClockInv'
<1>1. CASE Rejected(s)
  <2>1. blocked' \in Nat /\ Retry(s, blocked')
    BY <1>1, BlockNat, SchedulerAssumption DEF Rejected
  <2>2. nap' = nap /\ poll' = poll /\ polled' = polled
    BY <1>1 DEF Rejected, poller
  <2>3. QED
    BY <2>1, <2>2, RetryClock DEF ClockInv
<1>2. CASE Failed(s)
  <2>1. blocked' = blocked /\ blocked \in Nat /\ Retry(s, blocked)
    BY <1>2 DEF Failed, ClockInv
  <2>2. nap' = nap /\ poll' = poll /\ polled' = polled
    BY <1>2 DEF Failed, poller
  <2>3. QED
    BY <2>1, <2>2, RetryClock DEF ClockInv
<1>3. CASE Answered(s)
  BY <1>3 DEF Answered, ClockInv, Stage, limiter, poller
<1>4. CASE Stored(s)
  BY <1>4, SchedulerAssumption DEF Stored, Requeue, ClockInv, Stage, poller
<1>5. QED
  BY <1>1, <1>2, <1>3, <1>4 DEF Fetch

LEMMA ClockStep == ASSUME ClockInv, BucketInv, [Next]_vars PROVE ClockInv'
<1> USE SchedulerAssumption
<1>1. CASE Tick
  BY <1>1, LessNat DEF Tick, ClockInv, poller
<1>2. CASE OtherBlocked
  <2>1. blocked' \in Nat
    BY <1>2, BlockNat DEF OtherBlocked
  <2>2. QED
    BY <1>2, <2>1 DEF OtherBlocked, ClockInv, limiter, scheduler, poller
<1>3. CASE Filled \/ Wake
  BY <1>3 DEF Filled, Wake, ClockInv, limiter, poller
<1>4. ASSUME NEW s \in Symbols, StartRequest(s) PROVE ClockInv'
  BY <1>4 DEF StartRequest, ClockInv, Stage, poller
<1>5. ASSUME NEW s \in Symbols, Limited(s) PROVE ClockInv'
  BY <1>5, WaitForNat DEF Limited, ClockInv, poller
<1>6. ASSUME NEW s \in Symbols, Sleep(s) PROVE ClockInv'
  <2>1. nap' \in Nat
    BY <1>6 DEF Sleep, ClockInv, Lesser
  <2>2. QED
    BY <1>6, <2>1 DEF Sleep, ClockInv, limiter, poller
<1>7. ASSUME NEW s \in Symbols, PollAnswer(s) PROVE ClockInv'
  <2>1. blocked' \in Nat
    BY <1>7, BlockNat DEF PollAnswer, ClockInv
  <2>2. poll' \subseteq Symbols /\ polled' \subseteq Symbols
    BY <1>7 DEF PollAnswer, ClockInv
  <2>3. QED
    BY <1>7, <2>1, <2>2 DEF PollAnswer, ClockInv, limiter, scheduler
<1>8. CASE PollStart \/ PollDone \/ UNCHANGED vars
  BY <1>8 DEF PollStart, PollDone, ClockInv, limiter, scheduler, poller, vars
<1>9. QED
  BY <1>1, <1>2, <1>3, <1>4, <1>5, <1>6, <1>7, <1>8, ClockFetch DEF Next, Scheduler

LEMMA Joined ==
    ASSUME NEW S, NEW p \in Seq(S), NEW q \in Seq(S)
    PROVE  /\ p \o q \in Seq(S) /\ Len(p \o q) = Len(p) + Len(q) /\ Len(p) \in Nat /\ Len(q) \in Nat
           /\ \A i \in 1..(Len(p) + Len(q)) : (p \o q)[i] = IF i <= Len(p) THEN p[i] ELSE q[i - Len(p)]
  OBVIOUS

LEMMA JoinedThree ==
    ASSUME NEW S, NEW a \in Seq(S), NEW s \in S, NEW b \in Seq(S)
    PROVE  /\ a \o <<s>> \o b \in Seq(S) /\ Len(a \o <<s>> \o b) = Len(a) + 1 + Len(b)
           /\ \A i \in 1..(Len(a) + 1 + Len(b)) :
                (a \o <<s>> \o b)[i] =
                    IF i <= Len(a) THEN a[i] ELSE IF i = Len(a) + 1 THEN s ELSE b[i - (Len(a) + 1)]
<1>1. <<s>> \in Seq(S) /\ Len(<<s>>) = 1 /\ <<s>>[1] = s
  OBVIOUS
<1>2. /\ a \o <<s>> \in Seq(S) /\ Len(a \o <<s>>) = Len(a) + 1 /\ Len(a) \in Nat /\ Len(b) \in Nat
      /\ \A i \in 1..(Len(a) + 1) : (a \o <<s>>)[i] = IF i <= Len(a) THEN a[i] ELSE s
  OBVIOUS
<1>3. PICK f \in Seq(S) : f = a \o <<s>>
  BY <1>2
<1>4. /\ f \o b \in Seq(S) /\ Len(f \o b) = Len(f) + Len(b)
      /\ \A i \in 1..(Len(f) + Len(b)) : (f \o b)[i] = IF i <= Len(f) THEN f[i] ELSE b[i - Len(f)]
  BY Joined
<1>5. Len(f) = Len(a) + 1 /\ \A i \in 1..(Len(a) + 1) : f[i] = IF i <= Len(a) THEN a[i] ELSE s
  BY <1>2, <1>3
<1>6. ASSUME NEW i \in 1..(Len(a) + 1 + Len(b))
      PROVE  (f \o b)[i] = IF i <= Len(a) THEN a[i] ELSE IF i = Len(a) + 1 THEN s ELSE b[i - (Len(a) + 1)]
  <2>1. (f \o b)[i] = IF i <= Len(a) + 1 THEN f[i] ELSE b[i - (Len(a) + 1)]
    BY <1>4, <1>5
  <2>2. i \in 1..(Len(a) + 1) \/ i > Len(a) + 1
    BY <1>2
  <2>3. QED
    BY <1>2, <1>5, <2>1, <2>2
<1>7. QED
  BY <1>3, <1>4, <1>5, <1>6

\* An element goes in behind the first k.
LEMMA Inserted ==
    \A q \in Seq(Symbols), s \in Symbols : \A k \in 0..Len(q) :
        \E r \in Seq(Symbols) :
          /\ r = SubSeq(q, 1, k) \o <<s>> \o SubSeq(q, k + 1, Len(q)) /\ Len(r) = Len(q) + 1
          /\ \A i \in 1..(Len(q) + 1) : r[i] = IF i <= k THEN q[i] ELSE IF i = k + 1 THEN s ELSE q[i - 1]
<1> TAKE q \in Seq(Symbols), s \in Symbols
<1> TAKE k \in 0..Len(q)
<1>0. Len(q) \in Nat /\ k \in Nat
  OBVIOUS
<1>x. /\ SubSeq(q, 1, k) \in Seq(Symbols) /\ Len(SubSeq(q, 1, k)) = k
      /\ \A i \in 1..k : SubSeq(q, 1, k)[i] = q[i]
  OBVIOUS
<1>y. /\ SubSeq(q, k + 1, Len(q)) \in Seq(Symbols) /\ Len(SubSeq(q, k + 1, Len(q))) = Len(q) - k
      /\ \A i \in 1..(Len(q) - k) : SubSeq(q, k + 1, Len(q))[i] = q[i + k]
  OBVIOUS
<1>1. PICK a \in Seq(Symbols) : a = SubSeq(q, 1, k) /\ Len(a) = k /\ \A i \in 1..k : a[i] = q[i]
  BY <1>x, Zenon
<1>2. PICK b \in Seq(Symbols) : /\ b = SubSeq(q, k + 1, Len(q)) /\ Len(b) = Len(q) - k
                          /\ \A i \in 1..(Len(q) - k) : b[i] = q[i + k]
  BY <1>y, Zenon
<1>3. /\ a \o <<s>> \o b \in Seq(Symbols) /\ Len(a \o <<s>> \o b) = Len(a) + 1 + Len(b)
      /\ \A i \in 1..(Len(a) + 1 + Len(b)) :
            (a \o <<s>> \o b)[i] =
                IF i <= Len(a) THEN a[i] ELSE IF i = Len(a) + 1 THEN s ELSE b[i - (Len(a) + 1)]
  BY JoinedThree
<1>4. PICK r \in Seq(Symbols) : r = a \o <<s>> \o b
  BY <1>3
<1>5. Len(r) = Len(q) + 1
  <2>1. Len(r) = Len(a) + 1 + Len(b)
    BY <1>3, <1>4
  <2>2. Len(a) = k /\ Len(b) = Len(q) - k
    BY <1>1, <1>2
  <2>3. QED
    BY <1>0, <2>1, <2>2
<1>6. ASSUME NEW i \in 1..(Len(q) + 1)
      PROVE  r[i] = IF i <= k THEN q[i] ELSE IF i = k + 1 THEN s ELSE q[i - 1]
  <2>0. i \in 1..(Len(a) + 1 + Len(b))
    <3>1. Len(a) + 1 + Len(b) = Len(q) + 1
      <4>1. Len(a) = k
        BY <1>1
      <4>2. Len(b) = Len(q) - k
        BY <1>2
      <4>3. QED
        BY <1>0, <4>1, <4>2
    <3>2. QED
      BY <3>1
  <2>1. r[i] = IF i <= k THEN a[i] ELSE IF i = k + 1 THEN s ELSE b[i - (k + 1)]
    BY <1>1, <1>3, <1>4, <2>0
  <2>2. CASE i <= k + 1
    BY <1>0, <1>1, <2>1, <2>2
  <2>3. CASE i > k + 1
    <3>1. i - (k + 1) \in 1..(Len(q) - k) /\ i - (k + 1) + k = i - 1
      BY <1>0, <2>3
    <3>2. b[i - (k + 1)] = q[i - 1]
      BY <1>2, <3>1
    <3>3. QED
      BY <1>0, <2>1, <2>3, <3>2
  <2>4. QED
    BY <1>0, <2>2, <2>3
<1>7. QED
  BY <1>1, <1>2, <1>4, <1>5, <1>6

\* In a sorted queue the jobs due within delay are the first Sooner(delay).
LEMMA SoonerFirst ==
    ASSUME jobs \in Seq(Symbols), next_run \in [Symbols -> Nat], JobsSorted, NEW delay \in Nat
    PROVE  /\ Sooner(delay) \in 0..Len(jobs)
           /\ \A i \in 1..Len(jobs) : i <= Sooner(delay) <=> next_run[jobs[i]] <= delay
<1> DEFINE due == {i \in 1..Len(jobs) : next_run[jobs[i]] <= delay}
<1>1. Len(jobs) \in Nat /\ due \subseteq 1..Len(jobs)
  OBVIOUS
<1>2. Sooner(delay) = Cardinality(due)
  BY DEF Sooner
<1>3. \A n \in Nat : IsFiniteSet(1..n) /\ Cardinality(1..n) = n
  BY FS_Interval
<1>4. IsFiniteSet(due) /\ Cardinality(due) <= Len(jobs) /\ Cardinality(due) \in Nat
  BY <1>1, <1>3, FS_Subset, FS_CardinalityType
<1>5. ASSUME NEW i \in 1..Len(jobs), next_run[jobs[i]] <= delay PROVE i <= Cardinality(due)
  <2>1. ASSUME NEW j \in 1..i PROVE j \in due
    <3>1. j \in 1..Len(jobs) /\ (j < i \/ j = i)
      BY <1>1
    <3>2. next_run[jobs[j]] <= next_run[jobs[i]] \/ j = i
      BY <3>1 DEF JobsSorted
    <3>3. next_run[jobs[j]] \in Nat /\ next_run[jobs[i]] \in Nat
      BY <3>1
    <3>4. QED
      BY <1>5, <3>1, <3>2, <3>3
  <2>2. 1..i \subseteq due /\ i \in Nat
    BY <2>1
  <2>3. Cardinality(1..i) <= Cardinality(due)
    BY <1>4, <2>2, FS_Subset
  <2>4. QED
    BY <1>3, <2>2, <2>3
<1>6. ASSUME NEW i \in 1..Len(jobs), ~(next_run[jobs[i]] <= delay) PROVE ~(i <= Cardinality(due))
  <2>1. ASSUME NEW j \in due PROVE j \in 1..(i - 1)
    <3>1. j \in 1..Len(jobs) /\ next_run[jobs[j]] <= delay
      OBVIOUS
    <3>2. next_run[jobs[j]] \in Nat /\ next_run[jobs[i]] \in Nat
      BY <3>1
    <3>3. ~(i < j) /\ i # j
      BY <1>6, <3>1, <3>2 DEF JobsSorted
    <3>4. QED
      BY <3>1, <3>3
  <2>2. due \subseteq 1..(i - 1) /\ i - 1 \in Nat
    BY <2>1
  <2>3. IsFiniteSet(1..(i - 1)) /\ Cardinality(1..(i - 1)) = i - 1
    BY <1>3, <2>2
  <2>4. Cardinality(due) <= i - 1
    BY <2>2, <2>3, FS_Subset
  <2>5. QED
    BY <1>4, <2>4
<1>7. QED
  BY <1>2, <1>4, <1>5, <1>6

\* A failed or stored job returns to the queue at its place.
LEMMA RequeueJobs ==
    ASSUME JobInv, ClockInv, NEW s \in Symbols, active[s] # "no", NEW delay \in Nat, Requeue(s, delay)
    PROVE  JobInv'
<1>1. /\ jobs' = Requeued(s, delay)
      /\ next_run' = [next_run EXCEPT ![s] = delay] /\ active' = [active EXCEPT ![s] = "no"]
  BY DEF Requeue
<1>2. /\ jobs \in Seq(Symbols) /\ JobsOnce /\ JobsIdle /\ JobsSorted
      /\ next_run \in [Symbols -> Nat] /\ active \in [Symbols -> Stage]
  BY DEF JobInv, ClockInv
<1>3. PICK k \in 0..Len(jobs) :
        k = Sooner(delay) /\ \A i \in 1..Len(jobs) : i <= k <=> next_run[jobs[i]] <= delay
  BY <1>2, SoonerFirst
<1>a. jobs' = SubSeq(jobs, 1, k) \o <<s>> \o SubSeq(jobs, k + 1, Len(jobs))
  BY <1>1, <1>3 DEF Requeued
<1>4. /\ jobs' \in Seq(Symbols) /\ Len(jobs') = Len(jobs) + 1
      /\ \A i \in 1..(Len(jobs) + 1) : jobs'[i] = IF i <= k THEN jobs[i] ELSE IF i = k + 1 THEN s ELSE jobs[i - 1]
  <2>1. PICK r \in Seq(Symbols) :
          /\ r = SubSeq(jobs, 1, k) \o <<s>> \o SubSeq(jobs, k + 1, Len(jobs)) /\ Len(r) = Len(jobs) + 1
          /\ \A i \in 1..(Len(jobs) + 1) : r[i] = IF i <= k THEN jobs[i] ELSE IF i = k + 1 THEN s ELSE jobs[i - 1]
    BY <1>2, Inserted, Zenon
  <2>2. QED
    BY <1>a, <2>1, Zenon
<1>5. Len(jobs) \in Nat
  BY <1>2
<1>6. \A i \in 1..Len(jobs) : jobs[i] \in Symbols /\ jobs[i] # s
  BY <1>2 DEF JobsIdle
<1>7. JobsOnce'
  <2> SUFFICES ASSUME NEW i \in 1..(Len(jobs) + 1), NEW j \in 1..(Len(jobs) + 1), jobs'[i] = jobs'[j], i < j
               PROVE  FALSE
    BY <1>4, <1>5 DEF JobsOnce
  <2>1. /\ jobs'[i] = IF i <= k THEN jobs[i] ELSE IF i = k + 1 THEN s ELSE jobs[i - 1]
        /\ jobs'[j] = IF j <= k THEN jobs[j] ELSE IF j = k + 1 THEN s ELSE jobs[j - 1]
    BY <1>4
  <2>2. /\ k \in Nat /\ k <= Len(jobs) /\ i \in Nat /\ j \in Nat
        /\ i # k + 1 => (IF i <= k THEN i ELSE i - 1) \in 1..Len(jobs)
        /\ j # k + 1 => (IF j <= k THEN j ELSE j - 1) \in 1..Len(jobs)
    BY <1>3, <1>5
  <2>3. ASSUME i = k + 1 PROVE FALSE
    <3>0. ~(i <= k) /\ ~(j <= k) /\ j # k + 1 /\ j - 1 \in 1..Len(jobs)
      BY <1>5, <2>2, <2>3
    <3>1. jobs'[i] = s /\ jobs'[j] = jobs[j - 1] /\ j - 1 \in 1..Len(jobs)
      BY <2>1, <2>3, <3>0, Zenon
    <3>2. QED
      BY <3>1, <1>6
  <2>4. ASSUME j = k + 1 PROVE FALSE
    <3>0. ~(j <= k) /\ i <= k /\ i \in 1..Len(jobs)
      BY <1>5, <2>2, <2>4
    <3>1. jobs'[j] = s /\ jobs'[i] = jobs[i] /\ i \in 1..Len(jobs)
      BY <2>1, <2>4, <3>0, Zenon
    <3>2. QED
      BY <3>1, <1>6
  <2>5. PICK m \in 1..Len(jobs) : m = (IF i <= k THEN i ELSE i - 1) /\ jobs'[i] = jobs[m]
    BY <2>1, <2>2, <2>3
  <2>6. PICK n \in 1..Len(jobs) : n = (IF j <= k THEN j ELSE j - 1) /\ jobs'[j] = jobs[n]
    BY <2>1, <2>2, <2>4
  <2>7. m = n
    BY <1>2, <2>5, <2>6 DEF JobsOnce
  <2>8. QED
    BY <2>2, <2>3, <2>4, <2>5, <2>6, <2>7
<1>8. JobsIdle'
  <2>1. \A i \in 1..Len(jobs) : \E j \in 1..Len(jobs') : jobs'[j] = jobs[i]
    <3>1. ASSUME NEW i \in 1..Len(jobs) PROVE \E j \in 1..Len(jobs') : jobs'[j] = jobs[i]
      <4>1. CASE i <= k
        BY <1>3, <1>4, <1>5, <4>1
      <4>2. CASE ~(i <= k)
        <5>1. i + 1 \in 1..Len(jobs') /\ jobs'[i + 1] = jobs[i]
          BY <1>3, <1>4, <1>5, <4>2
        <5>2. QED
          BY <5>1
      <4>3. QED
        BY <4>1, <4>2
    <3>2. QED
      BY <3>1
  <2>2. \E j \in 1..Len(jobs') : jobs'[j] = s
    <3>1. k + 1 \in 1..Len(jobs') /\ jobs'[k + 1] = s
      BY <1>3, <1>4, <1>5
    <3>2. QED
      BY <3>1
  <2>3. \A j \in 1..Len(jobs') : jobs'[j] = s \/ \E i \in 1..Len(jobs) : jobs'[j] = jobs[i]
    <3>1. SUFFICES ASSUME NEW j \in 1..(Len(jobs) + 1), jobs'[j] # s
                   PROVE  \E i \in 1..Len(jobs) : jobs'[j] = jobs[i]
      BY <1>4
    <3>2. CASE j <= k
      BY <1>3, <1>4, <1>5, <3>2
    <3>3. CASE ~(j <= k)
      <4>1. j # k + 1
        BY <1>3, <1>4, <1>5, <3>1, <3>3
      <4>2. jobs'[j] = jobs[j - 1] /\ j - 1 \in 1..Len(jobs)
        BY <1>3, <1>4, <1>5, <3>3, <4>1
      <4>3. QED
        BY <4>2
    <3>4. QED
      BY <3>2, <3>3
  <2>4. \A u \in Symbols : active'[u] = "no" <=> u = s \/ active[u] = "no"
    BY <1>1, <1>2
  <2>5. QED
    <3>1. SUFFICES ASSUME NEW u \in Symbols
                   PROVE  active'[u] = "no" <=> \E j \in 1..Len(jobs') : jobs'[j] = u
      BY DEF JobsIdle
    <3>2. active[u] = "no" <=> \E i \in 1..Len(jobs) : jobs[i] = u
      BY <1>2 DEF JobsIdle
    <3>3. CASE u = s
      BY <2>2, <2>4, <3>3
    <3>4. CASE u # s
      <4>1. active'[u] = "no" <=> active[u] = "no"
        BY <2>4, <3>4
      <4>2. ASSUME NEW i \in 1..Len(jobs), jobs[i] = u PROVE \E j \in 1..Len(jobs') : jobs'[j] = u
        BY <2>1, <4>2
      <4>3. ASSUME NEW j \in 1..Len(jobs'), jobs'[j] = u PROVE \E i \in 1..Len(jobs) : jobs[i] = u
        BY <2>3, <3>4, <4>3
      <4>4. QED
        BY <3>2, <4>1, <4>2, <4>3
    <3>5. QED
      BY <3>3, <3>4
<1>9. JobsSorted'
  <2>1. next_run'[s] = delay /\ \A i \in 1..Len(jobs) : next_run'[jobs[i]] = next_run[jobs[i]] /\ next_run[jobs[i]] \in Nat
    BY <1>1, <1>2, <1>6
  <2>2. \A i \in 1..Len(jobs') :
          next_run'[jobs'[i]] = IF i <= k THEN next_run[jobs[i]] ELSE IF i = k + 1 THEN delay ELSE next_run[jobs[i - 1]]
    <3>1. SUFFICES ASSUME NEW i \in 1..(Len(jobs) + 1)
                   PROVE  next_run'[jobs'[i]] = IF i <= k THEN next_run[jobs[i]]
                                                ELSE IF i = k + 1 THEN delay ELSE next_run[jobs[i - 1]]
      BY <1>4
    <3>2. jobs'[i] = IF i <= k THEN jobs[i] ELSE IF i = k + 1 THEN s ELSE jobs[i - 1]
      BY <1>4
    <3>3. CASE i <= k
      <4>1. i \in 1..Len(jobs)
        BY <1>3, <1>5, <3>3
      <4>2. QED
        BY <2>1, <3>2, <3>3, <4>1
    <3>4. CASE i = k + 1
      <4>1. ~(i <= k)
        BY <1>3, <3>4
      <4>2. QED
        BY <2>1, <3>2, <3>4, <4>1
    <3>5. CASE ~(i <= k) /\ i # k + 1
      <4>1. i - 1 \in 1..Len(jobs)
        BY <1>3, <1>5, <3>5
      <4>2. QED
        BY <2>1, <3>2, <3>5, <4>1
    <3>6. QED
      BY <3>3, <3>4, <3>5
  <2>3. SUFFICES ASSUME NEW i \in 1..Len(jobs'), NEW j \in 1..Len(jobs'), i < j
                 PROVE  next_run'[jobs'[i]] <= next_run'[jobs'[j]]
    BY DEF JobsSorted
  <2>4. CASE j <= k
    <3>1. i \in 1..Len(jobs) /\ j \in 1..Len(jobs)
      BY <1>3, <1>5, <2>3, <2>4
    <3>2. next_run'[jobs'[i]] = next_run[jobs[i]] /\ next_run'[jobs'[j]] = next_run[jobs[j]]
      BY <1>3, <2>2, <2>3, <2>4
    <3>3. QED
      BY <1>2, <2>3, <3>1, <3>2 DEF JobsSorted
  <2>5. CASE j = k + 1
    <3>1. i <= k /\ i \in 1..Len(jobs)
      BY <1>3, <1>5, <2>3, <2>5
    <3>2. next_run'[jobs'[i]] = next_run[jobs[i]] /\ next_run'[jobs'[j]] = delay
      BY <1>3, <2>2, <2>3, <2>5, <3>1
    <3>3. QED
      BY <1>3, <3>1, <3>2
  <2>6. CASE j > k + 1
    <3>1. j - 1 \in 1..Len(jobs) /\ ~(next_run[jobs[j - 1]] <= delay) /\ next_run'[jobs'[j]] = next_run[jobs[j - 1]]
      BY <1>3, <1>4, <1>5, <2>2, <2>6
    <3>2. CASE i <= k
      <4>1. i \in 1..Len(jobs) /\ i < j - 1 /\ next_run'[jobs'[i]] = next_run[jobs[i]]
        BY <1>3, <1>5, <2>2, <2>6, <3>2
      <4>2. QED
        BY <1>2, <3>1, <4>1 DEF JobsSorted
    <3>3. CASE i = k + 1
      BY <2>1, <2>2, <3>1, <3>3, <1>3
    <3>4. CASE i > k + 1
      <4>1. i - 1 \in 1..Len(jobs) /\ i - 1 < j - 1 /\ next_run'[jobs'[i]] = next_run[jobs[i - 1]]
        BY <1>3, <1>4, <1>5, <2>2, <2>3, <3>4
      <4>2. QED
        BY <1>2, <3>1, <4>1 DEF JobsSorted
    <3>5. QED
      BY <1>3, <3>2, <3>3, <3>4
  <2>7. QED
    BY <1>3, <2>4, <2>5, <2>6
<1>10. SlotsKept'
  <2>1. IsFiniteSet(InFlight) /\ InFlight' \subseteq InFlight
    <3>1. InFlight \subseteq Symbols
      BY DEF InFlight
    <3>2. InFlight' \subseteq InFlight
      BY <1>1, <1>2 DEF InFlight
    <3>3. QED
      BY <3>1, <3>2, SchedulerAssumption, FS_Subset
  <2>2. Cardinality(InFlight') <= Cardinality(InFlight) /\ IsFiniteSet(InFlight')
    BY <2>1, FS_Subset
  <2>3. Cardinality(InFlight) \in Nat /\ Cardinality(InFlight') \in Nat
    BY <2>1, <2>2, FS_CardinalityType
  <2>4. QED
    BY <2>2, <2>3, SchedulerAssumption DEF SlotsKept, JobInv
<1>11. QED
  BY <1>4, <1>7, <1>8, <1>9, <1>10 DEF JobInv

\* A step that leaves the queue alone and keeps the order in which jobs are due.
LEMMA SameJobs ==
    ASSUME JobInv, ClockInv, jobs' = jobs, active' \in [Symbols -> Stage],
           \A s \in Symbols : active'[s] = "no" <=> active[s] = "no",
           \A s, u \in Symbols : next_run[s] <= next_run[u] => next_run'[s] <= next_run'[u]
    PROVE  JobInv'
<1>1. jobs \in Seq(Symbols) /\ JobsOnce /\ JobsIdle /\ JobsSorted /\ SlotsKept
  BY DEF JobInv
<1>2. JobsOnce' /\ JobsIdle'
  BY <1>1 DEF JobsOnce, JobsIdle
<1>3. JobsSorted'
  BY <1>1 DEF JobsSorted
<1>4. InFlight' = InFlight
  BY DEF InFlight
<1>5. QED
  BY <1>1, <1>2, <1>3, <1>4 DEF JobInv, SlotsKept

\* The front job leaves the queue if there is a slot for it.
LEMMA StartJobs == ASSUME JobInv, ClockInv, NEW s \in Symbols, StartRequest(s) PROVE JobInv'
<1>1. /\ jobs # <<>> /\ s = Head(jobs) /\ jobs' = Tail(jobs) /\ HasSlot
      /\ active' = [active EXCEPT ![s] = "sent"] /\ next_run' = next_run
  BY DEF StartRequest, MayStart, Front
<1>2. /\ jobs \in Seq(Symbols) /\ JobsOnce /\ JobsIdle /\ JobsSorted
      /\ active \in [Symbols -> Stage]
  BY DEF JobInv, ClockInv
<1>3. /\ jobs' \in Seq(Symbols) /\ Len(jobs') = Len(jobs) - 1 /\ Len(jobs) \in Nat \ {0} /\ jobs[1] = s
      /\ \A i \in 1..(Len(jobs) - 1) : jobs'[i] = jobs[i + 1]
  BY <1>1, <1>2
<1>4. \A i \in 1..(Len(jobs) - 1) : i + 1 \in 1..Len(jobs)
  BY <1>3
<1>5. JobsOnce'
  BY <1>2, <1>3, <1>4 DEF JobsOnce
<1>6. JobsIdle'
  <2>1. 1 \in 1..Len(jobs) /\ \A i \in 1..(Len(jobs) - 1) : jobs'[i] # s
    BY <1>2, <1>3, <1>4 DEF JobsOnce
  <2>2. ASSUME NEW u \in Symbols, u # s
        PROVE (\E i \in 1..Len(jobs) : jobs[i] = u) <=> \E i \in 1..(Len(jobs) - 1) : jobs'[i] = u
    <3>1. ASSUME NEW i \in 1..Len(jobs), jobs[i] = u PROVE \E j \in 1..(Len(jobs) - 1) : jobs'[j] = u
      <4>1. i # 1
        BY <1>3, <2>2, <3>1
      <4>2. i - 1 \in 1..(Len(jobs) - 1) /\ (i - 1) + 1 = i
        BY <1>3, <4>1
      <4>3. jobs'[i - 1] = u
        BY <1>3, <3>1, <4>2
      <4>4. QED
        BY <4>2, <4>3
    <3>2. QED
      BY <1>3, <1>4, <3>1
  <2>3. \A u \in Symbols : active'[u] = IF u = s THEN "sent" ELSE active[u]
    BY <1>1, <1>2
  <2>4. SUFFICES ASSUME NEW u \in Symbols
                 PROVE  active'[u] = "no" <=> \E i \in 1..(Len(jobs) - 1) : jobs'[i] = u
    BY <1>3 DEF JobsIdle
  <2>5. CASE u = s
    BY <2>1, <2>3, <2>5
  <2>6. CASE u # s
    BY <1>2, <2>2, <2>3, <2>6 DEF JobsIdle
  <2>7. QED
    BY <2>5, <2>6
<1>7. JobsSorted'
  BY <1>1, <1>2, <1>3, <1>4 DEF JobsSorted
<1>8. SlotsKept'
  <2>1. InFlight \subseteq Symbols
    BY DEF InFlight
  <2>2. IsFiniteSet(InFlight) /\ Cardinality(InFlight) \in Nat
    BY <2>1, SchedulerAssumption, FS_Subset, FS_CardinalityType
  <2>3. InFlight' = InFlight \cup {s}
    BY <1>1, <1>2 DEF InFlight
  <2>4. Cardinality(InFlight \cup {s}) <= Cardinality(InFlight) + 1 /\ Cardinality(InFlight \cup {s}) \in Nat
    BY <2>2, FS_AddElement
  <2>5. Cardinality(InFlight') <= Cardinality(InFlight) + 1 /\ Cardinality(InFlight') \in Nat
    BY <2>3, <2>4
  <2>6. QED
    BY <1>1, <2>2, <2>5, SchedulerAssumption DEF SlotsKept, HasSlot
<1>9. QED
  BY <1>3, <1>5, <1>6, <1>7, <1>8 DEF JobInv

LEMMA JobInit == Init => JobInv
<1> SUFFICES ASSUME Init PROVE JobInv
  OBVIOUS
<1> USE SchedulerAssumption
<1>1. /\ jobs = Order /\ next_run = Offset /\ active = [s \in Symbols |-> "no"]
      /\ Order \in Seq(Symbols) /\ Len(Order) \in Nat
  BY DEF Init
<1>2. JobsOnce
  BY <1>1 DEF JobsOnce
<1>3. JobsIdle
  BY <1>1 DEF JobsIdle, Range
<1>4. JobsSorted
  BY <1>1 DEF JobsSorted
<1>5. InFlight = {}
  BY <1>1 DEF InFlight
<1>6. SlotsKept
  BY <1>5, FS_EmptySet DEF SlotsKept
<1>7. QED
  BY <1>1, <1>2, <1>3, <1>4, <1>6 DEF JobInv

LEMMA FetchJobs == ASSUME JobInv, ClockInv, NEW s \in Symbols, Fetch(s) PROVE JobInv'
<1>1. CASE Rejected(s)
  <2>1. blocked' \in Nat /\ Retry(s, blocked') /\ active[s] # "no"
    BY <1>1, BlockNat, SchedulerAssumption DEF Rejected
  <2>2. QED
    BY <2>1, RetryClock, RequeueJobs
<1>2. CASE Failed(s)
  <2>1. blocked \in Nat /\ Retry(s, blocked) /\ active[s] # "no"
    BY <1>2 DEF Failed, ClockInv
  <2>2. QED
    BY <2>1, RetryClock, RequeueJobs
<1>3. CASE Answered(s)
  <2>1. /\ jobs' = jobs /\ next_run' = next_run /\ active[s] = "sent"
        /\ active' = [active EXCEPT ![s] = "answered"]
    BY <1>3 DEF Answered
  <2>2. active' \in [Symbols -> Stage] /\ \A u \in Symbols : active'[u] = "no" <=> active[u] = "no"
    BY <2>1 DEF ClockInv, Stage
  <2>3. QED
    BY <2>1, <2>2, SameJobs
<1>4. CASE Stored(s)
  <2>1. Requeue(s, Interval) /\ active[s] # "no" /\ Interval \in Nat
    BY <1>4, SchedulerAssumption DEF Stored
  <2>2. QED
    BY <2>1, RequeueJobs
<1>5. QED
  BY <1>1, <1>2, <1>3, <1>4 DEF Fetch

LEMMA JobStep == ASSUME JobInv, ClockInv, [Next]_vars PROVE JobInv'
<1>0. ASSUME UNCHANGED <<jobs, active, next_run>> PROVE JobInv'
  BY <1>0, SameJobs DEF ClockInv
<1>1. CASE Tick
  <2>1. jobs' = jobs /\ active' = active /\ next_run' = [s \in Symbols |-> Less(next_run[s])]
    BY <1>1 DEF Tick
  <2>2. \A s \in Symbols : next_run[s] \in Nat /\ next_run'[s] = Less(next_run[s])
    BY <2>1 DEF ClockInv
  <2>3. \A s, u \in Symbols : next_run[s] <= next_run[u] => next_run'[s] <= next_run'[u]
    BY <2>2, LessNat
  <2>4. QED
    BY <2>1, <2>3, SameJobs DEF ClockInv
<1>2. CASE OtherBlocked
  BY <1>0, <1>2 DEF OtherBlocked, scheduler
<1>3. CASE Filled \/ Wake
  BY <1>0, <1>3 DEF Filled, Wake
<1>4. ASSUME NEW s \in Symbols, StartRequest(s) \/ Limited(s) \/ Sleep(s) PROVE JobInv'
  <2>1. CASE Limited(s) \/ Sleep(s)
    BY <1>0, <2>1 DEF Limited, Sleep
  <2>2. QED
    BY <1>4, <2>1, StartJobs
<1>5. ASSUME NEW s \in Symbols, PollAnswer(s) PROVE JobInv'
  BY <1>0, <1>5 DEF PollAnswer, scheduler
<1>6. CASE PollStart \/ PollDone \/ UNCHANGED vars
  BY <1>0, <1>6 DEF PollStart, PollDone, scheduler, vars
<1>7. QED
  BY <1>1, <1>2, <1>3, <1>4, <1>5, <1>6, FetchJobs DEF Next, Scheduler

RestInv == BucketInv /\ SeenInv /\ ClockInv /\ JobInv

LEMMA RestAlways == Spec => []RestInv
<1>1. Init => RestInv
  BY BucketInit, ClockInit, JobInit DEF Init, SeenInv, RestInv
<1>2. RestInv /\ [Next]_vars => RestInv'
  BY BucketStep, SeenStep, ClockStep, JobStep DEF RestInv
<1>3. QED
  BY <1>1, <1>2, PTL DEF Spec

\* Each symbol keeps its one job, which is in the queue or in flight, never both and never
\* neither, however requests fail and return; no more than snapshot_concurrency are in
\* flight, and every counter and instant of the scheduler, the limiter and the poller stays
\* within its range.
THEOREM RestTypeCorrect == Spec => []TypeOK
<1>1. RestInv => TypeOK
  <2> SUFFICES ASSUME RestInv PROVE TypeOK
    OBVIOUS
  <2>1. /\ BucketTypes /\ ClockInv /\ seen \in [Symbols -> Nat]
        /\ jobs \in Seq(Symbols) /\ JobsOnce /\ JobsIdle /\ SlotsKept
    BY DEF RestInv, BucketInv, SeenInv, JobInv
  <2>2. Len(jobs) \in Nat /\ DOMAIN jobs = 1..Len(jobs)
    BY <2>1
  <2>3. Range(jobs) = {jobs[i] : i \in 1..Len(jobs)}
    BY <2>2 DEF Range
  <2>4. Range(jobs) = Symbols \ InFlight
    BY <2>1, <2>3 DEF JobsIdle, InFlight
  <2>5. Len(jobs) = Cardinality(Range(jobs))
    <3>1. jobs \in Surjection(1..Len(jobs), Range(jobs))
      BY <2>1, <2>2, <2>3 DEF Surjection
    <3>2. jobs \in Injection(1..Len(jobs), Range(jobs))
      <4>1. jobs \in [1..Len(jobs) -> Range(jobs)]
        BY <3>1 DEF Surjection
      <4>2. QED
        BY <2>1, <2>2, <4>1 DEF Injection, IsInjective, JobsOnce
    <3>3. IsFiniteSet(1..Len(jobs)) /\ Cardinality(1..Len(jobs)) = Len(jobs)
      <4>1. \A n \in Nat : IsFiniteSet(1..n) /\ Cardinality(1..n) = n
        BY FS_Interval
      <4>2. QED
        BY <2>2, <4>1
    <3>4. Cardinality(Range(jobs)) = Cardinality(1..Len(jobs))
      BY <3>1, <3>2, <3>3, FS_Surjection
    <3>5. QED
      BY <3>3, <3>4
  <2>6. QED
    BY <2>1, <2>4, <2>5 DEF TypeOK, ClockInv, SlotsKept
<1>2. QED
  BY <1>1, RestAlways, PTL

\* The front of the queue is always the job that is due first, so the loop, which looks at
\* nothing else, never lets a due job wait behind one that is not due.
THEOREM FrontIsDueFirst == Spec => []JobsSorted
<1>1. RestInv => JobsSorted
  BY DEF RestInv, JobInv
<1>2. QED
  BY <1>1, RestAlways, PTL

=============================================================================
