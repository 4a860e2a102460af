--------------------------- MODULE GovernorProofs ---------------------------
(***************************************************************************)
(* What Governor promises for every number of streams, every allowance,    *)
(* policy, snapshot and response of the control plane: its safety          *)
(* invariants, and that every step of the request path is one Admission    *)
(* allows.                                                                 *)
(***************************************************************************)
EXTENDS Governor, BucketLemmas, TLAPS

-----------------------------------------------------------------------------
(* The inductive invariant. *)

Metered == DOMAIN Allowances

\* What the cache may hold.
Cached == Snapshots \cup {EmptySnapshot}

\* A request being decided, and a decided one.
LiveJobs == [pc : {"requests", "tokens", "acquire"}, in : Inputs,
             snapshot : Cached, todo : SUBSET Nat]
DoneJobs == [pc : {"done"}, in : Inputs, snapshot : Cached, todo : SUBSET Nat,
             decision : {"admit", "shed"}]

\* A request keeps to the places that its own snapshot leaves it, has a bucket to
\* try as long as it is being decided, and is shed only when no place is left,
\* which never happens to critical traffic.
JobInv(job) ==
    \/ job = Idle
    \/ /\ job \in LiveJobs \cup DoneJobs
       /\ job.todo \subseteq Eligible(job.snapshot, job.in)
       /\ job \in LiveJobs => job.todo # {} /\ Known(Place(job.in, Min(job.todo)))
       /\ job \in DoneJobs =>
             IF job.decision = "shed" THEN job.in.priority # "critical"
             ELSE job.todo # {}

JobsInv ==
    /\ cache \in Cached
    /\ DOMAIN jobs = Streams
    /\ \A r \in Streams : JobInv(jobs[r])

\* The buckets are well formed and no larger than the allowance.
BucketsInv ==
    /\ now \in Nat
    /\ buckets \in [Metered -> BucketType]
    /\ CapacityWithinAllowance

Even(t) == \A d \in Dims : buckets[t][d].max = EvenSplit(t)[d]

\* The call the reporter is in, and how far the fallback to the even split has got.
ReporterInv ==
    /\ \/ \E n \in Nat : reporter = [pc |-> "idle", failures |-> n]
       \/ \E p \in {"drain", "rpc", "reset"}, n \in Nat, left \in SUBSET Metered :
             reporter = [pc |-> p, failures |-> n, left |-> left]
       \/ \E n \in Nat, left \in SUBSET Metered, t \in Metered, k \in Nat :
             reporter = [pc |-> "swap", failures |-> n, left |-> left,
                         at |-> t, requests |-> k]
       \/ \E shares : reporter = [pc |-> "apply", failures |-> 0, shares |-> shares]
    /\ reporter.pc = "reset" =>
          /\ reporter.failures = FallbackAfterFailures
          /\ \A t \in Metered \ reporter.left : Even(t)
    /\ EvenSplitWhenCutOff

\* The counters, and the demand the reporter holds between its two swaps.
LedgerType == [recorded : [Metered -> [Dims -> Nat]],
               drained  : [Metered -> [Dims -> Nat]],
               reserved : [Streams -> [Metered -> [Dims -> Int]]]]

DemandInv ==
    /\ demand \in [Metered -> [Dims -> Nat]]
    /\ ledger \in LedgerType
    /\ DemandConserved

Inv ==
    /\ JobsInv
    /\ BucketsInv
    /\ ReporterInv
    /\ DemandInv
    /\ ReservedOnce

-----------------------------------------------------------------------------
(* Lemmas on places and decisions. *)

\* A non-empty set of places has a first one.
LEMMA FirstPlace ==
    ASSUME NEW S \in SUBSET Nat, S # {}
    PROVE  Min(S) \in S /\ Min(S) \in Nat
<1>1. \E x \in S : \A y \in S : x <= y
  BY LeastNumber
<1> QED
  BY <1>1 DEF Min

\* The places of a request: the primary and steps of its policy, the latter only
\* for custom traffic.
LEMMA Places ==
    ASSUME NEW sn, NEW in \in Inputs
    PROVE  /\ Eligible(sn, in) \in SUBSET Nat
           /\ in.priority = "critical" => Eligible(sn, in) = {0}
           /\ \A i \in Eligible(sn, in) :
                 /\ in.priority # "critical" => ~Full(sn, in.project, Place(in, i))
                 /\ i > 0 => /\ in.priority = "custom"
                             /\ in.policy \in DOMAIN Policies
                             /\ i \in DOMAIN Policies[in.policy]
<1>1. Steps(in) \in SUBSET (Nat \ {0})
  BY PolicyAssumption DEF Steps
<1>2. Candidates(sn, in) \in SUBSET Nat /\ 0 \in Candidates(sn, in)
  BY <1>1 DEF Candidates
<1>3. Eligible(sn, in) \in SUBSET Nat
  BY <1>2 DEF Eligible
<1>4. ASSUME in.priority = "critical" PROVE Eligible(sn, in) = {0}
  BY <1>2, <1>4 DEF Eligible, Candidates
<1>5. ASSUME NEW i \in Eligible(sn, in), in.priority # "critical"
      PROVE  ~Full(sn, in.project, Place(in, i))
  BY <1>5 DEF Eligible
<1>6. ASSUME NEW i \in Eligible(sn, in), i > 0
      PROVE  /\ in.priority = "custom" /\ in.policy \in DOMAIN Policies
             /\ i \in DOMAIN Policies[in.policy]
  BY <1>6 DEF Eligible, Candidates, Steps
<1> QED
  BY <1>3, <1>4, <1>5, <1>6

\* What a decision that goes on looks like.
LEMMA ResumeJob ==
    ASSUME NEW in \in Inputs, NEW sn \in Cached, NEW todo \in SUBSET Nat,
           todo \subseteq Eligible(sn, in),
           todo = {} => in.priority # "critical"
    PROVE  /\ JobInv(Resume(in, sn, todo)) /\ Resume(in, sn, todo) # Idle
           /\ Resume(in, sn, todo) \in LiveJobs \cup DoneJobs
           /\ Resume(in, sn, todo).in = in /\ Resume(in, sn, todo).todo = todo
           /\ Resume(in, sn, todo).pc \in {"requests", "done"}
           /\ Resume(in, sn, todo).pc = "done" =>
                 \/ Resume(in, sn, todo).decision = "shed" /\ todo = {}
                 \/ /\ Resume(in, sn, todo).decision = "admit" /\ todo # {}
                    /\ ~Known(Place(in, Min(todo)))
<1> DEFINE done(d) == [pc |-> "done", in |-> in, snapshot |-> sn, todo |-> todo,
                       decision |-> d]
           live == [pc |-> "requests", in |-> in, snapshot |-> sn, todo |-> todo]
<1>1. CASE todo = {}
  <2>1. Resume(in, sn, todo) = done("shed")
    BY <1>1 DEF Resume
  <2> QED
    BY <1>1, <2>1 DEF JobInv, LiveJobs, DoneJobs, Idle
<1>2. CASE todo # {} /\ Known(Place(in, Min(todo)))
  <2>1. Resume(in, sn, todo) = live
    BY <1>2 DEF Resume
  <2> QED
    BY <1>2, <2>1 DEF JobInv, LiveJobs, DoneJobs, Idle
<1>3. CASE todo # {} /\ ~Known(Place(in, Min(todo)))
  <2>1. Resume(in, sn, todo) = done("admit")
    BY <1>3 DEF Resume
  <2> QED
    BY <1>3, <2>1 DEF JobInv, LiveJobs, DoneJobs, Idle
<1> QED
  BY <1>1, <1>2, <1>3

\* A request at its bucket.
LEMMA LiveJob ==
    ASSUME NEW job, JobInv(job), job.pc \in {"requests", "tokens", "acquire"}
    PROVE  /\ job \in LiveJobs /\ job.in \in Inputs /\ job.snapshot \in Cached
           /\ job.todo \in SUBSET Nat /\ job.todo # {}
           /\ job.todo \subseteq Eligible(job.snapshot, job.in)
           /\ Place(job.in, Min(job.todo)) \in Metered
           /\ job.in.tokens \in Int
BY InputAssumption DEF JobInv, LiveJobs, DoneJobs, Idle, Known, Metered

\* A decided request.
LEMMA DoneJob ==
    ASSUME NEW job, JobInv(job), job.pc = "done"
    PROVE  /\ job \in DoneJobs /\ job.in \in Inputs /\ job.todo \in SUBSET Nat
           /\ job.todo \subseteq Eligible(job.snapshot, job.in)
           /\ job.decision = "shed" => job.in.priority # "critical"
           /\ job.decision # "shed" => job.todo # {}
           /\ job.decision \in {"admit", "shed"}
BY DEF JobInv, LiveJobs, DoneJobs, Idle

\* Admission at the bucket being tried.
LEMMA AdmittedJob ==
    ASSUME NEW job, JobInv(job), job.pc = "acquire"
    PROVE  /\ JobInv(Admitted(job)) /\ Admitted(job).pc = "done"
           /\ Admitted(job).decision = "admit" /\ Admitted(job).in = job.in
           /\ Admitted(job).todo = job.todo
<1>1. /\ job \in LiveJobs /\ job.in \in Inputs /\ job.snapshot \in Cached
      /\ job.todo \in SUBSET Nat /\ job.todo # {}
      /\ job.todo \subseteq Eligible(job.snapshot, job.in)
  BY LiveJob
<1> QED
  BY <1>1 DEF Admitted, JobInv, LiveJobs, DoneJobs, Idle

\* Refusal at the bucket being tried, of traffic that may be refused.
LEMMA RefusedJob ==
    ASSUME NEW job, JobInv(job), job.pc = "acquire", job.in.priority # "critical"
    PROVE  /\ JobInv(AfterRefusal(job)) /\ AfterRefusal(job) # Idle
           /\ AfterRefusal(job).in = job.in
           /\ AfterRefusal(job).todo = job.todo \ {Min(job.todo)}
           /\ AfterRefusal(job).pc \in {"requests", "done"}
           /\ AfterRefusal(job).pc = "done" =>
                 \/ AfterRefusal(job).decision = "shed"
                 \/ /\ AfterRefusal(job).decision = "admit"
                    /\ ~Known(Place(job.in, Min(AfterRefusal(job).todo)))
<1>1. /\ job.in \in Inputs /\ job.snapshot \in Cached /\ job.todo \in SUBSET Nat
      /\ job.todo \subseteq Eligible(job.snapshot, job.in)
  BY LiveJob
<1> DEFINE todo == job.todo \ {Min(job.todo)}
<1>2. todo \in SUBSET Nat /\ todo \subseteq Eligible(job.snapshot, job.in)
  BY <1>1
<1>3. AfterRefusal(job) = Resume(job.in, job.snapshot, todo)
  BY DEF AfterRefusal
<1> HIDE DEF todo
<1>4. AfterRefusal(job).todo = todo
  BY <1>1, <1>2, <1>3, ResumeJob
<1> QED
  BY <1>1, <1>2, <1>3, <1>4, ResumeJob DEF todo

-----------------------------------------------------------------------------
(* Lemmas on the limiter's arithmetic. *)

\* A replica's even share of a limit.
LEMMA ShareBounds ==
    ASSUME NEW limit \in Nat
    PROVE  Share(limit) \in Nat /\ (limit > 0 => Share(limit) \in 1..limit)
<1>1. Replicas \in Nat \ {0} /\ Unlimited \in Nat
  BY LimiterAssumption
<1>2. CASE limit > 0
  <2>1. limit \div Replicas \in Nat /\ limit \div Replicas <= limit
    <3>1. limit \div Replicas \in Nat /\ Replicas * (limit \div Replicas) <= limit
      BY <1>1, DivFacts
    <3>2. 1 * (limit \div Replicas) <= Replicas * (limit \div Replicas)
      BY <1>1, <3>1, MulMono
    <3> QED
      BY <1>1, <3>1, <3>2
  <2>2. Share(limit) = Greater(limit \div Replicas, 1)
    BY <1>2 DEF Share
  <2> QED
    BY <1>2, <2>1, <2>2 DEF Greater
<1>3. CASE ~(limit > 0)
  BY <1>1, <1>3 DEF Share
<1> QED
  BY <1>2, <1>3

\* Its weighted share, whatever the control plane calls a fraction.
LEMMA FractionBounds ==
    ASSUME NEW limit \in Nat, NEW percent
    PROVE  /\ FractionOf(limit, percent) \in Nat
           /\ limit > 0 => FractionOf(limit, percent) \in 1..limit
<1>1. Unlimited \in Nat
  BY LimiterAssumption
<1>2. CASE limit > 0
  <2> DEFINE f == IF percent \in 1..100 THEN percent ELSE 100
  <2>1. f \in Nat /\ f <= 100
    OBVIOUS
  <2>2. FractionOf(limit, percent) = Greater((limit * f) \div 100, 1)
    BY <1>2 DEF FractionOf
  <2> HIDE DEF f
  <2>3. limit * f \in Nat /\ limit * f <= limit * 100
    BY <2>1, MulMono
  <2>4. (limit * f) \div 100 \in Nat /\ 100 * ((limit * f) \div 100) <= limit * f
    BY <2>3, DivFacts
  <2>5. (limit * f) \div 100 <= limit
    BY <2>3, <2>4
  <2> QED
    BY <1>2, <2>2, <2>4, <2>5 DEF Greater
<1>3. CASE ~(limit > 0)
  BY <1>1, <1>3 DEF FractionOf
<1> QED
  BY <1>2, <1>3

\* Both splits are capacities within the allowance.
LEMMA Splits ==
    ASSUME NEW t \in Metered, NEW fraction
    PROVE  /\ EvenSplit(t) \in [Dims -> Nat] /\ WeightedSplit(t, fraction) \in [Dims -> Nat]
           /\ \A d \in Dims : Allowances[t][d] > 0 =>
                 /\ EvenSplit(t)[d] \in 1..Allowances[t][d]
                 /\ WeightedSplit(t, fraction)[d] \in 1..Allowances[t][d]
<1>1. \A d \in Dims : Allowances[t][d] \in Nat
  BY AllowanceAssumption DEF Metered
<1> QED
  BY <1>1, ShareBounds, FractionBounds DEF EvenSplit, WeightedSplit

-----------------------------------------------------------------------------
(* Every step preserves the invariant, one conjunct at a time. *)

\* The step of a stream on its own request.
LEMMA OneJob ==
    ASSUME JobsInv, NEW r \in Streams, NEW job, JobInv(job),
           jobs' = [jobs EXCEPT ![r] = job], cache' = cache
    PROVE  JobsInv'
BY DEF JobsInv

\* Requests: a stream's steps keep it to its places.
LEMMA JobsStep ==
    ASSUME Inv, [Next]_vars
    PROVE  JobsInv'
<1> USE DEF Inv
<1>1. ASSUME UNCHANGED <<cache, jobs>> PROVE JobsInv'
  BY <1>1 DEF JobsInv
<1>2. ASSUME NEW snapshot \in Snapshots, CacheSet(snapshot) PROVE JobsInv'
  BY <1>2 DEF CacheSet, JobsInv, Cached
<1>3. ASSUME NEW r \in Streams, NEW in \in Inputs, Evaluate(r, in) PROVE JobsInv'
  <2>1. /\ cache \in Cached /\ Eligible(cache, in) \in SUBSET Nat
        /\ Eligible(cache, in) = {} => in.priority # "critical"
    BY Places DEF JobsInv
  <2>2. JobInv(Resume(in, cache, Eligible(cache, in)))
    BY <2>1, ResumeJob
  <2> QED
    BY <1>3, <2>2, OneJob DEF Evaluate
<1>4. ASSUME NEW r \in Streams, NEW p \in {"requests", "tokens"},
             NEW q \in {"tokens", "acquire"}, NEW d, Record(r, p, q, d)
      PROVE  JobsInv'
  <2>1. /\ JobInv(jobs[r]) /\ jobs[r].pc = p /\ cache' = cache
        /\ jobs' = [jobs EXCEPT ![r] = [jobs[r] EXCEPT !.pc = q]]
    BY <1>4 DEF Record, JobsInv
  <2>2. JobInv([jobs[r] EXCEPT !.pc = q])
    <3>1. jobs[r] \in LiveJobs
      BY <2>1, LiveJob
    <3>2. /\ [jobs[r] EXCEPT !.pc = q] \in LiveJobs
          /\ [jobs[r] EXCEPT !.pc = q].in = jobs[r].in
          /\ [jobs[r] EXCEPT !.pc = q].todo = jobs[r].todo
          /\ [jobs[r] EXCEPT !.pc = q].snapshot = jobs[r].snapshot
          /\ [jobs[r] EXCEPT !.pc = q].pc = q
      BY <3>1 DEF LiveJobs
    <3>3. [jobs[r] EXCEPT !.pc = q] \notin DoneJobs
      BY <3>2 DEF DoneJobs
    <3>4. /\ jobs[r].todo # {} /\ Known(Place(jobs[r].in, Min(jobs[r].todo)))
          /\ jobs[r].todo \subseteq Eligible(jobs[r].snapshot, jobs[r].in)
      BY <2>1, LiveJob DEF Known, Metered
    <3> QED
      BY <3>2, <3>3, <3>4 DEF JobInv
  <2> QED
    BY <2>1, <2>2, OneJob
<1>5. ASSUME NEW r \in Streams, AdmitCritical(r) PROVE JobsInv'
  <2>1. JobInv(Admitted(jobs[r]))
    BY <1>5, AdmittedJob DEF AdmitCritical, JobsInv
  <2> QED
    BY <1>5, <2>1, OneJob DEF AdmitCritical
<1>6. ASSUME NEW r \in Streams, TryAdmit(r) PROVE JobsInv'
  <2>1. JobInv(Admitted(jobs[r])) /\ JobInv(AfterRefusal(jobs[r]))
    BY <1>6, AdmittedJob, RefusedJob DEF TryAdmit, JobsInv
  <2> DEFINE fits == Fits(Refill(buckets[Trying(r)], now), Cost(jobs[r].in.tokens),
                          ReservePercent)
  <2>2. /\ cache' = cache
        /\ jobs' = [jobs EXCEPT ![r] = IF fits THEN Admitted(jobs[r])
                                       ELSE AfterRefusal(jobs[r])]
    BY <1>6 DEF TryAdmit
  <2> QED
    BY <2>1, <2>2, OneJob
<1>7. ASSUME NEW r \in Streams, Decide(r) PROVE JobsInv'
  BY <1>4, <1>5, <1>6, <1>7 DEF Decide, RecordRequest, RecordTokens
<1>8. ASSUME ReportOnce PROVE UNCHANGED <<cache, jobs>>
  BY <1>8 DEF ReportOnce, StartReport, SwapRequests, ResetShare, SwapTokens,
     ReportFails, ReportSucceeds, ApplyShare, EndReport
<1> QED
  BY <1>1, <1>2, <1>3, <1>7, <1>8 DEF Next, Tick, vars

\* What the limiter reserves at a target is the request's cost or nothing, and
\* leaves a well-formed bucket of the same capacity.
LEMMA ReserveType ==
    ASSUME NEW b \in BucketType, NEW cost \in [Dims -> Nat]
    PROVE  /\ Reserve(b, cost) \in BucketType
           /\ \A d \in Dims :
                 /\ Reserve(b, cost)[d].max = b[d].max
                 /\ b[d].cur - Reserve(b, cost)[d].cur =
                       IF Fits(b, cost, ReservePercent) THEN cost[d] ELSE 0
<1>1. ASSUME NEW d \in Dims PROVE b[d].cur \in Int /\ cost[d] \in Nat
  BY DEF BucketType, Dimension
<1>2. CASE Fits(b, cost, ReservePercent)
  <2>1. Reserve(b, cost) = Taken(b, cost)
    BY <1>2 DEF Reserve
  <2>2. \A d \in Dims : Taken(b, cost)[d].cur = b[d].cur - cost[d]
    BY TakenType
  <2>3. \A x \in Int, y \in Nat : x - (x - y) = y
    OBVIOUS
  <2> QED
    BY <1>1, <1>2, <2>1, <2>2, <2>3, TakenType
<1>3. CASE ~Fits(b, cost, ReservePercent)
  BY <1>1, <1>3 DEF Reserve
<1> QED
  BY <1>2, <1>3

\* The bucket call of a stream: it touches the bucket of the target being tried,
\* and no capacity.
LEMMA StreamBucket ==
    ASSUME Inv, NEW r \in Streams, AdmitCritical(r) \/ TryAdmit(r)
    PROVE  /\ buckets' \in [Metered -> BucketType]
           /\ \A t \in Metered, d \in Dims : buckets'[t][d].max = buckets[t][d].max
           /\ UNCHANGED <<now, reporter>>
<1> DEFINE t == Trying(r)
           b == Refill(buckets[t], now)
           cost == Cost(jobs[r].in.tokens)
<1>1. t \in Metered /\ jobs[r].in.tokens \in Int
  BY LiveJob DEF Inv, JobsInv, AdmitCritical, TryAdmit, Trying
<1>2. cost \in [Dims -> Nat] /\ buckets[t] \in BucketType /\ now \in Nat
  BY <1>1, CostIsNat DEF Inv, BucketsInv
<1>3. b \in BucketType /\ \A d \in Dims : b[d].max = buckets[t][d].max
  BY <1>2, RefillType
<1>4. \E b2 \in BucketType :
         /\ \A d \in Dims : b2[d].max = b[d].max
         /\ buckets' = [buckets EXCEPT ![t] = b2]
  <2>1. CASE AdmitCritical(r)
    <3>1. buckets' = [buckets EXCEPT ![t] = ForceTaken(b, cost)]
      BY <2>1 DEF AdmitCritical
    <3> HIDE DEF b, cost, t
    <3> QED
      BY <1>2, <1>3, <3>1, TakenType
  <2>2. CASE TryAdmit(r)
    <3>1. buckets' = [buckets EXCEPT ![t] = Reserve(b, cost)]
      BY <2>2 DEF TryAdmit
    <3> HIDE DEF b, cost, t
    <3> QED
      BY <1>2, <1>3, <3>1, ReserveType
  <2> QED
    BY <2>1, <2>2
<1>5. UNCHANGED <<now, reporter>>
  BY DEF AdmitCritical, TryAdmit
<1> HIDE DEF b, cost, t
<1> QED
  BY <1>1, <1>3, <1>4, <1>5 DEF Inv, BucketsInv

\* A resize of one bucket to a capacity within the allowance.
LEMMA ResizeBucket ==
    ASSUME Inv, NEW t \in Metered, NEW cap \in [Dims -> Nat],
           buckets' = [buckets EXCEPT ![t] = Resized(Refill(@, now), cap)]
    PROVE  /\ buckets' \in [Metered -> BucketType]
           /\ \A d \in Dims : buckets'[t][d].max = cap[d]
           /\ \A u \in Metered \ {t} : buckets'[u] = buckets[u]
<1> DEFINE b == Refill(buckets[t], now)
<1>1. buckets[t] \in BucketType /\ now \in Nat
  BY DEF Inv, BucketsInv
<1>2. b \in BucketType
  BY <1>1, RefillType
<1>3. buckets' = [buckets EXCEPT ![t] = Resized(b, cap)]
  OBVIOUS
<1> HIDE DEF b
<1>4. Resized(b, cap) \in BucketType /\ \A d \in Dims : Resized(b, cap)[d].max = cap[d]
  BY <1>2, ResizedType
<1> QED
  BY <1>3, <1>4 DEF Inv, BucketsInv

\* ApplyShares and ResetShares, one bucket at a time.
LEMMA ReporterBucket ==
    ASSUME Inv
    PROVE  /\ \A t \in Metered : ResetShare(t) =>
                 /\ buckets' \in [Metered -> BucketType]
                 /\ \A d \in Dims : buckets'[t][d].max = EvenSplit(t)[d]
                 /\ \A u \in Metered \ {t} : buckets'[u] = buckets[u]
           /\ ApplyShare =>
                 /\ buckets' \in [Metered -> BucketType]
                 /\ \A t \in Metered :
                       \/ buckets'[t] = buckets[t]
                       \/ \A d \in Dims : Allowances[t][d] > 0 =>
                             buckets'[t][d].max \in 1..Allowances[t][d]
<1>1. ASSUME NEW t \in Metered, ResetShare(t)
      PROVE  /\ buckets' \in [Metered -> BucketType]
             /\ \A d \in Dims : buckets'[t][d].max = EvenSplit(t)[d]
             /\ \A u \in Metered \ {t} : buckets'[u] = buckets[u]
  <2>1. buckets' = [buckets EXCEPT ![t] = Resized(Refill(@, now), EvenSplit(t))]
    BY <1>1 DEF ResetShare
  <2>2. EvenSplit(t) \in [Dims -> Nat]
    BY Splits
  <2> QED
    BY <2>1, <2>2, ResizeBucket
<1>2. ASSUME ApplyShare
      PROVE  /\ buckets' \in [Metered -> BucketType]
             /\ \A t \in Metered :
                   \/ buckets'[t] = buckets[t]
                   \/ \A d \in Dims : Allowances[t][d] > 0 =>
                         buckets'[t][d].max \in 1..Allowances[t][d]
  <2> DEFINE sh == Head(reporter.shares)
             cap == WeightedSplit(sh.target, sh.fraction)
  <2>1. CASE Known(sh.target)
    <3>1. /\ sh.target \in Metered
          /\ buckets' = [buckets EXCEPT ![sh.target] = Resized(Refill(@, now), cap)]
      BY <1>2, <2>1 DEF ApplyShare, Known, Metered
    <3>2. /\ cap \in [Dims -> Nat]
          /\ \A d \in Dims : Allowances[sh.target][d] > 0 =>
                cap[d] \in 1..Allowances[sh.target][d]
      BY <3>1, Splits
    <3> HIDE DEF cap, sh
    <3>3. /\ buckets' \in [Metered -> BucketType]
          /\ \A d \in Dims : buckets'[sh.target][d].max = cap[d]
          /\ \A u \in Metered \ {sh.target} : buckets'[u] = buckets[u]
      BY <3>1, <3>2, ResizeBucket
    <3> QED
      BY <3>1, <3>2, <3>3
  <2>2. CASE ~Known(sh.target)
    BY <1>2, <2>2 DEF ApplyShare, Inv, BucketsInv
  <2> QED
    BY <2>1, <2>2
<1> QED
  BY <1>1, <1>2

\* Buckets: no step leaves a capacity outside the allowance.
LEMMA BucketsStep ==
    ASSUME Inv, [Next]_vars
    PROVE  BucketsInv'
<1>1. now' \in Nat
  <2>1. now \in Nat
    BY DEF Inv, BucketsInv
  <2>2. CASE Tick
    BY <2>1, <2>2 DEF Tick
  <2>3. CASE ~Tick
    <3>1. now' = now
      BY <2>3 DEF Next, CacheSet, Evaluate, Decide, RecordRequest, RecordTokens,
         Record, AdmitCritical, TryAdmit, ReportOnce, StartReport, SwapRequests,
         ResetShare, SwapTokens, ReportFails, ReportSucceeds, ApplyShare,
         EndReport, vars
    <3> QED
      BY <2>1, <3>1
  <2> QED
    BY <2>2, <2>3
<1>2. ASSUME buckets' = buckets PROVE BucketsInv'
  BY <1>1, <1>2 DEF Inv, BucketsInv, CapacityWithinAllowance
<1>3. ASSUME NEW r \in Streams, AdmitCritical(r) \/ TryAdmit(r) PROVE BucketsInv'
  BY <1>1, <1>3, StreamBucket DEF Inv, BucketsInv, CapacityWithinAllowance, Metered
<1>4. ASSUME NEW t \in Metered, ResetShare(t) PROVE BucketsInv'
  <2>1. \A d \in Dims : Allowances[t][d] > 0 => EvenSplit(t)[d] \in 1..Allowances[t][d]
    BY Splits
  <2> QED
    BY <1>1, <1>4, <2>1, ReporterBucket
       DEF Inv, BucketsInv, CapacityWithinAllowance, Metered
<1>5. ASSUME ApplyShare PROVE BucketsInv'
  BY <1>1, <1>5, ReporterBucket DEF Inv, BucketsInv, CapacityWithinAllowance, Metered
<1> QED
  BY <1>2, <1>3, <1>4, <1>5 DEF Next, Tick, CacheSet, Evaluate, Decide, RecordRequest,
     RecordTokens, Record, ReportOnce, StartReport, SwapRequests, SwapTokens,
     ReportFails, ReportSucceeds, EndReport, vars, Metered

\* The reporter: a fallback to the even split, once it has run, lasts until a
\* report succeeds.
LEMMA ReporterStep ==
    ASSUME Inv, [Next]_vars
    PROVE  ReporterInv'
<1>0. FallbackAfterFailures \in Nat \ {0}
  BY LimiterAssumption
<1>1. ASSUME UNCHANGED reporter,
             \A t \in Metered, d \in Dims : buckets'[t][d].max = buckets[t][d].max
      PROVE  ReporterInv'
  BY <1>1 DEF Inv, ReporterInv, EvenSplitWhenCutOff, Even, Metered
<1>2. ASSUME NEW r \in Streams, AdmitCritical(r) \/ TryAdmit(r) PROVE ReporterInv'
  BY <1>1, <1>2, StreamBucket
<1>3. CASE StartReport
  <2>1. PICK n \in Nat : reporter = [pc |-> "idle", failures |-> n]
    BY <1>3 DEF StartReport, Inv, ReporterInv
  <2>2. reporter' = [pc |-> "drain", failures |-> n, left |-> Metered] /\ buckets' = buckets
    BY <1>3, <2>1 DEF StartReport, Inv, DemandInv
  <2> QED
    BY <2>1, <2>2 DEF Inv, ReporterInv, EvenSplitWhenCutOff
<1>4. ASSUME NEW t \in Metered, SwapRequests(t) PROVE ReporterInv'
  <2>1. PICK n \in Nat, left \in SUBSET Metered :
           reporter = [pc |-> "drain", failures |-> n, left |-> left]
    BY <1>4 DEF SwapRequests, Inv, ReporterInv
  <2>2. /\ reporter' = [pc |-> "swap", failures |-> n, left |-> left \ {t},
                        at |-> t, requests |-> demand[t]["rpm"]]
        /\ buckets' = buckets
    BY <1>4, <2>1 DEF SwapRequests
  <2>3. demand[t]["rpm"] \in Nat
    BY DEF Inv, DemandInv, Dims
  <2> QED
    BY <2>1, <2>2, <2>3 DEF Inv, ReporterInv, EvenSplitWhenCutOff
<1>5. CASE SwapTokens
  <2>1. PICK n \in Nat, left \in SUBSET Metered :
           /\ reporter.pc = "swap" /\ reporter.failures = n /\ reporter.left = left
    BY <1>5 DEF SwapTokens, Inv, ReporterInv
  <2>2. \E p \in {"drain", "rpc"} :
           reporter' = [pc |-> p, failures |-> n, left |-> left]
    BY <1>5, <2>1 DEF SwapTokens
  <2>3. buckets' = buckets
    BY <1>5 DEF SwapTokens
  <2>4. EvenSplitWhenCutOff'
    BY <2>1, <2>2, <2>3 DEF Inv, ReporterInv, EvenSplitWhenCutOff
  <2>5. reporter'.pc # "reset"
    BY <2>2
  <2> QED
    BY <2>2, <2>4, <2>5 DEF ReporterInv
<1>6. CASE ReportFails
  <2>1. PICK n \in Nat :
           reporter.pc = "rpc" /\ reporter.failures = n /\ buckets' = buckets
    BY <1>6 DEF ReportFails, Inv, ReporterInv
  <2>2. n + 1 \in Nat
    OBVIOUS
  <2>3. CASE n + 1 = FallbackAfterFailures
    <3>1. reporter' = [pc |-> "reset", failures |-> n + 1, left |-> Metered]
      BY <1>6, <2>1, <2>3 DEF ReportFails, Inv, BucketsInv
    <3> QED
      BY <2>2, <2>3, <3>1 DEF ReporterInv, EvenSplitWhenCutOff
  <2>4. CASE n + 1 # FallbackAfterFailures
    <3>1. reporter' = [pc |-> "idle", failures |-> n + 1]
      BY <1>6, <2>1, <2>4 DEF ReportFails
    <3>2. n + 1 >= FallbackAfterFailures => n >= FallbackAfterFailures
      BY <1>0, <2>4
    <3>3. EvenSplitWhenCutOff'
      BY <2>1, <3>1, <3>2 DEF Inv, ReporterInv, EvenSplitWhenCutOff
    <3> QED
      BY <2>2, <3>1, <3>3 DEF ReporterInv
  <2> QED
    BY <2>3, <2>4
<1>7. ASSUME NEW shares,
              reporter' = [pc |-> "apply", failures |-> 0, shares |-> shares]
       PROVE  ReporterInv'
  <2>1. reporter'.pc = "apply" /\ reporter'.failures = 0
    BY <1>7
  <2>2. EvenSplitWhenCutOff'
    BY <1>0, <2>1 DEF EvenSplitWhenCutOff
  <2>3. \E sh : reporter' = [pc |-> "apply", failures |-> 0, shares |-> sh]
    BY <1>7
  <2> QED
    BY <2>1, <2>2, <2>3 DEF ReporterInv
<1>8. ASSUME NEW shares, ReportSucceeds(shares) PROVE ReporterInv'
  <2>1. reporter' = [pc |-> "apply", failures |-> 0, shares |-> shares]
    BY <1>8 DEF ReportSucceeds
  <2> QED
    BY <2>1, <1>7
<1>9. CASE ApplyShare
  <2>1. PICK shares : reporter = [pc |-> "apply", failures |-> 0, shares |-> shares]
    BY <1>9 DEF ApplyShare, Inv, ReporterInv
  <2>2. reporter' = [pc |-> "apply", failures |-> 0, shares |-> Tail(shares)]
    BY <1>9, <2>1 DEF ApplyShare
  <2> QED
    BY <2>2, <1>7
<1>10. ASSUME NEW t \in Metered, ResetShare(t) PROVE ReporterInv'
  <2>1. PICK n \in Nat, left \in SUBSET Metered :
           reporter = [pc |-> "reset", failures |-> n, left |-> left]
    BY <1>10 DEF ResetShare, Inv, ReporterInv
  <2>2. reporter' = [pc |-> "reset", failures |-> n, left |-> left \ {t}]
    BY <1>10, <2>1 DEF ResetShare
  <2>3. \A u \in Metered \ (left \ {t}) : Even(u)'
    BY <1>10, <2>1, ReporterBucket DEF Inv, ReporterInv, Even
  <2>4. n = FallbackAfterFailures
    BY <2>1 DEF Inv, ReporterInv
  <2> QED
    BY <2>2, <2>3, <2>4 DEF ReporterInv, EvenSplitWhenCutOff
<1>11. CASE EndReport
  <2>1. PICK n \in Nat : reporter.failures = n
    BY <1>0 DEF Inv, ReporterInv
  <2>2. reporter' = [pc |-> "idle", failures |-> n] /\ buckets' = buckets
    BY <1>11, <2>1 DEF EndReport
  <2>3. CASE reporter.pc = "apply"
    <3>1. n = 0
      BY <2>1, <2>3 DEF Inv, ReporterInv
    <3> QED
      BY <1>0, <2>2, <3>1 DEF ReporterInv, EvenSplitWhenCutOff
  <2>4. CASE reporter.pc = "reset" /\ reporter.left = {}
    <3>1. \A t \in Metered : Even(t)
      BY <2>4 DEF Inv, ReporterInv
    <3> QED
      BY <2>2, <3>1 DEF ReporterInv, EvenSplitWhenCutOff, Even, Metered
  <2> QED
    BY <1>11, <2>3, <2>4 DEF EndReport
<1>12. ASSUME UNCHANGED <<reporter, buckets>> PROVE ReporterInv'
  BY <1>1, <1>12
<1> QED
  BY <1>2, <1>3, <1>4, <1>5, <1>6, <1>8, <1>9, <1>10, <1>11, <1>12
     DEF Next, Tick, CacheSet, Evaluate, Decide, RecordRequest, RecordTokens, Record,
     ReportOnce, vars, Metered

\* What the reporter has taken from a counter and not yet put into its report.
Held(t, d) == IF d = "rpm" /\ reporter.pc = "swap" /\ reporter.at = t
              THEN reporter.requests ELSE 0

Conserved(t, d) ==
    ledger.recorded[t][d] = demand[t][d] + ledger.drained[t][d] + Held(t, d)

\* DemandConserved, one counter at a time.
LEMMA CounterWise ==
    ASSUME demand \in [Metered -> [Dims -> Nat]], ledger \in LedgerType
    PROVE  DemandConserved <=> \A t \in Metered, d \in Dims : Conserved(t, d)
<1> DEFINE sum(t) == Plus(Plus(demand[t], ledger.drained[t]),
                          [d \in Dims |-> Held(t, d)])
<1>1. ASSUME NEW t \in Metered
      PROVE  /\ \A d \in Dims : sum(t)[d] =
                    demand[t][d] + ledger.drained[t][d] + Held(t, d)
             /\ sum(t) = [d \in Dims |-> sum(t)[d]]
             /\ ledger.recorded[t] = [d \in Dims |-> ledger.recorded[t][d]]
  <2>1. ledger.recorded[t] \in [Dims -> Nat]
    BY DEF LedgerType
  <2> QED
    BY <2>1 DEF Plus
<1>2. ASSUME NEW t \in Metered
      PROVE  ledger.recorded[t] = sum(t) <=> \A d \in Dims : Conserved(t, d)
  <2>1. ASSUME \A d \in Dims : Conserved(t, d) PROVE ledger.recorded[t] = sum(t)
    <3>1. \A d \in Dims : ledger.recorded[t][d] = sum(t)[d]
      BY <1>1, <2>1 DEF Conserved
    <3> HIDE DEF sum
    <3> QED
      BY <1>1, <3>1
  <2>2. ASSUME ledger.recorded[t] = sum(t) PROVE \A d \in Dims : Conserved(t, d)
    BY <1>1, <2>2 DEF Conserved
  <2> QED
    BY <2>1, <2>2
<1>3. DemandConserved <=> \A t \in Metered : ledger.recorded[t] = sum(t)
  BY DEF DemandConserved, Held, Metered
<1> QED
  BY <1>2, <1>3

\* What the reporter holds is a number, and 0 when it is not between two swaps.
LEMMA HeldFacts ==
    ASSUME ReporterInv, NEW t \in Metered, NEW d \in Dims
    PROVE  /\ Held(t, d) \in Nat
           /\ reporter.pc # "swap" => Held(t, d) = 0
BY DEF ReporterInv, Held

\* The counters after a step.
LEMMA CountersStep ==
    ASSUME Inv, [Next]_vars
    PROVE  /\ demand' \in [Metered -> [Dims -> Nat]] /\ ledger' \in LedgerType
           /\ \A t \in Metered, d \in Dims : Conserved(t, d)'
<1>0. /\ demand \in [Metered -> [Dims -> Nat]] /\ ledger \in LedgerType
      /\ \A t \in Metered, d \in Dims : Conserved(t, d)
      /\ ReporterInv
  BY CounterWise DEF Inv, DemandInv
<1> DEFINE Goal == /\ demand' \in [Metered -> [Dims -> Nat]] /\ ledger' \in LedgerType
                   /\ \A t \in Metered, d \in Dims : Conserved(t, d)'
<1>1. ASSUME UNCHANGED <<demand, ledger>>,
             reporter' = reporter \/ (reporter.pc # "swap" /\ reporter'.pc # "swap")
      PROVE  Goal
  BY <1>0, <1>1 DEF Conserved, Held
<1>2. ASSUME NEW r \in Streams, NEW p \in {"requests", "tokens"},
             NEW q, NEW d \in Dims, Record(r, p, q, d)
      PROVE  Goal
  <2> DEFINE t == Trying(r)
             n == Cost(jobs[r].in.tokens)[d]
  <2>1. t \in Metered /\ n \in Nat
    BY <1>2, LiveJob, CostIsNat DEF Inv, JobsInv, Record, Trying
  <2>2. /\ demand' = [demand EXCEPT ![t][d] = @ + n]
        /\ ledger' = [ledger EXCEPT !.recorded[t][d] = @ + n]
        /\ reporter' = reporter
    BY <1>2 DEF Record
  <2> HIDE DEF t, n
  <2>3. demand' \in [Metered -> [Dims -> Nat]]
    BY <1>0, <2>1, <2>2
  <2>4. /\ ledger' \in LedgerType /\ ledger'.drained = ledger.drained
        /\ ledger'.recorded = [ledger.recorded EXCEPT ![t][d] = @ + n]
    <3>1. /\ ledger.recorded \in [Metered -> [Dims -> Nat]]
          /\ ledger.drained \in [Metered -> [Dims -> Nat]]
          /\ ledger.reserved \in [Streams -> [Metered -> [Dims -> Int]]]
          /\ ledger = [recorded |-> ledger.recorded, drained |-> ledger.drained,
                       reserved |-> ledger.reserved]
      BY <1>0 DEF LedgerType
    <3> DEFINE rec == [ledger.recorded EXCEPT ![t][d] = @ + n]
    <3>2. rec \in [Metered -> [Dims -> Nat]]
      BY <2>1, <3>1
    <3>3. ledger' = [recorded |-> rec, drained |-> ledger.drained,
                     reserved |-> ledger.reserved]
      BY <2>2, <3>1
    <3> HIDE DEF rec
    <3>4. ledger' \in LedgerType /\ ledger'.drained = ledger.drained /\ ledger'.recorded = rec
      BY <3>1, <3>2, <3>3 DEF LedgerType
    <3> QED
      BY <3>4 DEF rec
  <2>5. ASSUME NEW u \in Metered, NEW e \in Dims PROVE Conserved(u, e)'
    <3>1. /\ demand[u][e] \in Nat /\ ledger.recorded[u][e] \in Nat
          /\ ledger.drained[u][e] \in Nat /\ Held(u, e) \in Nat /\ Conserved(u, e)
      BY <1>0, HeldFacts DEF LedgerType
    <3>2. Held(u, e)' = Held(u, e)
      BY <2>2 DEF Held
    <3>3. CASE u = t /\ e = d
      <4>1. /\ demand'[u][e] = demand[u][e] + n
            /\ ledger'.recorded[u][e] = ledger.recorded[u][e] + n
        BY <1>0, <2>1, <2>2, <2>4, <3>3 DEF LedgerType
      <4> QED
        BY <2>1, <2>4, <3>1, <3>2, <4>1 DEF Conserved
    <3>4. CASE ~(u = t /\ e = d)
      <4>1. /\ demand'[u][e] = demand[u][e]
            /\ ledger'.recorded[u][e] = ledger.recorded[u][e]
        BY <1>0, <2>1, <2>2, <2>4, <3>4 DEF LedgerType
      <4> QED
        BY <2>4, <3>1, <3>2, <4>1 DEF Conserved
    <3> QED
      BY <3>3, <3>4
  <2> QED
    BY <2>3, <2>4, <2>5
<1>3. ASSUME NEW r \in Streams, TryAdmit(r) PROVE Goal
  <2> DEFINE t == Trying(r)
             cost == Cost(jobs[r].in.tokens)
             b == Refill(buckets[t], now)
             took == [d \in Dims |-> b[d].cur - Reserve(b, cost)[d].cur]
  <2>1. t \in Metered /\ cost \in [Dims -> Nat] /\ b \in BucketType
    <3>1. t \in Metered /\ jobs[r].in.tokens \in Int
      BY <1>3, LiveJob DEF Inv, JobsInv, TryAdmit, Trying
    <3>2. buckets[t] \in BucketType /\ now \in Nat
      BY <3>1 DEF Inv, BucketsInv
    <3> QED
      BY <3>1, <3>2, CostIsNat, RefillType
  <2>2. took \in [Dims -> Int]
    <3> HIDE DEF t, b, cost
    <3> QED
      BY <2>1, ReserveType DEF BucketType, Dimension
  <2>3. /\ demand' = demand /\ reporter' = reporter
        /\ ledger' = [ledger EXCEPT !.reserved[r][t] = Plus(@, took)]
    BY <1>3 DEF TryAdmit
  <2> HIDE DEF t, took
  <2>4. /\ ledger' \in LedgerType /\ ledger'.drained = ledger.drained
        /\ ledger'.recorded = ledger.recorded
    <3>1. Plus(ledger.reserved[r][t], took) \in [Dims -> Int]
      BY <1>0, <2>1, <2>2 DEF Plus, LedgerType
    <3> QED
      BY <1>0, <2>1, <2>3, <3>1 DEF LedgerType
  <2> QED
    BY <1>0, <2>3, <2>4 DEF Conserved, Held
<1>4. ASSUME NEW t \in Metered, SwapRequests(t) PROVE Goal
  <2>1. /\ demand' = [demand EXCEPT ![t]["rpm"] = 0] /\ ledger' = ledger
        /\ reporter.pc = "drain" /\ reporter'.pc = "swap" /\ reporter'.at = t
        /\ reporter'.requests = demand[t]["rpm"] /\ "rpm" \in Dims
    BY <1>4 DEF SwapRequests, Dims
  <2>2. demand' \in [Metered -> [Dims -> Nat]]
    BY <1>0, <2>1
  <2>3. ASSUME NEW u \in Metered, NEW e \in Dims PROVE Conserved(u, e)'
    <3>1. /\ demand[u][e] \in Nat /\ ledger.drained[u][e] \in Nat
          /\ Conserved(u, e) /\ Held(u, e) = 0
      BY <1>0, <2>1, HeldFacts DEF LedgerType
    <3>2. CASE u = t /\ e = "rpm"
      <4>1. demand'[u][e] = 0 /\ Held(u, e)' = demand[u][e]
        BY <1>0, <2>1, <3>2 DEF Held
      <4> QED
        BY <2>1, <3>1, <4>1 DEF Conserved
    <3>3. CASE ~(u = t /\ e = "rpm")
      <4>1. demand'[u][e] = demand[u][e] /\ Held(u, e)' = 0
        BY <1>0, <2>1, <3>3 DEF Held
      <4> QED
        BY <2>1, <3>1, <4>1 DEF Conserved
    <3> QED
      BY <3>2, <3>3
  <2> QED
    BY <1>0, <2>1, <2>2, <2>3
<1>5. ASSUME SwapTokens PROVE Goal
  <2>1. PICK t \in Metered, k \in Nat :
           reporter.pc = "swap" /\ reporter.at = t /\ reporter.requests = k
    BY <1>0, <1>5 DEF SwapTokens, ReporterInv
  <2> DEFINE entry == [d \in Dims |-> IF d = "rpm" THEN k ELSE demand[t]["tpm"]]
  <2>2. /\ demand' = [demand EXCEPT ![t]["tpm"] = 0] /\ reporter'.pc # "swap"
        /\ ledger' = IF entry = Zero THEN ledger
                     ELSE [ledger EXCEPT !.drained[t] = Plus(@, entry)]
    BY <1>5, <2>1 DEF SwapTokens
  <2>3. /\ entry \in [Dims -> Nat] /\ entry["rpm"] = k
        /\ entry["tpm"] = demand[t]["tpm"] /\ Dims = {"rpm", "tpm"}
    BY <1>0 DEF Dims
  <2> HIDE DEF entry
  <2>4. demand' \in [Metered -> [Dims -> Nat]]
    BY <1>0, <2>2, <2>3
  <2>5. /\ ledger' \in LedgerType /\ ledger'.recorded = ledger.recorded
        /\ \A u \in Metered, e \in Dims :
              ledger'.drained[u][e] = ledger.drained[u][e]
                                        + IF u = t THEN entry[e] ELSE 0
    <3>1. CASE entry = Zero
      <4>1. \A e \in Dims : entry[e] = 0
        BY <3>1 DEF Zero
      <4>2. \A u \in Metered, e \in Dims : ledger.drained[u][e] \in Nat
        BY <1>0 DEF LedgerType
      <4> QED
        BY <1>0, <2>2, <3>1, <4>1, <4>2
    <3>2. CASE entry # Zero
      <4>1. /\ Plus(ledger.drained[t], entry) \in [Dims -> Nat]
            /\ \A e \in Dims :
                  Plus(ledger.drained[t], entry)[e] = ledger.drained[t][e] + entry[e]
        BY <1>0, <2>3 DEF Plus, LedgerType
      <4>2. ledger' = [ledger EXCEPT !.drained[t] = Plus(@, entry)]
        BY <2>2, <3>2
      <4>3. /\ ledger' \in LedgerType /\ ledger'.recorded = ledger.recorded
            /\ ledger'.drained = [ledger.drained EXCEPT ![t] =
                                     Plus(ledger.drained[t], entry)]
        BY <1>0, <4>1, <4>2 DEF LedgerType
      <4>4. \A u \in Metered, e \in Dims : ledger.drained[u][e] \in Nat
        BY <1>0 DEF LedgerType
      <4>5. ledger.drained \in [Metered -> [Dims -> Nat]]
        BY <1>0 DEF LedgerType
      <4> QED
        BY <4>1, <4>3, <4>4, <4>5
    <3> QED
      BY <3>1, <3>2
  <2>6. ASSUME NEW u \in Metered, NEW e \in Dims PROVE Conserved(u, e)'
    <3>1. /\ demand[u][e] \in Nat /\ ledger.drained[u][e] \in Nat
          /\ Conserved(u, e) /\ Held(u, e) \in Nat /\ Held(u, e)' = 0
      BY <1>0, <2>2, HeldFacts DEF LedgerType, Held
    <3>2. CASE u = t /\ e = "tpm"
      <4>1. /\ demand'[u][e] = 0 /\ Held(u, e) = 0
            /\ ledger'.drained[u][e] = ledger.drained[u][e] + demand[u][e]
        BY <1>0, <2>2, <2>3, <2>5, <3>2 DEF Held
      <4> QED
        BY <2>5, <3>1, <4>1 DEF Conserved
    <3>3. CASE u = t /\ e = "rpm"
      <4>1. /\ demand'[u][e] = demand[u][e] /\ Held(u, e) = k
            /\ ledger'.drained[u][e] = ledger.drained[u][e] + k
        BY <1>0, <2>1, <2>2, <2>3, <2>5, <3>3 DEF Held
      <4> QED
        BY <2>5, <3>1, <4>1 DEF Conserved
    <3>4. CASE u # t
      <4>1. /\ demand'[u][e] = demand[u][e] /\ Held(u, e) = 0
            /\ ledger'.drained[u][e] = ledger.drained[u][e]
        BY <1>0, <2>1, <2>2, <2>5, <3>1, <3>4 DEF Held
      <4> QED
        BY <2>5, <3>1, <4>1 DEF Conserved
    <3> QED
      BY <2>3, <3>2, <3>3, <3>4
  <2> QED
    BY <2>4, <2>5, <2>6
<1>6. ASSUME StartReport \/ ReportFails \/ (\E shares \in Responses : ReportSucceeds(shares))
                \/ ApplyShare \/ (\E t \in Metered : ResetShare(t)) \/ EndReport
      PROVE  /\ UNCHANGED <<demand, ledger>>
             /\ reporter.pc # "swap" /\ reporter'.pc # "swap"
  <2>1. ApplyShare => reporter'.pc # "swap"
    BY <1>0 DEF ApplyShare, ReporterInv
  <2>2. ASSUME NEW t \in Metered, ResetShare(t) PROVE reporter'.pc # "swap"
    BY <1>0, <2>2 DEF ResetShare, ReporterInv
  <2> QED
    BY <1>6, <2>1, <2>2 DEF StartReport, ReportFails, ReportSucceeds, ApplyShare,
       ResetShare, EndReport
<1>7. ASSUME NEW r \in Streams, Decide(r) PROVE Goal
  <2>1. CASE AdmitCritical(r)
    BY <1>1, <2>1 DEF AdmitCritical
  <2> QED
    BY <1>2, <1>3, <1>7, <2>1 DEF Decide, RecordRequest, RecordTokens, Dims
<1>8. ASSUME ReportOnce PROVE Goal
  BY <1>1, <1>4, <1>5, <1>6, <1>8 DEF ReportOnce, Metered
<1>9. ASSUME \/ Tick \/ UNCHANGED vars
             \/ \E snapshot \in Snapshots : CacheSet(snapshot)
             \/ \E r \in Streams, in \in Inputs : Evaluate(r, in)
      PROVE  Goal
  BY <1>1, <1>9 DEF Tick, vars, CacheSet, Evaluate
<1> QED
  BY <1>7, <1>8, <1>9 DEF Next

\* Demand: none is lost between a record and a report.
LEMMA DemandStep ==
    ASSUME Inv, [Next]_vars
    PROVE  DemandInv'
<1>1. /\ demand' \in [Metered -> [Dims -> Nat]] /\ ledger' \in LedgerType
      /\ \A t \in Metered, d \in Dims : Conserved(t, d)'
  BY CountersStep
<1>2. (demand \in [Metered -> [Dims -> Nat]] /\ ledger \in LedgerType =>
          (DemandConserved <=> \A t \in Metered, d \in Dims : Conserved(t, d)))'
  BY CounterWise, PTL
<1> QED
  BY <1>1, <1>2 DEF DemandInv

\* A decided request that a target's bucket was charged for.
Charged(job, t) ==
    /\ job.pc = "done" /\ job.decision = "admit"
    /\ Place(job.in, Min(job.todo)) = t
    /\ job.in.priority # "critical"

\* ReservedOnce, in terms of one request.
EachCharged ==
    \A r \in Streams, t \in Metered :
        ledger.reserved[r][t] = IF Charged(jobs[r], t) THEN Cost(jobs[r].in.tokens)
                                ELSE Zero

\* The cases of ReservedOnce are those of EachCharged.
LEMMA ReservedEach == ReservedOnce <=> EachCharged
<1>1. \A r \in Streams, t \in Metered :
         Charged(jobs[r], t) <=> AdmittedAt(r, t) /\ jobs[r].in.priority # "critical"
  BY DEF Charged, AdmittedAt, Done, Trying
<1> QED
  BY <1>1 DEF ReservedOnce, EachCharged, Metered

\* A step of a stream that leaves the request charged as it was.
LEMMA ReservedKept ==
    ASSUME Inv, NEW r \in Streams, NEW job,
           jobs' = [jobs EXCEPT ![r] = job], ledger'.reserved = ledger.reserved,
           \A t \in Metered : ~Charged(jobs[r], t) /\ ~Charged(job, t)
    PROVE  ReservedOnce'
<1>1. \A q \in Streams, t \in Metered :
         ledger.reserved[q][t] = IF Charged(jobs[q], t) THEN Cost(jobs[q].in.tokens)
                                 ELSE Zero
  BY ReservedEach DEF Inv, EachCharged
<1>2. jobs'[r] = job /\ \A q \in Streams \ {r} : jobs'[q] = jobs[q]
  BY DEF Inv, JobsInv
<1>3. ASSUME NEW q \in Streams, NEW t \in Metered
      PROVE  ledger'.reserved[q][t] = IF Charged(jobs'[q], t)
                                      THEN Cost(jobs'[q].in.tokens) ELSE Zero
  BY <1>1, <1>2
<1>4. (ReservedOnce <=> EachCharged)'
  BY ReservedEach, PTL
<1> QED
  BY <1>3, <1>4 DEF EachCharged

\* TryAdmit charges the request where it is admitted and nowhere else.
LEMMA ReservedByTry ==
    ASSUME Inv, NEW r \in Streams, TryAdmit(r)
    PROVE  ReservedOnce'
<1> DEFINE t == Trying(r)
           cost == Cost(jobs[r].in.tokens)
           b == Refill(buckets[t], now)
           took == [d \in Dims |-> b[d].cur - Reserve(b, cost)[d].cur]
           fits == Fits(b, cost, ReservePercent)
           job == IF fits THEN Admitted(jobs[r]) ELSE AfterRefusal(jobs[r])
<1>1. /\ JobInv(jobs[r]) /\ jobs[r].pc = "acquire" /\ jobs[r].in.priority # "critical"
      /\ DOMAIN jobs = Streams /\ ledger \in LedgerType
  BY DEF Inv, JobsInv, DemandInv, TryAdmit
<1>2. /\ t \in Metered /\ cost \in [Dims -> Nat] /\ b \in BucketType
  <2>1. t \in Metered /\ jobs[r].in.tokens \in Int
    BY <1>1, LiveJob DEF Trying
  <2>2. buckets[t] \in BucketType /\ now \in Nat
    BY <2>1 DEF Inv, BucketsInv
  <2> QED
    BY <2>1, <2>2, CostIsNat, RefillType
<1>3. /\ jobs' = [jobs EXCEPT ![r] = job]
      /\ ledger' = [ledger EXCEPT !.reserved[r][t] = Plus(@, took)]
  BY DEF TryAdmit
<1>4. took = IF fits THEN cost ELSE Zero
  <2> HIDE DEF b, cost
  <2>1. \A d \in Dims : took[d] = IF fits THEN cost[d] ELSE 0
    BY <1>2, ReserveType
  <2> QED
    BY <1>2, <2>1 DEF Zero
<1>5. \A u \in Metered : Charged(job, u) <=> fits /\ u = t
  <2>1. CASE fits
    BY <1>1, <2>1, AdmittedJob DEF Charged, Trying
  <2>2. CASE ~fits
    <3>1. job = AfterRefusal(jobs[r])
      BY <2>2
    <3> HIDE DEF job, fits
    <3> QED
      BY <1>1, <2>2, <3>1, RefusedJob DEF Charged, Known, Metered
  <2> QED
    BY <2>1, <2>2
<1>6. job.in = jobs[r].in
  BY <1>1, AdmittedJob, RefusedJob
<1> HIDE DEF took, fits, job, b
<1>7. \A q \in Streams, u \in Metered :
         ledger.reserved[q][u] = IF Charged(jobs[q], u) THEN Cost(jobs[q].in.tokens)
                                 ELSE Zero
  BY ReservedEach DEF Inv, EachCharged
<1>8. \A u \in Metered : ledger.reserved[r][u] = Zero
  BY <1>1, <1>7 DEF Charged
<1>9. Plus(ledger.reserved[r][t], took) = IF fits THEN cost ELSE Zero
  <2>1. \A c \in [Dims -> Nat] : Plus(Zero, c) = c
    BY DEF Plus, Zero
  <2>2. took \in [Dims -> Nat]
    BY <1>2, <1>4 DEF Zero
  <2> QED
    BY <1>2, <1>4, <1>8, <2>1, <2>2
<1> HIDE DEF t, cost
<1>10. ledger'.reserved = [ledger.reserved EXCEPT ![r][t] = Plus(@, took)]
  BY <1>1, <1>3 DEF LedgerType
<1>11. ledger.reserved \in [Streams -> [Metered -> [Dims -> Int]]]
  BY <1>1 DEF LedgerType
<1>12. jobs'[r] = job /\ \A q \in Streams \ {r} : jobs'[q] = jobs[q]
  BY <1>1, <1>3
<1>13. ASSUME NEW q \in Streams, NEW u \in Metered
       PROVE  ledger'.reserved[q][u] = IF Charged(jobs'[q], u)
                                       THEN Cost(jobs'[q].in.tokens) ELSE Zero
  <2>1. CASE q = r /\ u = t
    <3>1. ledger'.reserved[q][u] = IF fits THEN cost ELSE Zero
      BY <1>2, <1>9, <1>10, <1>11, <2>1
    <3> QED
      BY <1>5, <1>6, <1>12, <2>1, <3>1 DEF cost
  <2>2. CASE q = r /\ u # t
    <3>1. ledger'.reserved[q][u] = Zero
      BY <1>2, <1>8, <1>10, <1>11, <2>2
    <3> QED
      BY <1>5, <1>12, <2>2, <3>1
  <2>3. CASE q # r
    <3>1. ledger'.reserved[q][u] = ledger.reserved[q][u]
      BY <1>2, <1>10, <1>11, <2>3
    <3> QED
      BY <1>7, <1>12, <2>3, <3>1
  <2> QED
    BY <2>1, <2>2, <2>3
<1>14. (ReservedOnce <=> EachCharged)'
  BY ReservedEach, PTL
<1> QED
  BY <1>13, <1>14 DEF EachCharged

\* Reservations: a request is charged once, where it is sent.
LEMMA ReservedStep ==
    ASSUME Inv, [Next]_vars
    PROVE  ReservedOnce'
<1>1. ASSUME UNCHANGED <<jobs, ledger>> PROVE ReservedOnce'
  BY <1>1 DEF Inv, ReservedOnce, AdmittedAt, Done, Trying
<1>2. ASSUME NEW r \in Streams, NEW in \in Inputs, Evaluate(r, in) PROVE ReservedOnce'
  <2> DEFINE job == Resume(in, cache, Eligible(cache, in))
  <2>1. /\ cache \in Cached /\ Eligible(cache, in) \in SUBSET Nat
        /\ Eligible(cache, in) = {} => in.priority # "critical"
    BY Places DEF Inv, JobsInv
  <2>2. /\ job.in = in /\ job.todo = Eligible(cache, in)
        /\ job.pc = "done" =>
              \/ job.decision = "shed"
              \/ ~Known(Place(in, Min(job.todo)))
    BY <2>1, ResumeJob
  <2>3. /\ jobs' = [jobs EXCEPT ![r] = job] /\ ledger' = ledger /\ jobs[r].pc = "new"
    BY <1>2 DEF Evaluate
  <2> HIDE DEF job
  <2>4. \A t \in Metered : ~Charged(jobs[r], t) /\ ~Charged(job, t)
    BY <2>2, <2>3 DEF Charged, Known, Metered
  <2> QED
    BY <2>3, <2>4, ReservedKept
<1>3. ASSUME NEW r \in Streams, NEW p \in {"requests", "tokens"},
             NEW q \in {"tokens", "acquire"}, NEW d, Record(r, p, q, d)
      PROVE  ReservedOnce'
  <2>1. /\ JobInv(jobs[r]) /\ jobs[r].pc = p /\ ledger \in LedgerType
        /\ jobs' = [jobs EXCEPT ![r] = [jobs[r] EXCEPT !.pc = q]]
        /\ \E t, n : ledger' = [ledger EXCEPT !.recorded[t][d] = n]
    BY <1>3 DEF Record, Inv, JobsInv, DemandInv
  <2>2. ledger'.reserved = ledger.reserved
    BY <2>1 DEF LedgerType
  <2>3. jobs[r] \in LiveJobs
    BY <2>1, LiveJob
  <2>4. [jobs[r] EXCEPT !.pc = q].pc = q
    BY <2>3 DEF LiveJobs
  <2>5. \A t \in Metered : ~Charged(jobs[r], t) /\ ~Charged([jobs[r] EXCEPT !.pc = q], t)
    BY <2>1, <2>4 DEF Charged
  <2> QED
    BY <2>1, <2>2, <2>5, ReservedKept
<1>4. ASSUME NEW r \in Streams, AdmitCritical(r) PROVE ReservedOnce'
  <2>1. /\ JobInv(jobs[r]) /\ jobs[r].pc = "acquire" /\ jobs[r].in.priority = "critical"
        /\ jobs' = [jobs EXCEPT ![r] = Admitted(jobs[r])] /\ ledger' = ledger
    BY <1>4 DEF AdmitCritical, Inv, JobsInv
  <2>2. \A t \in Metered : ~Charged(jobs[r], t) /\ ~Charged(Admitted(jobs[r]), t)
    BY <2>1, AdmittedJob DEF Charged
  <2> QED
    BY <2>1, <2>2, ReservedKept
<1>5. ASSUME NEW r \in Streams, Decide(r) PROVE ReservedOnce'
  BY <1>3, <1>4, <1>5, ReservedByTry DEF Decide, RecordRequest, RecordTokens
<1>6. ASSUME SwapTokens PROVE ReservedOnce'
  <2>1. /\ jobs' = jobs /\ ledger \in LedgerType
        /\ ledger' = ledger \/ \E t, e : ledger' = [ledger EXCEPT !.drained[t] = e]
    BY <1>6 DEF SwapTokens, Inv, DemandInv
  <2>2. ledger'.reserved = ledger.reserved
    BY <2>1 DEF LedgerType
  <2> QED
    BY <2>1, <2>2 DEF Inv, ReservedOnce, AdmittedAt, Done, Trying
<1>7. ASSUME ReportOnce, ~SwapTokens PROVE UNCHANGED <<jobs, ledger>>
  BY <1>7 DEF ReportOnce, StartReport, SwapRequests, ResetShare,
     ReportFails, ReportSucceeds, ApplyShare, EndReport
<1> QED
  BY <1>1, <1>2, <1>5, <1>6, <1>7 DEF Next, Tick, CacheSet, vars

-----------------------------------------------------------------------------
(* The theorems. *)

\* A replica that starts (NewLimiter, NewUsageReporter) satisfies the invariant.
LEMMA InitInv == Init => Inv
<1> SUFFICES ASSUME Init PROVE Inv
  OBVIOUS
<1>1. JobsInv
  BY DEF Init, JobsInv, JobInv, Cached
<1>2. /\ now \in Nat /\ buckets \in [Metered -> BucketType]
      /\ \A t \in Metered, d \in Dims : buckets[t][d].max = EvenSplit(t)[d]
  <2>1. \A t \in Metered : /\ EvenSplit(t) \in [Dims -> Nat]
                           /\ buckets[t] = NewTokenBucket(EvenSplit(t), 0)
    BY Splits DEF Init, Metered
  <2>2. \A cap \in [Dims -> Nat] :
           /\ NewTokenBucket(cap, 0) \in BucketType
           /\ \A d \in Dims : NewTokenBucket(cap, 0)[d].max = cap[d]
    BY DEF NewTokenBucket, BucketType, Dimension
  <2>3. now = 0 /\ buckets = [t \in Metered |-> buckets[t]]
    BY DEF Init, Metered
  <2> QED
    BY <2>1, <2>2, <2>3
<1>3. BucketsInv
  BY <1>2, Splits DEF BucketsInv, CapacityWithinAllowance, Metered
<1>4. ReporterInv
  BY <1>2 DEF Init, ReporterInv, EvenSplitWhenCutOff, Metered
<1>5. demand \in [Metered -> [Dims -> Nat]] /\ ledger \in LedgerType
  BY DEF Init, Zero, LedgerType, Metered
<1>6. DemandInv
  <2>1. \A t \in Metered, d \in Dims : Conserved(t, d)
    BY DEF Init, Zero, Conserved, Held, Metered
  <2> QED
    BY <1>5, <2>1, CounterWise DEF DemandInv
<1>7. ReservedOnce
  BY DEF Init, Idle, ReservedOnce, AdmittedAt, Done
<1> QED
  BY <1>1, <1>3, <1>4, <1>6, <1>7 DEF Inv

\* The invariant of a replica, for any number of streams, any allowances and
\* policies, and whatever the control plane publishes and answers.
THEOREM Inductive == Spec => []Inv
<1>1. Inv /\ [Next]_vars => Inv'
  BY JobsStep, BucketsStep, ReporterStep, DemandStep, ReservedStep DEF Inv
<1> QED
  BY InitInv, <1>1, PTL DEF Spec

\* Types: a request that is being decided always has a next candidate with a bucket
\* (Decide never runs off the end of a cascade), and no counter is negative.
THEOREM TypeCorrect == Spec => []TypeOK
<1>1. Inv => TypeOK
  <2> SUFFICES ASSUME Inv PROVE TypeOK
    OBVIOUS
  <2>1. ASSUME NEW r \in Streams
        PROVE  /\ jobs[r].pc \in {"new", "requests", "tokens", "acquire", "done"}
               /\ jobs[r].pc \in {"requests", "tokens", "acquire"} =>
                     jobs[r].todo # {} /\ Known(Trying(r))
    <3>1. JobInv(jobs[r])
      BY DEF Inv, JobsInv
    <3>2. jobs[r].pc \in {"new", "requests", "tokens", "acquire", "done"}
      BY <3>1 DEF JobInv, Idle, LiveJobs, DoneJobs
    <3> QED
      BY <3>1, <3>2, LiveJob DEF Known, Trying, Metered
  <2>2. /\ reporter.pc \in {"idle", "drain", "swap", "rpc", "apply", "reset"}
        /\ reporter.failures \in Nat
    BY DEF Inv, ReporterInv
  <2> QED
    BY <2>1, <2>2 DEF Inv, BucketsInv, DemandInv, TypeOK, Metered
<1> QED
  BY <1>1, Inductive, PTL

\* No demand is lost or counted twice between record's two adds and DrainDemand's
\* two swaps, however the streams and the reporter interleave.
THEOREM DemandKept == Spec => []DemandConserved
<1>1. Inv => DemandConserved
  BY DEF Inv, DemandInv
<1> QED
  BY <1>1, Inductive, PTL

\* A best-effort or custom request is charged once, to the bucket of the target it
\* is sent to, and a refused attempt or a shed request leaves nothing behind.
THEOREM ChargedOnce == Spec => []ReservedOnce
<1>1. Inv => ReservedOnce
  BY DEF Inv
<1> QED
  BY <1>1, Inductive, PTL

\* A replica's slice of an allowance is at least 1 and at most the whole, whatever
\* fractions ReportUsage returns.
THEOREM SliceWithinAllowance == Spec => []CapacityWithinAllowance
<1>1. Inv => CapacityWithinAllowance
  BY DEF Inv, BucketsInv
<1> QED
  BY <1>1, Inductive, PTL

\* Once fallbackAfterFailures reports in a row have failed and ResetShares is through,
\* every bucket has its even share until a report succeeds.
THEOREM FallsBackToEvenSplit == Spec => []EvenSplitWhenCutOff
<1>1. Inv => EvenSplitWhenCutOff
  BY DEF Inv, ReporterInv
<1> QED
  BY <1>1, Inductive, PTL

\* A best-effort or custom request goes only where the snapshot it was judged by
\* shows room, however often the cache changes meanwhile.
THEOREM SentWhereRoom == Spec => []AdmittedWithRoom
<1>1. Inv => AdmittedWithRoom
  <2> SUFFICES ASSUME Inv, NEW r \in Streams, NEW t \in Targets,
                      AdmittedAt(r, t), jobs[r].in.priority # "critical"
               PROVE  ~Full(jobs[r].snapshot, jobs[r].in.project, t)
    BY DEF AdmittedWithRoom
  <2>1. /\ jobs[r].in \in Inputs /\ jobs[r].todo \in SUBSET Nat /\ jobs[r].todo # {}
        /\ jobs[r].todo \subseteq Eligible(jobs[r].snapshot, jobs[r].in)
    BY DoneJob DEF Inv, JobsInv, AdmittedAt, Done
  <2>2. /\ Min(jobs[r].todo) \in Eligible(jobs[r].snapshot, jobs[r].in)
        /\ Place(jobs[r].in, Min(jobs[r].todo)) = t
    BY <2>1, FirstPlace DEF AdmittedAt, Trying
  <2> QED
    BY <2>1, <2>2, Places
<1> QED
  BY <1>1, Inductive, PTL

-----------------------------------------------------------------------------
(* Every step of the request path is one Admission allows. *)

\* The abstract request and answer of a stream, from its job.
RequestOf(job) == IF job.pc = "new" THEN <<>> ELSE <<job.in>>
AnswerOf(job) ==
    IF job.pc # "done" THEN <<>>
    ELSE IF job.decision = "shed" THEN <<Shed>>
    ELSE IF Min(job.todo) > 0 THEN <<Reroute(Place(job.in, Min(job.todo)))>>
    ELSE <<Forward>>

\* A decision is one that the request's priority and policy allow.
LEMMA AnswerAllowed ==
    ASSUME NEW job, JobInv(job), job.pc = "done"
    PROVE  AnswerOf(job) \in Promised!Answers(job.in)
<1> DEFINE at == Min(job.todo)
<1>1. /\ job.in \in Inputs /\ job.todo \in SUBSET Nat
      /\ job.todo \subseteq Eligible(job.snapshot, job.in)
      /\ job.decision = "shed" => job.in.priority # "critical"
      /\ job.decision # "shed" => job.todo # {}
  BY DoneJob
<1>2. \A d \in Allowed(job.in.priority, Promised!CascadeOf(job.in)) :
         <<d>> \in Promised!Answers(job.in)
  BY DEF Promised!Answers, Allowed, Promised!Allowed, Forward, Promised!Forward,
         Shed, Promised!Shed, Reroute, Promised!Reroute, Range, Promised!Range
<1>3. CASE job.decision = "shed"
  <2>1. Shed \in Allowed(job.in.priority, Promised!CascadeOf(job.in))
    BY <1>1, <1>3 DEF Allowed
  <2> QED
    BY <1>2, <1>3, <2>1 DEF AnswerOf
<1>4. CASE job.decision # "shed" /\ at > 0
  <2>1. at \in Eligible(job.snapshot, job.in)
    BY <1>1, <1>4, FirstPlace
  <2>2. /\ job.in.priority = "custom" /\ job.in.policy \in DOMAIN Policies
        /\ at \in DOMAIN Policies[job.in.policy]
    BY <1>1, <1>4, <2>1, Places
  <2>3. Place(job.in, at) \in Range(Promised!CascadeOf(job.in))
    <3> HIDE DEF at
    <3>1. Place(job.in, at) = Policies[job.in.policy][at]
      BY <1>4 DEF Place
    <3> QED
      BY <2>2, <3>1 DEF Range, Promised!CascadeOf
  <2>4. AnswerOf(job) = <<Reroute(Place(job.in, at))>>
    BY <1>4 DEF AnswerOf
  <2> HIDE DEF at
  <2>5. Reroute(Place(job.in, at)) \in Allowed(job.in.priority, Promised!CascadeOf(job.in))
    BY <2>2, <2>3 DEF Allowed
  <2> QED
    BY <1>2, <2>4, <2>5
<1>5. CASE job.decision # "shed" /\ ~(at > 0)
  <2>1. Forward \in Allowed(job.in.priority, Promised!CascadeOf(job.in))
    BY DEF Allowed
  <2> QED
    BY <1>2, <1>5, <2>1 DEF AnswerOf
<1> QED
  BY <1>3, <1>4, <1>5

\* A stream that keeps its request, and answers it if it does not stay silent, takes
\* a step of Admission.
LEMMA StreamMapped ==
    ASSUME DOMAIN jobs = Streams, NEW r \in Streams, NEW job, JobInv(job),
           jobs' = [jobs EXCEPT ![r] = job],
           jobs[r].pc # "done", job.pc # "new",
           \/ jobs[r].pc = "new" /\ job.in \in Inputs
           \/ jobs[r].pc # "new" /\ job.in = jobs[r].in
    PROVE  [Promised!Next]_(Promised!vars)
<1> DEFINE request == [q \in Streams |-> RequestOf(jobs[q])]
           answer == [q \in Streams |-> AnswerOf(jobs[q])]
           request2 == [request EXCEPT ![r] = RequestOf(job)]
           answer2 == [answer EXCEPT ![r] = AnswerOf(job)]
<1>1. /\ Promised!Next <=>
            \E q \in Streams : Promised!Arrive(q) \/ Promised!Answer(q)
      /\ jobs'[r] = job /\ \A q \in Streams \ {r} : jobs'[q] = jobs[q]
  BY DEF Promised!Next
<1>2. /\ [q \in Streams |-> RequestOf(jobs'[q])] = request2
      /\ [q \in Streams |-> AnswerOf(jobs'[q])] = answer2
  BY <1>1
<1>3. AnswerOf(job) \in {<<>>} \cup Promised!Answers(job.in)
  BY AnswerAllowed DEF AnswerOf
<1>4. answer[r] = <<>> /\ RequestOf(job) = <<job.in>>
  BY DEF AnswerOf, RequestOf
<1>5. CASE jobs[r].pc = "new"
  <2>1. Promised!Arrive(r)
    <3>1. request[r] = <<>>
      BY <1>5 DEF RequestOf
    <3> QED
      BY <1>2, <1>3, <1>4, <1>5, <3>1
         DEF Promised!Arrive, RequestOf, AnswerOf, Done, Trying
  <2> QED
    BY <2>1, <1>1
<1>6. CASE jobs[r].pc # "new"
  <2>1. request[r] = <<job.in>> /\ request2 = request
    BY <1>4, <1>6 DEF RequestOf
  <2>2. CASE job.pc = "done"
    <3>1. AnswerOf(job) \in Promised!Answers(job.in)
      BY <2>2, AnswerAllowed
    <3>2. Promised!Answer(r)
      BY <1>2, <1>4, <2>1, <3>1
         DEF Promised!Answer, RequestOf, AnswerOf, Done, Trying
    <3> QED
      BY <3>2, <1>1
  <2>3. CASE job.pc # "done"
    <3>1. answer2 = answer
      BY <1>4, <2>3 DEF AnswerOf
    <3> QED
      BY <1>2, <2>1, <3>1 DEF Promised!vars, RequestOf, AnswerOf, Done, Trying
  <2> QED
    BY <2>2, <2>3
<1> QED
  BY <1>5, <1>6

\* A step that leaves every request alone.
LEMMA StutterMapped == jobs' = jobs => UNCHANGED Promised!vars
BY DEF Promised!vars, Done, Trying

\* Every step of a replica maps to a step of Admission, or to none.
LEMMA NextMapped == Inv /\ [Next]_vars => [Promised!Next]_(Promised!vars)
<1> SUFFICES ASSUME Inv, [Next]_vars PROVE [Promised!Next]_(Promised!vars)
  OBVIOUS
<1>0. DOMAIN jobs = Streams /\ cache \in Cached /\ \A r \in Streams : JobInv(jobs[r])
  BY DEF Inv, JobsInv
<1>1. ASSUME NEW r \in Streams, NEW in \in Inputs, Evaluate(r, in)
      PROVE  [Promised!Next]_(Promised!vars)
  <2> DEFINE job == Resume(in, cache, Eligible(cache, in))
  <2>1. /\ Eligible(cache, in) \in SUBSET Nat
        /\ Eligible(cache, in) = {} => in.priority # "critical"
    BY Places
  <2>2. JobInv(job) /\ job.in = in /\ job.pc # "new"
    BY <1>0, <2>1, ResumeJob
  <2>3. jobs[r].pc = "new" /\ jobs' = [jobs EXCEPT ![r] = job]
    BY <1>1 DEF Evaluate
  <2> HIDE DEF job
  <2> QED
    BY <1>0, <2>2, <2>3, StreamMapped
<1>2. ASSUME NEW r \in Streams, NEW p \in {"requests", "tokens"},
             NEW q \in {"tokens", "acquire"}, NEW d, Record(r, p, q, d)
      PROVE  [Promised!Next]_(Promised!vars)
  <2> DEFINE job == [jobs[r] EXCEPT !.pc = q]
  <2>1. jobs[r].pc = p /\ jobs' = [jobs EXCEPT ![r] = job]
    BY <1>2 DEF Record
  <2>2. jobs[r] \in LiveJobs
    BY <1>0, <2>1, LiveJob
  <2>3. job.pc = q /\ job.in = jobs[r].in
    BY <2>2 DEF LiveJobs
  <2>4. JobInv(job)
    <3>1. JobsInv'
      BY JobsStep
    <3> QED
      BY <1>0, <2>1, <3>1 DEF JobsInv
  <2> HIDE DEF job
  <2> QED
    BY <1>0, <2>1, <2>3, <2>4, StreamMapped
<1>3. ASSUME NEW r \in Streams, AdmitCritical(r)
      PROVE  [Promised!Next]_(Promised!vars)
  <2>1. jobs[r].pc = "acquire" /\ jobs' = [jobs EXCEPT ![r] = Admitted(jobs[r])]
    BY <1>3 DEF AdmitCritical
  <2>2. /\ JobInv(Admitted(jobs[r])) /\ Admitted(jobs[r]).pc = "done"
        /\ Admitted(jobs[r]).in = jobs[r].in
    BY <1>0, <2>1, AdmittedJob
  <2> QED
    BY <1>0, <2>1, <2>2, StreamMapped
<1>4. ASSUME NEW r \in Streams, TryAdmit(r)
      PROVE  [Promised!Next]_(Promised!vars)
  <2>1. PICK job \in {Admitted(jobs[r]), AfterRefusal(jobs[r])} :
           jobs' = [jobs EXCEPT ![r] = job]
    BY <1>4 DEF TryAdmit
  <2>2. jobs[r].pc = "acquire" /\ jobs[r].in.priority # "critical"
    BY <1>4 DEF TryAdmit
  <2>3. JobInv(job) /\ job.pc # "new" /\ job.in = jobs[r].in
    BY <1>0, <2>2, AdmittedJob, RefusedJob
  <2> QED
    BY <1>0, <2>1, <2>2, <2>3, StreamMapped
<1>5. ASSUME NEW r \in Streams, Decide(r) PROVE [Promised!Next]_(Promised!vars)
  BY <1>2, <1>3, <1>4, <1>5 DEF Decide, RecordRequest, RecordTokens
<1>6. ASSUME ReportOnce PROVE jobs' = jobs
  BY <1>6 DEF ReportOnce, StartReport, SwapRequests, ResetShare, SwapTokens,
     ReportFails, ReportSucceeds, ApplyShare, EndReport
<1>7. ASSUME jobs' = jobs PROVE [Promised!Next]_(Promised!vars)
  BY <1>7, StutterMapped
<1> QED
  BY <1>1, <1>5, <1>6, <1>7 DEF Next, Tick, CacheSet, vars

\* The safety part of ImplementsAdmission: a request is answered at most once, and
\* with an answer that its priority and policy allow, whatever snapshots, buckets
\* and the reporter do.  That it is answered at all is left to model checking.
THEOREM Refinement == Spec => Promised!Init /\ [][Promised!Next]_(Promised!vars)
<1>1. Init => Promised!Init
  BY DEF Init, Idle, Promised!Init, Done
<1> QED
  BY <1>1, NextMapped, Inductive, PTL DEF Spec
=============================================================================
