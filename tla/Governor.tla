------------------------------ MODULE Governor ------------------------------
(***************************************************************************)
(* One data plane replica: the request path (dataplane/evaluator.go, the   *)
(* CascadeEngine of governor/cascade.go) and the UsageReporter             *)
(* (dataplane/reporter.go) around the Limiter they share                   *)
(* (governor/limiter.go).                                                  *)
(*                                                                         *)
(* Envoy opens one ext_proc stream per HTTP request and every stream has a *)
(* goroutine of its own, so a stream is a process deciding one request.    *)
(* What it computes from the snapshot it loaded is local; its steps on     *)
(* shared state are the load of the cached snapshot, the two atomic adds   *)
(* of Limiter.record, and the bucket call under the bucket's mutex.  The   *)
(* reporter is one more goroutine: it swaps out the demand counters one by *)
(* one, waits for the RPC, and resizes the buckets one by one.             *)
(*                                                                         *)
(* A target is a "location/model" pair.  The cached snapshot is whatever   *)
(* the stream from the control plane last delivered (QuotaStream).         *)
(***************************************************************************)
EXTENDS Bucket, Quota, Decisions, Sequences, FiniteSetsExt

CONSTANTS
    Streams,        \* ext_proc streams, one HTTP request each
    Targets,
    Allowances,     \* target -> limits; a limit of 0 means "no limit"
    Replicas,       \* dataplane_replicas
    Unlimited,      \* unlimitedCapacity
    Policies,       \* policy name -> cascade, a non-empty sequence of targets
    Inputs,         \* the requests clients send
    Snapshots,      \* the snapshots the control plane publishes
    Responses,      \* the shares ReportUsage returns, fractions in percent
    FallbackAfterFailures,
    MaxTime,        \* bound on the clock
    MaxFailures     \* bound on the count of consecutive failures

Priorities == {"critical", "best_effort", "custom"}

ASSUME AllowanceAssumption ==
    /\ DOMAIN Allowances \subseteq Targets
    /\ \A t \in DOMAIN Allowances :
          /\ Allowances[t] \in [Dims -> Nat]
          /\ \E d \in Dims : Allowances[t][d] > 0
ASSUME PolicyAssumption ==
    \A p \in DOMAIN Policies :
        Policies[p] \in Seq(DOMAIN Allowances) /\ Policies[p] # <<>>
ASSUME InputAssumption ==
    \A in \in Inputs : /\ in.target \in Targets
                       /\ in.priority \in Priorities
                       /\ in.tokens \in Int
ASSUME LimiterAssumption ==
    /\ {Replicas, Unlimited, FallbackAfterFailures} \subseteq Nat \ {0}
    /\ {MaxTime, MaxFailures} \subseteq Nat

VARIABLES
    now,
    cache,      \* SnapshotCache.current
    buckets,    \* Limiter.buckets
    demand,     \* Limiter.demand
    jobs,       \* the request each stream decides
    reporter,   \* the UsageReporter and the call it is in
    ledger      \* history: what was recorded, drained and reserved

vars == <<now, cache, buckets, demand, jobs, reporter, ledger>>

Zero == [d \in Dims |-> 0]
Plus(a, b) == [d \in Dims |-> a[d] + b[d]]

-----------------------------------------------------------------------------
(* Limiter: sizes *)

Known(t) == t \in DOMAIN Allowances

Share(limit) ==
    IF limit <= 0 THEN Unlimited ELSE Greater(limit \div Replicas, 1)

\* Mutant: a fraction above 1 is taken at its word.
FractionOfUnclamped(limit, percent) ==
    IF limit <= 0 THEN Unlimited
    ELSE Greater((limit * percent) \div 100, 1)

\* A fraction outside (0, 1] counts as 1.
FractionOf(limit, percent) ==
    IF limit <= 0 THEN Unlimited
    ELSE LET f == IF percent \in 1..100 THEN percent ELSE 100
         IN Greater((limit * f) \div 100, 1)

EvenSplit(t) == [d \in Dims |-> Share(Allowances[t][d])]

WeightedSplit(t, fraction) ==
    [d \in Dims |-> FractionOf(Allowances[t][d], fraction[d])]

-----------------------------------------------------------------------------
(* CascadeEngine.Decide, the part that depends on the snapshot alone *)

Knows(snapshot, project, t) == HasQuota(snapshot, project, t) \/ Known(t)

\* Decide tries the primary, place 0, and then the steps of the request's policy,
\* places 1 and up.
Place(in, i) == IF i = 0 THEN in.target ELSE Policies[in.policy][i]

Steps(in) == IF in.policy \in DOMAIN Policies THEN DOMAIN Policies[in.policy] ELSE {}

\* Mutant: best-effort traffic that names a policy cascades too.
CandidatesAnyPriority(snapshot, in) ==
    {0} \cup {i \in Steps(in) : /\ in.priority # "critical"
                                /\ Knows(snapshot, in.project, in.target)
                                /\ Knows(snapshot, in.project, Place(in, i))}

\* The places Decide may send the request to.  Only custom traffic with an
\* existing policy has more than the primary; cascade steps that neither the
\* snapshot nor the limiter knows are skipped.
Candidates(snapshot, in) ==
    {0} \cup {i \in Steps(in) : /\ in.priority = "custom"
                                /\ Knows(snapshot, in.project, in.target)
                                /\ Knows(snapshot, in.project, Place(in, i))}

\* The candidates that pass the snapshot test and so go on to the limiter;
\* critical traffic skips the test.
Eligible(snapshot, in) ==
    {i \in Candidates(snapshot, in) :
        in.priority = "critical" \/ ~Full(snapshot, in.project, Place(in, i))}

-----------------------------------------------------------------------------
(* The state of a request *)

Idle == [pc |-> "new"]

\* Before its next bucket call, or decided: no candidate is left and the request
\* is shed, or the next one has no bucket and admits it as it is.
Resume(in, snapshot, todo) ==
    LET decided(d) == [pc |-> "done", in |-> in, snapshot |-> snapshot,
                       todo |-> todo, decision |-> d]
    IN IF todo = {} THEN decided("shed")
       ELSE IF Known(Place(in, Min(todo)))
       THEN [pc |-> "requests", in |-> in, snapshot |-> snapshot, todo |-> todo]
       ELSE decided("admit")

Admitted(job) == [pc |-> "done", in |-> job.in, snapshot |-> job.snapshot,
                  todo |-> job.todo, decision |-> "admit"]

Trying(r) == Place(jobs[r].in, Min(jobs[r].todo))

-----------------------------------------------------------------------------
Init ==
    /\ now = 0
    /\ cache = EmptySnapshot
    /\ buckets = [t \in DOMAIN Allowances |-> NewTokenBucket(EvenSplit(t), 0)]
    /\ demand = [t \in DOMAIN Allowances |-> Zero]
    /\ jobs = [r \in Streams |-> Idle]
    /\ reporter = [pc |-> "idle", failures |-> 0]
    /\ ledger = [recorded |-> [t \in DOMAIN Allowances |-> Zero],
                 drained  |-> [t \in DOMAIN Allowances |-> Zero],
                 reserved |-> [r \in Streams |-> [t \in DOMAIN Allowances |-> Zero]]]

Tick ==
    /\ now < MaxTime
    /\ now' = now + 1
    /\ UNCHANGED <<cache, buckets, demand, jobs, reporter, ledger>>

\* SnapshotCache.Set, called by the stream from the control plane.
CacheSet(snapshot) ==
    /\ cache' = snapshot
    /\ UNCHANGED <<now, buckets, demand, jobs, reporter, ledger>>

-----------------------------------------------------------------------------
(* The request path *)

\* Evaluate: load the snapshot and start deciding.
Evaluate(r, in) ==
    /\ jobs[r].pc = "new"
    /\ jobs' = [jobs EXCEPT ![r] = Resume(in, cache, Eligible(cache, in))]
    /\ UNCHANGED <<now, cache, buckets, demand, reporter, ledger>>

\* Limiter.record, in its two atomic adds.
Record(r, pc, next, d) ==
    /\ jobs[r].pc = pc
    /\ LET t == Trying(r)
           n == Cost(jobs[r].in.tokens)[d]
       IN /\ demand' = [demand EXCEPT ![t][d] = @ + n]
          /\ ledger' = [ledger EXCEPT !.recorded[t][d] = @ + n]
    /\ jobs' = [jobs EXCEPT ![r].pc = next]
    /\ UNCHANGED <<now, cache, buckets, reporter>>

RecordRequest(r) == Record(r, "requests", "tokens", "rpm")

RecordTokens(r) == Record(r, "tokens", "acquire", "tpm")

\* AdmitCritical's bucket call: always admitted.
AdmitCritical(r) ==
    /\ jobs[r].pc = "acquire" /\ jobs[r].in.priority = "critical"
    /\ buckets' = [buckets EXCEPT ![Trying(r)] =
                      ForceTaken(Refill(@, now), Cost(jobs[r].in.tokens))]
    /\ jobs' = [jobs EXCEPT ![r] = Admitted(@)]
    /\ UNCHANGED <<now, cache, demand, reporter, ledger>>

\* Mutant: the request is taken before the tokens are known to fit, and kept
\* when they do not.
ReserveKeepsRequest(b, cost) ==
    IF Fits(b, cost, ReservePercent) THEN Taken(b, cost)
    ELSE Taken(b, [cost EXCEPT !["tpm"] = 0])

\* TryAcquireAbove with the critical reserve as its floor.
Reserve(b, cost) ==
    IF Fits(b, cost, ReservePercent) THEN Taken(b, cost) ELSE b

\* Mutant: the rest of the cascade is judged by the snapshot cached by now.
AfterRefusalReloads(job) ==
    Resume(job.in, job.snapshot, Eligible(cache, job.in) \ (0..Min(job.todo)))

\* Mutant: the end of the cascade is not noticed.
AfterRefusalOverruns(job) ==
    [job EXCEPT !.pc = "requests", !.todo = @ \ {Min(@)}]

\* The next candidate that passed the snapshot test is tried.
AfterRefusal(job) == Resume(job.in, job.snapshot, job.todo \ {Min(job.todo)})

\* TryAdmit's bucket call: admitted, or on to the next candidate.
TryAdmit(r) ==
    /\ jobs[r].pc = "acquire" /\ jobs[r].in.priority # "critical"
    /\ LET t == Trying(r)
           cost == Cost(jobs[r].in.tokens)
           b == Refill(buckets[t], now)
           b2 == Reserve(b, cost)
       IN /\ buckets' = [buckets EXCEPT ![t] = b2]
          /\ ledger' = [ledger EXCEPT !.reserved[r][t] =
                Plus(@, [d \in Dims |-> b[d].cur - b2[d].cur])]
          /\ jobs' = [jobs EXCEPT ![r] =
                IF Fits(b, cost, ReservePercent) THEN Admitted(@)
                ELSE AfterRefusal(@)]
    /\ UNCHANGED <<now, cache, demand, reporter>>

Decide(r) ==
    \/ RecordRequest(r)
    \/ RecordTokens(r)
    \/ AdmitCritical(r)
    \/ TryAdmit(r)

-----------------------------------------------------------------------------
(* UsageReporter.ReportOnce *)

\* DrainDemand visits the counters in the order of a map iteration: any order.
StartReport ==
    /\ reporter.pc = "idle"
    /\ reporter' = [pc |-> "drain", failures |-> reporter.failures,
                    left |-> DOMAIN demand]
    /\ UNCHANGED <<now, cache, buckets, demand, jobs, ledger>>

SwapRequests(t) ==
    /\ reporter.pc = "drain" /\ t \in reporter.left
    /\ reporter' = [pc |-> "swap", failures |-> reporter.failures,
                    left |-> reporter.left \ {t},
                    at |-> t, requests |-> demand[t]["rpm"]]
    /\ demand' = [demand EXCEPT ![t]["rpm"] = 0]
    /\ UNCHANGED <<now, cache, buckets, jobs, ledger>>

\* Mutant: a target with requests or tokens missing is omitted from the report.
SwapTokensOmitsMore ==
    /\ reporter.pc = "swap"
    /\ LET t == reporter.at
           entry == [d \in Dims |-> IF d = "rpm" THEN reporter.requests
                                    ELSE demand[t]["tpm"]]
       IN /\ demand' = [demand EXCEPT ![t]["tpm"] = 0]
          /\ ledger' = IF \E d \in Dims : entry[d] = 0 THEN ledger
                       ELSE [ledger EXCEPT !.drained[t] = Plus(@, entry)]
    /\ reporter' = [pc |-> IF reporter.left = {} THEN "rpc" ELSE "drain",
                    failures |-> reporter.failures, left |-> reporter.left]
    /\ UNCHANGED <<now, cache, buckets, jobs>>

\* The report gets an entry unless both counters were 0.
SwapTokens ==
    /\ reporter.pc = "swap"
    /\ LET t == reporter.at
           entry == [d \in Dims |-> IF d = "rpm" THEN reporter.requests
                                    ELSE demand[t]["tpm"]]
       IN /\ demand' = [demand EXCEPT ![t]["tpm"] = 0]
          /\ ledger' = IF entry = Zero THEN ledger
                       ELSE [ledger EXCEPT !.drained[t] = Plus(@, entry)]
    /\ reporter' = [pc |-> IF reporter.left = {} THEN "rpc" ELSE "drain",
                    failures |-> reporter.failures, left |-> reporter.left]
    /\ UNCHANGED <<now, cache, buckets, jobs>>

\* Mutant: one failure too many before the fallback.
ReportFailsLate ==
    /\ reporter.pc = "rpc" /\ reporter.failures < MaxFailures
    /\ LET n == reporter.failures + 1
       IN reporter' = IF n = FallbackAfterFailures + 1
                      THEN [pc |-> "reset", failures |-> n,
                            left |-> DOMAIN buckets]
                      ELSE [pc |-> "idle", failures |-> n]
    /\ UNCHANGED <<now, cache, buckets, demand, jobs, ledger>>

\* The call fails or times out: what was drained is not put back.
ReportFails ==
    /\ reporter.pc = "rpc" /\ reporter.failures < MaxFailures
    /\ LET n == reporter.failures + 1
       IN reporter' = IF n = FallbackAfterFailures
                      THEN [pc |-> "reset", failures |-> n,
                            left |-> DOMAIN buckets]
                      ELSE [pc |-> "idle", failures |-> n]
    /\ UNCHANGED <<now, cache, buckets, demand, jobs, ledger>>

ReportSucceeds(shares) ==
    /\ reporter.pc = "rpc"
    /\ reporter' = [pc |-> "apply", failures |-> 0, shares |-> shares]
    /\ UNCHANGED <<now, cache, buckets, demand, jobs, ledger>>

\* One iteration of ApplyShares: a target without a bucket is ignored.
ApplyShare ==
    /\ reporter.pc = "apply" /\ reporter.shares # <<>>
    /\ LET sh == Head(reporter.shares)
       IN buckets' = IF Known(sh.target)
                     THEN [buckets EXCEPT ![sh.target] =
                             Resized(Refill(@, now),
                                     WeightedSplit(sh.target, sh.fraction))]
                     ELSE buckets
    /\ reporter' = [reporter EXCEPT !.shares = Tail(@)]
    /\ UNCHANGED <<now, cache, demand, jobs, ledger>>

\* One iteration of ResetShares.
ResetShare(t) ==
    /\ reporter.pc = "reset" /\ t \in reporter.left
    /\ buckets' = [buckets EXCEPT ![t] = Resized(Refill(@, now), EvenSplit(t))]
    /\ reporter' = [reporter EXCEPT !.left = @ \ {t}]
    /\ UNCHANGED <<now, cache, demand, jobs, ledger>>

EndReport ==
    /\ \/ reporter.pc = "apply" /\ reporter.shares = <<>>
       \/ reporter.pc = "reset" /\ reporter.left = {}
    /\ reporter' = [pc |-> "idle", failures |-> reporter.failures]
    /\ UNCHANGED <<now, cache, buckets, demand, jobs, ledger>>

ReportOnce ==
    \/ StartReport
    \/ \E t \in DOMAIN Allowances : SwapRequests(t) \/ ResetShare(t)
    \/ SwapTokens
    \/ ReportFails
    \/ \E shares \in Responses : ReportSucceeds(shares)
    \/ ApplyShare
    \/ EndReport

Next ==
    \/ Tick
    \/ \E snapshot \in Snapshots : CacheSet(snapshot)
    \/ \E r \in Streams :
          \/ \E in \in Inputs : Evaluate(r, in)
          \/ Decide(r)
    \/ ReportOnce

\* The goroutine of a stream keeps running once it has its request; nothing is
\* assumed of clients, of the clock, of the control plane or of the reporter.
Spec == Init /\ [][Next]_vars /\ \A r \in Streams : WF_vars(Decide(r))

-----------------------------------------------------------------------------
(* Properties *)

Done(r) == jobs[r].pc = "done"
AdmittedAt(r, t) ==
    Done(r) /\ jobs[r].decision = "admit" /\ Trying(r) = t

\* Types; in particular a request that is still being decided always has a next
\* candidate with a bucket to try (Decide's walk of the cascade), and no counter
\* of record and DrainDemand goes negative.
TypeOK ==
    /\ now \in Nat
    /\ buckets \in [DOMAIN Allowances -> BucketType]
    /\ demand \in [DOMAIN Allowances -> [Dims -> Nat]]
    /\ \A r \in Streams :
          /\ jobs[r].pc \in {"new", "requests", "tokens", "acquire", "done"}
          /\ jobs[r].pc \in {"requests", "tokens", "acquire"} =>
                jobs[r].todo # {} /\ Known(Trying(r))
    /\ reporter.pc \in {"idle", "drain", "swap", "rpc", "apply", "reset"}
    /\ reporter.failures \in Nat

\* No demand is lost or counted twice between Limiter.record's two adds and
\* DrainDemand's two swaps, whichever way they interleave: what was recorded is
\* in the counters, in the reporter's hands, or in a report.
DemandConserved ==
    \A t \in DOMAIN Allowances :
        ledger.recorded[t] =
            Plus(Plus(demand[t], ledger.drained[t]),
                 [d \in Dims |->
                    IF d = "rpm" /\ reporter.pc = "swap" /\ reporter.at = t
                    THEN reporter.requests ELSE 0])

\* A best-effort or custom request reserves its cost exactly once, in the bucket
\* of the target it is sent to: a refused attempt at an earlier candidate, or a
\* shed request, leaves nothing behind (tryTarget, TryAdmit).
ReservedOnce ==
    \A r \in Streams, t \in DOMAIN Allowances :
        ledger.reserved[r][t] =
            IF AdmittedAt(r, t) /\ jobs[r].in.priority # "critical"
            THEN Cost(jobs[r].in.tokens) ELSE Zero

\* A best-effort or custom request goes only where the snapshot it was judged
\* by shows room, however often the cache changes while it is being decided.
AdmittedWithRoom ==
    \A r \in Streams, t \in Targets :
        AdmittedAt(r, t) /\ jobs[r].in.priority # "critical" =>
            ~Full(jobs[r].snapshot, jobs[r].in.project, t)

\* A replica's slice of an allowance is at least 1 and at most the whole,
\* whatever fractions the control plane returns.
CapacityWithinAllowance ==
    \A t \in DOMAIN Allowances, d \in Dims :
        Allowances[t][d] > 0 => buckets[t][d].max \in 1..Allowances[t][d]

\* Cut off from the control plane (fallbackAfterFailures reports in a row have
\* failed), a replica works with the even split of every allowance until a
\* report succeeds again.
EvenSplitWhenCutOff ==
    reporter.failures >= FallbackAfterFailures /\ reporter.pc # "reset" =>
        \A t \in DOMAIN Allowances, d \in Dims :
            buckets[t][d].max = EvenSplit(t)[d]

\* The request path implements Admission: whatever snapshots, buckets and the
\* reporter do, every request is answered, once and without waiting for anyone,
\* critical traffic is neither shed nor rerouted, best-effort traffic does not
\* cascade, and custom traffic is sent nowhere but to its primary and its policy's
\* steps (Decide, Evaluate).
Promised == INSTANCE Admission WITH
    request <- [r \in Streams |-> IF jobs[r].pc = "new" THEN <<>> ELSE <<jobs[r].in>>],
    answer  <- [r \in Streams |->
                  IF ~Done(r) THEN <<>>
                  ELSE IF jobs[r].decision = "shed" THEN <<Shed>>
                  ELSE IF Min(jobs[r].todo) > 0 THEN <<Reroute(Trying(r))>>
                  ELSE <<Forward>>]
ImplementsAdmission == Promised!Spec

-----------------------------------------------------------------------------
(* Claims of comments and docs that the code does not keep; see the findings. *)

\* unlimitedCapacity "is large enough to never run out": a dimension without a
\* limit always has room for the requests clients send.
UnlimitedNeverRunsOut ==
    \A t \in DOMAIN Allowances, d \in Dims :
        Allowances[t][d] = 0 =>
            \A in \in Inputs :
                RefillDim(buckets[t][d], now).cur - Cost(in.tokens)[d]
                    >= FloorOf(buckets[t][d].max, ReservePercent)

\* "critical ... Cascades through fallback models/regions; fails open to primary
\* if exhausted": a critical request stays at a primary that is used up
\* (IsSaturated) only if every target of its policy is.
CriticalCascades ==
    LET Exhausted(r, t) ==
            /\ HasQuota(jobs[r].snapshot, jobs[r].in.project, t)
            /\ IsSaturated(EffectiveQuota(jobs[r].snapshot, jobs[r].in.project, t))
    IN \A r \in Streams :
          /\ Done(r)
          /\ jobs[r].in.priority = "critical"
          /\ jobs[r].in.policy \in DOMAIN Policies
          /\ AdmittedAt(r, jobs[r].in.target)
          /\ Exhausted(r, jobs[r].in.target)
          => \A i \in DOMAIN Policies[jobs[r].in.policy] :
                Exhausted(r, Policies[jobs[r].in.policy][i])
=============================================================================
