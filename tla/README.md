# A formal specification of the Gemini Quota Governor

The governor keeps AI traffic within GCP quotas. A *control plane* polls GCP for
limits and usage and publishes quota snapshots. *Data plane* replicas sit beside
Envoy as ext_proc servers and decide for every HTTP request whether it is
forwarded, rerouted to a fallback or shed. This directory holds TLA+ modules
translated from the Go source, TLC configurations for small instances, and TLAPS
proofs for the parts where a small instance is not enough.

## 1. The system

| Component | State | Operations | Interacts with |
|---|---|---|---|
| Token bucket (`governor/bucket.go`) | per dimension (requests, tokens): capacity, balance, refill clock; one mutex | `SetCapacity`, `TryAcquire`, `TryAcquireAbove`, `ForceAcquire`, `Refund`, `GetAvailable`, `SyncHeadroom` | called by the limiter from every request goroutine and from the reporter |
| Limiter (`governor/limiter.go`) | one bucket and two atomic demand counters per target | `TryAdmit`, `AdmitCritical`, `ApplyShares`, `ResetShares`, `DrainDemand` | shared by requests and reporter |
| Cascade engine (`governor/cascade.go`, `priority.go`, `helpers.go`) | none (policies are fixed when it is built) | `NewCascadeEngine`, `Decide` | reads a snapshot, calls the limiter |
| Evaluator, ext_proc (`dataplane/evaluator.go`, `extproc.go`) | none | `Evaluate`, `EstimateTokens`, `Process` | one goroutine per HTTP request; loads the cached snapshot, calls router and cascade engine |
| Router (`router/*.go`) | none | `Parse`, `MutatePath`, `MutateHost` | called by the evaluator |
| Snapshot cache (`dataplane/cache.go`) | an atomic pointer | `Run`, `streamOnce`, `Get`, `Set` | client of `StreamQuotas` |
| Usage reporter (`dataplane/reporter.go`) | count of consecutive failures | `ReportOnce` every 10 s | client of `ReportUsage`; resizes the buckets |
| Share tracker (`controlplane/shares.go`) | per replica: last report, smoothed demand | `Report` | called by `ReportUsage` |
| Server (`server/server.go`) | none | `StreamQuotas`, `ReportUsage`, `GetQuotaSnapshot` | store, share tracker |
| Store (`controlplane/store.go`) | current snapshot, one-slot channel per subscriber | `Save`, `Get`, `Subscribe`, unsubscribe | reconciler saves, handlers subscribe |
| Reconciler (`controlplane/reconciler.go`) | none | `reconcile` every poll interval | GCP client, `Save` |
| GCP client (`controlplane/client.go`) | none | `FetchMetrics`: four calls per project | Cloud Quotas, Cloud Monitoring |
| Configuration (`governor/config.go`, `types.go`) | none | `LoadConfig` | read once by both binaries |
| Binaries (`cmd/*/main.go`) | the process | boot, shutdown on a signal | everything |
| Credentials (`transport/credentials.go`) | none | reading TLS files | the binaries |

What is hard here: any number of request goroutines work on the same buckets
while the reporter resizes them; a bucket's arithmetic has to be right over long
sequences of calls at odd instants; demand is counted and drained with separate
atomic operations; snapshots cross a lossy connection from a one-slot channel;
replicas learn their shares at different times, lose calls and fall back; polls
read GCP piecemeal while usage changes and calls fail; the same name is spelled in
several places that are normalised in different ways; the control plane keeps
everything in memory, stops and restarts. `PROJECT.json` lists
these hazards by line, each with the properties that cover it.

What makes each component correct:

* **bucket**: never more balance than capacity; best-effort traffic limited to a
  rate; the critical reserve untouched by it; debt that is repaid in bounded time;
* **limiter and requests**: a request reserves once, where it is sent; it is
  judged by one snapshot; demand is neither lost nor counted twice; every request
  is decided without waiting, with an answer its priority allows;
* **evaluator and router**: a request is sent where it was charged, to the endpoint
  of its region; its estimate covers its body; upstreams can trust the headers
  that the governor owns;
* **configuration**: what is accepted meets what the other components assume;
* **reconciler and GCP client**: a snapshot shows the configured allowances, the
  limits GCP reports and usage that was real; no failed call stops the polling;
* **reporter, tracker, fleet**: shares add up to 1; a settled fleet stays within
  the allowance; a replica that is cut off works with the even split;
* **store, server, cache**: a `Save` is never lost to a connected replica and
  never blocks; no send on a closed channel; subscriptions are released; caches
  converge; shutdown waits for clients only.

## 2. The modules

| Module | Models | Extends |
|---|---|---|
| `Dimensions` | the two dimensions and min/max | |
| `Bucket` | the arithmetic of bucket.go as functions from bucket to bucket | `Dimensions` |
| `TokenBucket` | one bucket, every method an action | `Bucket` |
| `ArithmeticLemmas` | lemmas on quotients, least numbers and finite sums | |
| `BucketLemmas` | lemmas on the operators of `Bucket` | `Bucket`, `ArithmeticLemmas` |
| `TokenBucketProofs` | theorems about `TokenBucket` | `TokenBucket`, `BucketLemmas` |
| `Quota` | snapshots, headroom, saturation, effective quota | `Dimensions` |
| `Decisions` | the answers a request may get, by priority and policy | |
| `Admission` | abstract: every request is answered once, as `Decisions` allows | `Decisions` |
| `Governor` | one replica: requests, limiter, reporter; implements `Admission` | `Bucket`, `Quota`, `Decisions` |
| `GovernorProofs` | theorems about `Governor` | `Governor`, `BucketLemmas` |
| `ShareTracker` | the arithmetic of shares.go | `Dimensions` |
| `Fleet` | several replicas, their reporters, the tracker | `ShareTracker` |
| `FleetProofs` | theorems about `Fleet` | `Fleet`, `ArithmeticLemmas` |
| `SnapshotRegister` | abstract: a register with one reader that attaches and detaches | |
| `QuotaStream` | store, `StreamQuotas`, snapshot cache, shutdown; implements `SnapshotRegister` | |
| `QuotaStreamProofs` | theorems about `QuotaStream` | `QuotaStream` |
| `Names` | names with case and padding, and how code folds them | |
| `Configuration` | `LoadConfig`, `Config`'s accessors, the policies of the cascade engine | `Dimensions`, `Names` |
| `Reconciler` | the polling loop, `FetchMetrics`, `reconcile`; uses `Quota` | `Configuration` |
| `ReconcilerProofs` | theorems about `Reconciler` | `Reconciler`, `ArithmeticLemmas` |
| `Route` | `Parse` and `Mutate` of the router | `Names` |
| `Gateway` | boot of a replica, ext_proc streams, `Evaluate` | `Configuration`, `Route`, `Decisions` |
| `GatewayProofs` | theorems about `Gateway` | `Gateway` |
| `MC...` | the constants of the instances TLC checks | |

Operators whose comment begins with "Mutant" are not part of a specification:
each is a definition with a plausible bug, and the property it is meant for fails
when the definition is replaced by it (`PROJECT.json`, "mutants").

**Bucket, TokenBucket.** A bucket is `[Dims -> [max, cur, last]]` for
`maxRPM`/`currentRPM`/`lastRefillRPM` and the TPM triple. The Go methods hold the
mutex from first to last statement, so a call is one action. `Minute` is the
number of clock ticks in `60*time.Second`; with `Minute = 60 * 10^9` the module is
the code at nanosecond resolution, and the proofs hold for that value too.
Capacities are natural numbers; int64 overflow is not modelled (limits would have
to exceed 2^63/100). The clock does not go back (Go's clock readings are
monotonic). `ledger` is a history variable no action reads: the first, smallest
and largest capacity, what best-effort calls took net of refunds, and what others
took. Its last entry saturates at `MaxOthers`, and the refunds are bounded by
`MaxRefund`, to keep TLC's state space finite.

**Quota, Governor.** A target stands for the code's `location/model` key, an
estimate for what `EstimateTokens` returns. A stream is a goroutine deciding one
request: it loads the snapshot (`Evaluate`), computes from it the places to try that
pass the snapshot test (`Candidates`, `Eligible`; local, so part of the same step),
and then visits them in order with three steps on shared state each: two atomic
adds of `record` and the bucket call. A place is a number: 0 is the primary, i the
i-th step of the policy's cascade, so a step equal to the primary is a place of its
own and is tried again, as in the code; what is left of them is the set `todo`, and
the next one is its minimum. `ledger` is history: what was recorded, drained, and
reserved for each request. The reporter is one more process: swap requests, swap
tokens, per target in any order (map iteration); the call; then one bucket at a
time. `ApplyShare` and `ResetShare` are single `SetCapacity` calls.

**ShareTracker, Fleet.** `Report` holds the tracker's mutex and is one function.
Averages halve with every report; they are kept as integers in units of `1/Unit`,
exact as long as `Unit` is divisible by 2 to the number of reports. Fractions are
exact quotients; the code's float64 may round `limit * fraction` across an integer
and so differ by one unit of capacity. In `Fleet` every reporter has a ticker; a
call's timeout is the ticker's interval, so a call ends no later than the next
tick, and time does not pass an event that is due.
Traffic shifts (`ShiftLoad`), replicas start and crash, calls fail before or after
the tracker saw them, and the control plane restarts with an empty tracker.

**QuotaStream.** Snapshots are numbered by their `Save`. Each `select` of `Save` is
a step, so the handler can take from the channel between them; the mutex is held
throughout. A session is a `StreamQuotas` call: handler, channel, and an ordered
stream of at most `Window` messages (gRPC flow control). Connections break, the
client reconnects, or hangs without closing its connection (`Hang`). On a signal
(`Terminate`) the gRPC server takes no new streams and `GracefulStop` waits for the
open ones; a poll that is under way may still save once. The process ends, or
crashes, and may be started again. The exponential backoff is reduced to "after a
while".

**Names, Configuration.** Most of what can go wrong with a configuration is that
one name has several spellings. A name is therefore a record of what it names,
whether it has capitals and whether it is padded with spaces; `ToLower` and
`TrimSpace` act on these as the code's functions do, and a `location/model` key is
the sequence of its parts. A padded part of a key stands for a space at that end
of the whole key, which is what `strings.TrimSpace` removes. A pointer that may be
nil, and a result that may be an error, are sequences of at most one element.

**Reconciler.** A poll is a sequence of calls: the two limits of a project (one
action, since nothing that the poll reads changes between the two calls; either,
both or none may fail), its request usage, its token usage, then the next project;
then `FetchMetrics`' assembly and `reconcile`, which touch nothing shared before
`Save` and are one action. A blank name in the lists makes `GetKey`, and with it
every poll, fail (`GetKeyFails`). A file may state default limits of any integers, or
`null`, which `LoadConfig` accepts too: the assembly then dereferences a nil pointer and
the control plane ends (`Panic`), unless a blank name in an earlier turn of its loops
makes it return an error first (`Turns`). What Cloud Quotas holds is an answer for each
project and dimension. `usage` is what Cloud Monitoring would answer;
`ChangeUsage` changes it at any time. `witnessed` and `poll.answered` are history
for the properties. `extractLimits` is a fold of its loop's body over the entries
of the answer; a Go map that is assigned to is `Updated`. Two spellings of a project are polled separately and collide in
`GetKey`. The map iteration of `reconcile` only adds and assigns, once per key, so
its order does not matter. `Init` ranges over what `LoadConfig` makes of the
files; `poll_interval` and `poll_timeout` have no effect on the loop but its pace.

**Route, Gateway.** A path is the sequence of its segments after the leading
slash; a host is a Vertex AI endpoint with the location it serves, or another
name. `Boot` loads a file and builds the policies; when two policy names fold to
one, either may be the one that stays (Go's map order). A stream is one
`Process` call. What `Decide` answers is any of `Decisions!Allowed`: that it is one
of these is what `ImplementsAdmission` shows of `Governor`, where snapshots and
buckets are. Of the headers of a request those that the governor writes are kept
(`Written`), as a set; of these it owns all but `retry-after` (`Owned`). The words that
begin with "v1" are a constant (`ApiVersions`). Header words are modelled by who wrote them. `EstimateTokens` works
in integers of width `MaxInt` that wrap.

**Two abstract specifications.** `Admission` knows requests and answers only:
each request that arrives is answered once, eventually, with an answer its
priority and policy allow. `Governor!Promised` maps a stream that has loaded its
snapshot to a request and its decision to the answer. `SnapshotRegister` is a
number that is written, may be forgotten, and is read by one reader: never a value
older than when the reader attached, never one that was not written.
`QuotaStream!Register` maps the store to the register, a client with a session that
has subscribed to an attached reader and the cache to what was seen. That the
reader's copy converges is `Converges`, which needs the client's state to say when.

## 3. What TLC checks

| Run | Instance | Shows |
|---|---|---|
| `bucket_resize` | minute of 8 ticks, 9 ticks, capacities (2,3) and (3,2), estimates -1 and 2 | `WithinCapacity`, `RateBound`, `ReserveForCritical`, `RecoversInTwoMinutes` over every sequence of calls |
| `governor_requests` | two streams; three targets: with both limits, with one, with none; two snapshots that disagree | `ReservedOnce`, `AdmittedWithRoom` |
| `governor_reporter` | two streams, one reporter, up to 4 failures in a row, shares that grow, shrink, are out of range or name an unknown target | `DemandConserved`, `CapacityWithinAllowance`, `EvenSplitWhenCutOff`, and the refinement `ImplementsAdmission` with its liveness |
| `fleet_shares` | two replicas, 6 report intervals, three events (shift of load, start, crash, restart, failed call) at any time | `SharesSumToOne`, `StaleShareExpires`, `SettledWithinAllowance` |
| `quota_stream` | three saves, two sessions, window 1; a break, a hang, a signal, a restart at any time | safety: `NeverSendsOnClosed`, `NewestOnItsWay`, `FreshSinceSubscribe`; liveness: `Converges`, `SubscriptionsReleased`, `SaveCompletes`, `StopWaitsOnlyForClients`; the refinement `ImplementsRegister` |
| `reconciler_poll` | two projects, or one under two spellings, or a blank one; default limits that are stated, negative or null; eight answers of Cloud Quotas, a different one for each dimension and for the other projects; two changes of usage and two failing calls at any time | `AllowanceIsOrgQuota`, `OrgUsageWasTrue`, `LimitsAsReported`, `UnlimitedNeverFull`, `ConvergesToUsage` |
| `gateway_requests` | nine configuration files; 64 requests: six paths with four hosts, five priorities with policies, four size hints, claimed headers; two streams | `AcceptedMeansGoverned`, `ChargedWhereSent`, `HostServesRegion`, `UpstreamHeadersTrusted`, `EstimateCoversBody` |

Each module's type invariant is checked beside its safety properties. Five more
runs are expected to fail; see section 5.

**Why the bounds are enough.** In `bucket_resize` the two capacities have prices
of 4 and 2 ticks, one of them rounded, so remainders, repricing, clamping, debt and
refunds all occur, and the clock runs past a minute. All of it is also
proved without bounds. Two streams suffice for the interleavings of `Governor`:
its properties speak of one request, one target and what anyone else does between
two of its steps, and the second stream together with the reporter is that anyone.
Four failures go one past the threshold of three. `governor_requests` uses failures
0: failing reports are the other run's subject. In `Fleet` the interval is one
tick and the TTL three, the proportion of 10 s to 30 s in the code; a share granted
at time 1 is stale at time 6, and three events are what it takes to cut a replica
off. Two replicas are enough for every answer to depend on another replica; larger
fleets are covered by the proofs. In `QuotaStream` three
saves put one in the handler's hand or on the stream, one in the channel and one in
progress; the second session starts while the first may still be winding down. The
last session does not break, so that delivery has a chance to finish, and a restart
leaves a session for the client to come back with. In `Reconciler` two changes
of usage can fall before, between and after the calls of one poll, two faults can
hit both limits of a project or two polls in a row, and the answers hold each pair
of neighbours in the order of specificity, in both orders, with entries that say
nothing; polls repeat without bound. `Gateway` handles each request by itself:
what matters is the list of inputs. Its numbers are scaled (`MaxInt` 31, estimates
up to 7), with a body length on each side of a multiple of four, one whose rounding
wraps and one that exceeds the cap.

**Symmetry** is used where only invariants are checked and the permuted values are
interchangeable (streams in `governor_requests` and `gateway_requests`, replicas in
`fleet_shares`).

**Fairness.** `Governor` assumes weak fairness of each stream's own steps only:
the Go scheduler runs a runnable goroutine, and none of its steps waits. Nothing is
assumed of clock, control plane or reporter. `QuotaStream!Spec` assumes that the
saver, each handler, the client and `GracefulStop` take steps they can take: all
are goroutines, and gRPC delivers on an unbroken stream and reports a broken one.
A client that hangs has no step it can take, and `SaveCompletes` holds with it.
`Reconciler!Spec` assumes that polling goes on: the ticker ticks and every call
returns, with an answer or an error. The loop gives its calls no deadline
(`poll_timeout` is used by `--once` only), so this rests on the API library's own.
`TokenBucket`, `Fleet` and `Gateway` state safety only. Faults, signals and changes
of usage are never fair.

**Deadlock** is checked in every run. Where the bounds let a behaviour end, an
explicit final step says when that is legitimate (`AllDelivered`, `TimeUp`,
`Ended`, `Quiet`).

## 4. What is proved

TLC's instances are small; the theorems below hold for every value of the constants
that the modules' ASSUMEs allow. TLC evaluates those assumptions in the runs. Every
invariant and every action property that a passing run checks is proved.

| Module | Theorem | Property |
|---|---|---|
| `TokenBucketProofs` | `TypeCorrect`, `NeverAboveCapacity`, `RateEnforced`, `ReserveProtected`, `DebtIsRepaid` | `TypeOK`, `WithinCapacity`, `RateBound`, `ReserveForCritical`, `RecoversInTwoMinutes` |
| `GovernorProofs` | `TypeCorrect`, `DemandKept`, `ChargedOnce`, `SentWhereRoom`, `SliceWithinAllowance`, `FallsBackToEvenSplit` | `TypeOK`, `DemandConserved`, `ReservedOnce`, `AdmittedWithRoom`, `CapacityWithinAllowance`, `EvenSplitWhenCutOff` |
| | `Refinement` | the safety part of `ImplementsAdmission` |
| `QuotaStreamProofs` | `TypeCorrect`, `NoSendOnClosed`, `NoSaveLost`, `CacheFresh` | `TypeOK`, `NeverSendsOnClosed`, `NewestOnItsWay`, `FreshSinceSubscribe` |
| | `Refinement` | `ImplementsRegister` |
| `FleetProofs` | `TypeCorrect`, `SharesAddUp`, `StaleSharesGivenUp`, `SettledFleetFits` | `TypeOK`, `SharesSumToOne`, `StaleShareExpires`, `SettledWithinAllowance` |
| `GatewayProofs` | `TypeCorrect`, `AcceptedIsGoverned`, `SentWhereCharged`, `RegionIsServed`, `HeadersAreTrusted`, `BodyIsCovered` | `TypeOK`, `AcceptedMeansGoverned`, `ChargedWhereSent`, `HostServesRegion`, `UpstreamHeadersTrusted`, `EstimateCoversBody` |
| `ReconcilerProofs` | `TypeCorrect`, `AllowancesKept`, `SavedUsageWasTrue`, `SavedLimitsAsReported`, `SavedUnlimitedNeverFull` | `TypeOK`, `AllowanceIsOrgQuota`, `OrgUsageWasTrue`, `LimitsAsReported`, `UnlimitedNeverFull` |
| | `ReportedLimit` | what `extractLimits` returns |

Each proof module begins with an inductive invariant `Inv`, has a lemma per action,
and a theorem `Inductive` (`Spec => []Inv`) from which the others follow. None of the
properties worth stating is inductive by itself.

**TokenBucketProofs**, for every `Minute`, set of capacities, set of token estimates
(negative ones included), set of headrooms and reserve of 0 to 90 percent. `Pace[d]`
is a lower bound on the ticks per unit of the refilling capacities, against which the
rate is stated. `Inv` adds, per dimension:

* `PaidFor`: `Pace * (net + max(cur, 0) - start) <= last`. What best-effort
  traffic took plus what the balance still offers, beyond the initial capacity, is
  covered by time the refill clock has consumed. A refill adds units and moves the
  clock by at least their price; an acquisition moves units from `cur` to `net`; a
  resize or sync only lowers the balance (a positive one) or moves the clock
  forward. With `last <= now` this gives `RateBound`.
* `Reserved`: the balance is at least the reserve of the smallest capacity so far,
  less what others took. `SetCapacity` needs that reserves are monotone in the
  capacity and at most the capacity (`ReserveSurvivesResize`).
* `DebtBounded`: the balance is at least minus the largest capacity so far. With an
  unchanged capacity the debt is at most that capacity, two capacities refill a
  dimension completely, and `max * (Minute div max) <= Minute` bounds the time.
* the capacity in force is one of `Capacities`, so its price is at least `Pace`.

`KeepCapacityInv` and `OthersAccountInv` collect what the actions share,
`RefillDimFacts` everything about `refillLocked`.

**GovernorProofs**, for any number of streams, any allowances, policies, snapshots and
responses. Assumptions: allowances are natural numbers with at least one limit, a
policy's cascade is not empty and leads to targets with an allowance (what
`AcceptedIsGoverned` proves of an accepted configuration), estimates are integers.
`JobInv` says that a request keeps to the places its *own* snapshot leaves it, always
has a place with a bucket ahead of it while it is being decided, and is shed only when
no place is left, which critical traffic never reaches; this is what the refinement
and `AdmittedWithRoom` rest on. `ReporterInv` adds that a reset under way has exactly
the threshold of failures and has already restored the targets it is past, without
which `EvenSplitWhenCutOff` is not preserved by the last `ResetShare`.
`Refinement` covers `Admission`'s `Init` and `[Next]_vars`; its fairness is TLC's.

**QuotaStreamProofs**, for any number of saves and sessions and any window. The heart
is `SessionInv`: outside `Save`, and inside it for the sessions already offered to, the
newest of channel, hand and last sent is the stored snapshot (`Fresh`); everything a
stream carries was saved and is not older than its subscription (`Carries`); the
channel `Save` has drained stays empty until it sends again, because only `Save`
fills it and it holds the mutex (`SaverInv`). `Fresh` for handlers before their `Get` is
needed because the initial `Get` may overtake a notification.

**FleetProofs**, for any finite number of replicas, any targets and demands, and any
interval, TTL, threshold and floor with `TimingAssumption`:
`FallbackAfterFailures * Interval <= TTL` (3 * 10 s and 30 s in the code, where only the
values say so; `StaleShareExpires` is false without it). Per replica the invariant has
two parts:

* `Timed`: a reporter's next tick is within an interval; it is at most `failures + 1`
  intervals after the last share (one more during a call), and at most one interval
  (two during a call) after the later of the last share and the last disturbance;
  from the threshold on the capacity is the even split. The first bound gives
  `StaleShareExpires`; the second says that in a settled fleet every share is newer
  than the last disturbance.
* `Current`: a share newer than the last disturbance is what the tracker would
  answer now, since answers depend only on the averages and on who is active
  (`SameAnswers`), and a report that changes either is a disturbance.

`SharesSumToOne` and `SettledWithinAllowance` are then about sums over any number of
replicas: `FractionsAddUp` (numerators add up to the common denominator) and
`SlicesFit` (quotients by a common denominator add up to at most the whole, but for
those rounded up to 1).

**ArithmeticLemmas** proves what these sums need: that `SumFunctionOnSet` is
well defined on finite sets, takes its members in any order, and is monotone, additive
and linear. The library's induction theorems take the property to be proved as an
operator, which the provers here cannot instantiate; in their place each lemma
considers the set of subsets that would refute it and takes a smallest one
(`SmallestSet`, from the well-foundedness of strict inclusion).

**GatewayProofs**, for every configuration file of the right types
(`ConfigAssumption`), every request whose size hints are integers of the given width
(`RequestAssumption`), every set of API versions, and every width and cap. `Inv` says that a replica that serves has
a usable configuration (`Usable`) and that every answer is one `Evaluate` gives for its
request under that configuration, which is fixed once booted; the properties then are
facts about `Evaluate`. `ReroutedParses` shows that a rewritten path parses to the
rerouted region and model with everything else as it was; `EstimateBounds` follows
`EstimateTokens` through its wrapping arithmetic.

**ReconcilerProofs**, for every set of configuration files of the right types with
any default limits, negative and null ones included (`ConfigsAssumption`), every answer of
Cloud Quotas for each project whose entries have at most one value (`AnswersAssumption`), any families of models
(`FamiliesAssumption`), any number of projects,
regions, models and spellings of them, and any changes and faults. `Inv` has three parts:

* `LimitsFound`: the limits of every project that the poll is past are in it, and each is
  what `extractLimits` makes of the present answer, or nothing when the last call for it
  failed: nothing is left of an earlier poll;
* `UsageFound`: the same of usage, and each reading is of a usage in `witnessed`, so it was
  true at some time since the poll began. `Place` says which projects the poll is past; at
  the assembly it is all of them, which is why no project is missing from the sum;
* `Saved`: what is stored is one whole snapshot (`SnapshotOK`).

`TypeCorrect` says of limits what the code guarantees and no more: an org quota is a
count, because an allowance is validated (`OrgLimitOf`), and a project's limit is a count
or a default that the file states (`DefaultType`), negative if the file says so.

`ReportedLimit` is the reasoning about `extractLimits`: after each entry the score and
the limit of a key are those of the last of the most specific entries so far
(`ExtractTurn`), hence so after all of them (`ExtractAll`). That the recursion behind the
fold has a solution (`ExtractIsSolved`) is shown as for the sums, by the least number of
entries for which it would have none.
`FallbackExact` shows that the lookup of an allowance finds the target's own key first,
`UsageExact` that the labels of Cloud Monitoring meet the targets' keys, and `OrgQuotaIs`
that a project under several spellings is summed once. `AllowancesKept` and
`SavedUsageWasTrue` have the hypothesis `Unpadded(cfg)`, that no listed region or model is
padded with spaces: without it the first is false (section 5, `config_padding`), and the
second has no usage to compare with, since Cloud Monitoring knows no padded label. The
other theorems need no such hypothesis.

Only model-checked:

* liveness: `Converges`, `SubscriptionsReleased`, `SaveCompletes`,
  `StopWaitsOnlyForClients`, `ConvergesToUsage`, and that every request is answered
  eventually (the fairness in `ImplementsAdmission`). Fairness and ENABLED are outside
  what the prover handles.

## 5. Where the code disagrees with its comments, tests or docs

Each of these is a run that TLC refutes; `PROJECT.json` quotes the lines.

* `bucket_force`: `ForceAcquire` *raises* the balance of a bucket in debt that was
  shrunk, because the debt is clamped to the new capacity.
* `bucket_growth`: `SetCapacity` leaves the unused remainder of the refill clock to
  be priced at the new rate, so growing a slow bucket hands out tokens at once.
  (`RateBound` still holds: at the rate of the larger capacity the time was there.)
* `governor_unlimited`: a dimension "without limit" is a bucket of 2^40 units whose
  price per unit rounds to 0 ns, so it never refills and is used up for good. The
  instance keeps the proportion of 2^40 to 60e9 (18 to 1).
* `governor_critical`: critical traffic never cascades, though its model's quota is used
  up and the fallback has room; the architecture document says it does.
* `config_padding`: a region or model listed with a space at its end passes
  validation, which trims, and is polled with the space, so its allowance does not
  become the org quota of any snapshot.

Further observations without a run: `SyncHeadroom` lifts a negative balance to 0
when GCP reports no headroom, where `docs/architecture.md:118` speaks of a minimum
(no binary calls it). Two saves between `Subscribe` and the initial `Get` make the
client see the newer snapshot, then the older one, until the second notification
arrives; `FreshSinceSubscribe` bounds how old it can be, and polls are far apart.
`docs/architecture.md:61` says slow consumers are evicted; the code drops stale
snapshots instead and keeps the consumer. Right after a replica joins, and after a
restart of the control plane, shares in force add up to more than 1 until every
replica has reported again; `SettledWithinAllowance` says when that is over.

While modelling configuration, polling and the request path we also noted:
a blank name in the lists is accepted and makes every poll fail in
`GetKey`; keys of `default_project_limits` are looked up in lower case and never
lower-cased; a null entry ends the control plane at the end of its first complete poll
(`Panic`), and a negative one becomes a project's limit, which the data plane takes for
no limit; two policy names that differ in case
or padding are both accepted, and each replica keeps one of them by map order;
`getEffectiveQuota` prefers the project quota, so where a snapshot has one the org
quota does not take part in a decision; for a content-length of 2^63-3 and more
the sum in `EstimateTokens` wraps and the default estimate is charged (no such body
exists; `EstimateCoversBody` excludes it by name); `retry-after` is among
the headers of which `evaluator.go:22-23` says a client's values never pass, but not
among those stripped, so a client's `retry-after` reaches the upstream of a request that is
forwarded, rerouted or bypassed (the model has it; `UpstreamHeadersTrusted` is about
`governorHeaders` only); a control plane with connected replicas does not stop by itself
on SIGTERM, since `GracefulStop` ends no stream (`StopWaitsOnlyForClients`
describes exactly that).

## 6. What is not modelled

* I/O: the constructors of the API clients and the requests they build, reading
  files and YAML, flags, listening, TLS credentials, protobuf code, the `--once` mode.
* The data plane's shutdown: it ends when Envoy's streams do, and has no state to
  save.
* Text: reasons, log lines, which error `Parse` returns, the value of Retry-After.
* How long things take, except in `Fleet`: backoff, poll intervals, deadlines.
* `GetQuotaSnapshot`, which only reads the store; `ProjectKey` and `IsStreaming`,
  which nobody calls.
* In `Governor` the project quotas of a snapshot change freely; that they are what
  `Reconciler` computes is not composed, because the properties of requests hold for
  every snapshot.

## 7. Plan

All modules of section 2 are written, every invariant and action property of the passing
runs is proved, and both refinements are, but for `Admission`'s fairness. What could be
added:

1. one composition of `Governor` with the snapshots that `Reconciler` saves, to state
   `UnlimitedNeverFull` of decisions rather than of snapshots;
2. liveness proofs, should the prover learn fairness.
