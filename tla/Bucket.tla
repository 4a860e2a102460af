------------------------------- MODULE Bucket -------------------------------
(***************************************************************************)
(* The arithmetic of one TokenBucket (pkg/governor/bucket.go).             *)
(*                                                                         *)
(* A bucket has two independent dimensions, requests per minute and tokens *)
(* per minute, each with a capacity, a balance and a refill clock of its   *)
(* own.  The Go methods hold the bucket's mutex from their first to their  *)
(* last statement, so each of them is one function from a bucket to a      *)
(* bucket here.  bucket.go counts nanoseconds; Minute is the number of     *)
(* clock ticks in its 60*time.Second.                                      *)
(***************************************************************************)
EXTENDS Dimensions

CONSTANT Minute

ASSUME MinuteAssumption == Minute \in Nat \ {0}

\* One dimension: maxRPM/currentRPM/lastRefillRPM, or the TPM triple.
Dimension == [max : Nat, cur : Int, last : Nat]
BucketType == [Dims -> Dimension]

\* What a request takes from each dimension: one request, and its tokens (a
\* negative estimate counts as none).
Cost(tokens) == [d \in Dims |-> IF d = "rpm" THEN 1 ELSE Greater(tokens, 0)]

NewTokenBucket(cap, t) ==
    [d \in Dims |-> [max |-> cap[d], cur |-> cap[d], last |-> t]]

-----------------------------------------------------------------------------
(* refillLocked *)

NanosPer(max) == Minute \div max

CanRefill(dim, t) == t > dim.last /\ dim.max > 0 /\ NanosPer(dim.max) > 0

\* Mutant: the refill clock is moved to one unit too early, so the same time
\* is paid for twice.
RefillDimDoublePays(dim, t) ==
    IF CanRefill(dim, t) /\ (t - dim.last) \div NanosPer(dim.max) > 0
    THEN LET gained == (t - dim.last) \div NanosPer(dim.max) IN
         [dim EXCEPT !.cur = Lesser(dim.max, @ + gained),
                     !.last = @ + (gained - 1) * NanosPer(dim.max)]
    ELSE dim

\* Mutant: the refill clock is rounded up instead of down.
RefillDimOvershoots(dim, t) ==
    IF CanRefill(dim, t) /\ (t - dim.last) \div NanosPer(dim.max) > 0
    THEN LET gained == (t - dim.last) \div NanosPer(dim.max) IN
         [dim EXCEPT !.cur = Lesser(dim.max, @ + gained),
                     !.last = @ + (gained + 1) * NanosPer(dim.max)]
    ELSE dim

\* Whole units only; the clock advances by what they cost, not by the elapsed
\* time, so the remainder is kept for the next refill.
RefillDim(dim, t) ==
    IF CanRefill(dim, t) /\ (t - dim.last) \div NanosPer(dim.max) > 0
    THEN LET gained == (t - dim.last) \div NanosPer(dim.max) IN
         [dim EXCEPT !.cur = Lesser(dim.max, @ + gained),
                     !.last = @ + gained * NanosPer(dim.max)]
    ELSE dim

Refill(b, t) == [d \in Dims |-> RefillDim(b[d], t)]

-----------------------------------------------------------------------------
(* The methods.  Each takes the refilled bucket the code works on. *)

\* The part of a capacity only critical traffic may use.
FloorOf(max, floorPercent) == (max * floorPercent) \div 100

\* Mutant: the new capacity is stored but the balance is not clamped to it.
ResizedKeepsBalance(b, cap) == [d \in Dims |-> [b[d] EXCEPT !.max = cap[d]]]

\* SetCapacity
Resized(b, cap) ==
    [d \in Dims |-> [b[d] EXCEPT !.max = cap[d], !.cur = Lesser(@, cap[d])]]

\* The common part of TryAcquire (floorPercent = 0) and TryAcquireAbove: both
\* dimensions must stay at or above their floor.
Fits(b, cost, floorPercent) ==
    \A d \in Dims : b[d].cur - cost[d] >= FloorOf(b[d].max, floorPercent)

Taken(b, cost) == [d \in Dims |-> [b[d] EXCEPT !.cur = @ - cost[d]]]

\* Mutant: debt is not capped at the capacity.
ForceTakenUncapped(b, cost) == [d \in Dims |-> [b[d] EXCEPT !.cur = @ - cost[d]]]

\* ForceAcquire: the balance may go negative, down to minus the capacity.
ForceTaken(b, cost) ==
    [d \in Dims |-> [b[d] EXCEPT !.cur = Greater(@ - cost[d], -b[d].max)]]

\* Refund, for a positive number of tokens; it does not refill first.
Refunded(b, tokens) ==
    [b EXCEPT !["tpm"].cur = Lesser(b["tpm"].max, @ + tokens)]

\* SyncHeadroom: the balance drops to the headroom GCP reports and the refill
\* clocks restart from this baseline.
Synced(b, headroom, t) ==
    [d \in Dims |->
        [b[d] EXCEPT !.cur = IF headroom[d] <= 0 THEN 0
                             ELSE Lesser(@, headroom[d]),
                     !.last = t]]
=============================================================================
