---------------------------- MODULE TokenBucket -----------------------------
(***************************************************************************)
(* One TokenBucket (pkg/governor/bucket.go) used by any number of          *)
(* goroutines.  Every method holds the mutex throughout, so a call is one  *)
(* action; the clock advances between calls.                               *)
(*                                                                         *)
(* ledger is a history variable: what the properties need to remember of   *)
(* the calls made so far.  No action reads it.                             *)
(***************************************************************************)
EXTENDS Bucket

CONSTANTS
    Capacities,     \* the capacities the bucket is created with or resized to
    TokenCounts,    \* token estimates callers pass; may be negative
    Headrooms,      \* headrooms SyncHeadroom is called with
    FloorPercent,   \* critical_reserve_percent
    Pace,           \* per dimension, a lower bound on the ticks per unit
    MaxTime,        \* bound on the clock
    MaxRefund,      \* bound on refunds beyond what was admitted
    MaxOthers       \* bound on the ledger of what other callers took

ASSUME CapacityAssumption == Capacities \subseteq [Dims -> Nat]
ASSUME TokenAssumption == TokenCounts \subseteq Int
ASSUME HeadroomAssumption == Headrooms \subseteq [Dims -> Int]
ASSUME FloorAssumption == FloorPercent \in 0..90
ASSUME BoundAssumption == {MaxTime, MaxRefund, MaxOthers} \subseteq Nat

\* No refilling capacity earns a unit faster than every Pace[d] ticks.
ASSUME PaceAssumption ==
    /\ Pace \in [Dims -> Nat \ {0}]
    /\ \A c \in Capacities, d \in Dims :
          c[d] > 0 /\ NanosPer(c[d]) > 0 => Pace[d] <= NanosPer(c[d])

VARIABLES
    bucket,
    now,        \* the bucket's clock
    ledger      \* start:  the capacity at creation
                \* least:  the smallest capacity so far
                \* most:   the largest capacity so far
                \* net:    taken by TryAcquireAbove, minus refunds
                \* others: taken by anybody else

vars == <<bucket, now, ledger>>

LedgerType == [start : [Dims -> Nat], least : [Dims -> Nat],
               most : [Dims -> Nat], net : [Dims -> Int], others : [Dims -> Nat]]

Init ==
    \E cap \in Capacities :
        /\ now = 0
        /\ bucket = NewTokenBucket(cap, 0)
        /\ ledger = [start  |-> cap,
                     least  |-> cap,
                     most   |-> cap,
                     net    |-> [d \in Dims |-> 0],
                     others |-> [d \in Dims |-> 0]]

-----------------------------------------------------------------------------
Tick ==
    /\ now < MaxTime
    /\ now' = now + 1
    /\ UNCHANGED <<bucket, ledger>>

SetCapacity(cap) ==
    /\ bucket' = Resized(Refill(bucket, now), cap)
    /\ ledger' = [ledger EXCEPT
                    !.least = [d \in Dims |-> Lesser(@[d], cap[d])],
                    !.most = [d \in Dims |-> Greater(@[d], cap[d])]]
    /\ UNCHANGED now

\* Whatever these calls remove from the refilled balance is on others' account.
OnOthersAccount(before, after) ==
    [ledger EXCEPT !.others =
        [d \in Dims |->
            Lesser(MaxOthers, @[d] + Greater(before[d].cur - after[d].cur, 0))]]

TryAcquire(tokens) ==
    LET b == Refill(bucket, now)
        b2 == Taken(b, Cost(tokens))
        ok == Fits(b, Cost(tokens), 0)
    IN /\ bucket' = IF ok THEN b2 ELSE b
       /\ ledger' = IF ok THEN OnOthersAccount(b, b2) ELSE ledger
       /\ UNCHANGED now

\* Mutant: the floor is checked before the request is taken, not after.
TryAcquireAboveChecksEarly(tokens) ==
    LET b == Refill(bucket, now)
        cost == Cost(tokens)
        ok == Fits(b, [d \in Dims |-> 0], FloorPercent)
    IN /\ bucket' = IF ok THEN Taken(b, cost) ELSE b
       /\ ledger' = IF ok
                    THEN [ledger EXCEPT !.net = [d \in Dims |-> @[d] + cost[d]]]
                    ELSE ledger
       /\ UNCHANGED now

TryAcquireAbove(tokens) ==
    LET b == Refill(bucket, now)
        cost == Cost(tokens)
        ok == Fits(b, cost, FloorPercent)
    IN /\ bucket' = IF ok THEN Taken(b, cost) ELSE b
       /\ ledger' = IF ok
                    THEN [ledger EXCEPT !.net = [d \in Dims |-> @[d] + cost[d]]]
                    ELSE ledger
       /\ UNCHANGED now

ForceAcquire(tokens) ==
    LET b == Refill(bucket, now)
        b2 == ForceTaken(b, Cost(tokens))
    IN /\ bucket' = b2
       /\ ledger' = OnOthersAccount(b, b2)
       /\ UNCHANGED now

Refund(tokens) ==
    /\ tokens > 0
    /\ ledger.net["tpm"] - tokens >= -MaxRefund
    /\ bucket' = Refunded(bucket, tokens)
    /\ ledger' = [ledger EXCEPT !.net["tpm"] = @ - tokens]
    /\ UNCHANGED now

GetAvailable ==
    /\ bucket' = Refill(bucket, now)
    /\ UNCHANGED <<now, ledger>>

SyncHeadroom(headroom) ==
    LET b == Refill(bucket, now)
        b2 == Synced(b, headroom, now)
    IN /\ bucket' = b2
       /\ ledger' = OnOthersAccount(b, b2)
       /\ UNCHANGED now

Next ==
    \/ Tick
    \/ \E cap \in Capacities : SetCapacity(cap)
    \/ \E tokens \in TokenCounts :
          \/ TryAcquire(tokens)
          \/ TryAcquireAbove(tokens)
          \/ ForceAcquire(tokens)
          \/ Refund(tokens)
    \/ GetAvailable
    \/ \E headroom \in Headrooms : SyncHeadroom(headroom)

Spec == Init /\ [][Next]_vars

-----------------------------------------------------------------------------
(* Properties *)

\* Types; in particular a refill clock never runs ahead of the bucket's clock,
\* or refillLocked would see a negative elapsed time and stop refilling.
TypeOK ==
    /\ now \in Nat
    /\ bucket \in BucketType
    /\ \A d \in Dims : bucket[d].last <= now
    /\ ledger \in LedgerType

\* The balance never exceeds the capacity in force, whatever mix of refills,
\* refunds and SetCapacity calls (bucket.go SetCapacity, Refund, refillLocked)
\* brought it there.
WithinCapacity == \A d \in Dims : bucket[d].cur <= bucket[d].max

\* Best-effort admissions, net of refunds, never exceed the capacity the bucket
\* was created with plus what the elapsed time pays for at the fastest rate in
\* use: TryAcquireAbove enforces a rate however calls, resizes, syncs and clock
\* readings interleave.
RateBound ==
    \A d \in Dims : ledger.net[d] <= ledger.start[d] + now \div Pace[d]

\* Best-effort traffic alone never eats into the critical reserve: the balance
\* is at least the reserve of the smallest capacity used so far, minus what
\* other callers took while the ledger could still count it (TryAcquireAbove:
\* "refuses to dip into the bottom floorPercent of each capacity").
ReserveForCritical ==
    \A d \in Dims : ledger.others[d] < MaxOthers =>
        bucket[d].cur >= FloorOf(ledger.least[d], FloorPercent) - ledger.others[d]

\* As long as the capacity of a dimension has not changed, two minutes without
\* traffic refill it (if it refills at all), whatever debt ForceAcquire has run up
\* ("down to -capacity").
RecoversInTwoMinutes ==
    \A d \in Dims :
        /\ ledger.least[d] = ledger.most[d]
        /\ bucket[d].max > 0 /\ NanosPer(bucket[d].max) > 0
        => RefillDim(bucket[d], now + 2 * Minute).cur = bucket[d].max

-----------------------------------------------------------------------------
(* Claims of comments and tests that the code does not keep; see the findings. *)

\* ForceAcquire "always takes 1 request and the given tokens": it never leaves a
\* balance above the one it found.
ForceNeverRaises ==
    [][\A tokens \in TokenCounts : ForceAcquire(tokens) =>
          \A d \in Dims : bucket'[d].cur <= RefillDim(bucket[d], now).cur]_vars

\* "Growing the share raises the cap but does not hand out tokens instantly": at
\* the instant of a SetCapacity no more is available than before it.
GrowthHandsOutNothing ==
    [][\A cap \in Capacities : SetCapacity(cap) =>
          \A d \in Dims : RefillDim(bucket'[d], now).cur
                            <= RefillDim(bucket[d], now).cur]_vars
=============================================================================
