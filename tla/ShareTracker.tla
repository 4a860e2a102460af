---------------------------- MODULE ShareTracker ----------------------------
(***************************************************************************)
(* How the control plane splits an allowance between the replicas that     *)
(* report their demand (pkg/controlplane/shares.go).  Report holds the     *)
(* tracker's mutex throughout, so it is one function from a tracker to a   *)
(* tracker.                                                                *)
(*                                                                         *)
(* A tracker maps the ids of active replicas to the time of their last     *)
(* report and their smoothed demand per target and dimension.  Averages    *)
(* are dyadic rationals and are counted in units of 1/Unit, exactly as     *)
(* long as Unit has a factor 2 for every report that is folded in.         *)
(***************************************************************************)
EXTENDS Dimensions, FiniteSets, Functions

CONSTANTS
    TTL,            \* DefaultShareTTL
    FloorPercent,   \* DefaultShareFloor
    Unit

ASSUME TrackerAssumption ==
    TTL \in Nat /\ FloorPercent \in 0..100 /\ Unit \in Nat \ {0}

EmptyTracker == <<>>

\* The newest report; a negative count is none.
Latest(demand) ==
    [t \in DOMAIN demand |-> [d \in Dims |-> Unit * Greater(demand[t][d], 0)]]

\* A missing target counts as 0, in the average and in the report.
DemandFor(avg, t, d) == IF t \in DOMAIN avg THEN avg[t][d] ELSE 0

\* smooth: the mean of the average and the newest report.
Smooth(avg, latest) ==
    [t \in DOMAIN avg \cup DOMAIN latest |->
        [d \in Dims |-> (DemandFor(avg, t, d) + DemandFor(latest, t, d)) \div 2]]

\* A replica's first report is taken as it is.
Folded(tracker, id, demand) ==
    IF id \in DOMAIN tracker
    THEN Smooth(tracker[id].avg, Latest(demand))
    ELSE Latest(demand)

\* Replicas that have been silent for more than the TTL are dropped, but never
\* the one that reports.
Reported(tracker, id, demand, now) ==
    [i \in {j \in DOMAIN tracker : now - tracker[j].lastSeen <= TTL} \cup {id} |->
        IF i = id THEN [lastSeen |-> now, avg |-> Folded(tracker, id, demand)]
        ELSE tracker[i]]

Tracked(tracker) == UNION {DOMAIN tracker[i].avg : i \in DOMAIN tracker}

TotalDemand(tracker, t, d) ==
    SumFunction([i \in DOMAIN tracker |-> DemandFor(tracker[i].avg, t, d)])

\* Mutant: every replica gets the whole floor.
FractionUnsplitFloor(tracker, id, t, d) ==
    LET n == Cardinality(DOMAIN tracker)
        total == TotalDemand(tracker, t, d)
    IN IF total <= 0 THEN [num |-> 1, den |-> n]
       ELSE [num |-> n * (FloorPercent * total + (100 - FloorPercent)
                                     * DemandFor(tracker[id].avg, t, d)),
             den |-> 100 * n * total]

\* fraction, as a quotient: floor/n + (1 - floor) * mine/total.
Fraction(tracker, id, t, d) ==
    LET n == Cardinality(DOMAIN tracker)
        total == TotalDemand(tracker, t, d)
    IN IF total <= 0 THEN [num |-> 1, den |-> n]
       ELSE [num |-> FloorPercent * total + (100 - FloorPercent) * n
                                     * DemandFor(tracker[id].avg, t, d),
             den |-> 100 * n * total]

\* What Report returns: the replica's fraction of every target somebody reports.
SharesOf(tracker, id) ==
    [t \in Tracked(tracker) |-> [d \in Dims |-> Fraction(tracker, id, t, d)]]
=============================================================================
