------------------------------- MODULE Fleet --------------------------------
(***************************************************************************)
(* Several data plane replicas and the ShareTracker that divides the       *)
(* allowances between them: the UsageReporter of each replica              *)
(* (dataplane/reporter.go), Server.ReportUsage (server/server.go) and the  *)
(* capacities the replicas work with (Limiter.ApplyShares and ResetShares, *)
(* governor/limiter.go).                                                   *)
(*                                                                         *)
(* A reporter's ticker fires every Interval from its start, and a call is  *)
(* given up after Interval, so it ends no later than the next tick.  Time  *)
(* does not pass a tick or a deadline that is due: goroutines run and      *)
(* handlers answer within less than one unit of the clock, or not at all.  *)
(***************************************************************************)
EXTENDS ShareTracker

CONSTANTS
    Replicas,               \* the replicas there may be
    Allowances,             \* target -> limits, here all positive
    ConfiguredReplicas,     \* dataplane_replicas
    Demands,                \* what a replica may see between two reports
    Interval,               \* DefaultReportInterval
    FallbackAfterFailures,
    MaxTime,                \* bound on the clock
    MaxEvents               \* bound on the events below

ASSUME FleetAssumption ==
    /\ \A t \in DOMAIN Allowances : Allowances[t] \in [Dims -> Nat \ {0}]
    /\ \A demand \in Demands : \A t \in DOMAIN demand :
          t \in DOMAIN Allowances /\ demand[t] \in [Dims -> Int]
    /\ IsFiniteSet(Replicas)
    /\ {ConfiguredReplicas, Interval, FallbackAfterFailures} \subseteq Nat \ {0}
    /\ {MaxTime, MaxEvents} \subseteq Nat
\* A replica gives up its share before the control plane forgets it: 3 * 10 s and
\* 30 s in the code, where nothing but the values of the constants says so.
ASSUME TimingAssumption == FallbackAfterFailures * Interval <= TTL

VARIABLES
    now,
    tracker,    \* ShareTracker.replicas
    replicas,   \* the reporter and the capacities of each replica
    load,       \* what each replica sees between two reports
    changed,    \* history: the last time the fleet was disturbed
    events      \* the number of shifts of load, starts, crashes, restarts of
                \* the control plane and failed calls so far

vars == <<now, tracker, replicas, load, changed, events>>

EvenSplit ==
    [t \in DOMAIN Allowances |-> [d \in Dims |->
        Greater(Allowances[t][d] \div ConfiguredReplicas, 1)]]

Down == [pc |-> "down"]

\* A replica that has just started; granted is a history field: the time of the
\* report whose shares it applied last.
Started == [pc       |-> "idle",
            due      |-> now + Interval,    \* the next tick of its ticker
            failures |-> 0,
            capacity |-> EvenSplit,
            granted  |-> now]

Init ==
    /\ now = 0
    /\ tracker = EmptyTracker
    /\ \E started \in SUBSET Replicas :
          replicas = [r \in Replicas |-> IF r \in started THEN Started ELSE Down]
    /\ load \in [Replicas -> Demands]
    /\ changed = 0
    /\ events = 0

Up == {r \in Replicas : replicas[r].pc # "down"}

Event == events < MaxEvents /\ events' = events + 1

Calling(rep) == rep.pc \in {"sent", "answered"}

-----------------------------------------------------------------------------
Tick ==
    /\ now < MaxTime
    /\ \A r \in Up : replicas[r].due > now
    /\ now' = now + 1
    /\ UNCHANGED <<tracker, replicas, load, changed, events>>

\* Traffic moves to or from a replica.
ShiftLoad(r, demand) ==
    /\ demand # load[r] /\ Event
    /\ load' = [load EXCEPT ![r] = demand]
    /\ UNCHANGED <<now, tracker, replicas, changed>>

Start(r) ==
    /\ r \notin Up /\ Event
    /\ replicas' = [replicas EXCEPT ![r] = Started]
    /\ changed' = now
    /\ UNCHANGED <<now, tracker, load>>

Crash(r) ==
    /\ r \in Up /\ Event
    /\ replicas' = [replicas EXCEPT ![r] = Down]
    /\ UNCHANGED <<now, tracker, load, changed>>

-----------------------------------------------------------------------------
(* UsageReporter.ReportOnce *)

\* Mutant: the call may last two intervals.
SendPatiently(r) ==
    /\ replicas[r].pc = "idle" /\ replicas[r].due = now
    /\ replicas' = [replicas EXCEPT ![r] =
                      [pc |-> "sent", due |-> @.due + 2 * Interval,
                       failures |-> @.failures, capacity |-> @.capacity,
                       granted |-> @.granted, demand |-> load[r]]]
    /\ UNCHANGED <<now, tracker, load, changed, events>>

\* The ticker fires; the call's deadline is the next tick.
Send(r) ==
    /\ replicas[r].pc = "idle" /\ replicas[r].due = now
    /\ replicas' = [replicas EXCEPT ![r] =
                      [pc |-> "sent", due |-> @.due + Interval,
                       failures |-> @.failures, capacity |-> @.capacity,
                       granted |-> @.granted, demand |-> load[r]]]
    /\ UNCHANGED <<now, tracker, load, changed, events>>

\* Server.ReportUsage.
Handle(r) ==
    /\ replicas[r].pc = "sent"
    /\ tracker' = Reported(tracker, r, replicas[r].demand, now)
    /\ replicas' = [replicas EXCEPT ![r] =
                      [pc |-> "answered", due |-> @.due,
                       failures |-> @.failures, capacity |-> @.capacity,
                       granted |-> @.granted,
                       shares |-> SharesOf(tracker', r), at |-> now]]
    /\ changed' = IF /\ DOMAIN tracker' = DOMAIN tracker
                     /\ \A i \in DOMAIN tracker : tracker'[i].avg = tracker[i].avg
                  THEN changed ELSE now
    /\ UNCHANGED <<now, load, events>>

\* Mutant: a share is applied only if the bucket grows.
ResizedOnlyGrows(capacity, shares) ==
    [t \in DOMAIN capacity |-> [d \in Dims |->
        IF t \in DOMAIN shares
        THEN Greater(capacity[t][d],
                     (Allowances[t][d] * shares[t][d].num) \div shares[t][d].den)
        ELSE capacity[t][d]]]

\* ApplyShares: a target without a share keeps its size.  The fractions are in
\* (0, 1] here, so fractionOf only rounds down and returns at least 1.
ResizedTo(capacity, shares) ==
    [t \in DOMAIN capacity |-> [d \in Dims |->
        IF t \in DOMAIN shares
        THEN Greater((Allowances[t][d] * shares[t][d].num) \div shares[t][d].den,
                     1)
        ELSE capacity[t][d]]]

Apply(r) ==
    /\ replicas[r].pc = "answered"
    /\ replicas' = [replicas EXCEPT ![r] =
                      [pc |-> "idle", due |-> @.due, failures |-> 0,
                       capacity |-> ResizedTo(@.capacity, @.shares),
                       granted |-> @.at]]
    /\ UNCHANGED <<now, tracker, load, changed, events>>

\* Mutant: one failure too many before the fallback.
FailedLate(rep) ==
    [pc |-> "idle", due |-> rep.due, failures |-> rep.failures + 1,
     capacity |-> IF rep.failures = FallbackAfterFailures
                  THEN EvenSplit ELSE rep.capacity,
     granted |-> rep.granted]

\* The call has failed: after enough failures in a row, back to the even split.
Failed(rep) ==
    [pc |-> "idle", due |-> rep.due, failures |-> rep.failures + 1,
     capacity |-> IF rep.failures + 1 = FallbackAfterFailures
                  THEN EvenSplit ELSE rep.capacity,
     granted |-> rep.granted]

\* The request or the answer is lost, or the call times out.
Fail(r) ==
    /\ Calling(replicas[r]) /\ Event
    /\ replicas' = [replicas EXCEPT ![r] = Failed(@)]
    /\ changed' = now
    /\ UNCHANGED <<now, tracker, load>>

\* The control plane restarts with an empty tracker; its connections break.
Restart ==
    /\ tracker # EmptyTracker /\ Event
    /\ tracker' = EmptyTracker
    /\ replicas' = [r \in Replicas |-> IF Calling(replicas[r])
                                       THEN Failed(replicas[r])
                                       ELSE replicas[r]]
    /\ changed' = now
    /\ UNCHANGED <<now, load>>

\* The bound on the clock is reached and no report is due.
TimeUp ==
    /\ now = MaxTime
    /\ \A r \in Up : replicas[r].pc = "idle" /\ replicas[r].due > now
    /\ UNCHANGED vars

Next ==
    \/ TimeUp
    \/ Tick
    \/ Restart
    \/ \E r \in Replicas :
          \/ Start(r)
          \/ Crash(r)
          \/ \E demand \in Demands : ShiftLoad(r, demand)
          \/ Send(r)
          \/ Handle(r)
          \/ Apply(r)
          \/ Fail(r)

Spec == Init /\ [][Next]_vars

-----------------------------------------------------------------------------
(* Properties *)

\* Types; in particular the next tick of a ticker is never more than Interval
\* away, also during a call (ReportOnce's timeout is the interval).
TypeOK ==
    /\ now \in 0..MaxTime /\ changed \in 0..now /\ events \in 0..MaxEvents
    /\ DOMAIN tracker \subseteq Replicas
    /\ \A i \in DOMAIN tracker : tracker[i].lastSeen <= now
    /\ \A r \in Up :
          /\ replicas[r].pc \in {"idle", "sent", "answered"}
          /\ replicas[r].due \in now..(now + Interval)
          /\ replicas[r].capacity \in [DOMAIN Allowances -> [Dims -> Nat \ {0}]]

\* The fractions of the active replicas add up to exactly 1, whatever joins,
\* evictions, restarts and smoothing led to the averages ("Shares across replicas
\* sum to 1").
SharesSumToOne ==
    \A t \in Tracked(tracker), d \in Dims, i \in DOMAIN tracker :
        SumFunction([j \in DOMAIN tracker |-> Fraction(tracker, j, t, d).num])
            = Fraction(tracker, i, t, d).den

\* A share does not outlive the control plane's knowledge of the replica by more
\* than one interval: from then on the replica works with the even split.  This
\* ties DefaultShareTTL to fallbackAfterFailures and to the timeout of a call.
StaleShareExpires ==
    \A r \in Up : now - replicas[r].granted > TTL + Interval =>
        replicas[r].capacity = EvenSplit

\* Two intervals after the last disturbance (a start, a restart, a failed call, a
\* report that changed an average or who is active) the replicas together have no
\* more than the allowance of every target that is reported, but for those that
\* fractionOf rounds up to 1.
SettledWithinAllowance ==
    now - changed > 2 * Interval =>
        \A t \in Tracked(tracker), d \in Dims :
            SumFunction([r \in Up |-> replicas[r].capacity[t][d]])
                <= Allowances[t][d]
                     + Cardinality({r \in Up : replicas[r].capacity[t][d] = 1})
=============================================================================
