------------------------------- MODULE Quota --------------------------------
(***************************************************************************)
(* Quota snapshots and what a data plane replica reads from them           *)
(* (pkg/governor priority.go, helpers.go, cascade.go and the headroom      *)
(* arithmetic of pkg/controlplane/reconciler.go).                          *)
(*                                                                         *)
(* A ModelQuota carries a limit and the usage of each dimension; the code  *)
(* stores the headroom and the utilization beside them, both functions of  *)
(* these two.  Utilizations are quotients, so they are compared by cross   *)
(* multiplication; the floats of the code agree with it well below 2^53.   *)
(***************************************************************************)
EXTENDS Dimensions

CONSTANTS
    SafetyMarginPercent,    \* safety_margin
    ReservePercent          \* critical_reserve_percent

ASSUME MarginAssumption == SafetyMarginPercent \in 10..90
ASSUME ReserveAssumption == ReservePercent \in 0..90

ModelQuota == [Dims -> [max : Nat, current : Nat]]

\* computeHeadroomMetric: what is usable after the safety margin, minus usage.
Headroom(m) == (m.max * (100 - SafetyMarginPercent)) \div 100 - m.current

\* UtilizationRpm/Tpm >= percent/100; the utilization of a dimension without a
\* limit is 0.
UtilizationAtLeast(m, percent) ==
    IF m.max > 0 THEN 100 * m.current >= percent * m.max ELSE percent <= 0

IsSaturated(q) ==
    \E d \in Dims : \/ UtilizationAtLeast(q[d], 100)
                    \/ q[d].max > 0 /\ Headroom(q[d]) <= 0

\* aboveCeiling: the rest of the allowance is the critical reserve.
AboveCeiling(q) == \E d \in Dims : UtilizationAtLeast(q[d], 100 - ReservePercent)

-----------------------------------------------------------------------------
(* A snapshot maps targets to org quotas and <<project, target>> pairs to     *)
(* project quotas.  The nil snapshot of an empty cache answers every lookup   *)
(* as the empty one does.                                                     *)

EmptySnapshot == [org |-> <<>>, project |-> <<>>]

HasQuota(snapshot, project, t) ==
    <<project, t>> \in DOMAIN snapshot.project \/ t \in DOMAIN snapshot.org

\* getEffectiveQuota: the project's own quota, or else the org's.
EffectiveQuota(snapshot, project, t) ==
    IF <<project, t>> \in DOMAIN snapshot.project
    THEN snapshot.project[<<project, t>>]
    ELSE snapshot.org[t]

\* The snapshot test of tryTarget; a target it does not know is never full.
Full(snapshot, project, t) ==
    /\ HasQuota(snapshot, project, t)
    /\ LET q == EffectiveQuota(snapshot, project, t)
       IN IsSaturated(q) \/ AboveCeiling(q)
=============================================================================
