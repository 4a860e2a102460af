----------------------------- MODULE Decisions ------------------------------
(***************************************************************************)
(* What CascadeEngine.Decide may answer (governor/cascade.go), as a        *)
(* function of what the client asked for alone: critical traffic is never  *)
(* shed or rerouted, best-effort traffic never cascades, and custom        *)
(* traffic goes nowhere but to its primary and the steps of its policy.    *)
(***************************************************************************)
EXTENDS Sequences, Functions

Forward == [kind |-> "forward"]
Shed == [kind |-> "shed"]
Reroute(to) == [kind |-> "reroute", to |-> to]

\* Unlabelled traffic is treated as best effort.
Allowed(priority, cascade) ==
    {Forward}
    \cup (IF priority = "critical" THEN {} ELSE {Shed})
    \cup (IF priority = "custom" THEN {Reroute(t) : t \in Range(cascade)} ELSE {})
=============================================================================
