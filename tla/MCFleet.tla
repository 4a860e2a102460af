------------------------------ MODULE MCFleet -------------------------------
(* A small fleet for TLC.                                                  *)
EXTENDS Fleet, TLC

Pair(rpm, tpm) == [d \in Dims |-> IF d = "rpm" THEN rpm ELSE tpm]

MCAllowances == [t \in {"a"} |-> Pair(20, 6)]

\* Nothing, or requests without tokens.
MCDemands == {<<>>, [t \in {"a"} |-> Pair(3, 0)]}

ReplicaSymmetry == Permutations(Replicas)
=============================================================================
