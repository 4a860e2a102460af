----------------------------- MODULE Dimensions -----------------------------
(* What the governor's quotas and buckets count: every limit, balance and     *)
(* usage of the code comes as a pair of fields ...Rpm and ...Tpm.             *)
EXTENDS Integers

Dims == {"rpm", "tpm"}

Lesser(a, b) == IF a <= b THEN a ELSE b
Greater(a, b) == IF a >= b THEN a ELSE b
=============================================================================
