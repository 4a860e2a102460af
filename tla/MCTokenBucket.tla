--------------------------- MODULE MCTokenBucket ----------------------------
(* Small instances of TokenBucket for TLC.                                 *)
EXTENDS TokenBucket

Cap(rpm, tpm) == [d \in Dims |-> IF d = "rpm" THEN rpm ELSE tpm]

\* A minute of 8 ticks: capacity 2 earns a unit every 4 ticks, capacity 3 every
\* 2 (8 \div 3, rounded down, as in the code).
MCResizeCapacities == {Cap(2, 3), Cap(3, 2)}
MCTokens == {-1, 2}
MCHeadrooms == {Cap(1, 0)}
MCPace == [d \in Dims |-> 2]
=============================================================================
