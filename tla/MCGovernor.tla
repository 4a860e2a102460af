----------------------------- MODULE MCGovernor -----------------------------
(* Small instances of Governor for TLC.                                    *)
EXTENDS Governor, TLC

Pair(rpm, tpm) == [d \in Dims |-> IF d = "rpm" THEN rpm ELSE tpm]
Usage(max, current) == [d \in Dims |-> [max |-> max, current |-> current]]
Input(target, priority, policy, tokens) ==
    [project |-> "p", target |-> target, priority |-> priority,
     policy |-> policy, tokens |-> tokens]

\* Two targets with an allowance, the second one with no token limit, and one
\* without.  The replica's even split of the first is 2 requests and 3 tokens.
MCTargets == {"a", "b", "u"}
MCAllowances == [t \in {"a", "b"} |-> IF t = "a" THEN Pair(4, 6) ELSE Pair(2, 0)]
MCPolicies == [n \in {"fallback"} |-> <<"b">>]
MCInputs == {Input("a", "critical", "", 2),
             Input("a", "custom", "fallback", 2),
             Input("a", "custom", "unknown", 0),
             Input("b", "best_effort", "", -1),
             Input("u", "best_effort", "", 2)}

\* Room everywhere, though the project's own quota of "b" is used up; or the
\* org's "a" is past the best-effort ceiling and "u" is saturated.
MCSnapshots == {[org |-> [t \in {"a", "b"} |-> Usage(10, 1)],
                 project |-> [k \in {<<"p", "b">>} |-> Usage(10, 9)]],
                [org |-> [t \in {"a", "u"} |-> Usage(10, IF t = "a" THEN 7 ELSE 12)],
                 project |-> <<>>]}

\* A share that grows both targets, one that is out of range and names a target
\* without an allowance, and none.
MCResponses == {<<[target |-> "a", fraction |-> Pair(75, 20)],
                  [target |-> "b", fraction |-> Pair(1, 1)]>>,
                <<[target |-> "u", fraction |-> Pair(50, 50)],
                  [target |-> "a", fraction |-> Pair(150, 0)]>>}

MCOneResponse == {<<[target |-> "a", fraction |-> Pair(75, 20)]>>}

\* For the reporter: one request that tries both targets, one that has no
\* tokens to record.
MCDemandInputs == {Input("a", "custom", "fallback", 2),
                   Input("a", "best_effort", "fallback", 2),
                   Input("b", "critical", "", -1)}

\* Traffic that meets a full bucket: the second request is refused.
MCBusyInputs == {Input("a", "custom", "fallback", 2),
                 Input("b", "best_effort", "", 1)}

\* Large prompts for the target without a token limit, whose stand-in capacity
\* is to a minute as 2^40 is to 60e9 nanoseconds.
MCUnmeteredInputs == {Input("b", "critical", "", 9)}

\* Critical traffic that names a policy, whose primary is used up and whose fallback
\* has nine tenths of its allowance left.
MCUsedUp == {[org |-> [t \in {"a", "b"} |-> Usage(10, IF t = "a" THEN 10 ELSE 1)],
              project |-> <<>>]}
MCCriticalInputs == {Input("a", "critical", "fallback", 1)}

StreamSymmetry == Permutations(Streams)
=============================================================================
