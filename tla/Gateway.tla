------------------------------ MODULE Gateway -------------------------------
(***************************************************************************)
(* The edge of a data plane replica: it loads its configuration and builds *)
(* the cascade engine (cmd/dataplane/main.go, governor/cascade.go), then   *)
(* answers Envoy's ext_proc streams (dataplane/extproc.go) by evaluating   *)
(* their request headers (dataplane/evaluator.go, pkg/router).             *)
(*                                                                         *)
(* The decision on a request is any that Decisions allows: which one, is   *)
(* the subject of Governor, shown there to be one of these.  A header that *)
(* is missing or does not parse is the empty sequence.  Integers are       *)
(* MaxInt wide.                                                            *)
(***************************************************************************)
EXTENDS Configuration, Route, Decisions

CONSTANTS
    RawConfigs,         \* the configuration files
    Requests,           \* the requests that Envoy sends
    Streams,            \* ext_proc streams, one HTTP request each
    MaxInt,             \* the largest int64
    MaxTokenEstimate    \* maxTokenEstimate

\* The headers written by the governor; those it owns (governorHeaders) are fewer.
Written == {"decision", "reason", "target_model", "target_region", "original_path",
            "retry_after"}
Owned == {"decision", "reason", "target_model", "target_region", "original_path"}

Int64 == (-MaxInt - 1)..MaxInt

ASSUME IntAssumption ==
    MaxInt \in Nat /\ MaxTokenEstimate \in 1..MaxInt
ASSUME ConfigAssumption == \A raw \in RawConfigs : IsConfig(raw)
\* Of the headers of a request, those that the governor writes too.
ASSUME RequestAssumption ==
    \A request \in Requests : /\ request.headers \subseteq Written
                              /\ request.promptTokens \in Seq(Int64)
                              /\ request.contentLength \in Seq(Int64)

VARIABLES
    stage,              \* of the replica: boot, serving or failed
    cfg,                \* its configuration
    policies,           \* CascadeEngine.customPolicies
    streams             \* the Process call of each stream

vars == <<stage, cfg, policies, streams>>

NotOpen == [pc |-> "none", answer |-> <<>>]

Init ==
    /\ stage = "boot"
    /\ cfg = <<>>
    /\ policies = <<>>
    /\ streams = [s \in Streams |-> NotOpen]

\* LoadConfig and NewCascadeEngineFromConfig; an error of either is fatal.
Boot ==
    /\ stage = "boot"
    /\ \E raw \in RawConfigs :
          LET loaded == LoadConfig(raw)
              usable == loaded # <<>> /\ PoliciesValid(loaded[1])
          IN /\ stage' = IF usable THEN "serving" ELSE "failed"
             /\ cfg' = IF usable THEN loaded ELSE <<>>
             /\ policies' \in IF usable THEN PolicyMaps(loaded[1]) ELSE {<<>>}
    /\ UNCHANGED streams

-----------------------------------------------------------------------------
(* What Evaluate reads from the headers *)

ParsePriorityName(name) ==
    LET id == Normal(name).id
    IN CASE id = "critical" -> "critical"
         [] id \in {"best_effort", "best-effort", "besteffort"} -> "best_effort"
         [] id = "custom" -> "custom"
         [] OTHER -> "unspecified"

CascadeFor(name) ==
    IF Normal(name) \in DOMAIN policies THEN policies[Normal(name)] ELSE <<>>

\* Two's complement.
Wrapped(n) == IF n > MaxInt THEN n - 2 * (MaxInt + 1) ELSE n

Positive(hint) == {v \in Range(hint) : v > 0}

\* Mutant: bytes that do not fill a token are not counted.
TokenHintsRoundedDown(request) ==
    Positive(request.promptTokens)
    \cup {n \div 4 : n \in Positive(request.contentLength)}

\* What the headers say of the size: the stated tokens, and a token for each four
\* bytes or part of them.
TokenHints(request) ==
    Positive(request.promptTokens)
    \cup {Wrapped(n + 3) \div 4 : n \in Positive(request.contentLength)}

EstimateTokens(request, default) ==
    LET est == Max({0} \cup TokenHints(request))
    IN Lesser(IF est = 0 THEN default ELSE est, MaxTokenEstimate)

-----------------------------------------------------------------------------
(* Evaluate *)

Without(drop) == Owned \ drop

\* The request as the upstream sees it, with who wrote each of its headers: the
\* governor sets some and removes the others that it owns.
Upstream(request, path, host, set) ==
    [path |-> path, host |-> host, query |-> request.query,
     headers |-> [h \in set \cup (request.headers \ Without(set))
                    |-> IF h \in set THEN "governor" ELSE "client"]]

Result(request, decision, charge, upstream) ==
    [request |-> request, decision |-> decision, charge |-> charge,
     upstream |-> upstream]

Basic == {"decision", "reason"}

\* Mutant: a request that is not understood is passed on as it is.
BypassUntouched(request) ==
    Result(request, "bypass", <<>>,
           [path |-> request.path, host |-> request.host, query |-> request.query,
            headers |-> [h \in Basic \cup request.headers |->
                           IF h \in Basic THEN "governor" ELSE "client"]])

Bypass(request) ==
    Result(request, "bypass", <<>>,
           Upstream(request, request.path, request.host, Basic))

\* Decide has charged the estimate to the target it chose, if that has a bucket.
Charge(target, request) ==
    LET key == LowerKey(<<target.region, target.model>>)
        tokens == EstimateTokens(request, RequestTokens(cfg[1]))
    IN IF key \in DOMAIN cfg[1].allowances THEN <<[key |-> key, tokens |-> tokens]>>
       ELSE <<>>

Decided(request, info, d) ==
    CASE d.kind = "shed" ->
           Result(request, "shed", <<>>, <<>>)
      [] d.kind = "reroute" ->
           Result(request, "reroute", Charge(d.to, request),
                  Upstream(request, MutatePath(info, d.to.model, d.to.region),
                           MutateHost(info, d.to.region), Owned))
      [] OTHER ->
           Result(request, "forward", Charge(info, request),
                  Upstream(request, request.path, request.host, Basic))

\* The results Evaluate may have.
Evaluate(request) ==
    LET parsed == Parse(request.path, request.query, request.host)
    IN IF parsed = <<>> THEN {Bypass(request)}
       ELSE {Decided(request, parsed[1], d) :
                d \in Allowed(ParsePriorityName(request.priority),
                              CascadeFor(request.policy))}

-----------------------------------------------------------------------------
(* Process *)

Open(s) ==
    /\ stage = "serving" /\ streams[s].pc = "none"
    /\ streams' = [streams EXCEPT ![s].pc = "headers"]
    /\ UNCHANGED <<stage, cfg, policies>>

HandleRequestHeaders(s) ==
    /\ streams[s].pc = "headers"
    /\ \E request \in Requests : \E result \in Evaluate(request) :
          streams' = [streams EXCEPT ![s] = [pc |-> "answered", answer |-> <<result>>]]
    /\ UNCHANGED <<stage, cfg, policies>>

\* Bodies, trailers and the response are acknowledged unchanged; a request that
\* was shed has none.
Acknowledge(s) ==
    /\ streams[s].pc = "answered"
    /\ streams[s].answer[1].decision # "shed"
    /\ streams' = [streams EXCEPT ![s].pc = "later"]
    /\ UNCHANGED <<stage, cfg, policies>>

\* EOF, cancellation, an error of Recv or Send, or an unknown message.
End(s) ==
    /\ streams[s].pc \notin {"none", "ended"}
    /\ streams' = [streams EXCEPT ![s] = [NotOpen EXCEPT !.pc = "ended"]]
    /\ UNCHANGED <<stage, cfg, policies>>

Quiet ==
    /\ stage = "failed" \/ \A s \in Streams : streams[s].pc = "ended"
    /\ UNCHANGED vars

Next ==
    \/ Boot
    \/ \E s \in Streams : Open(s) \/ HandleRequestHeaders(s) \/ Acknowledge(s) \/ End(s)
    \/ Quiet

Spec == Init /\ [][Next]_vars

-----------------------------------------------------------------------------
(* Properties *)

Results == UNION {Range(streams[s].answer) : s \in Streams}

\* Types; a replica serves exactly when it has a configuration, and every policy
\* it has can be named.
TypeOK ==
    /\ stage \in {"boot", "serving", "failed"}
    /\ Len(cfg) = IF stage = "serving" THEN 1 ELSE 0
    /\ NoName \notin DOMAIN policies
    /\ \A s \in Streams :
          /\ streams[s].pc \in {"none", "headers", "answered", "later", "ended"}
          /\ Len(streams[s].answer) = IF streams[s].pc \in {"answered", "later"} THEN 1 ELSE 0

\* What LoadConfig and NewCascadeEngine accept meets what the models of the data
\* plane assume: usable settings, and no policy that leads to a target without a
\* bucket, though the three places that spell a target are normalised apart.
AcceptedMeansGoverned ==
    stage = "serving" =>
        LET c == cfg[1]
        IN /\ c.margin \in 10..90 /\ CriticalReserve(c) \in 0..90
           /\ Replicas(c) > 0 /\ RequestTokens(c) > 0
           /\ \A k \in DOMAIN c.allowances : \E d \in Dims : c.allowances[k][d] > 0
           /\ \A name \in DOMAIN policies :
                 /\ policies[name] # <<>>
                 /\ \A step \in Range(policies[name]) :
                       LowerKey(<<step.region, step.model>>) \in DOMAIN c.allowances

\* A request goes to the model and region that was charged for it, with its
\* project, method, version, publisher and query as they were.
ChargedWhereSent ==
    \A r \in Results :
        r.decision \in {"forward", "reroute"} =>
            LET before == Parse(r.request.path, r.request.query, r.request.host)
                after == Parse(r.upstream.path, r.upstream.query, r.request.host)
            IN /\ after # <<>>
               /\ \A charge \in Range(r.charge) : charge.key = OrgKey(after[1])
               /\ [after[1] EXCEPT !.region = before[1].region, !.model = before[1].model]
                     = before[1]

\* A request that comes to the endpoint of its region leaves to the endpoint of
\* its region; a custom host (private DNS, PSC) is never changed.
HostServesRegion ==
    LET serves(host, path) == /\ host.vertex
                              /\ host.location = ToLower(ValueOf(path, "locations").word)
    IN \A r \in Results :
          r.decision # "shed" =>
             /\ serves(r.request.host, r.request.path)
                => serves(r.upstream.host, r.upstream.path)
             /\ ~r.request.host.vertex => r.upstream.host = r.request.host

\* None of the headers in governorHeaders reaches an upstream with a client's word
\* in it, and the decision is always there: of requests that are not understood too.
\* It says nothing of retry-after, which the governor writes but does not own: a
\* client's passes.
UpstreamHeadersTrusted ==
    \A r \in Results :
        r.decision # "shed" =>
            /\ \A h \in Owned \cap DOMAIN r.upstream.headers :
                  r.upstream.headers[h] = "governor"
            /\ "decision" \in DOMAIN r.upstream.headers

\* The estimate is positive and capped, and "a client cannot understate a large
\* body": it pays for every byte, up to the cap.
EstimateCoversBody ==
    \A r \in Results : \A charge \in Range(r.charge) :
        /\ charge.tokens \in 1..MaxTokenEstimate
        /\ \A n \in Positive(r.request.contentLength) :
              n <= MaxInt - 3 => 4 * charge.tokens >= Lesser(n, 4 * MaxTokenEstimate)
        /\ \A v \in Positive(r.request.promptTokens) :
              charge.tokens >= Lesser(v, MaxTokenEstimate)
=============================================================================
