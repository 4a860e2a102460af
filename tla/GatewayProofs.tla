--------------------------- MODULE GatewayProofs ----------------------------
(***************************************************************************)
(* What Gateway promises for every configuration file and every request:   *)
(* what LoadConfig accepts is usable, and what Evaluate makes of a request *)
(* is sent where it was charged, to a host that serves it, with headers    *)
(* the upstream can trust and an estimate that covers the body.            *)
(***************************************************************************)
EXTENDS Gateway, WellFoundedInduction, TLAPS

-----------------------------------------------------------------------------
(* The inductive invariant. *)

\* A usable configuration, and policies that lead to targets with a name and an
\* allowance.
Usable(c, pol) ==
    /\ c.margin \in 10..90 /\ CriticalReserve(c) \in 0..90
    /\ Replicas(c) > 0 /\ RequestTokens(c) \in Nat \ {0}
    /\ \A k \in DOMAIN c.allowances : \E d \in Dims : c.allowances[k][d] > 0
    /\ NoName \notin DOMAIN pol
    /\ \A name \in DOMAIN pol :
          /\ pol[name] # <<>>
          /\ \A step \in Range(pol[name]) :
                /\ step.region # NoName /\ step.model # NoName
                /\ LowerKey(<<step.region, step.model>>) \in DOMAIN c.allowances

\* A stream has no answer, or one that Evaluate gives for some request.
StreamInv(st) ==
    \/ \E p \in {"none", "headers", "ended"} : st = [pc |-> p, answer |-> <<>>]
    \/ \E p \in {"answered", "later"}, request \in Requests :
          \E result \in Evaluate(request) : st = [pc |-> p, answer |-> <<result>>]

\* Only a replica with a usable configuration opens streams.
Inv ==
    /\ stage \in {"boot", "serving", "failed"}
    /\ stage = "serving" => \E c : cfg = <<c>> /\ Usable(c, policies)
    /\ stage # "serving" => /\ cfg = <<>> /\ policies = <<>>
                            /\ \A s \in Streams : streams[s] = NotOpen
    /\ DOMAIN streams = Streams
    /\ \A s \in Streams : StreamInv(streams[s])

-----------------------------------------------------------------------------
(* Configurations *)

\* The fields of a loaded configuration.
LEMMA LoadedFields ==
    ASSUME NEW raw, IsConfig(raw), NEW c, LoadConfig(raw) = <<c>>
    PROVE  /\ c.margin \in 10..90 /\ c.reserve = raw.reserve
           /\ c.replicas = raw.replicas /\ c.tokens = raw.tokens
           /\ c.policies = raw.policies
           /\ c.allowances = NormalizedAllowances(raw)
           /\ AdmissionSettingsValid(raw) /\ AllowancesValid(raw)
           /\ CascadeTargetsValid(raw, NormalizedAllowances(raw))
<1> DEFINE T == [projects : Seq(Name), regions : Seq(Name), models : Seq(Name),
                 interval : Int, timeout : Int, margin : Int,
                 reserve : Seq(Int), replicas : Seq(Int), tokens : Int,
                 allowances : {raw.allowances}, limits : {raw.limits},
                 policies : {raw.policies}]
<1>1. raw \in T
  BY DEF IsConfig
<1>2. /\ AdmissionSettingsValid(raw) /\ AllowancesValid(raw)
      /\ CascadeTargetsValid(raw, NormalizedAllowances(raw))
      /\ c = [Clamped(raw) EXCEPT !.allowances = NormalizedAllowances(raw)]
  BY DEF LoadConfig
<1> DEFINE i == Greater(raw.interval, MinPollInterval)
           w == IF raw.timeout <= 0 \/ raw.timeout > i
                THEN Lesser(DefaultPollTimeout, i) ELSE raw.timeout
           g == IF raw.margin \in 10..90 THEN raw.margin ELSE 10
<1>3. Clamped(raw) = [raw EXCEPT !.interval = i, !.timeout = w, !.margin = g]
  BY DEF Clamped
<1>4. g \in 10..90
  OBVIOUS
<1> HIDE DEF i, w, g
<1>5. Clamped(raw) = [projects |-> raw.projects, regions |-> raw.regions,
                      models |-> raw.models, interval |-> i, timeout |-> w, margin |-> g,
                      reserve |-> raw.reserve, replicas |-> raw.replicas,
                      tokens |-> raw.tokens, allowances |-> raw.allowances,
                      limits |-> raw.limits, policies |-> raw.policies]
  BY <1>1, <1>3
<1>6. c = [projects |-> raw.projects, regions |-> raw.regions,
           models |-> raw.models, interval |-> i, timeout |-> w, margin |-> g,
           reserve |-> raw.reserve, replicas |-> raw.replicas,
           tokens |-> raw.tokens, allowances |-> NormalizedAllowances(raw),
           limits |-> raw.limits, policies |-> raw.policies]
  BY <1>2, <1>5
<1> QED
  BY <1>2, <1>4, <1>6

\* The settings that the accessors read.
LEMMA SettingsUsable ==
    ASSUME NEW raw, IsConfig(raw), NEW c, LoadConfig(raw) = <<c>>
    PROVE  /\ c.margin \in 10..90 /\ CriticalReserve(c) \in 0..90
           /\ Replicas(c) > 0 /\ RequestTokens(c) \in Nat \ {0}
<1>1. /\ raw.reserve \in Seq(Int) /\ raw.replicas \in Seq(Int) /\ raw.tokens \in Int
  BY DEF IsConfig
<1>2. /\ c.margin \in 10..90 /\ c.reserve = raw.reserve
      /\ c.replicas = raw.replicas /\ c.tokens = raw.tokens
      /\ AdmissionSettingsValid(raw)
  BY LoadedFields
<1>3. \A q \in Seq(Int) : q # <<>> => q[1] \in Range(q) /\ q[1] \in Int
  BY DEF Range
<1>4. CriticalReserve(c) \in 0..90
  <2>1. CASE raw.reserve = <<>>
    BY <1>2, <2>1 DEF CriticalReserve, DefaultCriticalReservePercent
  <2>2. CASE raw.reserve # <<>>
    BY <1>1, <1>2, <1>3, <2>2 DEF CriticalReserve, AdmissionSettingsValid
  <2> QED
    BY <2>1, <2>2
<1>5. Replicas(c) > 0
  BY <1>1, <1>2, <1>3 DEF Replicas, AdmissionSettingsValid
<1>6. RequestTokens(c) \in Nat \ {0}
  BY <1>1, <1>2, EstimateAssumption DEF RequestTokens
<1> QED
  BY <1>2, <1>4, <1>5, <1>6

\* Every allowance has a limit in some dimension.
LEMMA AllowancesUsable ==
    ASSUME NEW raw, IsConfig(raw), AllowancesValid(raw)
    PROVE  \A k \in DOMAIN NormalizedAllowances(raw) :
              \E d \in Dims : NormalizedAllowances(raw)[k][d] > 0
<1> SUFFICES ASSUME NEW k \in DOMAIN NormalizedAllowances(raw)
             PROVE  \E d \in Dims : NormalizedAllowances(raw)[k][d] > 0
  OBVIOUS
<1> DEFINE l == CHOOSE l \in DOMAIN raw.allowances : NormalKey(l) = k
<1>1. l \in DOMAIN raw.allowances
  <2>1. \E x \in DOMAIN raw.allowances : NormalKey(x) = k
    BY DEF NormalizedAllowances
  <2> QED
    BY <2>1
<1>2. NormalizedAllowances(raw)[k] = raw.allowances[l][1]
  BY DEF NormalizedAllowances
<1> HIDE DEF l
<1>3. /\ raw.allowances[l] \in Seq([Dims -> Int]) /\ Len(raw.allowances[l]) <= 1
      /\ AllowanceValid(raw, l)
  BY <1>1 DEF IsConfig, AllowancesValid
<1>4. PICK limit \in Range(raw.allowances[l]) : \E d \in Dims : limit[d] > 0
  BY <1>3 DEF AllowanceValid
<1>5. limit = raw.allowances[l][1]
  BY <1>3, <1>4 DEF Range
<1> QED
  BY <1>2, <1>4, <1>5

\* The steps of the policies, trimmed by the engine and compared by their lower case,
\* have the allowances that LoadConfig looked up for them.
LEMMA PoliciesUsable ==
    ASSUME NEW raw, IsConfig(raw), NEW c, LoadConfig(raw) = <<c>>, PoliciesValid(c),
           NEW pol \in PolicyMaps(c)
    PROVE  Usable(c, pol)
<1>1. /\ c.policies = raw.policies /\ c.allowances = NormalizedAllowances(raw)
      /\ AllowancesValid(raw) /\ CascadeTargetsValid(raw, NormalizedAllowances(raw))
  BY LoadedFields
<1>2. \A k \in DOMAIN c.allowances : \E d \in Dims : c.allowances[k][d] > 0
  BY <1>1, AllowancesUsable
<1> DEFINE names == {Normal(n) : n \in DOMAIN c.policies}
<1>3. PICK choice \in [names -> DOMAIN c.policies] :
         pol = [n \in names |-> Trimmed(c.policies[choice[n]])]
  BY DEF PolicyMaps
<1>4. NoName \notin DOMAIN pol
  BY <1>3 DEF PoliciesValid
<1>5. ASSUME NEW name \in DOMAIN pol
      PROVE  /\ pol[name] # <<>>
             /\ \A step \in Range(pol[name]) :
                   /\ step.region # NoName /\ step.model # NoName
                   /\ LowerKey(<<step.region, step.model>>) \in DOMAIN c.allowances
  <2>1. PICK n \in DOMAIN c.policies : pol[name] = Trimmed(c.policies[n])
    BY <1>3
  <2>2. /\ c.policies[n] \in Seq([region : Name, model : Name])
        /\ c.policies[n] # <<>>
    BY <1>1, <2>1 DEF IsConfig, PoliciesValid
  <2>3. DOMAIN pol[name] = DOMAIN c.policies[n] /\ 1 \in DOMAIN c.policies[n]
    BY <2>1, <2>2 DEF Trimmed
  <2>4. pol[name] # <<>>
    BY <2>3
  <2>5. ASSUME NEW step \in Range(pol[name])
        PROVE  /\ step.region # NoName /\ step.model # NoName
               /\ LowerKey(<<step.region, step.model>>) \in DOMAIN c.allowances
    <3>1. step.region # NoName /\ step.model # NoName
      BY <2>1 DEF PoliciesValid
    <3>2. PICK i \in DOMAIN c.policies[n] :
             step = [region |-> TrimSpace(c.policies[n][i].region),
                     model |-> TrimSpace(c.policies[n][i].model)]
      BY <2>1, <2>3 DEF Range, Trimmed
    <3>3. c.policies[n][i] \in Range(c.policies[n])
      BY DEF Range
    <3>4. <<Normal(c.policies[n][i].region), Normal(c.policies[n][i].model)>>
             \in DOMAIN c.allowances
      BY <1>1, <3>3 DEF CascadeTargetsValid
    <3>5. ToLower(step.region) = Normal(c.policies[n][i].region)
          /\ ToLower(step.model) = Normal(c.policies[n][i].model)
      BY <3>2 DEF Normal
    <3>6. LowerKey(<<step.region, step.model>>) = <<ToLower(step.region), ToLower(step.model)>>
      BY DEF LowerKey
    <3> QED
      BY <3>1, <3>4, <3>5, <3>6
  <2> QED
    BY <2>4, <2>5
<1> QED
  BY <1>2, <1>4, <1>5, SettingsUsable DEF Usable

-----------------------------------------------------------------------------
(* The invariant is inductive. *)

\* Evaluate depends on what the replica was booted with.
LEMMA EvaluateKept ==
    ASSUME UNCHANGED <<cfg, policies>>
    PROVE  \A request : Evaluate(request)' = Evaluate(request)
<1>1. \A name : CascadeFor(name)' = CascadeFor(name)
  BY DEF CascadeFor
<1>2. \A target, request : Charge(target, request)' = Charge(target, request)
  BY DEF Charge
<1>3. ASSUME NEW request, NEW info, NEW d
      PROVE  Decided(request, info, d)' = Decided(request, info, d)
  BY <1>2 DEF Decided
<1>4. ASSUME NEW request PROVE Evaluate(request)' = Evaluate(request)
  BY <1>1, <1>3 DEF Evaluate
<1> QED
  BY <1>4

\* The two kinds of streams.
LEMMA StreamCases ==
    ASSUME NEW st, StreamInv(st)
    PROVE  \/ /\ st.pc \in {"none", "headers", "ended"}
              /\ st = [pc |-> st.pc, answer |-> <<>>]
           \/ /\ st.pc \in {"answered", "later"}
              /\ \E request \in Requests : \E result \in Evaluate(request) :
                    st = [pc |-> st.pc, answer |-> <<result>>]
<1>1. ASSUME NEW p, NEW a, st = [pc |-> p, answer |-> a] PROVE st.pc = p
  BY <1>1
<1>2. CASE \E p \in {"none", "headers", "ended"} : st = [pc |-> p, answer |-> <<>>]
  BY <1>1, <1>2
<1>3. CASE \E p \in {"answered", "later"}, request \in Requests :
              \E result \in Evaluate(request) : st = [pc |-> p, answer |-> <<result>>]
  <2>1. PICK p \in {"answered", "later"}, request \in Requests :
              \E result \in Evaluate(request) : st = [pc |-> p, answer |-> <<result>>]
    BY <1>3
  <2>2. PICK result \in Evaluate(request) : st = [pc |-> p, answer |-> <<result>>]
    BY <2>1
  <2>3. st.pc = p
    BY <1>1, <2>2
  <2> QED
    BY <2>2, <2>3
<1> QED
  BY <1>2, <1>3 DEF StreamInv

\* A step of a serving replica on one of its streams.
LEMMA StreamStep ==
    ASSUME Inv, stage = "serving", UNCHANGED <<stage, cfg, policies>>,
           NEW s \in Streams, NEW st, streams' = [streams EXCEPT ![s] = st], StreamInv(st)
    PROVE  Inv'
<1>1. \A t \in Streams : StreamInv(streams'[t])
  BY DEF Inv
<1>2. \A t \in Streams : StreamInv(streams[t])'
  BY <1>1, EvaluateKept DEF StreamInv
<1> QED
  BY <1>2 DEF Inv

\* A replica that is not serving has no stream to step.
LEMMA OnlyServing ==
    ASSUME Inv, NEW s \in Streams, streams[s].pc # "none"
    PROVE  stage = "serving"
BY DEF Inv, NotOpen

\* Every step keeps the invariant.
LEMMA NextInv == Inv /\ [Next]_vars => Inv'
<1> SUFFICES ASSUME Inv, [Next]_vars PROVE Inv'
  OBVIOUS
<1>1. CASE Boot
  <2>1. /\ stage = "boot" /\ streams' = streams
        /\ \A s \in Streams : streams[s] = NotOpen
        /\ DOMAIN streams = Streams
    BY <1>1 DEF Boot, Inv
  <2>2. \A s \in Streams : StreamInv(streams[s])'
    BY <2>1 DEF StreamInv, NotOpen
  <2>3. PICK raw \in RawConfigs :
           LET loaded == LoadConfig(raw)
               usable == loaded # <<>> /\ PoliciesValid(loaded[1])
           IN /\ stage' = IF usable THEN "serving" ELSE "failed"
              /\ cfg' = IF usable THEN loaded ELSE <<>>
              /\ policies' \in IF usable THEN PolicyMaps(loaded[1]) ELSE {<<>>}
    BY <1>1 DEF Boot
  <2>4. CASE LoadConfig(raw) # <<>> /\ PoliciesValid(LoadConfig(raw)[1])
    <3>1. PICK c : LoadConfig(raw) = <<c>>
      BY <2>4 DEF LoadConfig
    <3>2. LoadConfig(raw)[1] = c
      BY <3>1
    <3>3. Usable(c, policies')
      BY <2>3, <2>4, <3>1, <3>2, PoliciesUsable, ConfigAssumption
    <3> QED
      BY <2>1, <2>2, <2>3, <2>4, <3>1, <3>3 DEF Inv
  <2>5. CASE ~(LoadConfig(raw) # <<>> /\ PoliciesValid(LoadConfig(raw)[1]))
    BY <2>1, <2>2, <2>3, <2>5 DEF Inv
  <2> QED
    BY <2>4, <2>5
<1>2. ASSUME NEW s \in Streams, Open(s) PROVE Inv'
  <2>1. StreamInv(streams[s]) /\ streams[s].pc = "none"
    BY <1>2 DEF Open, Inv
  <2>2. streams[s] = [pc |-> "none", answer |-> <<>>]
    BY <2>1, StreamCases
  <2>3. streams' = [streams EXCEPT ![s] = [pc |-> "headers", answer |-> <<>>]]
    <3>1. [streams[s] EXCEPT !.pc = "headers"] = [pc |-> "headers", answer |-> <<>>]
      BY <2>2
    <3> QED
      BY <1>2, <3>1 DEF Open
  <2>4. StreamInv([pc |-> "headers", answer |-> <<>>])
    BY DEF StreamInv
  <2> QED
    BY <1>2, <2>3, <2>4, StreamStep DEF Open
<1>3. ASSUME NEW s \in Streams, HandleRequestHeaders(s) PROVE Inv'
  <2>1. PICK request \in Requests : \E result \in Evaluate(request) :
           streams' = [streams EXCEPT ![s] = [pc |-> "answered", answer |-> <<result>>]]
    BY <1>3 DEF HandleRequestHeaders
  <2>2. PICK result \in Evaluate(request) :
           streams' = [streams EXCEPT ![s] = [pc |-> "answered", answer |-> <<result>>]]
    BY <2>1
  <2>3. StreamInv([pc |-> "answered", answer |-> <<result>>])
    BY DEF StreamInv
  <2>4. stage = "serving"
    BY <1>3, OnlyServing DEF HandleRequestHeaders
  <2> QED
    BY <1>3, <2>2, <2>3, <2>4, StreamStep DEF HandleRequestHeaders
<1>4. ASSUME NEW s \in Streams, Acknowledge(s) PROVE Inv'
  <2>1. StreamInv(streams[s]) /\ streams[s].pc = "answered"
    BY <1>4 DEF Acknowledge, Inv
  <2>2. PICK request \in Requests : \E result \in Evaluate(request) :
           streams[s] = [pc |-> "answered", answer |-> <<result>>]
    BY <2>1, StreamCases
  <2>3. PICK result \in Evaluate(request) :
           streams[s] = [pc |-> "answered", answer |-> <<result>>]
    BY <2>2
  <2>4. streams' = [streams EXCEPT ![s] = [pc |-> "later", answer |-> <<result>>]]
    <3>1. [streams[s] EXCEPT !.pc = "later"] = [pc |-> "later", answer |-> <<result>>]
      BY <2>3
    <3> QED
      BY <1>4, <3>1 DEF Acknowledge
  <2>5. StreamInv([pc |-> "later", answer |-> <<result>>])
    BY DEF StreamInv
  <2>6. stage = "serving"
    BY <2>1, OnlyServing
  <2> QED
    BY <1>4, <2>4, <2>5, <2>6, StreamStep DEF Acknowledge
<1>5. ASSUME NEW s \in Streams, End(s) PROVE Inv'
  <2>1. streams' = [streams EXCEPT ![s] = [pc |-> "ended", answer |-> <<>>]]
    <3>1. [NotOpen EXCEPT !.pc = "ended"] = [pc |-> "ended", answer |-> <<>>]
      BY DEF NotOpen
    <3> QED
      BY <1>5, <3>1 DEF End
  <2>2. StreamInv([pc |-> "ended", answer |-> <<>>])
    BY DEF StreamInv
  <2>3. stage = "serving"
    BY <1>5, OnlyServing DEF End
  <2> QED
    BY <1>5, <2>1, <2>2, <2>3, StreamStep DEF End
<1>6. CASE UNCHANGED vars
  <2>1. \A s \in Streams : StreamInv(streams[s])'
    BY <1>6, EvaluateKept DEF Inv, vars, StreamInv
  <2> QED
    BY <1>6, <2>1 DEF Inv, vars
<1> QED
  BY <1>1, <1>2, <1>3, <1>4, <1>5, <1>6 DEF Next, Quiet

\* A replica that serves has a usable configuration, and answers what Evaluate does.
THEOREM Inductive == Spec => []Inv
<1>1. Init => Inv
  BY DEF Init, Inv, StreamInv, NotOpen
<1> QED
  BY <1>1, NextInv, PTL DEF Spec

-----------------------------------------------------------------------------
(* What Evaluate makes of a request *)

\* Every answer is Evaluate's, by a replica with a usable configuration.
LEMMA Answered ==
    ASSUME Inv, NEW r \in Results
    PROVE  /\ \E request \in Requests : r \in Evaluate(request)
           /\ Usable(cfg[1], policies)
<1>1. PICK s \in Streams : r \in Range(streams[s].answer)
  BY DEF Results
<1>2. StreamInv(streams[s])
  BY DEF Inv
<1>3. ASSUME NEW p, streams[s] = [pc |-> p, answer |-> <<>>] PROVE FALSE
  <2>1. streams[s].answer = <<>>
    BY <1>3
  <2> QED
    BY <1>1, <2>1 DEF Range
<1>4. streams[s].pc \in {"answered", "later"}
  BY <1>2, <1>3, StreamCases
<1>5. PICK request \in Requests : \E result \in Evaluate(request) :
         streams[s] = [pc |-> streams[s].pc, answer |-> <<result>>]
  BY <1>2, <1>4, StreamCases
<1>6. PICK result \in Evaluate(request) :
         streams[s] = [pc |-> streams[s].pc, answer |-> <<result>>]
  BY <1>5
<1>7. r = result
  <2>1. streams[s].answer = <<result>>
    BY <1>6
  <2> QED
    BY <1>1, <2>1 DEF Range
<1>8. stage = "serving"
  BY <1>4, OnlyServing
<1> QED
  BY <1>6, <1>7, <1>8 DEF Inv

\* What is passed on as it came, and what is rerouted.
Kept(r, request) ==
    r.upstream = Upstream(request, request.path, request.host, Basic)
Rerouted(r, request, info, to) ==
    /\ to \in Range(CascadeFor(request.policy))
    /\ r.charge = Charge(to, request)
    /\ r.upstream = Upstream(request, MutatePath(info, to.model, to.region),
                             MutateHost(info, to.region), Owned)

\* The results of Evaluate, by decision.
LEMMA Outcomes ==
    ASSUME NEW request, NEW r \in Evaluate(request)
    PROVE  LET parsed == Parse(request.path, request.query, request.host)
           IN /\ r.request = request
              /\ \/ r.decision = "bypass" /\ r.charge = <<>> /\ Kept(r, request)
                 \/ r.decision = "shed" /\ r.charge = <<>>
                 \/ /\ r.decision = "forward" /\ parsed # <<>> /\ Kept(r, request)
                    /\ r.charge = Charge(parsed[1], request)
                 \/ /\ r.decision = "reroute" /\ parsed # <<>>
                    /\ \E to : Rerouted(r, request, parsed[1], to)
<1> DEFINE parsed == Parse(request.path, request.query, request.host)
           cascade == CascadeFor(request.policy)
<1>1. CASE parsed = <<>>
  <2>1. r = Bypass(request)
    BY <1>1 DEF Evaluate
  <2> QED
    BY <2>1 DEF Bypass, Result, Kept
<1>2. CASE parsed # <<>>
  <2> HIDE DEF parsed
  <2>1. PICK d \in Allowed(ParsePriorityName(request.priority), cascade) :
           r = Decided(request, parsed[1], d)
    BY <1>2 DEF Evaluate, parsed
  <2>2. CASE d = Shed
    <3>1. r = Result(request, "shed", <<>>, <<>>)
      BY <2>1, <2>2 DEF Decided, Shed
    <3> QED
      BY <3>1 DEF Result
  <2>3. CASE d = Forward
    <3>1. r = Result(request, "forward", Charge(parsed[1], request),
                     Upstream(request, request.path, request.host, Basic))
      BY <2>1, <2>3 DEF Decided, Forward
    <3> QED
      BY <1>2, <3>1 DEF Result, Kept, parsed
  <2>4. CASE \E t \in Range(cascade) : d = Reroute(t)
    <3>1. PICK t \in Range(cascade) : d = Reroute(t)
      BY <2>4
    <3>2. d.kind = "reroute" /\ d.to = t
      BY <3>1 DEF Reroute
    <3>3. r = Result(request, "reroute", Charge(t, request),
                     Upstream(request, MutatePath(parsed[1], t.model, t.region),
                              MutateHost(parsed[1], t.region), Owned))
      BY <2>1, <3>2 DEF Decided
    <3>4. /\ r.request = request /\ r.decision = "reroute"
          /\ Rerouted(r, request, parsed[1], t)
      BY <3>1, <3>3 DEF Result, Rerouted
    <3> QED
      BY <1>2, <3>4 DEF parsed
  <2> QED
    BY <2>1, <2>2, <2>3, <2>4 DEF Allowed
<1> QED
  BY <1>1, <1>2

\* Of the headers that the governor owns, those that reach the upstream are its own.
LEMMA HeadersTrusted ==
    ASSUME NEW request \in Requests, NEW path, NEW host,
           NEW set \in SUBSET Owned, "decision" \in set
    PROVE  LET headers == Upstream(request, path, host, set).headers
           IN /\ \A h \in Owned \cap DOMAIN headers : headers[h] = "governor"
              /\ "decision" \in DOMAIN headers
<1> DEFINE headers == Upstream(request, path, host, set).headers
<1>1. headers = [h \in set \cup (request.headers \ Without(set)) |->
                    IF h \in set THEN "governor" ELSE "client"]
  BY DEF Upstream
<1>2. \A h \in Owned : h \in set \cup (request.headers \ Without(set)) => h \in set
  BY DEF Without
<1> QED
  BY <1>1, <1>2

\* No header in governorHeaders reaches an upstream with a client's word in it,
\* and the decision is always there, whether the request is understood or not.
THEOREM HeadersAreTrusted == Spec => []UpstreamHeadersTrusted
<1>1. Inv => UpstreamHeadersTrusted
  <2> SUFFICES ASSUME Inv, NEW r \in Results, r.decision # "shed"
               PROVE  /\ \A h \in Owned \cap DOMAIN r.upstream.headers :
                            r.upstream.headers[h] = "governor"
                      /\ "decision" \in DOMAIN r.upstream.headers
    BY DEF UpstreamHeadersTrusted
  <2>1. PICK request \in Requests : r \in Evaluate(request)
    BY Answered
  <2>2. \E path, host, set : /\ set \in {Basic, Owned}
                            /\ r.upstream = Upstream(request, path, host, set)
    BY <2>1, Outcomes DEF Kept, Rerouted
  <2>3. Basic \in SUBSET Owned /\ "decision" \in Basic /\ "decision" \in Owned
    BY DEF Basic, Owned
  <2> QED
    BY <2>2, <2>3, HeadersTrusted
<1> QED
  BY <1>1, Inductive, PTL

-----------------------------------------------------------------------------
(* Paths and hosts *)

\* Two keys of a path are the same segment only if they are the same word.
LEMMA KeysDiffer ==
    ASSUME NEW a, NEW b
    PROVE  Segment(Word(a)) = Segment(Word(b)) <=> a = b
<1>1. Segment(Word(a)).word.id = a /\ Segment(Word(b)).word.id = b
  BY DEF Segment, Word
<1> QED
  BY <1>1

\* The value of a key that stands at one place only.
LEMMA OnlyValue ==
    ASSUME NEW path, NEW key, NEW at \in Nat, Len(path) \in Nat,
           DOMAIN path = 1..Len(path),
           \A i \in DOMAIN path :
              /\ i % 2 = 0 /\ i < Len(path) /\ path[i] = Segment(Word(key))
              <=> i = at,
           at \in DOMAIN path
    PROVE  ValueOf(path, key) = path[at + 1]
<1> DEFINE places == {i \in DOMAIN path : /\ i % 2 = 0 /\ i < Len(path)
                                         /\ path[i] = Segment(Word(key))}
<1>1. places = {at}
  OBVIOUS
<1>2. Max({at}) = at
  BY DEF Max
<1>3. ValueOf(path, key) = path[Max(places) + 1]
  BY <1>1 DEF ValueOf
<1> HIDE DEF places
<1> QED
  BY <1>1, <1>2, <1>3

\* Parse reads back what MutatePath writes.
LEMMA MutatedPath ==
    ASSUME NEW info, NEW model, NEW region
    PROVE  LET path == MutatePath(info, model, region)
           IN /\ Len(path) = 9 /\ path[1].word = info.version
              /\ ValueOf(path, "projects").word = info.project
              /\ ValueOf(path, "locations").word = region
              /\ ValueOf(path, "publishers").word = info.publisher
              /\ ValueOf(path, "models") = [word |-> model, method |-> info.method]
<1> DEFINE path == MutatePath(info, model, region)
<1>1. /\ Len(path) = 9 /\ DOMAIN path = 1..9
      /\ path[1] = Segment(info.version)
      /\ path[2] = Segment(Word("projects")) /\ path[3] = Segment(info.project)
      /\ path[4] = Segment(Word("locations")) /\ path[5] = Segment(region)
      /\ path[6] = Segment(Word("publishers")) /\ path[7] = Segment(info.publisher)
      /\ path[8] = Segment(Word("models"))
      /\ path[9] = [word |-> model, method |-> info.method]
  BY DEF MutatePath
<1> HIDE DEF path
<1>2. \A i \in 1..9 : i % 2 = 0 /\ i < 9 <=> i \in {2, 4, 6, 8}
  OBVIOUS
<1>3. ASSUME NEW key, NEW at \in {2, 4, 6, 8}, path[at] = Segment(Word(key)),
             \A j \in {2, 4, 6, 8} : path[j] = Segment(Word(key)) => j = at
      PROVE  ValueOf(path, key) = path[at + 1]
  <2>1. \A i \in DOMAIN path :
           i % 2 = 0 /\ i < Len(path) /\ path[i] = Segment(Word(key)) <=> i = at
    BY <1>1, <1>2, <1>3
  <2>2. /\ at \in Nat /\ Len(path) \in Nat /\ DOMAIN path = 1..Len(path)
        /\ at \in DOMAIN path
    BY <1>1
  <2> QED
    BY <2>1, <2>2, OnlyValue
<1>4. ValueOf(path, "projects") = path[2 + 1]
  BY <1>1, <1>3, KeysDiffer
<1>5. ValueOf(path, "locations") = path[4 + 1]
  BY <1>1, <1>3, KeysDiffer
<1>6. ValueOf(path, "publishers") = path[6 + 1]
  BY <1>1, <1>3, KeysDiffer
<1>7. ValueOf(path, "models") = path[8 + 1]
  BY <1>1, <1>3, KeysDiffer
<1>8. \A w : Segment(w).word = w
  BY DEF Segment
<1> QED
  BY <1>1, <1>4, <1>5, <1>6, <1>7, <1>8 DEF path

\* What Parse may return.
RouteInfo(info, query, host) ==
    /\ info.version \in ApiVersions /\ info.project # NoName
    /\ \E method \in Range(info.method) : method # NoName
    /\ info.publisher # NoName /\ EqualFold(info.publisher, Google)
    /\ info = [version |-> info.version, project |-> info.project,
               region |-> info.region, publisher |-> info.publisher,
               model |-> info.model, method |-> info.method,
               query |-> query, host |-> host]

\* What Parse accepts names a project and a method, and the publisher is Google;
\* its region is the word the path has after "locations".
LEMMA Parsed ==
    ASSUME NEW path, NEW query, NEW host, Parse(path, query, host) # <<>>,
           NEW info, info = Parse(path, query, host)[1]
    PROVE  /\ RouteInfo(info, query, host)
           /\ info.region = ValueOf(path, "locations").word
           /\ info.query = query /\ info.host = host
<1> DEFINE publisher == ValueOf(path, "publishers").word
           model == ValueOf(path, "models")
           made == [version |-> path[1].word,
                    project |-> ValueOf(path, "projects").word,
                    region |-> ValueOf(path, "locations").word,
                    publisher |-> IF publisher = NoName THEN Google ELSE publisher,
                    model |-> model.word, method |-> model.method,
                    query |-> query, host |-> host]
<1>1. /\ Parse(path, query, host) = <<made>>
      /\ path[1].word \in ApiVersions
      /\ ValueOf(path, "projects").word # NoName
      /\ \E method \in Range(model.method) : method # NoName
      /\ publisher # NoName => EqualFold(publisher, Google)
  BY DEF Parse
<1>2. Google # NoName /\ EqualFold(Google, Google)
  <2>1. Google.id = "google" /\ NoName.id = ""
    BY DEF Google, NoName, Word
  <2> QED
    BY <2>1 DEF EqualFold
<1>3. /\ made.project = ValueOf(path, "projects").word /\ made.method = model.method
      /\ made.version = path[1].word /\ made.region = ValueOf(path, "locations").word
      /\ made.query = query /\ made.host = host
      /\ made.publisher = IF publisher = NoName THEN Google ELSE publisher
  OBVIOUS
<1>4. /\ info = made
      /\ made = [version |-> made.version, project |-> made.project,
                 region |-> made.region, publisher |-> made.publisher,
                 model |-> made.model, method |-> made.method,
                 query |-> query, host |-> host]
  BY <1>1
<1> HIDE DEF made
<1>5. /\ made.project # NoName
      /\ \E method \in Range(made.method) : method # NoName
      /\ made.publisher # NoName /\ EqualFold(made.publisher, Google)
  BY <1>1, <1>2, <1>3
<1> QED
  BY <1>1, <1>3, <1>4, <1>5 DEF RouteInfo

\* A request that came to the endpoint of its region leaves to the endpoint of its
\* region, also when it is rerouted to another one, and a custom host is kept.
THEOREM RegionIsServed == Spec => []HostServesRegion
<1>1. Inv => HostServesRegion
  <2> DEFINE region(path) == ValueOf(path, "locations").word
             serves(host, path) == host.vertex /\ host.location = ToLower(region(path))
  <2> SUFFICES ASSUME Inv, NEW r \in Results, r.decision # "shed"
               PROVE  /\ serves(r.request.host, r.request.path)
                         => serves(r.upstream.host, r.upstream.path)
                      /\ ~r.request.host.vertex => r.upstream.host = r.request.host
    BY DEF HostServesRegion
  <2>1. PICK request \in Requests : r \in Evaluate(request)
    BY Answered
  <2>2. r.request = request
    BY <2>1, Outcomes
  <2>3. CASE Kept(r, request)
    <3>1. r.upstream.host = request.host /\ r.upstream.path = request.path
      BY <2>3 DEF Kept, Upstream
    <3> QED
      BY <2>2, <3>1
  <2>4. CASE ~Kept(r, request)
    <3> DEFINE parsed == Parse(request.path, request.query, request.host)
               info == parsed[1]
    <3>1. parsed # <<>> /\ \E to : Rerouted(r, request, info, to)
      BY <2>1, <2>4, Outcomes
    <3>2. PICK to : Rerouted(r, request, info, to)
      BY <3>1
    <3>3. info.region = region(request.path) /\ info.host = request.host
      BY <3>1, Parsed
    <3> HIDE DEF info, parsed
    <3>4. /\ r.upstream.host = MutateHost(info, to.region)
          /\ r.upstream.path = MutatePath(info, to.model, to.region)
      BY <3>2 DEF Rerouted, Upstream
    <3>5. region(r.upstream.path) = to.region
      BY <3>4, MutatedPath
    <3>6. CASE ~EqualFold(to.region, info.region) /\ info.host.vertex
      <4>1. r.upstream.host = HostFor(to.region)
        BY <3>4, <3>6 DEF MutateHost
      <4>2. r.upstream.host.vertex /\ r.upstream.host.location = ToLower(to.region)
        BY <4>1 DEF HostFor
      <4> QED
        BY <2>2, <3>3, <3>5, <3>6, <4>2
    <3>7. CASE EqualFold(to.region, info.region) \/ ~info.host.vertex
      <4>1. r.upstream.host = request.host
        BY <3>3, <3>4, <3>7 DEF MutateHost
      <4> QED
        BY <2>2, <3>3, <3>5, <3>7, <4>1 DEF EqualFold
    <3> QED
      BY <3>6, <3>7
  <2> QED
    BY <2>3, <2>4
<1> QED
  BY <1>1, Inductive, PTL

\* The charge is for the target it is asked for.
LEMMA ChargeKey ==
    ASSUME NEW target, NEW request, NEW charge \in Range(Charge(target, request))
    PROVE  /\ charge.key = LowerKey(<<target.region, target.model>>)
           /\ charge.tokens = EstimateTokens(request, RequestTokens(cfg[1]))
<1> DEFINE made == [key |-> LowerKey(<<target.region, target.model>>),
                    tokens |-> EstimateTokens(request, RequestTokens(cfg[1]))]
<1>1. Charge(target, request) = <<made>> \/ Charge(target, request) = <<>>
  BY DEF Charge
<1>2. charge = made
  <2> HIDE DEF made
  <2> QED
    BY <1>1 DEF Range
<1> QED
  BY <1>2

\* But for the model and region, a is b.
Restores(a, b) == [a EXCEPT !.region = b.region, !.model = b.model] = b

\* Two records that agree but for the model and region.
LEMMA RestoredFields ==
    ASSUME NEW a, NEW b, a = [x \in DOMAIN b |-> a[x]], b = [x \in DOMAIN b |-> b[x]],
           \A x \in DOMAIN b : x \notin {"region", "model"} => a[x] = b[x]
    PROVE  Restores(a, b)
<1>1. DOMAIN a = DOMAIN b
  OBVIOUS
<1>2. [a EXCEPT !.region = b.region, !.model = b.model]
         = [x \in DOMAIN a |-> IF x = "model" THEN b["model"]
                               ELSE IF x = "region" THEN b["region"] ELSE a[x]]
  OBVIOUS
<1>3. \A x \in DOMAIN b : b[x] = IF x = "model" THEN b["model"]
                                 ELSE IF x = "region" THEN b["region"] ELSE a[x]
  OBVIOUS
<1> QED
  BY <1>1, <1>2, <1>3 DEF Restores

\* A rerouted request is parsed as the same request for another model and region.
LEMMA ReroutedParses ==
    ASSUME NEW info, NEW query, NEW host, RouteInfo(info, query, host),
           NEW model, model # NoName, NEW region, region # NoName
    PROVE  /\ Parse(MutatePath(info, model, region), query, host) # <<>>
           /\ Parse(MutatePath(info, model, region), query, host)[1].region = region
           /\ Parse(MutatePath(info, model, region), query, host)[1].model = model
           /\ Restores(Parse(MutatePath(info, model, region), query, host)[1], info)
<1> DEFINE new == MutatePath(info, model, region)
           after == Parse(new, query, host)
           made == [version |-> info.version, project |-> info.project,
                    region |-> region, publisher |-> info.publisher,
                    model |-> model, method |-> info.method,
                    query |-> query, host |-> host]
<1>1. /\ info.version \in ApiVersions /\ info.project # NoName
      /\ \E method \in Range(info.method) : method # NoName
      /\ info.publisher # NoName /\ EqualFold(info.publisher, Google)
      /\ info = [version |-> info.version, project |-> info.project,
                 region |-> info.region, publisher |-> info.publisher,
                 model |-> info.model, method |-> info.method,
                 query |-> query, host |-> host]
  BY DEF RouteInfo
<1>2. /\ Len(new) = 9 /\ new[1].word = info.version
      /\ ValueOf(new, "projects").word = info.project
      /\ ValueOf(new, "locations").word = region
      /\ ValueOf(new, "publishers").word = info.publisher
      /\ ValueOf(new, "models").word = model
      /\ ValueOf(new, "models").method = info.method
  BY MutatedPath
<1> HIDE DEF new
<1>3. after = <<made>>
  <2>1. /\ Len(new) >= 5 /\ new[1].word \in ApiVersions
        /\ NoName \notin {ValueOf(new, "projects").word, ValueOf(new, "locations").word,
                         ValueOf(new, "models").word}
        /\ \E method \in Range(ValueOf(new, "models").method) : method # NoName
        /\ ValueOf(new, "publishers").word # NoName =>
              EqualFold(ValueOf(new, "publishers").word, Google)
    BY <1>1, <1>2
  <2>2. after = <<[version |-> new[1].word,
                   project |-> ValueOf(new, "projects").word,
                   region |-> ValueOf(new, "locations").word,
                   publisher |-> IF ValueOf(new, "publishers").word = NoName THEN Google
                                 ELSE ValueOf(new, "publishers").word,
                   model |-> ValueOf(new, "models").word,
                   method |-> ValueOf(new, "models").method,
                   query |-> query, host |-> host]>>
    BY <2>1 DEF Parse
  <2> QED
    BY <1>1, <1>2, <2>2
<1>4. after # <<>> /\ after[1] = made
  BY <1>3
<1>5. made.region = region /\ made.model = model
  OBVIOUS
<1>6. Restores(made, info)
  <2> DEFINE Fields == {"version", "project", "region", "publisher", "model", "method",
                        "query", "host"}
  <2>1. /\ made = [x \in Fields |-> made[x]]
        /\ made["version"] = info.version /\ made["project"] = info.project
        /\ made["publisher"] = info.publisher /\ made["method"] = info.method
        /\ made["query"] = query /\ made["host"] = host
    OBVIOUS
  <2>2. /\ info = [x \in Fields |-> info[x]] /\ DOMAIN info = Fields
        /\ info["query"] = query /\ info["host"] = host
    BY <1>1
  <2> HIDE DEF made
  <2>3. \A x \in Fields : x \notin {"region", "model"} => made[x] = info[x]
    BY <2>1, <2>2
  <2> QED
    BY <2>1, <2>2, <2>3, RestoredFields
<1> HIDE DEF made, after
<1>7. /\ after # <<>> /\ after[1].region = region /\ after[1].model = model
      /\ Restores(after[1], info)
  BY <1>4, <1>5, <1>6
<1> QED
  BY <1>7 DEF after, new

\* A request goes to the model and region that was charged for it, and is otherwise
\* the request it was.
THEOREM SentWhereCharged == Spec => []ChargedWhereSent
<1>1. Inv => ChargedWhereSent
  <2> SUFFICES ASSUME Inv, NEW r \in Results, r.decision \in {"forward", "reroute"}
               PROVE  LET before == Parse(r.request.path, r.request.query, r.request.host)
                          after == Parse(r.upstream.path, r.upstream.query, r.request.host)
                      IN /\ after # <<>>
                         /\ \A charge \in Range(r.charge) : charge.key = OrgKey(after[1])
                         /\ [after[1] EXCEPT !.region = before[1].region,
                                             !.model = before[1].model] = before[1]
    BY DEF ChargedWhereSent
  <2>1. PICK request \in Requests : r \in Evaluate(request)
    BY Answered
  <2> DEFINE before == Parse(request.path, request.query, request.host)
             info == before[1]
             after == Parse(r.upstream.path, r.upstream.query, request.host)
  <2> SUFFICES /\ after # <<>>
               /\ \A charge \in Range(r.charge) : charge.key = OrgKey(after[1])
               /\ [after[1] EXCEPT !.region = info.region, !.model = info.model] = info
    <3>1. r.request = request
      BY <2>1, Outcomes
    <3> QED
      BY <3>1
  <2>2. CASE r.decision = "forward"
    <3>1. before # <<>> /\ Kept(r, request) /\ r.charge = Charge(info, request)
      BY <2>1, <2>2, Outcomes
    <3>2. r.upstream.path = request.path /\ r.upstream.query = request.query
      BY <3>1 DEF Kept, Upstream
    <3>3. after = before
      BY <3>2
    <3>4. info = [version |-> info.version, project |-> info.project,
                  region |-> info.region, publisher |-> info.publisher,
                  model |-> info.model, method |-> info.method,
                  query |-> request.query, host |-> request.host]
      BY <3>1, Parsed DEF RouteInfo
    <3> HIDE DEF info
    <3>5. [info EXCEPT !.region = info.region, !.model = info.model] = info
      <4>1. info = [x \in DOMAIN info |-> info[x]]
        BY <3>4
      <4> QED
        BY <4>1, RestoredFields DEF Restores
    <3>6. \A charge \in Range(r.charge) : charge.key = OrgKey(info)
      BY <3>1, ChargeKey DEF OrgKey
    <3> HIDE DEF after, before
    <3> QED
      BY <3>1, <3>3, <3>5, <3>6 DEF info
  <2>3. CASE r.decision = "reroute"
    <3>1. before # <<>> /\ \E to : Rerouted(r, request, info, to)
      BY <2>1, <2>3, Outcomes
    <3>2. PICK to : Rerouted(r, request, info, to)
      BY <3>1
    <3>3. to.region # NoName /\ to.model # NoName
      <4>1. /\ Usable(cfg[1], policies) /\ to \in Range(CascadeFor(request.policy))
        BY <3>2, Answered DEF Rerouted
      <4>2. Normal(request.policy) \in DOMAIN policies
        BY <4>1 DEF CascadeFor, Range
      <4> QED
        BY <4>1, <4>2 DEF CascadeFor, Usable
    <3>4. /\ r.upstream.path = MutatePath(info, to.model, to.region)
          /\ r.upstream.query = request.query /\ r.charge = Charge(to, request)
      BY <3>2 DEF Rerouted, Upstream
    <3>5. /\ after # <<>> /\ after[1].region = to.region /\ after[1].model = to.model
          /\ [after[1] EXCEPT !.region = info.region, !.model = info.model] = info
      <4>1. RouteInfo(info, request.query, request.host)
        BY <3>1, Parsed
      <4> HIDE DEF info
      <4>2. after = Parse(MutatePath(info, to.model, to.region), request.query,
                          request.host)
        BY <3>4
      <4> HIDE DEF after
      <4>3. /\ after # <<>> /\ after[1].region = to.region /\ after[1].model = to.model
            /\ Restores(after[1], info)
        BY <3>3, <4>1, <4>2, ReroutedParses
      <4> QED
        BY <4>3 DEF Restores
    <3> HIDE DEF after, info
    <3>6. \A charge \in Range(r.charge) : charge.key = OrgKey(after[1])
      BY <3>4, <3>5, ChargeKey DEF OrgKey
    <3> QED
      BY <3>5, <3>6
  <2> QED
    BY <2>2, <2>3
<1> QED
  BY <1>1, Inductive, PTL

-----------------------------------------------------------------------------
(* Token estimates *)

\* A bounded, non-empty set of integers has a largest element.
LEMMA Largest ==
    ASSUME NEW S \in SUBSET Int, S # {}, NEW b \in Int, \A x \in S : x <= b
    PROVE  /\ Max(S) \in S
           /\ \A x \in S : x <= Max(S)
<1> DEFINE D == {b - x : x \in S}
<1>1. D \in SUBSET Nat /\ D # {}
  <2>1. \A x \in S : b - x \in Nat
    OBVIOUS
  <2>2. PICK x \in S : TRUE
    OBVIOUS
  <2>3. b - x \in D
    OBVIOUS
  <2> QED
    BY <2>1, <2>3
<1>2. PICK m \in D : \A y \in D : ~(<<y, m>> \in OpToRel(<, Nat))
  BY <1>1, NatLessThanWellFounded, WFMin
<1>3. PICK x \in S : m = b - x
  OBVIOUS
<1>4. ASSUME NEW y \in S PROVE x >= y
  <2>1. b - y \in D /\ b - y \in Nat /\ m \in Nat
    BY <1>1
  <2>2. ~(b - y < m)
    BY <1>2, <2>1 DEF OpToRel
  <2>3. x \in Int /\ y \in Int
    OBVIOUS
  <2> QED
    BY <1>3, <2>1, <2>2, <2>3
<1>5. \E z \in S : \A y \in S : z >= y
  BY <1>4
<1>6. Max(S) \in S /\ \A y \in S : Max(S) >= y
  BY <1>5 DEF Max
<1> QED
  BY <1>6

\* A size hint that is not too close to the end of the integers covers its bytes.
LEMMA BytesCovered ==
    ASSUME NEW n \in Int64, n > 0
    PROVE  /\ Wrapped(n + 3) \div 4 \in Int /\ Wrapped(n + 3) \div 4 <= MaxInt
           /\ n <= MaxInt - 3 => 4 * (Wrapped(n + 3) \div 4) >= n
<1>1. MaxInt \in Nat /\ n \in Nat /\ n <= MaxInt /\ MaxInt >= 1
  BY IntAssumption DEF Int64
<1>2. Wrapped(n + 3) \in Int /\ Wrapped(n + 3) <= MaxInt
  BY <1>1 DEF Wrapped
<1>3. \A w \in Int : /\ w \div 4 \in Int /\ 4 * (w \div 4) <= w /\ w < 4 * (w \div 4) + 4
  OBVIOUS
<1>4. Wrapped(n + 3) \div 4 \in Int /\ Wrapped(n + 3) \div 4 <= MaxInt
  <2> DEFINE q == Wrapped(n + 3) \div 4
  <2>1. q \in Int /\ 4 * q <= MaxInt
    BY <1>1, <1>2, <1>3
  <2> HIDE DEF q
  <2>2. q <= MaxInt
    BY <1>1, <2>1
  <2> QED
    BY <2>1, <2>2 DEF q
<1>5. ASSUME n <= MaxInt - 3 PROVE 4 * (Wrapped(n + 3) \div 4) >= n
  <2>1. Wrapped(n + 3) = n + 3 /\ n + 3 \in Int
    BY <1>1, <1>5 DEF Wrapped
  <2>2. n + 3 < 4 * ((n + 3) \div 4) + 4 /\ (n + 3) \div 4 \in Int
    BY <1>3, <2>1
  <2> QED
    BY <1>1, <2>1, <2>2
<1> QED
  BY <1>4, <1>5

\* The estimate is positive, capped, and at least every hint up to the cap.
LEMMA EstimateBounds ==
    ASSUME NEW request \in Requests, NEW default \in Nat \ {0}
    PROVE  /\ EstimateTokens(request, default) \in 1..MaxTokenEstimate
           /\ \A h \in TokenHints(request) :
                 h > 0 => EstimateTokens(request, default) >= Lesser(h, MaxTokenEstimate)
           /\ TokenHints(request) \in SUBSET Int
<1>1. /\ Positive(request.promptTokens) \in SUBSET Int64
      /\ Positive(request.contentLength) \in SUBSET Int64
      /\ \A n \in Positive(request.promptTokens) : n > 0
      /\ \A n \in Positive(request.contentLength) : n > 0
  BY RequestAssumption DEF Positive, Range
<1>2. \A h \in TokenHints(request) : h \in Int /\ h <= MaxInt
  <2>1. \A h \in Positive(request.promptTokens) : h \in Int /\ h <= MaxInt
    BY <1>1, IntAssumption DEF Int64
  <2> QED
    BY <1>1, <2>1, BytesCovered DEF TokenHints
<1> DEFINE S == {0} \cup TokenHints(request)
           est == Max(S)
<1>3. est \in S /\ \A h \in S : h <= est
  <2>1. S \in SUBSET Int /\ S # {} /\ MaxInt \in Int /\ \A x \in S : x <= MaxInt
    BY <1>2, IntAssumption
  <2> HIDE DEF S
  <2> QED
    BY <2>1, Largest
<1>4. est \in Nat /\ \A h \in TokenHints(request) : h <= est
  BY <1>2, <1>3
<1>5. EstimateTokens(request, default)
         = Lesser(IF est = 0 THEN default ELSE est, MaxTokenEstimate)
  BY DEF EstimateTokens
<1>6. MaxTokenEstimate \in Nat /\ MaxTokenEstimate >= 1
  BY IntAssumption
<1> HIDE DEF est
<1>7. EstimateTokens(request, default) \in 1..MaxTokenEstimate
  BY <1>4, <1>5, <1>6 DEF Lesser
<1>8. ASSUME NEW h \in TokenHints(request), h > 0
      PROVE  EstimateTokens(request, default) >= Lesser(h, MaxTokenEstimate)
  BY <1>2, <1>4, <1>5, <1>6, <1>8 DEF Lesser
<1> QED
  BY <1>2, <1>7, <1>8

\* "A client cannot understate a large body": the estimate pays for every byte and
\* every stated token up to the cap, is never 0, and never above the cap.
THEOREM BodyIsCovered == Spec => []EstimateCoversBody
<1>1. Inv => EstimateCoversBody
  <2> SUFFICES ASSUME Inv, NEW r \in Results, NEW charge \in Range(r.charge)
               PROVE  /\ charge.tokens \in 1..MaxTokenEstimate
                      /\ \A n \in Positive(r.request.contentLength) :
                            n <= MaxInt - 3 =>
                               4 * charge.tokens >= Lesser(n, 4 * MaxTokenEstimate)
                      /\ \A v \in Positive(r.request.promptTokens) :
                            charge.tokens >= Lesser(v, MaxTokenEstimate)
    BY DEF EstimateCoversBody
  <2>1. PICK request \in Requests : r \in Evaluate(request)
    BY Answered
  <2> DEFINE default == RequestTokens(cfg[1])
  <2>2. default \in Nat \ {0}
    BY Answered DEF Usable
  <2>3. charge.tokens = EstimateTokens(request, default) /\ r.request = request
    <3>1. r.charge = <<>> \/ \E target : r.charge = Charge(target, request)
      BY <2>1, Outcomes DEF Rerouted
    <3>2. r.charge # <<>>
      BY DEF Range
    <3> QED
      BY <2>1, <3>1, <3>2, ChargeKey, Outcomes
  <2> HIDE DEF default
  <2>4. /\ charge.tokens \in 1..MaxTokenEstimate /\ TokenHints(request) \in SUBSET Int
        /\ \A h \in TokenHints(request) :
              h > 0 => charge.tokens >= Lesser(h, MaxTokenEstimate)
    BY <2>2, <2>3, EstimateBounds
  <2>5. ASSUME NEW v \in Positive(request.promptTokens)
        PROVE  charge.tokens >= Lesser(v, MaxTokenEstimate)
    BY <2>4 DEF TokenHints, Positive
  <2>6. ASSUME NEW n \in Positive(request.contentLength), n <= MaxInt - 3
        PROVE  4 * charge.tokens >= Lesser(n, 4 * MaxTokenEstimate)
    <3> DEFINE h == Wrapped(n + 3) \div 4
    <3>1. n \in Int64 /\ n > 0
      BY RequestAssumption DEF Positive, Range
    <3>2. h \in TokenHints(request) /\ h \in Int /\ 4 * h >= n
      BY <2>6, <3>1, BytesCovered DEF TokenHints
    <3> HIDE DEF h
    <3>3. MaxTokenEstimate \in Nat /\ n \in Nat /\ charge.tokens \in Nat
      BY <2>4, <3>1, IntAssumption DEF Int64
    <3>4. h > 0
      BY <3>1, <3>2, <3>3
    <3>5. charge.tokens >= Lesser(h, MaxTokenEstimate)
      BY <2>4, <3>2, <3>4
    <3> QED
      BY <3>2, <3>3, <3>5 DEF Lesser
  <2> QED
    BY <2>3, <2>4, <2>5, <2>6
<1> QED
  BY <1>1, Inductive, PTL

-----------------------------------------------------------------------------
(* What is accepted *)

\* What LoadConfig and NewCascadeEngine accept is usable: no policy leads to a target
\* without a bucket, however the three places that spell a target spell it.
THEOREM AcceptedIsGoverned == Spec => []AcceptedMeansGoverned
<1>1. Inv => AcceptedMeansGoverned
  <2> SUFFICES ASSUME Inv, stage = "serving" PROVE AcceptedMeansGoverned
    BY DEF AcceptedMeansGoverned
  <2>1. Usable(cfg[1], policies)
    BY DEF Inv
  <2> QED
    BY <2>1 DEF AcceptedMeansGoverned, Usable
<1> QED
  BY <1>1, Inductive, PTL

\* Types; a replica serves exactly when it has a configuration.
THEOREM TypeCorrect == Spec => []TypeOK
<1>1. Inv => TypeOK
  <2> SUFFICES ASSUME Inv PROVE TypeOK
    OBVIOUS
  <2>1. Len(cfg) = IF stage = "serving" THEN 1 ELSE 0
    BY DEF Inv
  <2>2. NoName \notin DOMAIN policies
    BY DEF Inv, Usable
  <2>3. ASSUME NEW s \in Streams
        PROVE  /\ streams[s].pc \in {"none", "headers", "answered", "later", "ended"}
               /\ Len(streams[s].answer)
                     = IF streams[s].pc \in {"answered", "later"} THEN 1 ELSE 0
    <3>1. StreamInv(streams[s])
      BY DEF Inv
    <3>2. CASE streams[s] = [pc |-> streams[s].pc, answer |-> <<>>]
               /\ streams[s].pc \in {"none", "headers", "ended"}
      <4>1. streams[s].answer = <<>>
        BY <3>2
      <4> QED
        BY <3>2, <4>1
    <3>3. CASE /\ streams[s].pc \in {"answered", "later"}
               /\ \E result : streams[s] = [pc |-> streams[s].pc, answer |-> <<result>>]
      <4>1. \E result : streams[s].answer = <<result>>
        BY <3>3
      <4> QED
        BY <3>3, <4>1
    <3> QED
      BY <3>1, <3>2, <3>3, StreamCases
  <2> QED
    BY <2>1, <2>2, <2>3 DEF Inv, TypeOK
<1> QED
  BY <1>1, Inductive, PTL
=============================================================================
