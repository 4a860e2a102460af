---------------------------- MODULE Configuration ---------------------------
(***************************************************************************)
(* LoadConfig (governor/config.go), the accessors of Config (types.go) and *)
(* the policies a CascadeEngine is built with (governor/cascade.go).       *)
(*                                                                         *)
(* A configuration is a record; a pointer or a result that may be missing  *)
(* is a sequence of at most one element.  Durations are in seconds.        *)
(* Allowances and default limits are functions from keys to optional       *)
(* limits, policies a function from names to cascades.                     *)
(***************************************************************************)
EXTENDS Dimensions, Names

MinPollInterval == 15
DefaultPollTimeout == 10
DefaultCriticalReservePercent == 30

CONSTANT DefaultRequestTokensEstimate

ASSUME EstimateAssumption == DefaultRequestTokensEstimate \in Nat \ {0}

\* What a configuration file decodes to.
IsConfig(raw) ==
    /\ raw \in [projects : Seq(Name), regions : Seq(Name), models : Seq(Name),
               interval : Int, timeout : Int, margin : Int,
               reserve : Seq(Int), replicas : Seq(Int), tokens : Int,
               allowances : {raw.allowances}, limits : {raw.limits},
               policies : {raw.policies}]
    /\ \A k \in DOMAIN raw.allowances :
          /\ k \in Seq(Name)
          /\ raw.allowances[k] \in Seq([Dims -> Int]) /\ Len(raw.allowances[k]) <= 1
    /\ \A k \in DOMAIN raw.limits :
          raw.limits[k] \in Seq([Dims -> Int]) /\ Len(raw.limits[k]) <= 1
    /\ \A n \in DOMAIN raw.policies :
          raw.policies[n] \in Seq([region : Name, model : Name])

-----------------------------------------------------------------------------
(* LoadConfig *)

ListsPresent(c) == c.projects # <<>> /\ c.regions # <<>> /\ c.models # <<>>

\* The polling settings are clamped rather than refused.
Clamped(c) ==
    LET interval == Greater(c.interval, MinPollInterval)
    IN [c EXCEPT !.interval = interval,
                 !.timeout = IF @ <= 0 \/ @ > interval
                             THEN Lesser(DefaultPollTimeout, interval) ELSE @,
                 !.margin = IF @ \in 10..90 THEN @ ELSE 10]

\* validateAdmissionSettings
AdmissionSettingsValid(c) ==
    /\ \A r \in Range(c.reserve) : r \in 0..90
    /\ c.tokens >= 0
    /\ \A n \in Range(c.replicas) : n >= 1

NormalizedSet(values) == {Normal(v) : v \in Range(values)}

\* A key is a listed "location/model" pair and its limit is usable.
AllowanceValid(c, k) ==
    /\ Len(k) = 2
    /\ \A i \in 1..2 : Normal(k[i]) # NoName
    /\ Normal(k[1]) \in NormalizedSet(c.regions)
    /\ Normal(k[2]) \in NormalizedSet(c.models)
    /\ \E limit \in Range(c.allowances[k]) :
          /\ \A d \in Dims : limit[d] >= 0
          /\ \E d \in Dims : limit[d] > 0

\* normalizeAllowances: every key is valid and no two are spellings of one.
AllowancesValid(c) ==
    LET keys == DOMAIN c.allowances
    IN /\ keys # {}
       /\ \A k \in keys : AllowanceValid(c, k)
       /\ \A k, l \in keys : NormalKey(k) = NormalKey(l) => k = l

\* Mutant: the keys keep their case.
NormalizedAllowancesAsSpelled(c) ==
    [k \in DOMAIN c.allowances |-> c.allowances[k][1]]

NormalizedAllowances(c) ==
    [k \in {NormalKey(l) : l \in DOMAIN c.allowances} |->
        c.allowances[CHOOSE l \in DOMAIN c.allowances : NormalKey(l) = k][1]]

\* validateCascadeTargets: every fallback is listed and has an allowance.
CascadeTargetsValid(c, allowances) ==
    \A name \in DOMAIN c.policies :
        \A step \in Range(c.policies[name]) :
            /\ Normal(step.region) \in NormalizedSet(c.regions)
            /\ Normal(step.model) \in NormalizedSet(c.models)
            /\ <<Normal(step.region), Normal(step.model)>> \in DOMAIN allowances

\* The configuration, or nothing when it is refused.
LoadConfig(raw) ==
    IF /\ ListsPresent(raw)
       /\ AdmissionSettingsValid(raw)
       /\ AllowancesValid(raw)
       /\ CascadeTargetsValid(raw, NormalizedAllowances(raw))
    THEN <<[Clamped(raw) EXCEPT !.allowances = NormalizedAllowances(raw)]>>
    ELSE <<>>

-----------------------------------------------------------------------------
(* Accessors of a loaded configuration *)

CriticalReserve(c) ==
    IF c.reserve = <<>> THEN DefaultCriticalReservePercent ELSE c.reserve[1]

Replicas(c) == IF c.replicas = <<>> THEN 1 ELSE c.replicas[1]

RequestTokens(c) ==
    IF c.tokens <= 0 THEN DefaultRequestTokensEstimate ELSE c.tokens

-----------------------------------------------------------------------------
(* NewCascadeEngine *)

\* Mutant: the steps are kept as they are spelled.
TrimmedKeepsPadding(cascade) == cascade

\* The steps of a policy are trimmed; their case is kept.
Trimmed(cascade) ==
    [i \in DOMAIN cascade |-> [region |-> TrimSpace(cascade[i].region),
                               model |-> TrimSpace(cascade[i].model)]]

\* Mutant: a policy may have a blank name.
PoliciesValidUnnamed(c) ==
    \A name \in DOMAIN c.policies :
        /\ c.policies[name] # <<>>
        /\ \A step \in Range(Trimmed(c.policies[name])) :
              step.region # NoName /\ step.model # NoName

PoliciesValid(c) ==
    \A name \in DOMAIN c.policies :
        /\ Normal(name) # NoName
        /\ c.policies[name] # <<>>
        /\ \A step \in Range(Trimmed(c.policies[name])) :
              step.region # NoName /\ step.model # NoName

\* The policies by normalised name.  When two names are spellings of one, the
\* one that the iteration over the map visits last is kept: either may be.
PolicyMaps(c) ==
    LET names == {Normal(n) : n \in DOMAIN c.policies}
        spelled(n) == {s \in DOMAIN c.policies : Normal(s) = n}
    IN {[n \in names |-> Trimmed(c.policies[choice[n]])] :
           choice \in {f \in [names -> DOMAIN c.policies] :
                          \A n \in names : f[n] \in spelled(n)}}
=============================================================================
