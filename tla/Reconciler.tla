----------------------------- MODULE Reconciler -----------------------------
(***************************************************************************)
(* The control plane's polling: Reconciler.Start and reconcile             *)
(* (controlplane/reconciler.go) and GCPClient.FetchMetrics with what it    *)
(* computes from the answers (controlplane/client.go).                     *)
(*                                                                         *)
(* A poll makes four calls per project, one after the other: the request   *)
(* and token limits from Cloud Quotas, the request and token usage from    *)
(* Cloud Monitoring.  Usage goes on changing between them.  A call for     *)
(* limits that fails is replaced by configured limits; a call for usage    *)
(* that fails ends the poll, and the last snapshot stays.                  *)
(***************************************************************************)
EXTENDS Configuration, FiniteSets, FiniteSetsExt, SequencesExt

CONSTANTS
    RawConfigs,     \* the configuration files
    QuotaInfos,     \* what Cloud Quotas may hold: of each project and dimension, a
                    \* sequence of DimensionsInfos
    Levels,         \* the usage levels of a project and target
    UsagePer,       \* of each dimension: what one level of usage counts
    Families,       \* of each model: the family names its name contains, in order
    MaxChanges,     \* bound on the changes of usage
    MaxFaults       \* bound on the calls that fail

Projects(c) == {ToLower(p) : p \in Range(c.projects)}

ASSUME ConfigsAssumption == \A raw \in RawConfigs : IsConfig(raw)

\* A dimension that an entry does not name is a missing label, read as "".
ASSUME AnswersAssumption ==
    /\ \A answers \in QuotaInfos, raw \in RawConfigs :
          \A p \in Projects(raw), d \in Dims :
             LET info == answers[p][d]
             IN /\ info \in Seq([region : Name, model : Name, details : Seq(Int)])
                /\ \A i \in DOMAIN info : Len(info[i].details) <= 1
    /\ Levels \subseteq Nat
    /\ UsagePer \in [Dims -> Nat]

ASSUME FamiliesAssumption ==
    \A raw \in RawConfigs : \A m \in Range(raw.models) : Families[m.id] \in Seq(Name)

FallbackLimit == <<[d \in Dims |-> IF d = "rpm" THEN 1000 ELSE 2000000]>>
UnlimitedQuota == -1

VARIABLES
    cfg,        \* Reconciler.config
    quotaInfo,  \* what Cloud Quotas holds, of each project and dimension
    usage,      \* what Cloud Monitoring holds, of each project and target
    poll,       \* the poll in progress
    stored,     \* the snapshot last saved, if any
    witnessed,  \* history: every usage since the poll began
    budget      \* the changes and faults left

vars == <<cfg, quotaInfo, usage, poll, stored, witnessed, budget>>

Q == INSTANCE Quota WITH SafetyMarginPercent <- cfg.margin,
                         ReservePercent <- CriticalReserve(cfg)

\* A map after the assignments of new to it.
Updated(map, new) ==
    [k \in DOMAIN new \cup DOMAIN map |-> IF k \in DOMAIN new THEN new[k] ELSE map[k]]

Targets(c) == {LowerKey(<<r, m>>) : r \in Range(c.regions), m \in Range(c.models)}

\* What Cloud Monitoring knows of them.
Monitored(c) == {NormalKey(t) : t \in Targets(c)}

Idle == [pc       |-> "idle",
         at       |-> 1,        \* the project it has come to
         limits   |-> <<>>,     \* of each project and dimension so far
         usage    |-> <<>>,     \* the same
         answered |-> {}]       \* history: the calls for limits that succeeded

Init ==
    /\ cfg \in UNION {Range(LoadConfig(raw)) : raw \in RawConfigs}
    /\ quotaInfo \in QuotaInfos
    /\ usage = [p \in Projects(cfg) |-> [t \in Monitored(cfg) |-> 0]]
    /\ poll = Idle
    /\ stored = <<>>
    /\ witnessed = {}
    /\ budget = [changes |-> MaxChanges, faults |-> MaxFaults]

-----------------------------------------------------------------------------
(* extractLimits *)

ContainsFold(names, n) == \E m \in Range(names) : EqualFold(m, n)

\* An entry with a value whose region and model, where it names them, are listed.
Applies(c, entry) ==
    /\ entry.details # <<>>
    /\ entry.region # NoName => ContainsFold(c.regions, entry.region)
    /\ entry.model # NoName => ContainsFold(c.models, entry.model)

Score(entry) == (IF entry.region # NoName THEN 1 ELSE 0)
                + (IF entry.model # NoName THEN 2 ELSE 0)

MatchedKeys(c, entry) ==
    LET matched(listed, n) == IF n # NoName THEN {n} ELSE Range(listed)
    IN {LowerKey(<<r, m>>) : r \in matched(c.regions, entry.region),
                             m \in matched(c.models, entry.model)}

\* Mutant: the last entry that applies wins, however general it is.
ExtractEntryLastWins(c, found, entry) ==
    IF ~Applies(c, entry) THEN found
    ELSE [score |-> Updated(found.score, [k \in MatchedKeys(c, entry) |-> Score(entry)]),
          limit |-> Updated(found.limit, [k \in MatchedKeys(c, entry) |-> entry.details[1]])]

\* One turn of the loop over the entries.
ExtractEntry(c, found, entry) ==
    IF ~Applies(c, entry) THEN found
    ELSE LET keys == {k \in MatchedKeys(c, entry) :
                         k \in DOMAIN found.score => found.score[k] <= Score(entry)}
         IN [score |-> Updated(found.score, [k \in keys |-> Score(entry)]),
             limit |-> Updated(found.limit, [k \in keys |-> entry.details[1]])]

ExtractLimits(c, info) ==
    FoldLeft(LAMBDA found, entry : ExtractEntry(c, found, entry),
             [score |-> <<>>, limit |-> <<>>], info).limit

-----------------------------------------------------------------------------
(* Limits of a target *)

\* The keys resolveFallbackLimit tries, the most specific first.
FallbackKeys(project, region, model) ==
    (IF project = NoName THEN <<>> ELSE <<LowerKey(<<project, region, model>>)>>)
    \o <<LowerKey(<<region, model>>), LowerKey(<<model>>)>>
    \o [i \in DOMAIN Families[model.id] |-> <<Families[model.id][i]>>]

\* A pointer: a default limit that is null in the file is a nil one.
ResolveFallbackLimit(limits, project, region, model) ==
    LET keys == FallbackKeys(project, region, model)
        known == {i \in DOMAIN keys : keys[i] \in DOMAIN limits}
    IN IF known = {} THEN FallbackLimit ELSE limits[keys[Min(known)]]

\* Mutant: an unlimited quota is taken for an unknown one.
ResolveLimitFinite(limits, key, fallback) ==
    IF key \in DOMAIN limits /\ limits[key] > 0 THEN limits[key] ELSE fallback

ResolveLimit(limits, key, fallback) ==
    IF key \in DOMAIN limits /\ limits[key] = UnlimitedQuota THEN 0
    ELSE IF key \in DOMAIN limits /\ limits[key] > 0 THEN limits[key]
    ELSE fallback

-----------------------------------------------------------------------------
(* Reconciler.Start *)

StartPoll ==
    /\ poll.pc = "idle"
    /\ poll' = [Idle EXCEPT !.pc = "limits"]
    /\ witnessed' = {usage}
    /\ UNCHANGED <<cfg, quotaInfo, usage, stored, budget>>

\* Mutant: an error ends the loop.
AfterErrorStops == [Idle EXCEPT !.pc = "returned"]

\* The error is printed and the next tick polls again.
AfterError == Idle

\* The context is done.  Calls that it interrupts are calls that fail.
Stop ==
    /\ poll.pc = "idle"
    /\ poll' = [Idle EXCEPT !.pc = "ended"]
    /\ UNCHANGED <<cfg, quotaInfo, usage, stored, witnessed, budget>>

-----------------------------------------------------------------------------
(* FetchMetrics: the calls *)

Project == cfg.projects[poll.at]

\* Both limits of the project, each from its own call (nothing a poll reads can
\* change between the two); the answer of a failed call is nil.
FetchQuotaInfo ==
    /\ poll.pc = "limits"
    /\ \E failed \in SUBSET Dims :
          /\ Cardinality(failed) <= budget.faults
          /\ budget' = [budget EXCEPT !.faults = @ - Cardinality(failed)]
          /\ poll' = [poll EXCEPT
                !.pc = "rpm",
                !.limits = Updated(@, [k \in {Project} \X Dims |->
                      IF k[2] \in failed THEN <<>>
                      ELSE ExtractLimits(cfg, quotaInfo[ToLower(Project)][k[2]])]),
                !.answered = (@ \ ({Project} \X failed)) \cup ({Project} \X (Dims \ failed))]
    /\ UNCHANGED <<cfg, quotaInfo, usage, stored, witnessed>>

\* What Cloud Monitoring answers when a project's usage is levels: a series for
\* each target, with points when there was usage, and one for a model the
\* configuration does not list.
TimeSeries(levels, d) ==
    {[region |-> t[1], model |-> t[2],
      points |-> IF levels[t] = 0 THEN <<>> ELSE <<levels[t] * UsagePer[d]>>] :
        t \in DOMAIN levels}
    \cup {[region |-> NoName, model |-> Word("unlisted"), points |-> <<7>>]}

\* fetchUsageInfo: the newest point of each series that has one.  The request
\* groups by region and model, so no two series share a key.
UsageInfo(series) ==
    LET key(s) == LowerKey(<<s.region, s.model>>)
        pointed == {s \in series : s.points # <<>>}
    IN [k \in {key(s) : s \in pointed} |->
           (CHOOSE s \in pointed : key(s) = k).points[1]]

\* The call for requests, then the one for tokens; after the last project
\* FetchMetrics goes on without calls.
FetchUsageInfo(d) ==
    /\ poll.pc = d
    /\ poll' = [poll EXCEPT
          !.pc = IF d = "rpm" THEN "tpm"
                 ELSE IF poll.at < Len(cfg.projects) THEN "limits" ELSE "assemble",
          !.at = IF d = "tpm" /\ @ < Len(cfg.projects) THEN @ + 1 ELSE @,
          !.usage = Updated(@, [k \in {<<Project, d>>} |->
                       UsageInfo(TimeSeries(usage[ToLower(Project)], d))])]
    /\ UNCHANGED <<cfg, quotaInfo, usage, stored, witnessed, budget>>

FetchUsageFails ==
    /\ poll.pc \in Dims /\ budget.faults > 0
    /\ budget' = [budget EXCEPT !.faults = @ - 1]
    /\ poll' = AfterError
    /\ witnessed' = {}
    /\ UNCHANGED <<cfg, quotaInfo, usage, stored>>

-----------------------------------------------------------------------------
(* FetchMetrics: the quotas; reconcile *)

UsageAt(project, d, t) ==
    LET found == poll.usage[<<project, d>>]
    IN IF t \in DOMAIN found THEN found[t] ELSE 0

ProjectQuota(project, region, model) ==
    LET t == LowerKey(<<region, model>>)
        fallback == ResolveFallbackLimit(cfg.limits, project, region, model)
    IN [d \in Dims |->
          [max |-> ResolveLimit(poll.limits[<<project, d>>], t, fallback[1][d]),
           current |-> UsageAt(project, d, t)]]

\* Mutant: two spellings of a project are two projects.
GetKeyAsSpelled(project, region, model) == <<project, LowerKey(<<region, model>>)>>

GetKey(project, region, model) == <<ToLower(project), LowerKey(<<region, model>>)>>

LastSpelling(name) ==
    cfg.projects[Max({i \in DOMAIN cfg.projects : EqualFold(cfg.projects[i], name)})]

\* FetchMetrics' map of project quotas.  A project listed under several spellings
\* is polled under each; the last one stays.
RawQuotas ==
    [k \in {GetKey(p, t[1], t[2]) : p \in Range(cfg.projects), t \in Targets(cfg)} |->
        ProjectQuota(LastSpelling(k[1]), k[2][1], k[2][2])]

\* The configured allowance, with the usage of the projects summed into it.
OrgQuota(quotas, t) ==
    LET allowances == [k \in DOMAIN cfg.allowances |-> <<cfg.allowances[k]>>]
        limit == ResolveFallbackLimit(allowances, NoName, t[1], t[2])[1]
        projects == {k[1] : k \in DOMAIN quotas}
    IN [d \in Dims |->
          [max |-> limit[d],
           current |-> SumFunction([p \in projects |-> quotas[<<p, t>>][d].current])]]

\* GetKey wants a project, a region and a model.
Keyable(c) == NoName \notin Range(c.projects) \cup Range(c.regions) \cup Range(c.models)

\* The turns of the three loops, and what a turn may meet: a nil limit, which is
\* dereferenced first, and a blank name.
Turns(c) == (DOMAIN c.regions) \X (DOMAIN c.models) \X (DOMAIN c.projects)

Before(a, b) == \/ a[1] < b[1]
                \/ a[1] = b[1] /\ a[2] < b[2]
                \/ a[1] = b[1] /\ a[2] = b[2] /\ a[3] < b[3]

NilAt(c, a) == ResolveFallbackLimit(c.limits, c.projects[a[3]], c.regions[a[1]],
                                    c.models[a[2]]) = <<>>
BlankAt(c, a) == NoName \in {c.regions[a[1]], c.models[a[2]], c.projects[a[3]]}

Panics(c) == \E a \in Turns(c) : /\ NilAt(c, a)
                                 /\ \A b \in Turns(c) : BlankAt(c, b) => ~Before(b, a)

\* The control plane ends.
Panic ==
    /\ poll.pc = "assemble"
    /\ Panics(cfg)
    /\ poll' = [Idle EXCEPT !.pc = "crashed"]
    /\ witnessed' = {}
    /\ UNCHANGED <<cfg, quotaInfo, usage, stored, budget>>

\* FetchMetrics returns GetKey's error.
GetKeyFails ==
    /\ poll.pc = "assemble"
    /\ ~Keyable(cfg) /\ ~Panics(cfg)
    /\ poll' = AfterError
    /\ witnessed' = {}
    /\ UNCHANGED <<cfg, quotaInfo, usage, stored, budget>>

Reconcile ==
    /\ poll.pc = "assemble"
    /\ Keyable(cfg) /\ ~Panics(cfg)
    /\ LET quotas == RawQuotas
       IN stored' = <<[project |-> quotas,
                       org |-> [t \in Targets(cfg) |-> OrgQuota(quotas, t)]]>>
    /\ poll' = Idle
    /\ witnessed' = {}
    /\ UNCHANGED <<cfg, quotaInfo, usage, budget>>

PollStep ==
    \/ StartPoll
    \/ FetchQuotaInfo
    \/ \E d \in Dims : FetchUsageInfo(d)
    \/ FetchUsageFails
    \/ Panic
    \/ GetKeyFails
    \/ Reconcile

-----------------------------------------------------------------------------
\* Traffic changes the usage of a project.
ChangeUsage ==
    /\ budget.changes > 0
    /\ \E p \in DOMAIN usage, t \in Monitored(cfg), level \in Levels :
          /\ level # usage[p][t]
          /\ usage' = [usage EXCEPT ![p][t] = level]
    /\ witnessed' = IF poll.pc \in {"idle", "ended", "crashed"} THEN {} ELSE witnessed \cup {usage'}
    /\ budget' = [budget EXCEPT !.changes = @ - 1]
    /\ UNCHANGED <<cfg, quotaInfo, poll, stored>>

Ended == poll.pc \in {"ended", "crashed"} /\ UNCHANGED vars

Next == PollStep \/ Stop \/ ChangeUsage \/ Ended

\* The ticker ticks and every call returns.
Spec == Init /\ [][Next]_vars /\ WF_vars(PollStep)

-----------------------------------------------------------------------------
(* Properties *)

\* The default limits of projects, which LoadConfig does not check.
Defaults(c) ==
    {limit[d] : limit \in UNION {Range(c.limits[k]) : k \in DOMAIN c.limits}, d \in Dims}

\* Types; a snapshot has an entry for every project and target that is listed, no
\* negative usage and no negative limit but one that default_project_limits states.
TypeOK ==
    /\ poll.pc \in {"idle", "limits", "assemble", "ended", "crashed"} \cup Dims
    /\ poll.at \in 1..Len(cfg.projects)
    /\ \A s \in Range(stored) :
          /\ s.org \in [Targets(cfg) -> Q!ModelQuota]
          /\ s.project \in [Projects(cfg) \X Targets(cfg) ->
                               [Dims -> [max : Nat \cup Defaults(cfg), current : Nat]]]

Saves == poll.pc = "assemble" /\ poll' # poll /\ Keyable(cfg) /\ ~Panics(cfg)

\* The usage in a saved org quota is a sum of usages that each project, counted
\* once, really had during the poll: nothing of an earlier poll, no project left
\* out or counted under two spellings, no failed call taken for zero usage.
OrgUsageWasTrue ==
    [][Saves =>
         \A t \in Targets(cfg), d \in Dims :
            \E when \in [Projects(cfg) -> witnessed] :
               stored'[1].org[t][d].current =
                  SumFunction([p \in Projects(cfg) |-> when[p][p][t] * UsagePer[d]])]_vars

\* The entries of an answer that say something of target t, by specificity.
Ranked(info, t, rank) ==
    {i \in DOMAIN info :
        /\ info[i].details # <<>>
        /\ ToLower(info[i].region) = IF rank \in {2, 4} THEN t[1] ELSE NoName
        /\ ToLower(info[i].model) = IF rank \in {3, 4} THEN t[2] ELSE NoName}

\* The value of the most specific one, "regardless of order: region+model >
\* model-only > region-only > global", if there is any.
MostSpecific(info, t) ==
    LET ranks == {rank \in 1..4 : Ranked(info, t, rank) # {}}
    IN IF ranks = {} THEN <<>> ELSE info[Max(Ranked(info, t, Max(ranks)))].details

\* A positive limit that Cloud Quotas reports for a project and target, by its most
\* specific entry, is that project's limit in the snapshot (extractLimits,
\* resolveLimit, and the maps of FetchMetrics by project).
LimitsAsReported ==
    [][Saves =>
         \A t \in Targets(cfg), d \in Dims :
            \A p \in Range(cfg.projects) :
               \A limit \in Range(MostSpecific(quotaInfo[ToLower(p)][d], t)) :
                  limit > 0 /\ <<LastSpelling(p), d>> \in poll.answered =>
                     stored'[1].project[<<ToLower(p), t>>][d].max = limit]_vars

\* A target that Cloud Quotas reports as unlimited for a project is never found full
\* for it by the data plane, however much of it is used ("utilization 0, never saturated").
UnlimitedNeverFull ==
    [][Saves =>
         \A t \in Targets(cfg), p \in Range(cfg.projects) :
            /\ \A d \in Dims : MostSpecific(quotaInfo[ToLower(p)][d], t) = <<UnlimitedQuota>>
            /\ {LastSpelling(p)} \X Dims \subseteq poll.answered
            => ~Q!Full(stored'[1], ToLower(p), t)]_vars

\* Each configured allowance "becomes the org-level quota in each snapshot".
AllowanceIsOrgQuota ==
    \A s \in Range(stored), k \in DOMAIN cfg.allowances :
        /\ k \in DOMAIN s.org
        /\ \A d \in Dims : s.org[k][d].max = cfg.allowances[k][d]

\* When usage and faults settle, so does the snapshot, and it shows the usage:
\* no failed poll stops the loop.  The exceptions are a blank name in the lists and
\* a null default limit.
ConvergesToUsage ==
    \/ ~Keyable(cfg) \/ Panics(cfg)
    \/ <>[](poll.pc = "ended")
    \/ <>[](/\ stored # <<>>
            /\ \A t \in Targets(cfg), d \in Dims :
                  stored[1].org[t][d].current =
                     SumFunction([p \in Projects(cfg) |-> usage[p][t] * UsagePer[d]]))
=============================================================================
