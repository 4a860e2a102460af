-------------------------- MODULE ReconcilerProofs --------------------------
(***************************************************************************)
(* What the polls of Reconciler promise for every configuration, every     *)
(* answer of Cloud Quotas and every usage: snapshots are complete and hold *)
(* the allowances, the limits that were reported and usage that was real.  *)
(***************************************************************************)
EXTENDS Reconciler, ArithmeticLemmas, SequenceTheorems

-----------------------------------------------------------------------------
(* The inductive invariant. *)

\* No region or model of the lists is padded with spaces.
Unpadded(c) == \A n \in Range(c.regions) \cup Range(c.models) : ~n.padded

\* A configuration that LoadConfig has returned.
Loaded(c) == \E raw \in RawConfigs : LoadConfig(raw) = <<c>>

\* What the usage of the projects can be.
Usages(c) == [Projects(c) -> [Monitored(c) -> Nat]]

\* What fetchUsageInfo returns of it.
UsageRecorded(levels, d) == UsageInfo(TimeSeries(levels, d))

Resting(p) == p.pc \in {"idle", "ended", "crashed"}

\* The poll has read the limits, the usage, of the i-th project.
LimitsRead(p, i) ==
    \/ i < p.at
    \/ i = p.at /\ p.pc \in {"rpm", "tpm", "assemble"}
UsageRead(p, i, d) ==
    \/ i < p.at
    \/ i = p.at /\ p.pc = "assemble"
    \/ i = p.at /\ p.pc = "tpm" /\ d = "rpm"

\* Where a poll is.
Place(c, p) ==
    /\ p = [pc |-> p.pc, at |-> p.at, limits |-> p.limits, usage |-> p.usage,
            answered |-> p.answered]
    /\ p.pc \in {"idle", "limits", "assemble", "ended", "crashed"} \cup Dims
    /\ p.at \in 1..Len(c.projects)
    /\ Resting(p) => p = [Idle EXCEPT !.pc = p.pc]
    /\ p.pc = "assemble" => p.at = Len(c.projects)

\* What a poll has found of the limits: nothing is left of an earlier poll.
LimitsFound(c, info, p) ==
    /\ \A i \in DOMAIN c.projects : \A d \in Dims :
          LimitsRead(p, i) => <<c.projects[i], d>> \in DOMAIN p.limits
    /\ \A k \in DOMAIN p.limits :
          p.limits[k] = IF k \in p.answered
                        THEN ExtractLimits(c, info[ToLower(k[1])][k[2]]) ELSE <<>>

\* What it has found of the usage is what Cloud Monitoring held at some time
\* since it began.
UsageFound(c, p, seen) ==
    /\ \A i \in DOMAIN c.projects : \A d \in Dims :
          UsageRead(p, i, d) => <<c.projects[i], d>> \in DOMAIN p.usage
    /\ \A k \in DOMAIN p.usage : \E w \in seen :
          p.usage[k] = UsageRecorded(w[ToLower(k[1])], k[2])

\* A snapshot that a poll saves.
ModelQuotas == [Dims -> [max : Nat, current : Nat]]
ProjectQuotas(c) == [Dims -> [max : Nat \cup Defaults(c), current : Nat]]
SnapshotOK(c, s) ==
    /\ s.org \in [Targets(c) -> ModelQuotas]
    /\ s.project \in [Projects(c) \X Targets(c) -> ProjectQuotas(c)]
    /\ Unpadded(c) => \A k \in DOMAIN c.allowances :
          k \in DOMAIN s.org /\ \A d \in Dims : s.org[k][d].max = c.allowances[k][d]

\* What is stored: nothing yet, or one snapshot.
Saved(c, st) == st # <<>> => \E s : st = <<s>> /\ SnapshotOK(c, s)

Inv ==
    /\ Loaded(cfg) /\ quotaInfo \in QuotaInfos
    /\ usage \in Usages(cfg)
    /\ witnessed \in SUBSET Usages(cfg)
    /\ ~Resting(poll) => usage \in witnessed
    /\ Place(cfg, poll)
    /\ LimitsFound(cfg, quotaInfo, poll)
    /\ UsageFound(cfg, poll, witnessed)
    /\ Saved(cfg, stored)

-----------------------------------------------------------------------------
(* Numbers, names and keys *)

\* A non-empty set of positions has a least and a greatest.
LEMMA Extremes ==
    ASSUME NEW n \in Nat, NEW S \in SUBSET (1..n), S # {}
    PROVE  /\ Min(S) \in S /\ \A i \in S : Min(S) <= i
           /\ Max(S) \in S /\ \A i \in S : i <= Max(S)
<1>1. PICK a \in S : \A i \in S : a <= i
  <2>1. S \in SUBSET Nat
    OBVIOUS
  <2> QED
    BY <2>1, LeastNumber
<1>2. Min(S) \in S /\ \A i \in S : Min(S) <= i
  BY <1>1 DEF Min
<1> DEFINE D == {n - i : i \in S}
<1>3. PICK m \in D : \A k \in D : m <= k
  <2>1. \A i \in S : n - i \in Nat
    OBVIOUS
  <2>2. PICK i \in S : TRUE
    OBVIOUS
  <2>3. n - i \in D
    OBVIOUS
  <2>4. D \in SUBSET Nat /\ D # {}
    BY <2>1, <2>3
  <2> HIDE DEF D
  <2> QED
    BY <2>4, LeastNumber
<1>4. PICK z \in S : m = n - z
  OBVIOUS
<1>5. \A i \in S : z >= i
  <2> TAKE i \in S
  <2>1. n - i \in D
    OBVIOUS
  <2>2. n - z <= n - i
    BY <1>3, <1>4, <2>1
  <2>3. i \in 1..n /\ z \in 1..n
    OBVIOUS
  <2> QED
    BY <2>2, <2>3
<1>6. Max(S) \in S /\ \A i \in S : Max(S) >= i
  BY <1>5 DEF Max
<1>7. \A i \in S : i \in Int
  OBVIOUS
<1> QED
  BY <1>2, <1>6, <1>7

NameForm == [id : STRING, upper : BOOLEAN, padded : BOOLEAN]

\* Names with the same parts are the same.
LEMMA FormEqual ==
    \A x, y \in NameForm :
        x.id = y.id /\ x.upper = y.upper /\ x.padded = y.padded => x = y
  BY DEF NameForm

\* What lowering and trimming change and what they keep.
LEMMA FormLower ==
    \A x \in NameForm :
        /\ ToLower(x) \in NameForm /\ ToLower(x).upper = FALSE
        /\ ToLower(x).id = x.id /\ ToLower(x).padded = x.padded
        /\ TrimSpace(x) \in NameForm /\ TrimSpace(x).padded = FALSE
        /\ TrimSpace(x).id = x.id /\ TrimSpace(x).upper = x.upper
<1>1. \A x \in NameForm : \A f : [x EXCEPT !.upper = f] =
         [id |-> x.id, upper |-> f, padded |-> x.padded]
  BY DEF NameForm
<1>2. \A x \in NameForm : \A f : [x EXCEPT !.padded = f] =
         [id |-> x.id, upper |-> x.upper, padded |-> f]
  BY DEF NameForm
<1>3. \A x \in NameForm : \A f \in BOOLEAN :
         [x EXCEPT !.upper = f] \in NameForm /\ [x EXCEPT !.padded = f] \in NameForm
  BY DEF NameForm
<1>4. \A x \in NameForm : ToLower(x) \in NameForm /\ TrimSpace(x) \in NameForm
  BY <1>3, Zenon DEF ToLower, TrimSpace
<1>5. \A x \in NameForm : ToLower(x).upper = FALSE /\ ToLower(x).id = x.id
                         /\ ToLower(x).padded = x.padded
  BY <1>1, Zenon DEF ToLower
<1>6. \A x \in NameForm : TrimSpace(x).padded = FALSE /\ TrimSpace(x).id = x.id
                         /\ TrimSpace(x).upper = x.upper
  BY <1>2, Zenon DEF TrimSpace
<1> QED
  BY <1>4, <1>5, <1>6

\* A name in lower case.
LEMMA LowerName ==
    ASSUME NEW n \in Name
    PROVE  /\ ToLower(n) \in Name
           /\ ToLower(ToLower(n)) = ToLower(n)
           /\ ToLower(n) = NoName <=> n = NoName
           /\ ~n.padded => Normal(n) = ToLower(n)
           /\ ToLower(n).id = n.id
<1>1. n \in NameForm /\ (n.id = "" => ~n.upper)
  BY DEF Name, NameForm
<1>2. /\ ToLower(n) \in NameForm /\ ToLower(n).upper = FALSE
      /\ ToLower(n).id = n.id /\ ToLower(n).padded = n.padded
  BY <1>1, FormLower
<1>3. /\ TrimSpace(n) \in NameForm /\ TrimSpace(n).padded = FALSE
      /\ TrimSpace(n).id = n.id
  BY <1>1, FormLower
<1>4. /\ Normal(n) \in NameForm /\ Normal(n).upper = FALSE
      /\ Normal(n).id = n.id /\ Normal(n).padded = FALSE
  BY <1>3, FormLower DEF Normal
<1>5. NoName.id = "" /\ NoName.upper = FALSE /\ NoName.padded = FALSE
  BY Zenon DEF NoName, Word
<1>6. ToLower(n) \in Name
  BY <1>2 DEF Name, NameForm
<1>7. /\ ToLower(ToLower(n)) \in NameForm /\ ToLower(ToLower(n)).upper = FALSE
      /\ ToLower(ToLower(n)).id = n.id /\ ToLower(ToLower(n)).padded = n.padded
  BY <1>2, FormLower
<1>8. ToLower(ToLower(n)) = ToLower(n)
  BY <1>2, <1>7, FormEqual
<1>9. ASSUME ToLower(n) = NoName PROVE n = NoName
  <2>1. n.id = "" /\ n.padded = FALSE
    BY <1>2, <1>5, <1>9
  <2>2. n.upper = FALSE
    BY <1>1, <2>1 DEF NameForm
  <2> QED
    BY <1>1, <1>2, <1>5, <1>9, <2>1, <2>2, FormEqual
<1>10. ASSUME n = NoName PROVE ToLower(n) = NoName
  BY <1>1, <1>2, <1>5, <1>10, FormEqual
<1>11. ASSUME ~n.padded PROVE Normal(n) = ToLower(n)
  <2>1. n.padded = FALSE
    BY <1>1, <1>11 DEF NameForm
  <2> QED
    BY <1>2, <1>4, <2>1, FormEqual
<1> QED
  BY <1>2, <1>6, <1>8, <1>9, <1>10, <1>11

\* A key of two names in lower case.
LEMMA LowerPair ==
    \A a, b : /\ LowerKey(<<a, b>>) = <<ToLower(a), ToLower(b)>>
              /\ NormalKey(<<a, b>>) = <<Normal(a), Normal(b)>>
  BY DEF LowerKey, NormalKey

-----------------------------------------------------------------------------
(* Configurations *)

\* The fields of a loaded configuration.
LEMMA LoadedFields ==
    ASSUME NEW raw, IsConfig(raw), NEW c, LoadConfig(raw) = <<c>>
    PROVE  /\ c.projects = raw.projects /\ c.regions = raw.regions
           /\ c.models = raw.models /\ c.reserve = raw.reserve
           /\ c.limits = raw.limits /\ c.allowances = NormalizedAllowances(raw)
           /\ ListsPresent(raw) /\ AdmissionSettingsValid(raw) /\ AllowancesValid(raw)
<1> DEFINE T == [projects : Seq(Name), regions : Seq(Name), models : Seq(Name),
                 interval : Int, timeout : Int, margin : Int,
                 reserve : Seq(Int), replicas : Seq(Int), tokens : Int,
                 allowances : {raw.allowances}, limits : {raw.limits},
                 policies : {raw.policies}]
           i == Greater(raw.interval, MinPollInterval)
           w == IF raw.timeout <= 0 \/ raw.timeout > i
                THEN Lesser(DefaultPollTimeout, i) ELSE raw.timeout
           g == IF raw.margin \in 10..90 THEN raw.margin ELSE 10
<1>1. raw \in T
  BY DEF IsConfig
<1>2. /\ ListsPresent(raw) /\ AdmissionSettingsValid(raw) /\ AllowancesValid(raw)
      /\ c = [Clamped(raw) EXCEPT !.allowances = NormalizedAllowances(raw)]
  BY DEF LoadConfig
<1>3. Clamped(raw) = [raw EXCEPT !.interval = i, !.timeout = w, !.margin = g]
  BY DEF Clamped
<1> HIDE DEF i, w, g
<1>4. Clamped(raw) = [projects |-> raw.projects, regions |-> raw.regions,
                      models |-> raw.models, interval |-> i, timeout |-> w, margin |-> g,
                      reserve |-> raw.reserve, replicas |-> raw.replicas,
                      tokens |-> raw.tokens, allowances |-> raw.allowances,
                      limits |-> raw.limits, policies |-> raw.policies]
  BY <1>1, <1>3
<1>5. c = [projects |-> raw.projects, regions |-> raw.regions,
           models |-> raw.models, interval |-> i, timeout |-> w, margin |-> g,
           reserve |-> raw.reserve, replicas |-> raw.replicas,
           tokens |-> raw.tokens, allowances |-> NormalizedAllowances(raw),
           limits |-> raw.limits, policies |-> raw.policies]
  BY <1>2, <1>4
<1> QED
  BY <1>2, <1>5

\* The lists of a loaded configuration, its default limits and its reserve.
LEMMA LoadedLists ==
    ASSUME NEW c, Loaded(c)
    PROVE  /\ c.projects \in Seq(Name) /\ c.projects # <<>>
           /\ c.regions \in Seq(Name) /\ c.models \in Seq(Name)
           /\ \A m \in Range(c.models) : Families[m.id] \in Seq(Name)
           /\ \A k \in DOMAIN c.limits :
                 c.limits[k] \in Seq([Dims -> Int]) /\ Len(c.limits[k]) <= 1
           /\ CriticalReserve(c) \in 0..90
<1>1. PICK raw \in RawConfigs : LoadConfig(raw) = <<c>>
  BY DEF Loaded
<1>2. IsConfig(raw)
  BY ConfigsAssumption
<1>3. /\ raw.projects \in Seq(Name) /\ raw.regions \in Seq(Name)
      /\ raw.models \in Seq(Name) /\ raw.reserve \in Seq(Int)
  BY <1>2 DEF IsConfig
<1>4. /\ c.projects = raw.projects /\ c.regions = raw.regions
      /\ c.models = raw.models /\ c.limits = raw.limits /\ c.reserve = raw.reserve
      /\ ListsPresent(raw) /\ AdmissionSettingsValid(raw)
  BY <1>1, <1>2, LoadedFields
<1>5. CriticalReserve(c) \in 0..90
  <2>1. CASE raw.reserve = <<>>
    BY <1>4, <2>1 DEF CriticalReserve, DefaultCriticalReservePercent
  <2>2. CASE raw.reserve # <<>>
    <3>1. raw.reserve[1] \in Range(raw.reserve)
      BY <1>3, <2>2 DEF Range
    <3> QED
      BY <1>4, <2>2, <3>1 DEF CriticalReserve, AdmissionSettingsValid
  <2> QED
    BY <2>1, <2>2
<1>6. \A m \in Range(c.models) : Families[m.id] \in Seq(Name)
  BY <1>4, FamiliesAssumption
<1>7. \A k \in DOMAIN c.limits : c.limits[k] \in Seq([Dims -> Int]) /\ Len(c.limits[k]) <= 1
  BY <1>2, <1>4 DEF IsConfig
<1> QED
  BY <1>3, <1>4, <1>5, <1>6, <1>7 DEF ListsPresent

\* What Cloud Quotas answers of a project that is listed.
LEMMA AnswerType ==
    ASSUME NEW c, Loaded(c), NEW answers \in QuotaInfos, NEW p \in Projects(c), NEW d \in Dims
    PROVE  /\ answers[p][d] \in Seq([region : Name, model : Name, details : Seq(Int)])
           /\ \A i \in DOMAIN answers[p][d] : Len(answers[p][d][i].details) <= 1
<1>1. PICK raw \in RawConfigs : LoadConfig(raw) = <<c>>
  BY DEF Loaded
<1>2. c.projects = raw.projects
  BY <1>1, ConfigsAssumption, LoadedFields
<1>3. p \in Projects(raw)
  BY <1>2 DEF Projects
<1> QED
  BY <1>3, AnswersAssumption

\* An allowance is of a listed target, normalised, and its limits are not negative.
LEMMA LoadedAllowances ==
    ASSUME NEW c, Loaded(c), NEW k \in DOMAIN c.allowances
    PROVE  /\ c.allowances[k] \in [Dims -> Nat]
           /\ \E r \in Range(c.regions), m \in Range(c.models) : k = <<Normal(r), Normal(m)>>
<1>1. PICK raw \in RawConfigs : LoadConfig(raw) = <<c>>
  BY DEF Loaded
<1>2. IsConfig(raw)
  BY ConfigsAssumption
<1>3. /\ c.regions = raw.regions /\ c.models = raw.models
      /\ c.allowances = NormalizedAllowances(raw) /\ AllowancesValid(raw)
  BY <1>1, <1>2, LoadedFields
<1> DEFINE l == CHOOSE x \in DOMAIN raw.allowances : NormalKey(x) = k
<1>4. l \in DOMAIN raw.allowances /\ NormalKey(l) = k
  <2>1. \E x \in DOMAIN raw.allowances : NormalKey(x) = k
    BY <1>3 DEF NormalizedAllowances
  <2> QED
    BY <2>1
<1>5. c.allowances[k] = raw.allowances[l][1]
  BY <1>3 DEF NormalizedAllowances
<1> HIDE DEF l
<1>6. /\ raw.allowances[l] \in Seq([Dims -> Int]) /\ Len(raw.allowances[l]) <= 1
      /\ AllowanceValid(raw, l)
  BY <1>2, <1>3, <1>4 DEF IsConfig, AllowancesValid
<1>7. PICK limit \in Range(raw.allowances[l]) : \A d \in Dims : limit[d] >= 0
  BY <1>6 DEF AllowanceValid
<1>8. limit = raw.allowances[l][1] /\ limit \in [Dims -> Int]
  BY <1>6, <1>7 DEF Range
<1>9. c.allowances[k] \in [Dims -> Nat]
  BY <1>5, <1>7, <1>8
<1>10. PICK r \in Range(c.regions), m \in Range(c.models) :
          Normal(l[1]) = Normal(r) /\ Normal(l[2]) = Normal(m)
  BY <1>3, <1>6 DEF AllowanceValid, NormalizedSet
<1>11. l \in Seq(Name) /\ Len(l) = 2
  BY <1>2, <1>4, <1>6 DEF IsConfig, AllowanceValid
<1>12. k = <<Normal(r), Normal(m)>>
  BY <1>4, <1>10, <1>11 DEF NormalKey
<1> QED
  BY <1>9, <1>12

\* A target is a listed region and a listed model in lower case.
LEMMA TargetNames ==
    ASSUME NEW c, Loaded(c), NEW t \in Targets(c)
    PROVE  \E r \in Range(c.regions), m \in Range(c.models) :
              /\ r \in Name /\ m \in Name
              /\ t = <<ToLower(r), ToLower(m)>>
<1>1. PICK r \in Range(c.regions), m \in Range(c.models) : t = LowerKey(<<r, m>>)
  BY DEF Targets
<1>2. c.regions \in Seq(Name) /\ c.models \in Seq(Name)
  BY LoadedLists
<1>3. r \in Name /\ m \in Name
  BY <1>1, <1>2 DEF Range
<1> QED
  BY <1>1, <1>3, LowerPair

\* Its parts are names in lower case, none of them blank in a poll that saves.
LEMMA TargetFacts ==
    ASSUME NEW c, Loaded(c), NEW t \in Targets(c)
    PROVE  /\ t = <<t[1], t[2]>> /\ t[1] \in Name /\ t[2] \in Name
           /\ ToLower(t[1]) = t[1] /\ ToLower(t[2]) = t[2]
           /\ LowerKey(<<t[1], t[2]>>) = t
           /\ Families[t[2].id] \in Seq(Name)
           /\ Keyable(c) => t[1] # NoName /\ t[2] # NoName
           /\ Unpadded(c) => t \in Monitored(c)
<1>1. PICK r \in Range(c.regions), m \in Range(c.models) :
         /\ r \in Name /\ m \in Name
         /\ t = <<ToLower(r), ToLower(m)>>
  BY TargetNames
<1>2. t[1] = ToLower(r) /\ t[2] = ToLower(m) /\ t = <<t[1], t[2]>>
  BY <1>1
<1>3. t[1] \in Name /\ ToLower(t[1]) = t[1] /\ (t[1] = NoName => r = NoName)
  BY <1>1, <1>2, LowerName
<1>4. t[2] \in Name /\ ToLower(t[2]) = t[2] /\ (t[2] = NoName => m = NoName)
      /\ t[2].id = m.id
  BY <1>1, <1>2, LowerName
<1>5. LowerKey(<<t[1], t[2]>>) = t
  <2>1. LowerKey(<<t[1], t[2]>>) = <<ToLower(t[1]), ToLower(t[2])>>
    BY LowerPair, Zenon
  <2> QED
    BY <1>2, <1>3, <1>4, <2>1, Zenon
<1>6. Families[t[2].id] \in Seq(Name)
  BY <1>1, <1>4, LoadedLists
<1>7. Keyable(c) => r # NoName /\ m # NoName
  BY <1>1 DEF Keyable
<1>8. ASSUME Unpadded(c) PROVE t \in Monitored(c)
  <2>1. ~r.padded /\ ~m.padded
    BY <1>1, <1>8 DEF Unpadded
  <2>2. /\ r \in NameForm /\ m \in NameForm /\ t[1] \in NameForm /\ t[2] \in NameForm
    BY <1>1, <1>3, <1>4 DEF Name, NameForm
  <2>3. t[1].padded = r.padded /\ t[2].padded = m.padded
    BY <1>2, <2>2, FormLower
  <2>4. Normal(t[1]) = t[1] /\ Normal(t[2]) = t[2]
    <3>1. ~t[1].padded /\ ~t[2].padded
      BY <2>1, <2>3
    <3> QED
      BY <1>3, <1>4, <3>1, LowerName
  <2>5. NormalKey(t) = t
    BY <1>2, <2>4, LowerPair
  <2> QED
    BY <2>5 DEF Monitored
<1> QED
  BY <1>2, <1>3, <1>4, <1>5, <1>6, <1>7, <1>8

\* The spelling of a project that a poll keeps is one of the list.
LEMMA SpellingListed ==
    ASSUME Loaded(cfg), NEW p \in Projects(cfg)
    PROVE  \E i \in DOMAIN cfg.projects :
              LastSpelling(p) = cfg.projects[i] /\ ToLower(cfg.projects[i]) = p
<1> DEFINE S == {i \in DOMAIN cfg.projects : EqualFold(cfg.projects[i], p)}
<1>1. cfg.projects \in Seq(Name)
  BY LoadedLists
<1>2. PICK n \in Nat : DOMAIN cfg.projects = 1..n
  BY <1>1
<1>3. PICK i \in DOMAIN cfg.projects : p = ToLower(cfg.projects[i])
  BY DEF Projects, Range
<1>4. ToLower(p) = p
  BY <1>1, <1>3, LowerName
<1>5. i \in S
  BY <1>3, <1>4 DEF EqualFold
<1>6. Max(S) \in S
  <2>1. S \in SUBSET (1..n) /\ S # {}
    BY <1>2, <1>5
  <2> HIDE DEF S
  <2> QED
    BY <2>1, Extremes
<1>7. LastSpelling(p) = cfg.projects[Max(S)]
  BY DEF LastSpelling
<1> QED
  BY <1>4, <1>6, <1>7 DEF EqualFold

\* Every spelling of a project has the same one.
LEMMA SpellingOfName ==
    ASSUME Loaded(cfg), NEW p \in Range(cfg.projects)
    PROVE  /\ ToLower(p) \in Projects(cfg)
           /\ LastSpelling(ToLower(p)) = LastSpelling(p)
<1>1. p \in Name
  BY LoadedLists DEF Range
<1>2. ToLower(ToLower(p)) = ToLower(p)
  BY <1>1, LowerName
<1>3. \A n : EqualFold(n, ToLower(p)) <=> EqualFold(n, p)
  BY <1>2 DEF EqualFold
<1>4. {i \in DOMAIN cfg.projects : EqualFold(cfg.projects[i], ToLower(p))}
        = {i \in DOMAIN cfg.projects : EqualFold(cfg.projects[i], p)}
  BY <1>3
<1> QED
  BY <1>4 DEF LastSpelling, Projects

-----------------------------------------------------------------------------
(* Configured limits *)

\* The keys that are tried for an organisation's limit begin with the target's;
\* with a project they are a sequence all the same.
LEMMA KeysTried ==
    ASSUME NEW project, NEW region, NEW model, Families[model.id] \in Seq(Name)
    PROVE  /\ \E n \in Nat : DOMAIN FallbackKeys(project, region, model) = 1..n
           /\ 1 \in DOMAIN FallbackKeys(NoName, region, model)
           /\ FallbackKeys(NoName, region, model)[1] = LowerKey(<<region, model>>)
<1> DEFINE a == LowerKey(<<project, region, model>>)
           b == LowerKey(<<region, model>>)
           m == LowerKey(<<model>>)
           F == [i \in DOMAIN Families[model.id] |-> <<Families[model.id][i]>>]
           S == {a, b, m} \cup {<<n>> : n \in Name}
           first == IF project = NoName THEN <<>> ELSE <<a>>
<1>1. FallbackKeys(project, region, model) = first \o <<b, m>> \o F
  BY DEF FallbackKeys
<1>2. FallbackKeys(NoName, region, model) = <<>> \o <<b, m>> \o F
  BY DEF FallbackKeys
<1>3. F \in Seq(S)
  <2> DEFINE fam == Families[model.id]
  <2>1. PICK n \in Nat : DOMAIN fam = 1..n
    OBVIOUS
  <2>2. \A i \in 1..n : <<fam[i]>> \in S
    <3> TAKE i \in 1..n
    <3>1. fam[i] \in Name
      BY <2>1
    <3> HIDE DEF fam
    <3> QED
      BY <3>1
  <2>3. F = [i \in 1..n |-> <<fam[i]>>]
    BY <2>1
  <2> HIDE DEF F, S, fam
  <2>4. F \in [1..n -> S]
    BY <2>2, <2>3
  <2> QED
    BY <2>4
<1>4. first \in Seq(S) /\ <<b, m>> \in Seq(S) /\ <<>> \in Seq(S)
  <2>1. a \in S /\ b \in S /\ m \in S
    BY DEF S
  <2> HIDE DEF a, b, m, F, S
  <2>2. <<a>> \in Seq(S) /\ <<b, m>> \in Seq(S) /\ <<>> \in Seq(S)
    BY <2>1
  <2> QED
    BY <2>2 DEF first
<1>5. Len(<<b, m>>) = 2 /\ <<b, m>>[1] = b
  OBVIOUS
<1> HIDE DEF a, b, m, F, S, first
<1>6. first \o <<b, m>> \in Seq(S) /\ <<>> \o <<b, m>> = <<b, m>>
  BY <1>4, ConcatProperties, ConcatEmptySeq
<1>7. first \o <<b, m>> \o F \in Seq(S)
  BY <1>3, <1>6, ConcatProperties
<1>8. \E n \in Nat : DOMAIN (first \o <<b, m>> \o F) = 1..n
  BY <1>7
<1>9. /\ <<b, m>> \o F \in Seq(S)
      /\ Len(<<b, m>> \o F) = 2 + Len(F)
      /\ \A i \in 1..(2 + Len(F)) : (<<b, m>> \o F)[i] = IF i <= 2 THEN <<b, m>>[i] ELSE F[i - 2]
  BY <1>3, <1>4, <1>5, ConcatProperties
<1>10. Len(F) \in Nat
  BY <1>3
<1>11. 1 \in 1..(2 + Len(F))
  BY <1>10
<1>12. 1 \in DOMAIN (<<b, m>> \o F)
  BY <1>9, <1>10, <1>11
<1>13. (<<b, m>> \o F)[1] = b
  BY <1>5, <1>9, <1>11
<1> QED
  BY <1>1, <1>2, <1>6, <1>8, <1>12, <1>13 DEF b

\* What resolveFallbackLimit returns is an entry of the map or the last resort.
LEMMA FallbackType ==
    ASSUME NEW limits, NEW project, NEW region, NEW model, Families[model.id] \in Seq(Name)
    PROVE  LET limit == ResolveFallbackLimit(limits, project, region, model)
           IN limit = FallbackLimit \/ \E k \in DOMAIN limits : limit = limits[k]
<1> DEFINE keys == FallbackKeys(project, region, model)
           known == {i \in DOMAIN keys : keys[i] \in DOMAIN limits}
<1>1. ResolveFallbackLimit(limits, project, region, model)
         = IF known = {} THEN FallbackLimit ELSE limits[keys[Min(known)]]
  BY DEF ResolveFallbackLimit
<1>2. ASSUME known # {} PROVE keys[Min(known)] \in DOMAIN limits
  <2>1. PICK n \in Nat : DOMAIN keys = 1..n
    BY KeysTried
  <2>2. known \in SUBSET (1..n)
    BY <2>1
  <2>3. Min(known) \in known
    <3> HIDE DEF known
    <3> QED
      BY <1>2, <2>2, Extremes
  <2> QED
    BY <2>3
<1> QED
  BY <1>1, <1>2

\* An organisation's limit that is configured for the target is the one used.
LEMMA FallbackExact ==
    ASSUME NEW limits, NEW region, NEW model, Families[model.id] \in Seq(Name),
           LowerKey(<<region, model>>) \in DOMAIN limits
    PROVE  ResolveFallbackLimit(limits, NoName, region, model)
              = limits[LowerKey(<<region, model>>)]
<1> DEFINE keys == FallbackKeys(NoName, region, model)
           known == {i \in DOMAIN keys : keys[i] \in DOMAIN limits}
<1>1. ResolveFallbackLimit(limits, NoName, region, model)
         = IF known = {} THEN FallbackLimit ELSE limits[keys[Min(known)]]
  BY DEF ResolveFallbackLimit
<1>2. PICK n \in Nat : DOMAIN keys = 1..n
  BY KeysTried
<1>3. 1 \in DOMAIN keys /\ keys[1] = LowerKey(<<region, model>>)
  BY KeysTried
<1>4. known \in SUBSET (1..n) /\ 1 \in known
  BY <1>2, <1>3
<1>5. Min(known) \in known /\ Min(known) <= 1
  <2> HIDE DEF known
  <2> QED
    BY <1>4, Extremes
<1>6. Min(known) = 1
  BY <1>4, <1>5
<1> QED
  BY <1>1, <1>3, <1>4, <1>6

\* The limit of the organisation for a target.
OrgLimit(c, t) ==
    ResolveFallbackLimit([k \in DOMAIN c.allowances |-> <<c.allowances[k]>>],
                         NoName, t[1], t[2])[1]

\* It is never missing nor negative, and it is the allowance of the target if that has one.
LEMMA OrgLimitOf ==
    ASSUME NEW c, Loaded(c), NEW t \in Targets(c)
    PROVE  /\ OrgLimit(c, t) \in [Dims -> Nat]
           /\ t \in DOMAIN c.allowances => OrgLimit(c, t) = c.allowances[t]
<1> DEFINE allowances == [k \in DOMAIN c.allowances |-> <<c.allowances[k]>>]
           found == ResolveFallbackLimit(allowances, NoName, t[1], t[2])
<1>1. OrgLimit(c, t) = found[1]
  BY DEF OrgLimit
<1>2. LowerKey(<<t[1], t[2]>>) = t /\ Families[t[2].id] \in Seq(Name)
  BY TargetFacts
<1>3. /\ DOMAIN allowances = DOMAIN c.allowances
      /\ \A k \in DOMAIN c.allowances : allowances[k] = <<c.allowances[k]>>
  OBVIOUS
<1> HIDE DEF allowances
<1>4. found = FallbackLimit \/ \E k \in DOMAIN allowances : found = allowances[k]
  BY <1>2, FallbackType
<1>5. ASSUME t \in DOMAIN c.allowances PROVE found = allowances[t]
  BY <1>2, <1>3, <1>5, FallbackExact
<1> HIDE DEF found
<1>6. FallbackLimit[1] \in [Dims -> Nat]
  BY DEF FallbackLimit
<1>7. \A k \in DOMAIN c.allowances : c.allowances[k] \in [Dims -> Nat]
  BY LoadedAllowances
<1>8. \A k \in DOMAIN c.allowances : allowances[k][1] = c.allowances[k]
  BY <1>3
<1>9. found[1] \in [Dims -> Nat]
  BY <1>3, <1>4, <1>6, <1>7, <1>8
<1> QED
  BY <1>1, <1>5, <1>8, <1>9

\* The keys tried for a project and a target do not depend on how the target is spelled.
LEMMA KeysOfTarget ==
    ASSUME NEW p, NEW r \in Name, NEW m \in Name
    PROVE  FallbackKeys(p, ToLower(r), ToLower(m)) = FallbackKeys(p, r, m)
<1>1. ToLower(ToLower(r)) = ToLower(r) /\ ToLower(ToLower(m)) = ToLower(m) /\ ToLower(m).id = m.id
  BY LowerName
<1>2. \A a, b, e : LowerKey(<<a, b, e>>) = <<ToLower(a), ToLower(b), ToLower(e)>>
  BY DEF LowerKey
<1>3. \A a : LowerKey(<<a>>) = <<ToLower(a)>>
  BY DEF LowerKey
<1>4. LowerKey(<<p, ToLower(r), ToLower(m)>>) = LowerKey(<<p, r, m>>)
  <2>1. LowerKey(<<p, ToLower(r), ToLower(m)>>)
           = <<ToLower(p), ToLower(ToLower(r)), ToLower(ToLower(m))>>
    BY <1>2, Zenon
  <2>2. LowerKey(<<p, r, m>>) = <<ToLower(p), ToLower(r), ToLower(m)>>
    BY <1>2, Zenon
  <2> QED
    BY <1>1, <2>1, <2>2
<1>5. LowerKey(<<ToLower(r), ToLower(m)>>) = LowerKey(<<r, m>>)
  BY <1>1, LowerPair, Zenon
<1>6. LowerKey(<<ToLower(m)>>) = LowerKey(<<m>>)
  BY <1>1, <1>3, Zenon
<1> QED
  BY <1>1, <1>4, <1>5, <1>6, Zenon DEF FallbackKeys

\* A poll that neither panics nor fails meets no nil limit: each default limit is one that
\* the configuration states, or the last resort.
LEMMA DefaultType ==
    ASSUME NEW c, Loaded(c), Keyable(c), ~Panics(c), NEW p \in Range(c.projects),
           NEW t \in Targets(c), NEW d \in Dims
    PROVE  ResolveFallbackLimit(c.limits, p, t[1], t[2])[1][d] \in Nat \cup Defaults(c)
<1> DEFINE found == ResolveFallbackLimit(c.limits, p, t[1], t[2])
<1>1. PICK r \in Range(c.regions), m \in Range(c.models) :
         /\ r \in Name /\ m \in Name
         /\ t = <<ToLower(r), ToLower(m)>>
  BY TargetNames
<1>2. PICK i \in DOMAIN c.regions, j \in DOMAIN c.models, k \in DOMAIN c.projects :
         r = c.regions[i] /\ m = c.models[j] /\ p = c.projects[k]
  BY <1>1 DEF Range
<1>3. t[1] = ToLower(r) /\ t[2] = ToLower(m)
  BY <1>1
<1>4. found = ResolveFallbackLimit(c.limits, p, r, m)
  <2>1. FallbackKeys(p, t[1], t[2]) = FallbackKeys(p, r, m)
    BY <1>1, <1>3, KeysOfTarget
  <2> QED
    BY <2>1 DEF ResolveFallbackLimit
<1>5. found # <<>>
  <2> DEFINE a == <<i, j, k>>
  <2>1. a \in Turns(c) /\ a[1] = i /\ a[2] = j /\ a[3] = k
    BY DEF Turns
  <2>2. \A b \in Turns(c) : ~BlankAt(c, b)
    <3> TAKE b \in Turns(c)
    <3>1. b[1] \in DOMAIN c.regions /\ b[2] \in DOMAIN c.models /\ b[3] \in DOMAIN c.projects
      BY DEF Turns
    <3>2. /\ c.regions[b[1]] \in Range(c.regions) /\ c.models[b[2]] \in Range(c.models)
          /\ c.projects[b[3]] \in Range(c.projects)
      BY <3>1 DEF Range
    <3> QED
      BY <3>2 DEF BlankAt, Keyable
  <2> HIDE DEF a
  <2>3. ~NilAt(c, a)
    BY <2>1, <2>2 DEF Panics
  <2>4. ResolveFallbackLimit(c.limits, p, r, m) # <<>>
    BY <1>2, <2>1, <2>3 DEF NilAt
  <2> QED
    BY <1>4, <2>4
<1>6. Families[t[2].id] \in Seq(Name)
  BY TargetFacts
<1>7. found = FallbackLimit \/ \E e \in DOMAIN c.limits : found = c.limits[e]
  BY <1>6, FallbackType
<1> HIDE DEF found
<1>8. CASE found = FallbackLimit
  BY <1>8 DEF found, FallbackLimit
<1>9. CASE \E e \in DOMAIN c.limits : found = c.limits[e]
  <2>1. PICK e \in DOMAIN c.limits : found = c.limits[e]
    BY <1>9
  <2>2. found \in Seq([Dims -> Int])
    BY <2>1, LoadedLists
  <2>3. found[1] \in Range(found)
    BY <1>5, <2>2 DEF Range
  <2>4. found[1] \in UNION {Range(c.limits[x]) : x \in DOMAIN c.limits}
    BY <2>1, <2>3
  <2>5. found[1][d] \in Defaults(c)
    BY <2>4 DEF Defaults
  <2> QED
    BY <2>5 DEF found
<1> QED
  BY <1>7, <1>8, <1>9

-----------------------------------------------------------------------------
(* extractLimits: the loop over the entries as a recursion on the sets of       *)
(* entries, the last one of a set taken last                                    *)

Nothing == [score |-> <<>>, limit |-> <<>>]

Extracts(g, c, info, D) ==
    g = [s \in D |-> IF s = {} THEN Nothing
                     ELSE ExtractEntry(c, g[s \ {Max(s)}], info[Max(s)])]

\* The recursion has a solution on small sets of entries.
LEMMA ExtractOfSmall ==
    ASSUME NEW N \in Nat, NEW c, NEW info, NEW n \in Nat
    PROVE  \E g : Extracts(g, c, info, Small(1..N, n))
<1> DEFINE S == 1..N
           B == {k \in Nat : ~ \E g : Extracts(g, c, info, Small(S, k))}
<1>1. SUFFICES B = {}
  OBVIOUS
<1>2. SUFFICES ASSUME B # {} PROVE FALSE
  OBVIOUS
<1>3. PICK k \in B : \A j \in B : k <= j
  <2> B \in SUBSET Nat
    OBVIOUS
  <2> HIDE DEF B
  <2> QED
    BY <1>2, LeastNumber
<1>4. IsFiniteSet(S)
  BY FS_Interval
<1>5. \A s \in SUBSET S : s # {} => Max(s) \in s
  BY Extremes
<1> HIDE DEF S
<1>6. \A s \in SUBSET S : /\ IsFiniteSet(s) /\ Cardinality(s) \in Nat
                          /\ Cardinality(s) = 0 <=> s = {}
                          /\ s # {} => /\ s \ {Max(s)} \in SUBSET S
                                       /\ Cardinality(s \ {Max(s)}) = Cardinality(s) - 1
  BY <1>4, <1>5, FS_Subset, FS_CardinalityType, FS_EmptySet, FS_RemoveElement
<1>7. CASE k = 0
  <2> DEFINE g == [s \in Small(S, 0) |-> Nothing]
  <2>1. ASSUME NEW s \in Small(S, 0) PROVE s = {}
    <3>1. s \in SUBSET S /\ Cardinality(s) <= 0
      BY DEF Small
    <3>2. Cardinality(s) \in Nat /\ (Cardinality(s) = 0 <=> s = {})
      BY <1>6, <3>1
    <3> QED
      BY <3>1, <3>2
  <2>2. Extracts(g, c, info, Small(S, 0))
    BY <2>1 DEF Extracts
  <2> QED
    BY <1>7, <2>2
<1>8. CASE k # 0
  <2>1. k - 1 \in Nat /\ k - 1 \notin B
    BY <1>3, <1>8
  <2>2. PICK h : Extracts(h, c, info, Small(S, k - 1))
    BY <2>1
  <2> DEFINE turn(f, s) == IF s = {} THEN Nothing
                           ELSE ExtractEntry(c, f[s \ {Max(s)}], info[Max(s)])
             g == [s \in Small(S, k) |-> turn(h, s)]
  <2>3. \A s \in Small(S, k - 1) : s \in Small(S, k) /\ h[s] = turn(h, s)
    <3>1. ASSUME NEW s \in Small(S, k - 1) PROVE s \in Small(S, k)
      <4>1. s \in SUBSET S /\ Cardinality(s) <= k - 1
        BY DEF Small
      <4>2. Cardinality(s) \in Nat
        BY <1>6, <4>1
      <4>3. Cardinality(s) <= k
        BY <2>1, <4>1, <4>2
      <4> QED
        BY <4>1, <4>3 DEF Small
    <3> QED
      BY <2>2, <3>1 DEF Extracts
  <2>4. \A s \in Small(S, k - 1) : g[s] = h[s]
    BY <2>3
  <2>5. \A s \in Small(S, k) : s # {} => s \ {Max(s)} \in Small(S, k - 1)
    BY <1>6 DEF Small
  <2>6. \A s \in Small(S, k) : s # {} => h[s \ {Max(s)}] = g[s \ {Max(s)}]
    BY <2>4, <2>5
  <2>7. g = [s \in Small(S, k) |-> turn(g, s)]
    BY <2>6
  <2>8. Extracts(g, c, info, Small(S, k))
    BY <2>7 DEF Extracts
  <2> QED
    BY <2>8
<1> QED
  BY <1>7, <1>8

\* It has one on all sets of entries, and extractLimits is its value at the set of
\* all of them.
LEMMA ExtractIsSolved ==
    ASSUME NEW c, NEW info, NEW N \in Nat, DOMAIN info = 1..N
    PROVE  \E g : /\ Extracts(g, c, info, SUBSET (1..N))
                  /\ ExtractLimits(c, info) = g[1..N].limit
<1> DEFINE S == 1..N
           solves(g) == g = [s \in SUBSET S |->
                               IF s = {} THEN [score |-> <<>>, limit |-> <<>>]
                               ELSE ExtractEntry(c, g[s \ {Max(s)}], info[Max(s)])]
           it == CHOOSE g : solves(g)
<1>1. ExtractLimits(c, info) = it[DOMAIN info].limit
  BY DEF ExtractLimits, FoldLeft, MapThenFoldSet
<1>2. \E g : solves(g)
  <2>1. IsFiniteSet(S) /\ Cardinality(S) \in Nat
    BY FS_Interval, FS_CardinalityType
  <2>2. Small(S, Cardinality(S)) = SUBSET S
    BY <2>1, FS_Subset DEF Small
  <2>3. PICK g : Extracts(g, c, info, Small(S, Cardinality(S)))
    BY <2>1, ExtractOfSmall
  <2> QED
    BY <2>2, <2>3 DEF Extracts, Nothing
<1>3. solves(it)
  BY <1>2
<1> QED
  BY <1>1, <1>3 DEF Extracts, Nothing

\* An entry says something of a key.
Says(c, entry, k) == Applies(c, entry) /\ k \in MatchedKeys(c, entry)

\* Of the entries s, the i-th is the most specific that says something of k, the
\* last one if there are several.
Wins(c, info, s, k, i) ==
    /\ i \in s /\ Says(c, info[i], k)
    /\ \A j \in s : Says(c, info[j], k) =>
          \/ Score(info[j]) < Score(info[i])
          \/ Score(info[j]) = Score(info[i]) /\ j <= i

\* What has been found after the entries s.
Extracted(c, info, s, found) ==
    /\ DOMAIN found.limit = DOMAIN found.score
    /\ \A k : k \in DOMAIN found.score <=> \E i \in s : Says(c, info[i], k)
    /\ \A k \in DOMAIN found.score : \E i \in s :
          /\ Wins(c, info, s, k, i)
          /\ found.score[k] = Score(info[i])
          /\ found.limit[k] = info[i].details[1]

\* A score counts what an entry names.
LEMMA ScoreRange == \A entry : Score(entry) \in 0..3
  BY DEF Score

\* A turn of the loop goes from some entries to the next one.
LEMMA ExtractTurn ==
    ASSUME NEW c, NEW info, NEW r \in SUBSET Nat, NEW n \in Nat, \A i \in r : i < n,
           NEW found, Extracted(c, info, r, found)
    PROVE  Extracted(c, info, r \cup {n}, ExtractEntry(c, found, info[n]))
<1> DEFINE s == r \cup {n}
           e == info[n]
           next == ExtractEntry(c, found, e)
<1>1. CASE ~Applies(c, e)
  <2>1. next = found
    BY <1>1 DEF ExtractEntry
  <2>2. \A k : ~Says(c, info[n], k)
    BY <1>1 DEF Says
  <2>3. \A k, i : Wins(c, info, r, k, i) => Wins(c, info, s, k, i)
    BY <2>2 DEF Wins
  <2>4. DOMAIN found.limit = DOMAIN found.score
    BY DEF Extracted
  <2>5. ASSUME NEW k PROVE k \in DOMAIN found.score <=> \E i \in s : Says(c, info[i], k)
    <3>1. k \in DOMAIN found.score <=> \E i \in r : Says(c, info[i], k)
      BY DEF Extracted
    <3> QED
      BY <2>2, <3>1
  <2>6. ASSUME NEW k \in DOMAIN found.score
        PROVE  \E i \in s : /\ Wins(c, info, s, k, i)
                            /\ found.score[k] = Score(info[i])
                            /\ found.limit[k] = info[i].details[1]
    <3>1. PICK i \in r : /\ Wins(c, info, r, k, i)
                         /\ found.score[k] = Score(info[i])
                         /\ found.limit[k] = info[i].details[1]
      BY DEF Extracted
    <3> QED
      BY <2>3, <3>1
  <2> HIDE DEF next, s
  <2>7. Extracted(c, info, s, next)
    BY <2>1, <2>4, <2>5, <2>6 DEF Extracted
  <2> QED
    BY <2>7 DEF next, s
<1>2. CASE Applies(c, e)
  <2> DEFINE keys == {k \in MatchedKeys(c, e) :
                         k \in DOMAIN found.score => found.score[k] <= Score(e)}
             scores == Updated(found.score, [k \in keys |-> Score(e)])
             limits == Updated(found.limit, [k \in keys |-> e.details[1]])
  <2>1. next = [score |-> scores, limit |-> limits]
    BY <1>2 DEF ExtractEntry
  <2>2. next.score = scores /\ next.limit = limits
    BY <2>1
  <2>3. DOMAIN found.limit = DOMAIN found.score
    BY DEF Extracted
  <2>4. /\ DOMAIN scores = keys \cup DOMAIN found.score
        /\ DOMAIN limits = keys \cup DOMAIN found.score
    BY <2>3 DEF Updated
  <2>5. \A k \in keys : scores[k] = Score(e) /\ limits[k] = e.details[1]
    BY DEF Updated
  <2>6. \A k \in DOMAIN found.score : k \notin keys =>
           scores[k] = found.score[k] /\ limits[k] = found.limit[k]
    BY <2>3 DEF Updated
  <2>7. \A k : Says(c, e, k) <=> k \in MatchedKeys(c, e)
    BY <1>2 DEF Says
  <2>8. ASSUME NEW k
        PROVE  k \in DOMAIN scores <=> \E i \in s : Says(c, info[i], k)
    <3>1. k \in DOMAIN found.score <=> \E i \in r : Says(c, info[i], k)
      BY DEF Extracted
    <3>2. k \in keys => Says(c, info[n], k)
      BY <2>7
    <3>3. Says(c, info[n], k) => k \in keys \cup DOMAIN found.score
      BY <2>7
    <3> HIDE DEF keys, scores
    <3> QED
      BY <2>4, <3>1, <3>2, <3>3
  <2>9. ASSUME NEW k \in DOMAIN scores
        PROVE  \E i \in s : /\ Wins(c, info, s, k, i)
                            /\ scores[k] = Score(info[i])
                            /\ limits[k] = info[i].details[1]
    <3>1. CASE k \in keys
      <4>1. Says(c, info[n], k)
        BY <2>7, <3>1
      <4>2. ASSUME NEW j \in s, Says(c, info[j], k)
            PROVE  \/ Score(info[j]) < Score(info[n])
                   \/ Score(info[j]) = Score(info[n]) /\ j <= n
        <5>1. CASE j = n
          BY <5>1
        <5>2. CASE j \in r
          <6>1. k \in DOMAIN found.score
            BY <4>2, <5>2 DEF Extracted
          <6>2. found.score[k] <= Score(info[n])
            BY <3>1, <6>1
          <6>3. PICK i \in r : Wins(c, info, r, k, i) /\ found.score[k] = Score(info[i])
            BY <6>1 DEF Extracted
          <6>4. Score(info[j]) <= Score(info[i])
            BY <4>2, <5>2, <6>3, ScoreRange DEF Wins
          <6>5. j \in Nat /\ j < n
            BY <5>2
          <6> QED
            BY <6>2, <6>3, <6>4, <6>5, ScoreRange
        <5> QED
          BY <5>1, <5>2
      <4>3. Wins(c, info, s, k, n)
        BY <4>1, <4>2 DEF Wins
      <4> QED
        BY <2>5, <3>1, <4>3
    <3>2. CASE k \notin keys
      <4>1. k \in DOMAIN found.score
        BY <2>4, <2>9, <3>2
      <4>2. PICK i \in r : /\ Wins(c, info, r, k, i)
                           /\ found.score[k] = Score(info[i])
                           /\ found.limit[k] = info[i].details[1]
        BY <4>1 DEF Extracted
      <4>3. Says(c, info[n], k) => Score(info[n]) < Score(info[i])
        <5>1. Says(c, info[n], k) => ~(found.score[k] <= Score(info[n]))
          BY <2>7, <3>2
        <5> QED
          BY <4>2, <5>1, ScoreRange
      <4>4. Wins(c, info, s, k, i)
        BY <4>2, <4>3 DEF Wins
      <4> QED
        BY <2>6, <3>2, <4>1, <4>2, <4>4
    <3> QED
      BY <3>1, <3>2
  <2>10. DOMAIN limits = DOMAIN scores
    BY <2>4
  <2> HIDE DEF keys, scores, limits, next, s
  <2>11. Extracted(c, info, s, next)
    BY <2>2, <2>8, <2>9, <2>10 DEF Extracted
  <2> QED
    BY <2>11 DEF next, s
<1> QED
  BY <1>1, <1>2

\* So the whole loop finds, of each key, what its most specific entry says.
LEMMA ExtractAll ==
    ASSUME NEW c, NEW info, NEW N \in Nat, NEW g, Extracts(g, c, info, SUBSET (1..N))
    PROVE  Extracted(c, info, 1..N, g[1..N])
<1> DEFINE S == 1..N
           B == {s \in SUBSET S : ~Extracted(c, info, s, g[s])}
<1>1. SUFFICES ASSUME B # {} PROVE FALSE
  OBVIOUS
<1>2. PICK s \in B : \A u \in B : u \subseteq s => u = s
  <2>1. IsFiniteSet(S)
    BY FS_Interval
  <2>2. B \in SUBSET (SUBSET S)
    OBVIOUS
  <2> HIDE DEF B, S
  <2> QED
    BY <1>1, <2>1, <2>2, SmallestSet
<1>3. s \in SUBSET S /\ ~Extracted(c, info, s, g[s])
  BY <1>2
<1>4. g[s] = IF s = {} THEN Nothing ELSE ExtractEntry(c, g[s \ {Max(s)}], info[Max(s)])
  BY <1>3 DEF Extracts
<1>5. CASE s = {}
  <2>1. g[s].score = <<>> /\ g[s].limit = <<>>
    BY <1>4, <1>5 DEF Nothing
  <2>2. Extracted(c, info, {}, g[s])
    BY <2>1 DEF Extracted
  <2> QED
    BY <1>3, <1>5, <2>2
<1>6. CASE s # {}
  <2>1. Max(s) \in s /\ \A i \in s : i <= Max(s)
    BY <1>3, <1>6, Extremes
  <2> DEFINE n == Max(s)
             r == s \ {n}
  <2>2. r \in SUBSET S /\ r \subseteq s /\ r # s
    BY <1>3, <2>1
  <2>3. Extracted(c, info, r, g[r])
    BY <1>2, <2>2
  <2>4. r \in SUBSET Nat /\ n \in Nat /\ \A i \in r : i < n
    <3>1. n \in 1..N /\ r \in SUBSET (1..N) /\ n \notin r /\ \A i \in r : i <= n
      BY <1>3, <2>1
    <3> HIDE DEF n, r
    <3> QED
      BY <3>1
  <2>5. r \cup {n} = s
    BY <2>1
  <2>6. g[s] = ExtractEntry(c, g[r], info[n])
    BY <1>4, <1>6
  <2> HIDE DEF r, n
  <2>7. Extracted(c, info, r \cup {n}, ExtractEntry(c, g[r], info[n]))
    BY <2>3, <2>4, ExtractTurn
  <2> QED
    BY <1>3, <2>5, <2>6, <2>7
<1> QED
  BY <1>5, <1>6

\* When an entry says something of a target.
LEMMA SaysOfTarget ==
    ASSUME NEW c, Loaded(c), NEW t \in Targets(c), NEW entry,
           entry.region \in Name, entry.model \in Name
    PROVE  Says(c, entry, t) <=>
              /\ entry.details # <<>>
              /\ entry.region # NoName => ToLower(entry.region) = t[1]
              /\ entry.model # NoName => ToLower(entry.model) = t[2]
<1> DEFINE matched(listed, n) == IF n # NoName THEN {n} ELSE Range(listed)
<1>1. t = <<t[1], t[2]>>
  BY TargetFacts
<1>2. t \in MatchedKeys(c, entry) <=>
         \E r \in matched(c.regions, entry.region), m \in matched(c.models, entry.model) :
            t = <<ToLower(r), ToLower(m)>>
  <2>1. t \in MatchedKeys(c, entry) <=>
           \E r \in matched(c.regions, entry.region), m \in matched(c.models, entry.model) :
              t = LowerKey(<<r, m>>)
    BY DEF MatchedKeys
  <2>2. \A r, m : LowerKey(<<r, m>>) = <<ToLower(r), ToLower(m)>>
    BY LowerPair
  <2> QED
    BY <2>1, <2>2, Zenon
<1>3. ASSUME Says(c, entry, t)
      PROVE  /\ entry.details # <<>>
             /\ entry.region # NoName => ToLower(entry.region) = t[1]
             /\ entry.model # NoName => ToLower(entry.model) = t[2]
  <2>1. PICK r \in matched(c.regions, entry.region), m \in matched(c.models, entry.model) :
           t = <<ToLower(r), ToLower(m)>>
    BY <1>2, <1>3 DEF Says
  <2>2. t[1] = ToLower(r) /\ t[2] = ToLower(m)
    BY <2>1
  <2> QED
    BY <1>3, <2>1, <2>2 DEF Says, Applies
<1>4. ASSUME entry.details # <<>>,
             entry.region # NoName => ToLower(entry.region) = t[1],
             entry.model # NoName => ToLower(entry.model) = t[2]
      PROVE  Says(c, entry, t)
  <2>1. PICK r \in Range(c.regions), m \in Range(c.models) : t = <<ToLower(r), ToLower(m)>>
    BY TargetNames
  <2>2. t[1] = ToLower(r) /\ t[2] = ToLower(m)
    BY <2>1
  <2>3. Applies(c, entry)
    BY <1>4, <2>1, <2>2 DEF Applies, ContainsFold, EqualFold
  <2>4. PICK a \in matched(c.regions, entry.region) : ToLower(a) = t[1]
    BY <1>4, <2>1, <2>2
  <2>5. PICK b \in matched(c.models, entry.model) : ToLower(b) = t[2]
    BY <1>4, <2>1, <2>2
  <2>6. t \in MatchedKeys(c, entry)
    BY <1>1, <1>2, <2>4, <2>5
  <2> QED
    BY <2>3, <2>6 DEF Says
<1> QED
  BY <1>3, <1>4

\* The entries that say something of a target are those ranked for it.
LEMMA RankedSays ==
    ASSUME NEW c, Loaded(c), Keyable(c), NEW t \in Targets(c), NEW info,
           NEW i \in DOMAIN info, info[i].region \in Name, info[i].model \in Name
    PROVE  \A rank \in 1..4 :
              i \in Ranked(info, t, rank) <=> Says(c, info[i], t) /\ rank = Score(info[i]) + 1
<1> DEFINE e == info[i]
<1>1. /\ t[1] # NoName /\ t[2] # NoName
  BY TargetFacts
<1>2. ToLower(e.region) = NoName <=> e.region = NoName
  BY LowerName
<1>3. ToLower(e.model) = NoName <=> e.model = NoName
  BY LowerName
<1>4. Says(c, e, t) <=>
              /\ e.details # <<>>
              /\ e.region # NoName => ToLower(e.region) = t[1]
              /\ e.model # NoName => ToLower(e.model) = t[2]
  BY SaysOfTarget
<1>5. Score(e) = (IF e.region # NoName THEN 1 ELSE 0) + (IF e.model # NoName THEN 2 ELSE 0)
  BY DEF Score
<1>6. \A rank \in 1..4 : i \in Ranked(info, t, rank) <=>
          /\ e.details # <<>>
          /\ ToLower(e.region) = IF rank \in {2, 4} THEN t[1] ELSE NoName
          /\ ToLower(e.model) = IF rank \in {3, 4} THEN t[2] ELSE NoName
  BY DEF Ranked
<1> HIDE DEF e
<1>7. CASE e.region = NoName /\ e.model = NoName
  BY <1>1, <1>2, <1>3, <1>4, <1>5, <1>6, <1>7 DEF e
<1>8. CASE e.region # NoName /\ e.model = NoName
  BY <1>1, <1>2, <1>3, <1>4, <1>5, <1>6, <1>8 DEF e
<1>9. CASE e.region = NoName /\ e.model # NoName
  BY <1>1, <1>2, <1>3, <1>4, <1>5, <1>6, <1>9 DEF e
<1>10. CASE e.region # NoName /\ e.model # NoName
  BY <1>1, <1>2, <1>3, <1>4, <1>5, <1>6, <1>10 DEF e
<1> QED
  BY <1>7, <1>8, <1>9, <1>10

\* No two entries win.
LEMMA OneWins ==
    ASSUME NEW c, NEW info, NEW s \in SUBSET Nat, NEW k, NEW i, NEW j,
           Wins(c, info, s, k, i), Wins(c, info, s, k, j)
    PROVE  i = j
<1>1. /\ i \in s /\ j \in s /\ i \in Nat /\ j \in Nat
      /\ Says(c, info[i], k) /\ Says(c, info[j], k)
  BY DEF Wins
<1>2. \/ Score(info[j]) < Score(info[i])
      \/ Score(info[j]) = Score(info[i]) /\ j <= i
  BY <1>1 DEF Wins
<1>3. \/ Score(info[i]) < Score(info[j])
      \/ Score(info[i]) = Score(info[j]) /\ i <= j
  BY <1>1 DEF Wins
<1> QED
  BY <1>1, <1>2, <1>3, ScoreRange

\* The entry that MostSpecific reads is the one that wins.
LEMMA MostSpecificWins ==
    ASSUME NEW c, Loaded(c), Keyable(c), NEW t \in Targets(c), NEW info,
           NEW N \in Nat, DOMAIN info = 1..N,
           \A j \in 1..N : info[j].region \in Name /\ info[j].model \in Name,
           MostSpecific(info, t) # <<>>
    PROVE  \E i \in 1..N : /\ Wins(c, info, 1..N, t, i)
                            /\ MostSpecific(info, t) = info[i].details
<1> DEFINE ranks == {rank \in 1..4 : Ranked(info, t, rank) # {}}
           R == Max(ranks)
           i == Max(Ranked(info, t, R))
<1>1. ASSUME NEW j \in 1..N
      PROVE  \A rank \in 1..4 : j \in Ranked(info, t, rank) <=>
                Says(c, info[j], t) /\ rank = Score(info[j]) + 1
  BY RankedSays
<1>2. MostSpecific(info, t) = IF ranks = {} THEN <<>> ELSE info[i].details
  BY DEF MostSpecific
<1>3. ranks # {}
  BY <1>2
<1>4. R \in ranks /\ \A rank \in ranks : rank <= R
  <2>1. 4 \in Nat /\ ranks \in SUBSET (1..4)
    OBVIOUS
  <2> HIDE DEF ranks
  <2> QED
    BY <1>3, <2>1, Extremes
<1>5. R \in 1..4 /\ Ranked(info, t, R) # {} /\ Ranked(info, t, R) \in SUBSET (1..N)
  <2>1. R \in 1..4 /\ Ranked(info, t, R) # {}
    BY <1>4
  <2> HIDE DEF R
  <2> QED
    BY <2>1 DEF Ranked
<1>6. i \in Ranked(info, t, R) /\ \A j \in Ranked(info, t, R) : j <= i
  <2> HIDE DEF R
  <2> QED
    BY <1>5, Extremes
<1> HIDE DEF R, i
<1>7. i \in 1..N /\ Says(c, info[i], t) /\ R = Score(info[i]) + 1
  BY <1>1, <1>5, <1>6
<1>8. ASSUME NEW j \in 1..N, Says(c, info[j], t)
      PROVE  \/ Score(info[j]) < Score(info[i])
             \/ Score(info[j]) = Score(info[i]) /\ j <= i
  <2>1. Score(info[j]) + 1 \in 1..4
    <3>1. Score(info[j]) \in 0..3
      BY ScoreRange
    <3> QED
      BY <3>1
  <2>2. j \in Ranked(info, t, Score(info[j]) + 1)
    BY <1>1, <1>8, <2>1
  <2>3. Score(info[j]) + 1 \in ranks
    BY <2>1, <2>2
  <2>4. Score(info[j]) + 1 <= R
    BY <1>4, <2>3
  <2>5. Score(info[j]) + 1 = R => j <= i
    BY <1>6, <2>2
  <2>6. Score(info[j]) \in 0..3 /\ Score(info[i]) \in 0..3
    BY ScoreRange
  <2> QED
    BY <1>7, <2>4, <2>5, <2>6
<1>9. Wins(c, info, 1..N, t, i)
  BY <1>7, <1>8 DEF Wins
<1> QED
  BY <1>2, <1>3, <1>7, <1>9

\* An element of a sequence.
LEMMA MemberOfSeq ==
    ASSUME NEW E, NEW s \in Seq(E), NEW j \in DOMAIN s
    PROVE  s[j] \in E
OBVIOUS

\* "The most specific matching entry wins regardless of order": what extractLimits
\* returns for a target is the value of its most specific entry.
THEOREM ReportedLimit ==
    ASSUME NEW c, Loaded(c), Keyable(c), NEW t \in Targets(c), NEW info,
           info \in Seq([region : Name, model : Name, details : Seq(Int)]),
           \A j \in DOMAIN info : Len(info[j].details) <= 1,
           NEW limit \in Range(MostSpecific(info, t))
    PROVE  t \in DOMAIN ExtractLimits(c, info) /\ ExtractLimits(c, info)[t] = limit
<1>1. PICK N \in Nat : DOMAIN info = 1..N
  OBVIOUS
<1>2. ASSUME NEW j \in DOMAIN info
      PROVE  /\ info[j].region \in Name /\ info[j].model \in Name
             /\ info[j].details \in Seq(Int)
  <2>1. info[j] \in [region : Name, model : Name, details : Seq(Int)]
    BY MemberOfSeq
  <2> QED
    BY <2>1
<1>3. Range(<<>>) = {}
  BY DEF Range
<1>4. MostSpecific(info, t) # <<>>
  BY <1>3
<1>5. PICK i \in 1..N : Wins(c, info, 1..N, t, i) /\ MostSpecific(info, t) = info[i].details
  <2>1. \A j \in 1..N : info[j].region \in Name /\ info[j].model \in Name
    BY <1>1, <1>2
  <2> QED
    BY <1>1, <1>4, <2>1, MostSpecificWins
<1>6. limit = info[i].details[1]
  <2>1. info[i].details \in Seq(Int) /\ Len(info[i].details) <= 1
    BY <1>1, <1>2
  <2> QED
    BY <1>5, <2>1 DEF Range
<1>7. PICK g : /\ Extracts(g, c, info, SUBSET (1..N))
               /\ ExtractLimits(c, info) = g[1..N].limit
  BY <1>1, ExtractIsSolved
<1>8. Extracted(c, info, 1..N, g[1..N])
  BY <1>7, ExtractAll
<1>9. t \in DOMAIN g[1..N].score /\ t \in DOMAIN g[1..N].limit
  BY <1>5, <1>8 DEF Extracted, Wins
<1>10. PICK j \in 1..N : Wins(c, info, 1..N, t, j) /\ g[1..N].limit[t] = info[j].details[1]
  BY <1>8, <1>9 DEF Extracted
<1>11. i = j
  <2>1. 1..N \in SUBSET Nat
    OBVIOUS
  <2> QED
    BY <1>5, <1>10, <2>1, OneWins
<1> QED
  BY <1>6, <1>7, <1>9, <1>10, <1>11

\* The values that extractLimits returns are numbers.
LEMMA ExtractType ==
    ASSUME NEW c, NEW info,
           info \in Seq([region : Name, model : Name, details : Seq(Int)])
    PROVE  \A k \in DOMAIN ExtractLimits(c, info) : ExtractLimits(c, info)[k] \in Int
<1>1. PICK N \in Nat : DOMAIN info = 1..N
  OBVIOUS
<1>2. ASSUME NEW j \in 1..N, info[j].details # <<>> PROVE info[j].details[1] \in Int
  <2>1. info[j] \in [region : Name, model : Name, details : Seq(Int)]
    BY <1>1, MemberOfSeq
  <2>2. info[j].details \in Seq(Int)
    BY <2>1
  <2> QED
    BY <1>2, <2>2
<1>3. PICK g : /\ Extracts(g, c, info, SUBSET (1..N))
               /\ ExtractLimits(c, info) = g[1..N].limit
  BY <1>1, ExtractIsSolved
<1>4. Extracted(c, info, 1..N, g[1..N])
  BY <1>3, ExtractAll
<1>5. ASSUME NEW k \in DOMAIN g[1..N].limit PROVE g[1..N].limit[k] \in Int
  <2>1. PICK j \in 1..N : Says(c, info[j], k) /\ g[1..N].limit[k] = info[j].details[1]
    BY <1>4, <1>5 DEF Extracted, Wins
  <2> QED
    BY <1>2, <2>1 DEF Says, Applies
<1> QED
  BY <1>3, <1>5

\* What resolveLimit returns is a count or the default.
LEMMA ResolveType ==
    ASSUME NEW limits, \A k \in DOMAIN limits : limits[k] \in Int, NEW key, NEW fallback
    PROVE  ResolveLimit(limits, key, fallback) \in Nat \cup {fallback}
BY DEF ResolveLimit

-----------------------------------------------------------------------------
(* Usage *)

\* The name that is missing is in lower case.
LEMMA NoNameLower == ToLower(NoName) = NoName
<1>1. \A i, u, p, f : [[id |-> i, upper |-> u, padded |-> p] EXCEPT !.upper = f]
                        = [id |-> i, upper |-> f, padded |-> p]
  OBVIOUS
<1> QED
  BY <1>1, Zenon DEF ToLower, NoName, Word

\* The labels of Cloud Monitoring are in lower case.
LEMMA MonitoredFacts ==
    ASSUME NEW c, Loaded(c), NEW u \in Monitored(c)
    PROVE  u = <<u[1], u[2]>> /\ LowerKey(<<u[1], u[2]>>) = u
<1>1. PICK t \in Targets(c) : u = NormalKey(t)
  BY DEF Monitored
<1>2. t = <<t[1], t[2]>> /\ t[1] \in NameForm /\ t[2] \in NameForm
  BY TargetFacts DEF Name, NameForm
<1>3. u = <<Normal(t[1]), Normal(t[2])>>
  <2>1. NormalKey(<<t[1], t[2]>>) = <<Normal(t[1]), Normal(t[2])>>
    BY LowerPair, Zenon
  <2> QED
    BY <1>1, <1>2, <2>1, Zenon
<1>4. u[1] = Normal(t[1]) /\ u[2] = Normal(t[2]) /\ u = <<u[1], u[2]>>
  BY <1>3
<1>5. \A x \in NameForm : ToLower(Normal(x)) = Normal(x)
  <2> TAKE x \in NameForm
  <2>1. Normal(x) \in NameForm /\ Normal(x).upper = FALSE
    BY FormLower DEF Normal
  <2>2. /\ ToLower(Normal(x)) \in NameForm /\ ToLower(Normal(x)).upper = FALSE
        /\ ToLower(Normal(x)).id = Normal(x).id
        /\ ToLower(Normal(x)).padded = Normal(x).padded
    BY <2>1, FormLower
  <2> QED
    BY <2>1, <2>2, FormEqual
<1>6. LowerKey(<<u[1], u[2]>>) = <<ToLower(u[1]), ToLower(u[2])>>
  BY LowerPair, Zenon
<1>7. ToLower(u[1]) = u[1] /\ ToLower(u[2]) = u[2]
  BY <1>2, <1>4, <1>5
<1> QED
  BY <1>4, <1>6, <1>7, Zenon

\* The series of a label.
SeriesOf(levels, d, u) ==
    [region |-> u[1], model |-> u[2],
     points |-> IF levels[u] = 0 THEN <<>> ELSE <<levels[u] * UsagePer[d]>>]

SeriesKey(s) == LowerKey(<<s.region, s.model>>)
Pointed(levels, d) == {s \in TimeSeries(levels, d) : s.points # <<>>}
SeriesAt(levels, d, k) == CHOOSE s \in Pointed(levels, d) : SeriesKey(s) = k

\* What fetchUsageInfo makes of an answer.
LEMMA UsageInfoOf ==
    ASSUME NEW levels, NEW d
    PROVE  /\ \A k : k \in DOMAIN UsageRecorded(levels, d) <=>
                         \E s \in Pointed(levels, d) : SeriesKey(s) = k
           /\ \A k \in DOMAIN UsageRecorded(levels, d) :
                 /\ UsageRecorded(levels, d)[k] = SeriesAt(levels, d, k).points[1]
                 /\ SeriesAt(levels, d, k) \in Pointed(levels, d)
                 /\ SeriesKey(SeriesAt(levels, d, k)) = k
<1>1. UsageRecorded(levels, d) =
         [k \in {SeriesKey(s) : s \in Pointed(levels, d)} |-> SeriesAt(levels, d, k).points[1]]
  BY DEF UsageRecorded, UsageInfo, SeriesKey, Pointed, SeriesAt
<1>2. ASSUME NEW k, \E s \in Pointed(levels, d) : SeriesKey(s) = k
      PROVE  SeriesAt(levels, d, k) \in Pointed(levels, d) /\ SeriesKey(SeriesAt(levels, d, k)) = k
  BY <1>2 DEF SeriesAt
<1> QED
  BY <1>1, <1>2

\* A series is that of a label or that of the model that is not listed.
LEMMA SeriesCases ==
    ASSUME NEW levels, NEW d, NEW s
    PROVE  s \in TimeSeries(levels, d) <=>
              \/ \E u \in DOMAIN levels : s = SeriesOf(levels, d, u)
              \/ s = [region |-> NoName, model |-> Word("unlisted"), points |-> <<7>>]
BY DEF TimeSeries, SeriesOf

\* The usage read of a project is a count.
LEMMA UsageType ==
    ASSUME NEW M, NEW levels \in [M -> Nat], NEW d \in Dims
    PROVE  \A k \in DOMAIN UsageRecorded(levels, d) : UsageRecorded(levels, d)[k] \in Nat
<1> DEFINE P == Pointed(levels, d)
<1>1. ASSUME NEW s \in P PROVE s.points[1] \in Nat
  <2>1. s \in TimeSeries(levels, d) /\ s.points # <<>>
    BY DEF Pointed
  <2>2. CASE s = [region |-> NoName, model |-> Word("unlisted"), points |-> <<7>>]
    BY <2>2
  <2>3. CASE \E u \in DOMAIN levels : s = SeriesOf(levels, d, u)
    <3>1. PICK u \in M : s = SeriesOf(levels, d, u)
      BY <2>3
    <3>2. s.points = IF levels[u] = 0 THEN <<>> ELSE <<levels[u] * UsagePer[d]>>
      BY <3>1 DEF SeriesOf
    <3>3. levels[u] \in Nat /\ UsagePer[d] \in Nat
      BY AnswersAssumption
    <3>4. levels[u] * UsagePer[d] \in Nat
      BY <3>3
    <3> QED
      BY <2>1, <3>2, <3>4
  <2> QED
    BY <2>1, <2>2, <2>3, SeriesCases
<1> QED
  BY <1>1, UsageInfoOf

\* The usage read of a label is what Cloud Monitoring held.
LEMMA UsageExact ==
    ASSUME NEW M, NEW levels \in [M -> Nat], NEW d \in Dims,
           \A u \in M : u = <<u[1], u[2]>> /\ LowerKey(<<u[1], u[2]>>) = u,
           NEW t \in M, t[1] # NoName
    PROVE  (IF t \in DOMAIN UsageRecorded(levels, d)
            THEN UsageRecorded(levels, d)[t] ELSE 0) = levels[t] * UsagePer[d]
<1> DEFINE P == Pointed(levels, d)
           of == SeriesOf(levels, d, t)
           other == [region |-> NoName, model |-> Word("unlisted"), points |-> <<7>>]
<1>1. \A u \in M : SeriesKey(SeriesOf(levels, d, u)) = u
  BY DEF SeriesKey, SeriesOf
<1>2. SeriesKey(other) # t
  <2>1. SeriesKey(other) = LowerKey(<<NoName, Word("unlisted")>>)
    BY DEF SeriesKey
  <2>2. SeriesKey(other) = <<ToLower(NoName), ToLower(Word("unlisted"))>>
    BY <2>1, LowerPair, Zenon
  <2>3. SeriesKey(other)[1] = NoName
    BY <2>2, NoNameLower
  <2> QED
    BY <2>3
<1>3. ASSUME NEW s \in P, SeriesKey(s) = t PROVE s = of
  <2>1. s \in TimeSeries(levels, d)
    BY DEF Pointed
  <2>2. s # other
    BY <1>2, <1>3
  <2>3. PICK u \in M : s = SeriesOf(levels, d, u)
    BY <2>1, <2>2, SeriesCases
  <2>4. u = t
    BY <1>1, <1>3, <2>3
  <2> QED
    BY <2>3, <2>4
<1>4. of \in TimeSeries(levels, d) /\ SeriesKey(of) = t
  BY <1>1, SeriesCases
<1>5. of.points = IF levels[t] = 0 THEN <<>> ELSE <<levels[t] * UsagePer[d]>>
  BY DEF SeriesOf
<1>6. levels[t] \in Nat /\ UsagePer[d] \in Nat
  BY AnswersAssumption
<1> HIDE DEF of, other
<1>7. CASE levels[t] = 0
  <2>1. of \notin P
    BY <1>5, <1>7 DEF Pointed
  <2>2. t \notin DOMAIN UsageRecorded(levels, d)
    BY <1>3, <2>1, UsageInfoOf
  <2>3. levels[t] * UsagePer[d] = 0
    BY <1>6, <1>7
  <2> QED
    BY <2>2, <2>3
<1>8. CASE levels[t] # 0
  <2>1. of.points = <<levels[t] * UsagePer[d]>>
    BY <1>5, <1>8
  <2>2. of.points # <<>> /\ of.points[1] = levels[t] * UsagePer[d]
    BY <2>1
  <2>3. of \in P
    BY <1>4, <2>2 DEF Pointed
  <2>4. t \in DOMAIN UsageRecorded(levels, d)
    BY <1>4, <2>3, UsageInfoOf
  <2>5. SeriesAt(levels, d, t) = of
    BY <1>3, <2>4, UsageInfoOf
  <2> QED
    BY <2>2, <2>4, <2>5, UsageInfoOf
<1> QED
  BY <1>7, <1>8

-----------------------------------------------------------------------------
(* The snapshot of a poll *)

\* The quotas of a snapshot, as the data plane declares them.
LEMMA ModelQuotaIs == Q!ModelQuota = ModelQuotas
  BY DEF Q!ModelQuota, Q!Dims, Dims, ModelQuotas

\* FetchMetrics has one quota for every project and target, under the last spelling
\* of the project.
LEMMA RawQuotasIs ==
    ASSUME Loaded(cfg)
    PROVE  /\ DOMAIN RawQuotas = Projects(cfg) \X Targets(cfg)
           /\ \A p \in Projects(cfg), t \in Targets(cfg) :
                 RawQuotas[<<p, t>>] = ProjectQuota(LastSpelling(p), t[1], t[2])
<1> DEFINE K == {GetKey(p, t[1], t[2]) : p \in Range(cfg.projects), t \in Targets(cfg)}
<1>1. \A p : \A t \in Targets(cfg) : GetKey(p, t[1], t[2]) = <<ToLower(p), t>>
  BY TargetFacts DEF GetKey
<1>2. Projects(cfg) = {ToLower(p) : p \in Range(cfg.projects)}
  BY DEF Projects
<1>3. ASSUME NEW k \in K PROVE k \in Projects(cfg) \X Targets(cfg)
  <2>1. PICK p \in Range(cfg.projects), t \in Targets(cfg) : k = GetKey(p, t[1], t[2])
    OBVIOUS
  <2> QED
    BY <1>1, <1>2, <2>1
<1>4. ASSUME NEW k \in Projects(cfg) \X Targets(cfg) PROVE k \in K
  <2>1. PICK p \in Range(cfg.projects) : ToLower(p) = k[1]
    BY <1>2
  <2>2. k = <<k[1], k[2]>> /\ k[2] \in Targets(cfg)
    OBVIOUS
  <2>3. k = GetKey(p, k[2][1], k[2][2])
    BY <1>1, <2>1, <2>2
  <2> QED
    BY <2>2, <2>3
<1>5. K = Projects(cfg) \X Targets(cfg)
  BY <1>3, <1>4
<1>6. RawQuotas = [k \in K |-> ProjectQuota(LastSpelling(k[1]), k[2][1], k[2][2])]
  BY DEF RawQuotas
<1> HIDE DEF K
<1>7. ASSUME NEW p \in Projects(cfg), NEW t \in Targets(cfg)
      PROVE  RawQuotas[<<p, t>>] = ProjectQuota(LastSpelling(p), t[1], t[2])
  <2>1. <<p, t>> \in K /\ <<p, t>>[1] = p /\ <<p, t>>[2] = t
    BY <1>5
  <2> QED
    BY <1>6, <2>1
<1> QED
  BY <1>5, <1>6, <1>7

\* At the end of the calls the poll has read the limits and the usage of every project.
LEMMA AllRead ==
    ASSUME Inv, poll.pc = "assemble", NEW p \in Projects(cfg), NEW d \in Dims
    PROVE  /\ <<LastSpelling(p), d>> \in DOMAIN poll.limits
           /\ <<LastSpelling(p), d>> \in DOMAIN poll.usage
           /\ ToLower(LastSpelling(p)) = p
<1>1. PICK i \in DOMAIN cfg.projects :
         LastSpelling(p) = cfg.projects[i] /\ ToLower(cfg.projects[i]) = p
  BY SpellingListed DEF Inv
<1>2. poll.at = Len(cfg.projects) /\ cfg.projects \in Seq(Name)
  BY LoadedLists DEF Inv, Place
<1>3. i < poll.at \/ i = poll.at
  <2>1. PICK n \in Nat : n = Len(cfg.projects) /\ DOMAIN cfg.projects = 1..n
    BY <1>2
  <2> QED
    BY <1>2, <2>1
<1>4. LimitsRead(poll, i) /\ UsageRead(poll, i, d)
  BY <1>3 DEF LimitsRead, UsageRead
<1> QED
  BY <1>1, <1>4 DEF Inv, LimitsFound, UsageFound

\* Where the usage in a project's quota comes from.
LEMMA UsageRead1 ==
    ASSUME Inv, poll.pc = "assemble", NEW p \in Projects(cfg), NEW d \in Dims
    PROVE  \E w \in witnessed :
              poll.usage[<<LastSpelling(p), d>>] = UsageRecorded(w[p], d)
<1> DEFINE k == <<LastSpelling(p), d>>
<1>1. k \in DOMAIN poll.usage /\ ToLower(k[1]) = p /\ k[2] = d
  BY AllRead
<1> HIDE DEF k
<1>2. PICK w \in witnessed : poll.usage[k] = UsageRecorded(w[ToLower(k[1])], k[2])
  BY <1>1 DEF Inv, UsageFound
<1> QED
  BY <1>1, <1>2 DEF k

\* Where the limit in it comes from.
LEMMA LimitsRead1 ==
    ASSUME Inv, poll.pc = "assemble", NEW p \in Projects(cfg), NEW d \in Dims
    PROVE  poll.limits[<<LastSpelling(p), d>>] =
              IF <<LastSpelling(p), d>> \in poll.answered
              THEN ExtractLimits(cfg, quotaInfo[p][d]) ELSE <<>>
<1> DEFINE k == <<LastSpelling(p), d>>
<1>1. k \in DOMAIN poll.limits /\ ToLower(k[1]) = p /\ k[2] = d
  BY AllRead
<1> HIDE DEF k
<1>2. poll.limits[k] = IF k \in poll.answered
                       THEN ExtractLimits(cfg, quotaInfo[ToLower(k[1])][k[2]]) ELSE <<>>
  BY <1>1 DEF Inv, LimitsFound
<1> QED
  BY <1>1, <1>2 DEF k

\* A project's quota has a limit and a usage.
LEMMA ProjectQuotaType ==
    ASSUME Inv, poll.pc = "assemble", Keyable(cfg), ~Panics(cfg), NEW p \in Projects(cfg), NEW t \in Targets(cfg)
    PROVE  ProjectQuota(LastSpelling(p), t[1], t[2]) \in ProjectQuotas(cfg)
<1> DEFINE s == LastSpelling(p)
           fallback == ResolveFallbackLimit(cfg.limits, s, t[1], t[2])
<1>1. /\ Loaded(cfg) /\ quotaInfo \in QuotaInfos
      /\ LowerKey(<<t[1], t[2]>>) = t /\ Families[t[2].id] \in Seq(Name)
  BY TargetFacts DEF Inv
<1>2. ASSUME NEW d \in Dims PROVE fallback[1][d] \in Nat \cup Defaults(cfg)
  <2>1. s \in Range(cfg.projects)
    BY <1>1, SpellingListed DEF Range
  <2> QED
    BY <1>1, <2>1, DefaultType
<1>3. ASSUME NEW d \in Dims
      PROVE  ResolveLimit(poll.limits[<<s, d>>], t, fallback[1][d]) \in Nat \cup Defaults(cfg)
  <2>1. \/ poll.limits[<<s, d>>] = <<>>
        \/ poll.limits[<<s, d>>] = ExtractLimits(cfg, quotaInfo[p][d])
    BY LimitsRead1
  <2>2. \A k \in DOMAIN ExtractLimits(cfg, quotaInfo[p][d]) :
           ExtractLimits(cfg, quotaInfo[p][d])[k] \in Int
    BY <1>1, AnswerType, ExtractType
  <2>3. \A k \in DOMAIN <<>> : <<>>[k] \in Int
    OBVIOUS
  <2>4. \A k \in DOMAIN poll.limits[<<s, d>>] : poll.limits[<<s, d>>][k] \in Int
    BY <2>1, <2>2, <2>3
  <2> HIDE DEF s, fallback
  <2> QED
    BY <1>2, <2>4, ResolveType
<1>4. ASSUME NEW d \in Dims PROVE UsageAt(s, d, t) \in Nat
  <2>1. PICK w \in witnessed : poll.usage[<<s, d>>] = UsageRecorded(w[p], d)
    BY UsageRead1
  <2>2. w[p] \in [Monitored(cfg) -> Nat]
    BY <2>1 DEF Inv, Usages
  <2>3. \A k \in DOMAIN UsageRecorded(w[p], d) : UsageRecorded(w[p], d)[k] \in Nat
    BY <2>2, UsageType
  <2> HIDE DEF s
  <2> QED
    BY <2>1, <2>3 DEF UsageAt
<1>5. ProjectQuota(s, t[1], t[2]) =
         [d \in Dims |-> [max |-> ResolveLimit(poll.limits[<<s, d>>], t, fallback[1][d]),
                          current |-> UsageAt(s, d, t)]]
  BY <1>1 DEF ProjectQuota
<1> HIDE DEF fallback, s
<1>6. ProjectQuota(s, t[1], t[2]) \in [Dims -> [max : Nat \cup Defaults(cfg), current : Nat]]
  BY <1>3, <1>4, <1>5
<1> QED
  BY <1>6 DEF s, ProjectQuotas

\* There are finitely many projects.
LEMMA FiniteProjects ==
    ASSUME NEW c, Loaded(c)
    PROVE  IsFiniteSet(Projects(c))
<1>1. PICK n \in Nat : DOMAIN c.projects = 1..n
  BY LoadedLists
<1> DEFINE f == [i \in 1..n |-> ToLower(c.projects[i])]
<1>2. f \in Surjection(1..n, Projects(c))
  BY <1>1 DEF Surjection, Projects, Range
<1>3. IsFiniteSet(1..n)
  BY FS_Interval
<1> HIDE DEF f
<1> QED
  BY <1>2, <1>3, FS_Surjection

\* A sum of counts is a count.
LEMMA SumOfCounts ==
    ASSUME NEW S, IsFiniteSet(S), NEW f, DOMAIN f = S, \A x \in S : f[x] \in Nat
    PROVE  SumFunction(f) \in Nat
<1>1. SumFunctionOnSet(f, S) \in Int
  BY SumType
<1>2. SumFunctionOnSet(f, {}) <= SumFunctionOnSet(f, S)
  BY SumOfPart
<1>3. SumFunctionOnSet(f, {}) = 0
  BY SumOfNone
<1> QED
  BY <1>1, <1>2, <1>3 DEF SumFunction

\* reconcile adds up the usage of each project, once, under the last of its spellings.
LEMMA OrgQuotaIs ==
    ASSUME Loaded(cfg), NEW t \in Targets(cfg)
    PROVE  OrgQuota(RawQuotas, t) =
              [d \in Dims |->
                 [max |-> OrgLimit(cfg, t)[d],
                  current |-> SumFunction([p \in Projects(cfg) |->
                                 UsageAt(LastSpelling(p), d, t)])]]
<1> DEFINE limit == OrgLimit(cfg, t)
           projects == {k[1] : k \in DOMAIN RawQuotas}
<1>1. projects = Projects(cfg)
  <2>1. \A p \in Projects(cfg) : <<p, t>> \in DOMAIN RawQuotas /\ <<p, t>>[1] = p
    BY RawQuotasIs
  <2>2. \A k \in DOMAIN RawQuotas : k[1] \in Projects(cfg)
    BY RawQuotasIs
  <2> QED
    BY <2>1, <2>2
<1>2. ASSUME NEW d \in Dims, NEW p \in Projects(cfg)
      PROVE  RawQuotas[<<p, t>>][d].current = UsageAt(LastSpelling(p), d, t)
  <2>1. RawQuotas[<<p, t>>] = ProjectQuota(LastSpelling(p), t[1], t[2])
    BY RawQuotasIs
  <2>2. LowerKey(<<t[1], t[2]>>) = t
    BY TargetFacts
  <2> QED
    BY <2>1, <2>2 DEF ProjectQuota
<1>3. ASSUME NEW d \in Dims
      PROVE  [p \in projects |-> RawQuotas[<<p, t>>][d].current]
                = [p \in Projects(cfg) |-> UsageAt(LastSpelling(p), d, t)]
  <2> HIDE DEF projects
  <2> QED
    BY <1>1, <1>2
<1>4. OrgQuota(RawQuotas, t) =
         [d \in Dims |-> [max |-> limit[d],
            current |-> SumFunction([p \in projects |-> RawQuotas[<<p, t>>][d].current])]]
  BY DEF OrgQuota, OrgLimit
<1> HIDE DEF projects, limit
<1> QED
  BY <1>3, <1>4 DEF limit

\* The two parts of it.
LEMMA OrgParts ==
    ASSUME Loaded(cfg), NEW t \in Targets(cfg), NEW d \in Dims
    PROVE  /\ OrgQuota(RawQuotas, t)[d].max =
                 OrgLimit(cfg, t)[d]
           /\ OrgQuota(RawQuotas, t)[d].current =
                 SumFunction([p \in Projects(cfg) |-> UsageAt(LastSpelling(p), d, t)])
<1> DEFINE max(e) == OrgLimit(cfg, t)[e]
           sum(e) == SumFunction([p \in Projects(cfg) |-> UsageAt(LastSpelling(p), e, t)])
<1>1. OrgQuota(RawQuotas, t) = [e \in Dims |-> [max |-> max(e), current |-> sum(e)]]
  BY OrgQuotaIs
<1>2. OrgQuota(RawQuotas, t)[d].max = max(d) /\ OrgQuota(RawQuotas, t)[d].current = sum(d)
  <2> HIDE DEF max, sum
  <2> QED
    BY <1>1
<1> QED
  BY <1>2

\* The org quota has a limit and a usage.
LEMMA OrgQuotaType ==
    ASSUME Inv, poll.pc = "assemble", NEW t \in Targets(cfg)
    PROVE  OrgQuota(RawQuotas, t) \in ModelQuotas
<1> DEFINE limit == OrgLimit(cfg, t)
           sum(d) == SumFunction([p \in Projects(cfg) |-> UsageAt(LastSpelling(p), d, t)])
<1>1. Loaded(cfg)
  BY DEF Inv
<1>2. limit \in [Dims -> Nat]
  BY <1>1, OrgLimitOf
<1>3. ASSUME NEW d \in Dims PROVE sum(d) \in Nat
  <2> DEFINE f == [p \in Projects(cfg) |-> UsageAt(LastSpelling(p), d, t)]
  <2>1. ASSUME NEW p \in Projects(cfg) PROVE UsageAt(LastSpelling(p), d, t) \in Nat
    <3>1. PICK w \in witnessed : poll.usage[<<LastSpelling(p), d>>] = UsageRecorded(w[p], d)
      BY UsageRead1
    <3>2. w[p] \in [Monitored(cfg) -> Nat]
      BY <3>1 DEF Inv, Usages
    <3>3. \A k \in DOMAIN UsageRecorded(w[p], d) : UsageRecorded(w[p], d)[k] \in Nat
      BY <3>2, UsageType
    <3> QED
      BY <3>1, <3>3 DEF UsageAt
  <2>2. DOMAIN f = Projects(cfg) /\ \A p \in Projects(cfg) : f[p] \in Nat
    BY <2>1
  <2>3. SumFunction(f) \in Nat
    <3> HIDE DEF f
    <3> QED
      BY <1>1, <2>2, FiniteProjects, SumOfCounts
  <2> QED
    BY <2>3
<1>4. OrgQuota(RawQuotas, t) = [d \in Dims |-> [max |-> limit[d], current |-> sum(d)]]
  BY <1>1, OrgQuotaIs
<1> HIDE DEF limit, sum
<1>5. OrgQuota(RawQuotas, t) \in [Dims -> [max : Nat, current : Nat]]
  BY <1>2, <1>3, <1>4
<1> QED
  BY <1>5 DEF ModelQuotas

\* The snapshot that reconcile saves.
Snapshot == [project |-> RawQuotas, org |-> [t \in Targets(cfg) |-> OrgQuota(RawQuotas, t)]]

\* It is complete and holds every allowance of unpadded names.
LEMMA SnapshotIsOK ==
    ASSUME Inv, poll.pc = "assemble", Keyable(cfg), ~Panics(cfg)
    PROVE  SnapshotOK(cfg, Snapshot)
<1>1. Loaded(cfg)
  BY DEF Inv
<1>2. /\ Snapshot.project = RawQuotas
      /\ Snapshot.org = [t \in Targets(cfg) |-> OrgQuota(RawQuotas, t)]
  BY DEF Snapshot
<1>3. Snapshot.org \in [Targets(cfg) -> ModelQuotas]
  BY <1>2, OrgQuotaType
<1>4. Snapshot.project \in [Projects(cfg) \X Targets(cfg) -> ProjectQuotas(cfg)]
  <2>1. ASSUME NEW k \in Projects(cfg) \X Targets(cfg) PROVE RawQuotas[k] \in ProjectQuotas(cfg)
    <3>1. PICK p \in Projects(cfg), t \in Targets(cfg) : k = <<p, t>>
      OBVIOUS
    <3> QED
      BY <1>1, <3>1, RawQuotasIs, ProjectQuotaType
  <2>2. RawQuotas = [k \in DOMAIN RawQuotas |-> RawQuotas[k]]
    BY DEF RawQuotas
  <2>3. DOMAIN RawQuotas = Projects(cfg) \X Targets(cfg)
    BY <1>1, RawQuotasIs
  <2> QED
    BY <1>2, <2>1, <2>2, <2>3
<1>5. ASSUME Unpadded(cfg), NEW k \in DOMAIN cfg.allowances
      PROVE  /\ k \in DOMAIN Snapshot.org
             /\ \A d \in Dims : Snapshot.org[k][d].max = cfg.allowances[k][d]
  <2>1. PICK r \in Range(cfg.regions), m \in Range(cfg.models) : k = <<Normal(r), Normal(m)>>
    BY <1>1, <1>5, LoadedAllowances
  <2>2. r \in Name /\ m \in Name
    BY <1>1, <2>1, LoadedLists DEF Range
  <2>3. Normal(r) = ToLower(r) /\ Normal(m) = ToLower(m)
    BY <1>5, <2>1, <2>2, LowerName DEF Unpadded
  <2>4. k = LowerKey(<<r, m>>)
    BY <2>1, <2>3, LowerPair, Zenon
  <2>5. k \in Targets(cfg)
    BY <2>1, <2>4 DEF Targets
  <2>6. OrgLimit(cfg, k) = cfg.allowances[k]
    BY <1>1, <1>5, <2>5, OrgLimitOf
  <2>7. \A d \in Dims : OrgQuota(RawQuotas, k)[d].max = cfg.allowances[k][d]
    BY <1>1, <2>5, <2>6, OrgParts
  <2> QED
    BY <1>2, <2>5, <2>7
<1> QED
  BY <1>3, <1>4, <1>5 DEF SnapshotOK

-----------------------------------------------------------------------------
(* The invariant is inductive. *)

\* A poll begins with nothing read.
LEMMA NothingRead ==
    ASSUME NEW c, NEW info, NEW seen, NEW pc, Loaded(c),
           pc \in {"idle", "ended", "crashed", "limits"}
    PROVE  LET p == [Idle EXCEPT !.pc = pc]
           IN Place(c, p) /\ LimitsFound(c, info, p) /\ UsageFound(c, p, seen)
<1> DEFINE p == [Idle EXCEPT !.pc = pc]
<1>1. /\ p = [pc |-> pc, at |-> 1, limits |-> <<>>, usage |-> <<>>, answered |-> {}]
      /\ p.pc = pc /\ p.at = 1 /\ p.limits = <<>> /\ p.usage = <<>> /\ p.answered = {}
  <2>1. p = [pc |-> pc, at |-> 1, limits |-> <<>>, usage |-> <<>>, answered |-> {}]
    <3>1. ASSUME NEW none PROVE [[pc |-> "idle", at |-> 1, limits |-> none, usage |-> none,
                                  answered |-> {}] EXCEPT !.pc = pc]
             = [pc |-> pc, at |-> 1, limits |-> none, usage |-> none, answered |-> {}]
      OBVIOUS
    <3> QED
      BY <3>1 DEF Idle
  <2> HIDE DEF p
  <2> QED
    BY <2>1
<1>2. PICK n \in Nat : n = Len(c.projects) /\ DOMAIN c.projects = 1..n /\ n >= 1
  BY LoadedLists
<1>3. \A i \in DOMAIN c.projects : ~(i < 1)
  BY <1>2
<1>4. pc # "rpm" /\ pc # "tpm" /\ pc # "assemble"
  OBVIOUS
<1>5. Place(c, p)
  <2>1. p.at \in 1..Len(c.projects)
    BY <1>1, <1>2
  <2>2. p = [pc |-> p.pc, at |-> p.at, limits |-> p.limits, usage |-> p.usage,
             answered |-> p.answered]
    BY <1>1
  <2>3. p = [Idle EXCEPT !.pc = p.pc]
    BY <1>1
  <2> HIDE DEF p
  <2> QED
    BY <1>1, <1>4, <2>1, <2>2, <2>3 DEF Place
<1> HIDE DEF p
<1>6. \A i \in DOMAIN c.projects : \A d \in Dims : ~LimitsRead(p, i) /\ ~UsageRead(p, i, d)
  BY <1>1, <1>3, <1>4 DEF LimitsRead, UsageRead
<1>7. DOMAIN p.limits = {} /\ DOMAIN p.usage = {}
  BY <1>1
<1>8. LimitsFound(c, info, p)
  BY <1>6, <1>7 DEF LimitsFound
<1>9. UsageFound(c, p, seen)
  BY <1>6, <1>7 DEF UsageFound
<1> QED
  BY <1>5, <1>8, <1>9 DEF p

\* Before the first poll.
LEMMA InitInv == Init => Inv
<1> SUFFICES ASSUME Init PROVE Inv
  OBVIOUS
<1>1. PICK raw \in RawConfigs : cfg \in Range(LoadConfig(raw))
  BY DEF Init
<1>2. Loaded(cfg)
  <2>1. LoadConfig(raw) = <<>> \/ \E c : LoadConfig(raw) = <<c>>
    BY DEF LoadConfig
  <2>2. PICK c : LoadConfig(raw) = <<c>>
    BY <1>1, <2>1 DEF Range
  <2>3. cfg = c
    BY <1>1, <2>2 DEF Range
  <2> QED
    BY <2>2, <2>3 DEF Loaded
<1>3. quotaInfo \in QuotaInfos /\ poll = Idle /\ stored = <<>> /\ witnessed = {}
  BY DEF Init
<1>4. usage \in Usages(cfg)
  BY DEF Init, Usages
<1>5. poll = [Idle EXCEPT !.pc = "idle"] /\ Resting(poll)
  BY <1>3 DEF Idle, Resting
<1>6. Place(cfg, poll) /\ LimitsFound(cfg, quotaInfo, poll) /\ UsageFound(cfg, poll, witnessed)
  BY <1>2, <1>5, NothingRead
<1> QED
  BY <1>2, <1>3, <1>4, <1>5, <1>6 DEF Inv, Saved

\* The parts of the invariant that say where the poll is and what it has read.
Reading(c, info, p, seen) ==
    Place(c, p) /\ LimitsFound(c, info, p) /\ UsageFound(c, p, seen)

\* The calls for limits: their answers are the project's limits, whatever was read of it
\* under the same spelling before.
LEMMA LimitsStep ==
    ASSUME Inv, FetchQuotaInfo
    PROVE  Reading(cfg, quotaInfo, poll', witnessed)
<1>1. PICK failed \in SUBSET Dims :
         poll' = [poll EXCEPT
            !.pc = "rpm",
            !.limits = Updated(@, [k \in {Project} \X Dims |->
                  IF k[2] \in failed THEN <<>>
                  ELSE ExtractLimits(cfg, quotaInfo[ToLower(Project)][k[2]])]),
            !.answered = (@ \ ({Project} \X failed)) \cup ({Project} \X (Dims \ failed))]
  BY DEF FetchQuotaInfo
<1> DEFINE new == [k \in {Project} \X Dims |->
                     IF k[2] \in failed THEN <<>>
                     ELSE ExtractLimits(cfg, quotaInfo[ToLower(Project)][k[2]])]
           limits == Updated(poll.limits, new)
           answered == (poll.answered \ ({Project} \X failed))
                       \cup ({Project} \X (Dims \ failed))
<1>2. /\ poll = [pc |-> poll.pc, at |-> poll.at, limits |-> poll.limits,
                 usage |-> poll.usage, answered |-> poll.answered]
      /\ poll.at \in 1..Len(cfg.projects) /\ poll.pc = "limits"
  BY DEF Inv, Place, FetchQuotaInfo
<1>3. poll' = [poll EXCEPT !.pc = "rpm", !.limits = limits, !.answered = answered]
  BY <1>1
<1> HIDE DEF limits, answered
<1>4. poll' = [pc |-> "rpm", at |-> poll.at, limits |-> limits, usage |-> poll.usage,
               answered |-> answered]
  BY <1>2, <1>3
<1>5. /\ poll'.pc = "rpm" /\ poll'.at = poll.at /\ poll'.limits = limits
      /\ poll'.usage = poll.usage /\ poll'.answered = answered
  BY <1>4
<1>6. Place(cfg, poll')
  BY <1>2, <1>4, <1>5 DEF Place, Resting, Dims
<1>7. DOMAIN new = {Project} \X Dims
  OBVIOUS
<1>8. /\ DOMAIN limits = ({Project} \X Dims) \cup DOMAIN poll.limits
      /\ \A k \in DOMAIN limits : limits[k] = IF k \in DOMAIN new THEN new[k] ELSE poll.limits[k]
  <2> HIDE DEF new
  <2> QED
    BY <1>7 DEF limits, Updated
<1>9. ASSUME NEW i \in DOMAIN cfg.projects, NEW d \in Dims, LimitsRead(poll', i)
      PROVE  <<cfg.projects[i], d>> \in DOMAIN limits
  <2>1. CASE i = poll.at
    BY <1>8, <2>1 DEF Project
  <2>2. CASE i # poll.at
    <3>1. LimitsRead(poll, i)
      BY <1>5, <1>9, <2>2 DEF LimitsRead
    <3> QED
      BY <1>8, <3>1 DEF Inv, LimitsFound
  <2> QED
    BY <2>1, <2>2
<1>10. ASSUME NEW k \in DOMAIN limits
       PROVE  limits[k] = IF k \in answered
                          THEN ExtractLimits(cfg, quotaInfo[ToLower(k[1])][k[2]]) ELSE <<>>
  <2>1. CASE k \in {Project} \X Dims
    <3>1. k \in answered <=> k[2] \notin failed
      <4>1. PICK d \in Dims : k = <<Project, d>>
        BY <2>1
      <4>2. k[2] = d
        BY <4>1
      <4>3. k \in {Project} \X failed <=> d \in failed
        BY <4>1
      <4>4. k \in {Project} \X (Dims \ failed) <=> d \notin failed
        BY <4>1
      <4> QED
        BY <4>2, <4>3, <4>4 DEF answered
    <3>2. new[k] = IF k[2] \in failed THEN <<>>
                   ELSE ExtractLimits(cfg, quotaInfo[ToLower(k[1])][k[2]])
      <4>1. k[1] = Project
        BY <2>1
      <4> QED
        BY <2>1, <4>1
    <3>3. limits[k] = new[k]
      BY <1>7, <1>8, <2>1
    <3> HIDE DEF new
    <3> QED
      BY <3>1, <3>2, <3>3
  <2>2. CASE k \notin {Project} \X Dims
    <3>1. k \in DOMAIN poll.limits /\ limits[k] = poll.limits[k]
      BY <1>7, <1>8, <2>2
    <3>2. k \notin {Project} \X failed /\ k \notin {Project} \X (Dims \ failed)
      BY <2>2
    <3>3. k \in answered <=> k \in poll.answered
      BY <3>2 DEF answered
    <3> QED
      BY <3>1, <3>3 DEF Inv, LimitsFound
  <2> QED
    BY <2>1, <2>2
<1>11. LimitsFound(cfg, quotaInfo, poll')
  BY <1>5, <1>9, <1>10 DEF LimitsFound
<1>12. ASSUME NEW i, NEW d, UsageRead(poll', i, d) PROVE UsageRead(poll, i, d)
  BY <1>5, <1>12 DEF UsageRead
<1>13. UsageFound(cfg, poll', witnessed)
  <2>1. UsageFound(cfg, poll, witnessed)
    BY DEF Inv
  <2>2. ASSUME NEW i \in DOMAIN cfg.projects, NEW d \in Dims, UsageRead(poll', i, d)
        PROVE  <<cfg.projects[i], d>> \in DOMAIN poll.usage
    <3>1. UsageRead(poll, i, d)
      BY <1>12, <2>2
    <3> QED
      BY <2>1, <3>1 DEF UsageFound
  <2>3. \A k \in DOMAIN poll.usage : \E w \in witnessed :
           poll.usage[k] = UsageRecorded(w[ToLower(k[1])], k[2])
    BY <2>1 DEF UsageFound
  <2> QED
    BY <1>5, <2>2, <2>3 DEF UsageFound
<1> QED
  BY <1>6, <1>11, <1>13 DEF Reading

\* Where the poll goes on after a call for usage.
LEMMA UsageMoves ==
    ASSUME Inv, NEW d \in Dims, FetchUsageInfo(d)
    PROVE  /\ Place(cfg, poll') /\ ~Resting(poll')
           /\ poll'.limits = poll.limits /\ poll'.answered = poll.answered
           /\ poll'.usage = Updated(poll.usage, [k \in {<<Project, d>>} |->
                               UsageRecorded(usage[ToLower(Project)], d)])
           /\ \A i \in DOMAIN cfg.projects : LimitsRead(poll', i) => LimitsRead(poll, i)
           /\ \A i \in DOMAIN cfg.projects : \A e \in Dims :
                 UsageRead(poll', i, e) => UsageRead(poll, i, e) \/ (i = poll.at /\ e = d)
<1> DEFINE found == Updated(poll.usage, [k \in {<<Project, d>>} |->
                               UsageRecorded(usage[ToLower(Project)], d)])
<1>1. /\ poll = [pc |-> poll.pc, at |-> poll.at, limits |-> poll.limits,
                 usage |-> poll.usage, answered |-> poll.answered]
      /\ poll.at \in 1..Len(cfg.projects) /\ poll.pc = d
  BY DEF Inv, Place, FetchUsageInfo
<1>2. PICK n \in Nat : n = Len(cfg.projects) /\ DOMAIN cfg.projects = 1..n
  BY LoadedLists DEF Inv
<1> DEFINE pc == IF d = "rpm" THEN "tpm"
                 ELSE IF poll.at < Len(cfg.projects) THEN "limits" ELSE "assemble"
           at == IF d = "tpm" /\ poll.at < Len(cfg.projects) THEN poll.at + 1 ELSE poll.at
<1>3. poll' = [poll EXCEPT !.pc = pc, !.at = at, !.usage = found]
  BY DEF FetchUsageInfo, UsageRecorded
<1>4. \/ d = "rpm" /\ pc = "tpm" /\ at = poll.at
      \/ d = "tpm" /\ poll.at < n /\ pc = "limits" /\ at = poll.at + 1
      \/ d = "tpm" /\ poll.at = n /\ pc = "assemble" /\ at = poll.at
  <2>1. CASE d = "rpm"
    BY <2>1
  <2>2. CASE d = "tpm" /\ poll.at < n
    BY <1>2, <2>2
  <2>3. CASE d = "tpm" /\ poll.at = n
    BY <1>2, <2>3
  <2>4. (d = "rpm" \/ d = "tpm") /\ (poll.at < n \/ poll.at = n)
    BY <1>1, <1>2 DEF Dims
  <2> QED
    BY <2>1, <2>2, <2>3, <2>4
<1> HIDE DEF pc, at, found
<1>5. poll' = [pc |-> pc, at |-> at, limits |-> poll.limits, usage |-> found,
               answered |-> poll.answered]
  BY <1>1, <1>3
<1>6. /\ poll'.pc = pc /\ poll'.at = at /\ poll'.limits = poll.limits
      /\ poll'.usage = found /\ poll'.answered = poll.answered
  BY <1>5
<1>7. ~Resting(poll')
  BY <1>4, <1>6 DEF Resting
<1>8. Place(cfg, poll')
  BY <1>1, <1>2, <1>4, <1>5, <1>6, <1>7 DEF Place, Dims
<1>9. ASSUME NEW i \in DOMAIN cfg.projects
      PROVE  /\ LimitsRead(poll', i) => LimitsRead(poll, i)
             /\ \A e \in Dims :
                   UsageRead(poll', i, e) => UsageRead(poll, i, e) \/ (i = poll.at /\ e = d)
  <2>1. i \in Nat /\ poll.at \in Nat
    BY <1>1, <1>2
  <2> QED
    BY <1>1, <1>4, <1>6, <2>1 DEF LimitsRead, UsageRead, Dims
<1> QED
  BY <1>6, <1>7, <1>8, <1>9 DEF found

\* A call for usage: its answer is what Cloud Monitoring holds now.
LEMMA UsageStep ==
    ASSUME Inv, NEW d \in Dims, FetchUsageInfo(d)
    PROVE  Reading(cfg, quotaInfo, poll', witnessed)
<1> DEFINE new == [k \in {<<Project, d>>} |-> UsageRecorded(usage[ToLower(Project)], d)]
           found == Updated(poll.usage, new)
<1>1. /\ Place(cfg, poll') /\ poll'.limits = poll.limits /\ poll'.answered = poll.answered
      /\ poll'.usage = found
      /\ \A i \in DOMAIN cfg.projects : LimitsRead(poll', i) => LimitsRead(poll, i)
      /\ \A i \in DOMAIN cfg.projects : \A e \in Dims :
            UsageRead(poll', i, e) => UsageRead(poll, i, e) \/ (i = poll.at /\ e = d)
  BY UsageMoves
<1>2. LimitsFound(cfg, quotaInfo, poll')
  BY <1>1 DEF Inv, LimitsFound
<1>3. usage \in witnessed
  BY DEF Inv, Resting, FetchUsageInfo, Dims
<1>4. /\ DOMAIN new = {<<Project, d>>}
      /\ new[<<Project, d>>] = UsageRecorded(usage[ToLower(Project)], d)
  OBVIOUS
<1>5. /\ DOMAIN found = {<<Project, d>>} \cup DOMAIN poll.usage
      /\ \A k \in DOMAIN found : found[k] = IF k \in DOMAIN new THEN new[k] ELSE poll.usage[k]
  <2> HIDE DEF new
  <2> QED
    BY <1>4 DEF Updated
<1> HIDE DEF found, new
<1>6. ASSUME NEW i \in DOMAIN cfg.projects, NEW e \in Dims, UsageRead(poll', i, e)
      PROVE  <<cfg.projects[i], e>> \in DOMAIN found
  <2>1. CASE i = poll.at /\ e = d
    BY <1>5, <2>1 DEF Project
  <2>2. CASE UsageRead(poll, i, e)
    BY <1>5, <2>2 DEF Inv, UsageFound
  <2> QED
    BY <1>1, <1>6, <2>1, <2>2
<1>7. ASSUME NEW k \in DOMAIN found
      PROVE  \E w \in witnessed : found[k] = UsageRecorded(w[ToLower(k[1])], k[2])
  <2>1. CASE k = <<Project, d>>
    <3>1. found[k] = UsageRecorded(usage[ToLower(Project)], d)
      BY <1>4, <1>5, <2>1
    <3>2. k[1] = Project /\ k[2] = d
      BY <2>1
    <3> QED
      BY <1>3, <3>1, <3>2
  <2>2. CASE k # <<Project, d>>
    <3>1. k \in DOMAIN poll.usage /\ found[k] = poll.usage[k]
      BY <1>4, <1>5, <2>2
    <3> QED
      BY <3>1 DEF Inv, UsageFound
  <2> QED
    BY <2>1, <2>2
<1>8. UsageFound(cfg, poll', witnessed)
  BY <1>1, <1>6, <1>7 DEF UsageFound
<1> QED
  BY <1>1, <1>2, <1>8 DEF Reading

\* The configuration is read once; what Cloud Quotas holds is fixed.
LEMMA OneConfiguration == [Next]_vars => cfg' = cfg /\ quotaInfo' = quotaInfo
  BY DEF Next, PollStep, StartPoll, FetchQuotaInfo, FetchUsageInfo, FetchUsageFails, Panic,
         GetKeyFails, Reconcile, Stop, ChangeUsage, Ended, vars

\* Each step keeps the invariant.
LEMMA StepInv == Inv /\ [Next]_vars => Inv'
<1> SUFFICES ASSUME Inv, [Next]_vars PROVE Inv'
  OBVIOUS
<1>1. /\ Loaded(cfg) /\ quotaInfo \in QuotaInfos /\ usage \in Usages(cfg)
      /\ witnessed \in SUBSET Usages(cfg) /\ (~Resting(poll) => usage \in witnessed)
      /\ Reading(cfg, quotaInfo, poll, witnessed) /\ Saved(cfg, stored)
  BY DEF Inv, Reading
<1>2. cfg' = cfg /\ quotaInfo' = quotaInfo
  BY OneConfiguration
<1>3. ASSUME /\ usage' \in Usages(cfg) /\ witnessed' \in SUBSET Usages(cfg)
             /\ ~Resting(poll') => usage' \in witnessed'
             /\ Reading(cfg, quotaInfo, poll', witnessed') /\ Saved(cfg, stored')
      PROVE  Inv'
  BY <1>1, <1>2, <1>3 DEF Inv, Reading
<1>4. ASSUME NEW pc \in {"idle", "ended", "crashed", "limits"}, NEW seen
      PROVE  /\ Reading(cfg, quotaInfo, [Idle EXCEPT !.pc = pc], seen)
             /\ [Idle EXCEPT !.pc = pc].pc = pc
  BY <1>1, NothingRead DEF Reading, Idle
<1>5. Idle = [Idle EXCEPT !.pc = "idle"] /\ Resting(Idle)
  BY DEF Idle, Resting
<1>6. CASE StartPoll
  <2>1. /\ poll' = [Idle EXCEPT !.pc = "limits"] /\ witnessed' = {usage}
        /\ usage' = usage /\ stored' = stored
    BY <1>6 DEF StartPoll
  <2> QED
    BY <1>1, <1>3, <1>4, <2>1
<1>7. CASE FetchQuotaInfo
  <2>1. usage' = usage /\ witnessed' = witnessed /\ stored' = stored /\ ~Resting(poll)
    BY <1>7 DEF FetchQuotaInfo, Resting
  <2>2. Reading(cfg, quotaInfo, poll', witnessed')
    BY <1>7, <2>1, LimitsStep
  <2> QED
    BY <1>1, <1>3, <2>1, <2>2
<1>8. ASSUME NEW d \in Dims, FetchUsageInfo(d) PROVE Inv'
  <2>1. usage' = usage /\ witnessed' = witnessed /\ stored' = stored /\ ~Resting(poll)
    BY <1>8 DEF FetchUsageInfo, Resting, Dims
  <2>2. Reading(cfg, quotaInfo, poll', witnessed')
    BY <1>8, <2>1, UsageStep
  <2> QED
    BY <1>1, <1>3, <2>1, <2>2
<1>9. CASE FetchUsageFails \/ GetKeyFails
  <2>1. poll' = Idle /\ witnessed' = {} /\ usage' = usage /\ stored' = stored
    BY <1>9 DEF FetchUsageFails, GetKeyFails, AfterError
  <2> QED
    BY <1>1, <1>3, <1>4, <1>5, <2>1
<1>10. CASE Reconcile
  <2>1. /\ poll' = Idle /\ witnessed' = {} /\ usage' = usage /\ stored' = <<Snapshot>>
        /\ poll.pc = "assemble" /\ Keyable(cfg) /\ ~Panics(cfg)
    BY <1>10 DEF Reconcile, Snapshot
  <2>2. Saved(cfg, stored')
    BY <2>1, SnapshotIsOK DEF Saved
  <2> QED
    BY <1>1, <1>3, <1>4, <1>5, <2>1, <2>2
<1>11. CASE Stop \/ Panic
  <2>1. /\ poll' = [Idle EXCEPT !.pc = "ended"] \/ poll' = [Idle EXCEPT !.pc = "crashed"]
        /\ witnessed' \in {witnessed, {}} /\ usage' = usage /\ stored' = stored
    BY <1>11 DEF Stop, Panic
  <2>2. Resting(poll')
    BY <1>4, <2>1 DEF Resting
  <2>3. Reading(cfg, quotaInfo, poll', witnessed')
    BY <1>4, <2>1
  <2> QED
    BY <1>1, <1>3, <2>1, <2>2, <2>3
<1>12. CASE ChangeUsage
  <2>1. /\ poll' = poll /\ stored' = stored
        /\ witnessed' = IF Resting(poll) THEN {} ELSE witnessed \cup {usage'}
    BY <1>12 DEF ChangeUsage, Resting
  <2>2. usage' \in Usages(cfg)
    <3>1. PICK p \in DOMAIN usage, t \in Monitored(cfg), level \in Levels :
             usage' = [usage EXCEPT ![p][t] = level]
      BY <1>12 DEF ChangeUsage
    <3>2. level \in Nat
      BY AnswersAssumption
    <3> QED
      BY <1>1, <3>1, <3>2 DEF Usages
  <2>3. CASE Resting(poll)
    <3>1. poll = [Idle EXCEPT !.pc = poll.pc] /\ poll.pc \in {"idle", "ended", "crashed"}
      BY <1>1, <2>3 DEF Reading, Place, Resting
    <3>2. Reading(cfg, quotaInfo, poll', witnessed')
      BY <1>4, <2>1, <3>1
    <3> QED
      BY <1>1, <1>3, <2>1, <2>2, <2>3, <3>2
  <2>4. CASE ~Resting(poll)
    <3>1. Reading(cfg, quotaInfo, poll', witnessed')
      BY <1>1, <2>1, <2>4 DEF Reading, UsageFound
    <3> QED
      BY <1>1, <1>3, <2>1, <2>2, <2>4, <3>1
  <2> QED
    BY <2>3, <2>4
<1>13. CASE UNCHANGED vars
  BY <1>1, <1>3, <1>13 DEF vars
<1> QED
  BY <1>6, <1>7, <1>8, <1>9, <1>10, <1>11, <1>12, <1>13 DEF Next, PollStep, Ended

\* In every state of every behaviour: at most what was read since the poll began is in the
\* poll, and what is stored is a whole snapshot (Reconciler.Start, FetchMetrics, reconcile).
THEOREM Inductive == Spec => []Inv
  BY InitInv, StepInv, PTL DEF Spec

\* Every snapshot that is stored has a quota for each project and target that is listed
\* and an org quota for each target.  No usage in it is negative and no limit of the
\* organisation is; a negative limit of a project is one that default_project_limits
\* states, which LoadConfig does not check.
THEOREM TypeCorrect == Spec => []TypeOK
<1>1. Inv => TypeOK
  <2> SUFFICES ASSUME Inv PROVE TypeOK
    OBVIOUS
  <2>1. ASSUME NEW s \in Range(stored)
        PROVE  /\ s.org \in [Targets(cfg) -> Q!ModelQuota]
               /\ s.project \in [Projects(cfg) \X Targets(cfg) ->
                                    [Dims -> [max : Nat \cup Defaults(cfg), current : Nat]]]
    <3>1. stored # <<>>
      BY DEF Range
    <3>2. PICK x : stored = <<x>> /\ SnapshotOK(cfg, x)
      BY <3>1 DEF Inv, Saved
    <3>3. s = x
      BY <3>2 DEF Range
    <3> QED
      BY <3>2, <3>3, ModelQuotaIs DEF SnapshotOK, ProjectQuotas
  <2> QED
    BY <2>1 DEF TypeOK, Inv, Place
<1> QED
  BY <1>1, Inductive, PTL

\* Where the lists pad no region or model with spaces, every configured allowance is the
\* limit of the org quota of its target in every snapshot (LoadConfig, reconcile).  With
\* padding it is not: the run config_padding.
THEOREM AllowancesKept == Spec /\ Unpadded(cfg) => []AllowanceIsOrgQuota
<1> DEFINE U == Unpadded(cfg)
<1>1. Inv /\ U => AllowanceIsOrgQuota
  <2> SUFFICES ASSUME Inv, U, NEW s \in Range(stored) PROVE
         \A k \in DOMAIN cfg.allowances :
            k \in DOMAIN s.org /\ \A d \in Dims : s.org[k][d].max = cfg.allowances[k][d]
    BY DEF AllowanceIsOrgQuota
  <2>1. stored # <<>>
    BY DEF Range
  <2>2. PICK x : stored = <<x>> /\ SnapshotOK(cfg, x)
    BY <2>1 DEF Inv, Saved
  <2>3. s = x
    BY <2>2 DEF Range
  <2> QED
    BY <2>2, <2>3 DEF SnapshotOK
<1>2. U /\ [Next]_vars => U'
  BY OneConfiguration
<1> QED
  BY <1>1, <1>2, Inductive, PTL DEF Spec

-----------------------------------------------------------------------------
(* What a poll saves *)

\* Only reconcile saves, and it saves the snapshot of the poll.
LEMMA SavesSnapshot ==
    ASSUME [Next]_vars, Saves
    PROVE  poll.pc = "assemble" /\ Keyable(cfg) /\ stored'[1] = Snapshot
<1>1. poll.pc = "assemble" /\ poll' # poll /\ Keyable(cfg) /\ ~Panics(cfg)
  BY DEF Saves
<1>2. Reconcile
  BY <1>1 DEF Next, PollStep, StartPoll, FetchQuotaInfo, FetchUsageInfo, FetchUsageFails,
              Panic, GetKeyFails, Stop, ChangeUsage, Ended, vars, Dims
<1>3. stored' = <<Snapshot>>
  BY <1>2 DEF Reconcile, Snapshot
<1> QED
  BY <1>1, <1>3

\* The usage that a poll sums up for a project is one that the project had during the poll.
LEMMA UsageWasReal ==
    ASSUME Inv, poll.pc = "assemble", Keyable(cfg), Unpadded(cfg),
           NEW p \in Projects(cfg), NEW t \in Targets(cfg), NEW d \in Dims
    PROVE  \E w \in witnessed : UsageAt(LastSpelling(p), d, t) = w[p][t] * UsagePer[d]
<1>1. PICK w \in witnessed : poll.usage[<<LastSpelling(p), d>>] = UsageRecorded(w[p], d)
  BY UsageRead1
<1>2. w[p] \in [Monitored(cfg) -> Nat] /\ Loaded(cfg)
  BY DEF Inv, Usages
<1>3. t \in Monitored(cfg) /\ t[1] # NoName
  BY <1>2, TargetFacts
<1>4. \A u \in Monitored(cfg) : u = <<u[1], u[2]>> /\ LowerKey(<<u[1], u[2]>>) = u
  BY <1>2, MonitoredFacts
<1>5. (IF t \in DOMAIN UsageRecorded(w[p], d) THEN UsageRecorded(w[p], d)[t] ELSE 0)
         = w[p][t] * UsagePer[d]
  BY <1>2, <1>3, <1>4, UsageExact
<1>6. UsageAt(LastSpelling(p), d, t) = w[p][t] * UsagePer[d]
  BY <1>1, <1>5 DEF UsageAt
<1> QED
  BY <1>6

\* Where the lists pad no region or model with spaces, the usage in every org quota that is
\* saved is a sum of usages that each project, counted once, had during the poll: whatever
\* calls fail, however usage changes between the calls and however often and in whatever
\* spelling a project is listed (FetchMetrics, reconcile).
THEOREM SavedUsageWasTrue == Spec /\ Unpadded(cfg) => OrgUsageWasTrue
<1> DEFINE U == Unpadded(cfg)
           A == Saves =>
                  \A t \in Targets(cfg), d \in Dims :
                     \E when \in [Projects(cfg) -> witnessed] :
                        stored'[1].org[t][d].current =
                           SumFunction([p \in Projects(cfg) |-> when[p][p][t] * UsagePer[d]])
<1>1. Inv /\ U /\ [Next]_vars => A
  <2> SUFFICES ASSUME Inv, U, [Next]_vars, Saves, NEW t \in Targets(cfg), NEW d \in Dims
               PROVE  \E when \in [Projects(cfg) -> witnessed] :
                         stored'[1].org[t][d].current =
                            SumFunction([p \in Projects(cfg) |-> when[p][p][t] * UsagePer[d]])
    OBVIOUS
  <2>1. poll.pc = "assemble" /\ Keyable(cfg) /\ stored'[1] = Snapshot /\ Loaded(cfg)
    BY SavesSnapshot DEF Inv
  <2> DEFINE real(p, w) == UsageAt(LastSpelling(p), d, t) = w[p][t] * UsagePer[d]
             when == [p \in Projects(cfg) |-> CHOOSE w \in witnessed : real(p, w)]
  <2>2. \A p \in Projects(cfg) : \E w \in witnessed : real(p, w)
    BY <2>1, UsageWasReal
  <2>3. /\ when \in [Projects(cfg) -> witnessed]
        /\ \A p \in Projects(cfg) : real(p, when[p])
    <3> HIDE DEF real
    <3> QED
      BY <2>2
  <2> HIDE DEF when
  <2>4. [p \in Projects(cfg) |-> UsageAt(LastSpelling(p), d, t)]
           = [p \in Projects(cfg) |-> when[p][p][t] * UsagePer[d]]
    BY <2>3
  <2>5. stored'[1].org[t] = OrgQuota(RawQuotas, t)
    BY <2>1 DEF Snapshot
  <2>6. stored'[1].org[t][d].current =
           SumFunction([p \in Projects(cfg) |-> UsageAt(LastSpelling(p), d, t)])
    BY <2>1, <2>5, OrgParts
  <2> QED
    BY <2>3, <2>4, <2>6
<1>2. U /\ [Next]_vars => U'
  BY OneConfiguration
<1> HIDE DEF U
<1>3. Spec /\ U => [][A]_vars
  <2> HIDE DEF A
  <2> QED
    BY <1>1, <1>2, Inductive, PTL DEF Spec
<1> QED
  BY <1>3, PTL DEF OrgUsageWasTrue, U

\* The limit that is saved when a call for limits has succeeded and its answer says
\* something of the target.
LEMMA SavedLimit ==
    ASSUME Inv, poll.pc = "assemble", Keyable(cfg), NEW t \in Targets(cfg), NEW d \in Dims,
           NEW p \in Range(cfg.projects),
           NEW limit \in Range(MostSpecific(quotaInfo[ToLower(p)][d], t)),
           <<LastSpelling(p), d>> \in poll.answered
    PROVE  /\ limit > 0 => Snapshot.project[<<ToLower(p), t>>][d].max = limit
           /\ limit = UnlimitedQuota => Snapshot.project[<<ToLower(p), t>>][d].max = 0
<1> DEFINE s == LastSpelling(p)
           fallback == ResolveFallbackLimit(cfg.limits, s, t[1], t[2])
<1>1. /\ Loaded(cfg) /\ quotaInfo \in QuotaInfos
      /\ LowerKey(<<t[1], t[2]>>) = t
  BY TargetFacts DEF Inv
<1>2. ToLower(p) \in Projects(cfg) /\ LastSpelling(ToLower(p)) = s
  BY <1>1, SpellingOfName
<1> DEFINE info == quotaInfo[ToLower(p)][d]
<1>3. poll.limits[<<s, d>>] = ExtractLimits(cfg, info)
  BY <1>2, LimitsRead1
<1>4. t \in DOMAIN ExtractLimits(cfg, info) /\ ExtractLimits(cfg, info)[t] = limit
  <2>1. /\ info \in Seq([region : Name, model : Name, details : Seq(Int)])
        /\ \A j \in DOMAIN info : Len(info[j].details) <= 1
    BY <1>1, <1>2, AnswerType
  <2>2. limit \in Range(MostSpecific(info, t))
    OBVIOUS
  <2> HIDE DEF info
  <2> QED
    BY <1>1, <2>1, <2>2, ReportedLimit
<1>5. Snapshot.project[<<ToLower(p), t>>] = ProjectQuota(s, t[1], t[2])
  BY <1>1, <1>2, RawQuotasIs DEF Snapshot
<1>6. ProjectQuota(s, t[1], t[2])[d].max = ResolveLimit(poll.limits[<<s, d>>], t, fallback[1][d])
  BY <1>1 DEF ProjectQuota
<1> HIDE DEF s, fallback, info
<1> QED
  BY <1>3, <1>4, <1>5, <1>6 DEF ResolveLimit, UnlimitedQuota

\* A positive limit that Cloud Quotas reports for a project and target, by its most specific
\* entry, is the project's limit in every snapshot saved by a poll whose last call for it
\* succeeded.
THEOREM SavedLimitsAsReported == Spec => LimitsAsReported
<1> DEFINE A == Saves =>
                  \A t \in Targets(cfg), d \in Dims :
                     \A p \in Range(cfg.projects) :
                        \A limit \in Range(MostSpecific(quotaInfo[ToLower(p)][d], t)) :
                           limit > 0 /\ <<LastSpelling(p), d>> \in poll.answered =>
                              stored'[1].project[<<ToLower(p), t>>][d].max = limit
<1>1. Inv /\ [Next]_vars => A
  BY SavesSnapshot, SavedLimit
<1>2. Spec => [][A]_vars
  <2> HIDE DEF A
  <2> QED
    BY <1>1, Inductive, PTL DEF Spec
<1> QED
  BY <1>2 DEF LimitsAsReported

\* A quota without limits is not full.
LEMMA NoLimitNotFull ==
    ASSUME NEW s, NEW p, NEW t, <<p, t>> \in DOMAIN s.project, Loaded(cfg),
           \A d \in Dims : s.project[<<p, t>>][d].max = 0
    PROVE  ~Q!Full(s, p, t)
<1> DEFINE q == s.project[<<p, t>>]
<1>1. CriticalReserve(cfg) \in 0..90
  BY LoadedLists
<1>2. Q!EffectiveQuota(s, p, t) = q
  BY DEF Q!EffectiveQuota
<1>3. \A d \in Q!Dims : q[d].max = 0
  BY DEF Q!Dims, Dims
<1> HIDE DEF q
<1>4. ~Q!IsSaturated(q)
  BY <1>3 DEF Q!IsSaturated, Q!UtilizationAtLeast
<1>5. ~Q!AboveCeiling(q)
  BY <1>1, <1>3 DEF Q!AboveCeiling, Q!UtilizationAtLeast
<1> QED
  BY <1>2, <1>4, <1>5 DEF Q!Full

\* A target whose most specific entries say that it is unlimited is never found full by the
\* data plane in a snapshot saved by a poll whose last calls for it succeeded.
THEOREM SavedUnlimitedNeverFull == Spec => UnlimitedNeverFull
<1> DEFINE A == Saves =>
                  \A t \in Targets(cfg), p \in Range(cfg.projects) :
                     /\ \A d \in Dims : MostSpecific(quotaInfo[ToLower(p)][d], t) = <<UnlimitedQuota>>
                     /\ {LastSpelling(p)} \X Dims \subseteq poll.answered
                     => ~Q!Full(stored'[1], ToLower(p), t)
<1>1. Inv /\ [Next]_vars => A
  <2> SUFFICES ASSUME Inv, [Next]_vars, Saves, NEW t \in Targets(cfg),
                      NEW p \in Range(cfg.projects),
                      \A d \in Dims : MostSpecific(quotaInfo[ToLower(p)][d], t) = <<UnlimitedQuota>>,
                      {LastSpelling(p)} \X Dims \subseteq poll.answered
               PROVE  ~Q!Full(stored'[1], ToLower(p), t)
    OBVIOUS
  <2>1. poll.pc = "assemble" /\ Keyable(cfg) /\ stored'[1] = Snapshot /\ Loaded(cfg)
    BY SavesSnapshot DEF Inv
  <2>2. ASSUME NEW d \in Dims PROVE Snapshot.project[<<ToLower(p), t>>][d].max = 0
    <3>1. UnlimitedQuota \in Range(MostSpecific(quotaInfo[ToLower(p)][d], t))
      BY DEF Range
    <3>2. <<LastSpelling(p), d>> \in poll.answered
      OBVIOUS
    <3> QED
      BY <2>1, <3>1, <3>2, SavedLimit
  <2>3. <<ToLower(p), t>> \in DOMAIN Snapshot.project
    BY <2>1, RawQuotasIs, SpellingOfName DEF Snapshot
  <2> QED
    BY <2>1, <2>2, <2>3, NoLimitNotFull
<1>2. Spec => [][A]_vars
  <2> HIDE DEF A
  <2> QED
    BY <1>1, Inductive, PTL DEF Spec
<1> QED
  BY <1>2 DEF UnlimitedNeverFull
=============================================================================
