---------------------------- MODULE MCReconciler ----------------------------
(* Small configurations and Cloud Quotas answers for Reconciler.             *)
EXTENDS Reconciler, TLC

Limit(rpm, tpm) == [d \in Dims |-> IF d = "rpm" THEN rpm ELSE tpm]

\* Two projects and a model with an allowance and a default limit for its family.
TwoProjects ==
    [projects |-> <<Word("p"), Word("q")>>,
     regions |-> <<Capital("r")>>,
     models |-> <<Word("m")>>,
     interval |-> 30, timeout |-> 0, margin |-> 10,
     reserve |-> <<>>, replicas |-> <<>>, tokens |-> 0,
     allowances |-> (<<Capital("r"), Word("m")>> :> <<Limit(8, 24)>>),
     limits |-> (<<Word("flash")>> :> <<Limit(3, 9)>>),
     policies |-> <<>>]

\* One project under two spellings, and a negative default limit.
TwoSpellings ==
    [TwoProjects EXCEPT !.projects = <<Word("p"), Capital("p")>>,
                        !.models = <<Capital("m")>>,
                        !.limits = (<<Word("flash")>> :> <<Limit(-3, 9)>>)]

\* A region padded with a space.
PaddedRegion == [TwoSpellings EXCEPT !.regions = <<Padded("r")>>]

\* A null default limit of a project, alone and behind a project left blank.
NullLimit ==
    [TwoProjects EXCEPT !.projects = <<Word("p")>>,
                        !.limits = (<<Word("p"), Word("r"), Word("m")>> :> <<>>)]
BlankProject == [NullLimit EXCEPT !.projects = <<NoName, Word("p")>>]

MCRawConfigs == {TwoProjects, TwoSpellings, NullLimit, BlankProject}
MCPaddedConfigs == {PaddedRegion}

Entry(region, model, details) == [region |-> region, model |-> model, details |-> details]

Global == Entry(NoName, NoName, <<4>>)
OfRegion == Entry(Word("r"), NoName, <<5>>)
OfModel == Entry(NoName, Capital("m"), <<UnlimitedQuota>>)
OfBoth == Entry(Word("r"), Word("m"), <<6>>)
Valueless == Entry(Word("r"), Word("m"), <<>>)
Elsewhere == Entry(Word("elsewhere"), Word("m"), <<7>>)

\* Each pair of neighbours in the order of specificity, in one order for the
\* requests and in the other for the tokens, and the entries that say nothing.
MCAnswers ==
    <<Limit(<<Global, OfRegion>>, <<OfRegion, Global>>),
      Limit(<<OfRegion, OfModel>>, <<OfModel, OfRegion>>),
      Limit(<<OfModel, OfBoth>>, <<OfBoth, OfModel>>),
      Limit(<<OfModel, Valueless, Elsewhere>>, <<Valueless, Elsewhere>>)>>

\* Each of them for one project, with the next one for the others.
MCQuotaInfos ==
    {[p \in {Word("p"), Word("q"), NoName} |->
         IF p = Word("p") THEN MCAnswers[i] ELSE MCAnswers[(i % 4) + 1]] : i \in 1..4}

MCLevels == {0, 9}
MCUsagePer == Limit(1, 3)
MCFamilies == [m |-> <<Word("flash-lite"), Word("flash")>>]
=============================================================================
