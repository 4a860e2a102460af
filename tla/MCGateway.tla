----------------------------- MODULE MCGateway ------------------------------
(* Small configurations and requests for Gateway.                            *)
EXTENDS Gateway, TLC

Limit(rpm, tpm) == [d \in Dims |-> IF d = "rpm" THEN rpm ELSE tpm]
Step(region, model) == [region |-> region, model |-> model]

\* A policy whose steps are spelled in another way than their allowances.
Base ==
    [projects |-> <<Word("p")>>,
     regions |-> <<Word("r"), Word("global")>>,
     models |-> <<Capital("m"), Word("n")>>,
     interval |-> 5, timeout |-> 60, margin |-> 0,
     reserve |-> <<>>, replicas |-> <<2>>, tokens |-> 0,
     allowances |-> (<<Padded("r"), Word("m")>> :> <<Limit(8, 0)>>)
                    @@ (<<Word("global"), Capital("n")>> :> <<Limit(0, 24)>>),
     limits |-> <<>>,
     policies |-> (Capital("chat") :> <<Step(Capital("r"), Padded("m")),
                                        Step(Word("global"), Word("n"))>>)]

\* Files that are accepted, the second with two spellings of a policy's name; and
\* files that are not: a step without allowance, two spellings of an allowance,
\* an allowance without a limit, a policy without a step or a name, a reserve
\* out of range, no projects.
MCRawConfigs ==
    {Base,
     [Base EXCEPT !.policies = (Word("chat") :> <<Step(Word("r"), Word("m"))>>) @@ @,
                  !.reserve = <<90>>],
     [Base EXCEPT !.policies = (Word("x") :> <<Step(Word("r"), Word("n"))>>)],
     [Base EXCEPT !.allowances = (<<Capital("r"), Word("m")>> :> <<Limit(1, 1)>>) @@ @],
     [Base EXCEPT !.allowances = (<<Word("r"), Word("n")>> :> <<Limit(0, 0)>>)],
     [Base EXCEPT !.policies = (Word("x") :> <<>>)],
     [Base EXCEPT !.policies = (Padded("") :> <<Step(Word("r"), Word("m"))>>)],
     [Base EXCEPT !.reserve = <<95>>],
     [Base EXCEPT !.projects = <<>>]}

Words(ids) == [i \in DOMAIN ids |-> Segment(Word(ids[i]))]
Model(word) == <<[word |-> word, method |-> <<Word("generateContent")>>]>>

\* Of other versions, the router takes those that begin with v1, in small letters.
MCApiVersions == {Word("v1"), Word("v1beta1"), Word("v1x")}

MCPaths ==
    {Words(<<"v1", "projects", "p", "locations", "r", "publishers", "google", "models">>)
        \o Model(Word("m")),
     Words(<<"v1beta1", "projects", "p", "locations", "global", "models">>)
        \o Model(Capital("m")),
     Words(<<"v1", "projects", "p", "locations", "r", "publishers", "other", "models">>)
        \o Model(Word("m")),
     Words(<<"v1x", "projects", "p", "locations", "r", "models">>) \o Model(Word("m")),
     Words(<<"v2", "projects", "p", "locations", "r", "models">>) \o Model(Word("m")),
     Words(<<"v1", "projects", "p", "locations", "r", "models", "m">>)}

Vertex(location, port) == [vertex |-> TRUE, location |-> Word(location), port |-> port]
Custom == [vertex |-> FALSE, location |-> Word("psc"), port |-> FALSE]

MCHosts == {Vertex("r", TRUE), Vertex("global", FALSE), Custom, NoHost}

\* Priority and policy; size hints; headers that the client claims.
MCClasses == {<<Capital("critical"), NoName>>, <<Word("best-effort"), Word("chat")>>,
              <<Padded("custom"), Capital("chat")>>, <<Word("custom"), Word("none")>>,
              <<NoName, NoName>>}
MCSizes == {<<<<>>, <<>>>>, <<<<1>>, <<5>>>>, <<<<>>, <<31>>>>, <<<<30>>, <<-1>>>>}
MCClaims == {{}, {"reason", "target_model", "retry_after"}}

\* Every path with every host; every class, size and claim on the first path.
MCRequests ==
    LET Request(path, host, class, size, claims) ==
            [path |-> path, query |-> <<"alt=sse">>, host |-> host,
             priority |-> class[1], policy |-> class[2],
             promptTokens |-> size[1], contentLength |-> size[2], headers |-> claims]
        path == Words(<<"v1", "projects", "p", "locations", "r", "publishers",
                        "google", "models">>) \o Model(Word("m"))
        custom == <<Padded("custom"), Capital("chat")>>
    IN {Request(p, h, custom, <<<<1>>, <<5>>>>, {"decision", "target_region"}) :
           p \in MCPaths, h \in MCHosts}
       \cup {Request(path, Vertex("r", TRUE), class, size, claims) :
               class \in MCClasses, size \in MCSizes, claims \in MCClaims}

StreamSymmetry == Permutations(Streams)
=============================================================================
