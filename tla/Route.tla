------------------------------- MODULE Route --------------------------------
(***************************************************************************)
(* pkg/router: what a request path and host say, and the path and host a   *)
(* rerouted request is given.                                              *)
(*                                                                         *)
(* A path is the sequence of its segments.  A segment is a word; the one   *)
(* that names the model also has the method behind its last ':', if any.   *)
(* A host is a Vertex AI endpoint, of the location it serves ("global" for *)
(* the bare domain) and with or without a port, or another name.           *)
(***************************************************************************)
EXTENDS Names, FiniteSetsExt

CONSTANT ApiVersions    \* the words that begin with "v1"

ASSUME VersionAssumption == NoName \notin ApiVersions

Segment(word) == [word |-> word, method |-> <<>>]

Google == Word("google")

NoHost == [vertex |-> FALSE, location |-> NoName, port |-> FALSE]

\* The loop over the pairs of segments after the version: the last one with this
\* key, or the empty segment.
ValueOf(path, key) ==
    LET at == {i \in DOMAIN path : /\ i % 2 = 0 /\ i < Len(path)
                                   /\ path[i] = Segment(Word(key))}
    IN IF at = {} THEN Segment(NoName) ELSE path[Max(at) + 1]

\* The RouteInfo, or nothing when the request is not one the governor governs.
Parse(path, query, host) ==
    LET project == ValueOf(path, "projects").word
        region == ValueOf(path, "locations").word
        publisher == ValueOf(path, "publishers").word
        model == ValueOf(path, "models")
    IN IF /\ Len(path) >= 5
          /\ path[1].word \in ApiVersions
          /\ NoName \notin {project, region, model.word}
          /\ \E method \in Range(model.method) : method # NoName
          /\ publisher # NoName => EqualFold(publisher, Google)
       THEN <<[version |-> path[1].word,
               project |-> project,
               region |-> region,
               publisher |-> IF publisher = NoName THEN Google ELSE publisher,
               model |-> model.word,
               method |-> model.method,
               query |-> query,
               host |-> host]>>
       ELSE <<>>

OrgKey(info) == LowerKey(<<info.region, info.model>>)

-----------------------------------------------------------------------------
(* Mutate *)

\* Mutant: the region of the path is left as it is.
MutatePathKeepsRegion(info, model, region) ==
    <<Segment(info.version), Segment(Word("projects")), Segment(info.project),
      Segment(Word("locations")), Segment(info.region),
      Segment(Word("publishers")), Segment(info.publisher),
      Segment(Word("models")), [word |-> model, method |-> info.method]>>

\* The canonical path with the new model and region; the query stays.
MutatePath(info, model, region) ==
    <<Segment(info.version), Segment(Word("projects")), Segment(info.project),
      Segment(Word("locations")), Segment(region),
      Segment(Word("publishers")), Segment(info.publisher),
      Segment(Word("models")), [word |-> model, method |-> info.method]>>

HostFor(location) == [vertex |-> TRUE, location |-> ToLower(location), port |-> FALSE]

\* Mutant: the global endpoint is taken for a custom host.
MutateHostRegionalOnly(info, region) ==
    IF ~EqualFold(region, info.region) /\ info.host.vertex
       /\ info.host.location # Word("global")
    THEN HostFor(region) ELSE info.host

\* The endpoint of a new region; custom hosts, and a host without change of
\* region, are kept.
MutateHost(info, region) ==
    IF ~EqualFold(region, info.region) /\ info.host.vertex
    THEN HostFor(region) ELSE info.host
=============================================================================
