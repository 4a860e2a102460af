----------------------------- MODULE Admission ------------------------------
(***************************************************************************)
(* What the request path promises: every request that arrives is answered  *)
(* once, with one of the answers its priority and policy allow.  Governor  *)
(* is shown to implement this specification.                               *)
(***************************************************************************)
EXTENDS Decisions

CONSTANTS Streams, Inputs, Policies

VARIABLES
    request,    \* of each stream: the request, once there is one
    answer      \* of each stream: the decision, once it is taken

vars == <<request, answer>>

CascadeOf(in) == IF in.policy \in DOMAIN Policies THEN Policies[in.policy] ELSE <<>>

Answers(in) == {<<d>> : d \in Allowed(in.priority, CascadeOf(in))}

Init ==
    /\ request = [r \in Streams |-> <<>>]
    /\ answer = [r \in Streams |-> <<>>]

\* A request may be decided at once.
Arrive(r) ==
    /\ request[r] = <<>>
    /\ \E in \in Inputs :
          /\ request' = [request EXCEPT ![r] = <<in>>]
          /\ \E a \in {<<>>} \cup Answers(in) :
                answer' = [answer EXCEPT ![r] = a]

Answer(r) ==
    /\ request[r] # <<>> /\ answer[r] = <<>>
    /\ \E a \in Answers(request[r][1]) : answer' = [answer EXCEPT ![r] = a]
    /\ UNCHANGED request

Next == \E r \in Streams : Arrive(r) \/ Answer(r)

Spec == Init /\ [][Next]_vars /\ \A r \in Streams : WF_vars(Answer(r))
=============================================================================
