------------------------------- MODULE Names --------------------------------
(***************************************************************************)
(* The names that configurations, GCP answers and requests spell: projects,*)
(* regions, models, policies, header words.  The code compares them after  *)
(* strings.ToLower and, in some places only, strings.TrimSpace, so a name  *)
(* carries whether it is spelled with capitals and whether it is padded    *)
(* with spaces.  A "/"-separated key is the sequence of its parts; the     *)
(* padding of a part is the space at that end of the key.                  *)
(***************************************************************************)
EXTENDS Integers, Sequences, Functions

\* Capitals are letters: the empty name has none.
Name == {n \in [id : STRING, upper : BOOLEAN, padded : BOOLEAN] :
            n.id = "" => ~n.upper}

Word(id) == [id |-> id, upper |-> FALSE, padded |-> FALSE]
Capital(id) == [Word(id) EXCEPT !.upper = TRUE]
Padded(id) == [Word(id) EXCEPT !.padded = TRUE]

NoName == Word("")

ToLower(n) == [n EXCEPT !.upper = FALSE]
TrimSpace(n) == [n EXCEPT !.padded = FALSE]
Normal(n) == ToLower(TrimSpace(n))
EqualFold(a, b) == ToLower(a) = ToLower(b)

LowerKey(k) == [i \in DOMAIN k |-> ToLower(k[i])]
NormalKey(k) == [i \in DOMAIN k |-> Normal(k[i])]
=============================================================================
