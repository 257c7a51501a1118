-------------------------- MODULE MCIncidentRequests --------------------------
(***************************************************************************)
(* IncidentRequests for TLC.  The scopes bound the run: a key is spent     *)
(* once, so an incident has at most as many versions as there are scopes   *)
(* that change it.                                                         *)
(***************************************************************************)
EXTENDS IncidentRequests, TLC

CONSTANTS i1, i2, k1, k2

\* one incident: an edit and two transitions race; a client that lost a reply, or the
\* race, sends its request again
OneIncident == {<<"create", None, k1>>, <<"update", i1, k1>>,
                <<"transition", i1, k1>>, <<"transition", i1, k2>>}

\* the executions of requests are interchangeable
Executions == Permutations(Session)
===============================================================================
