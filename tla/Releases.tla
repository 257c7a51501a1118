-------------------------------- MODULE Releases --------------------------------
(***************************************************************************)
(* Releases of the assistant: the bundles that authors register, others    *)
(* approve, managers roll out as canaries or in full and roll back, and an *)
(* emergency controller freezes.                                           *)
(*                                                                         *)
(* A bundle names an evaluation run, and only the length of that name is   *)
(* looked at: whether a gate was opened for it (see EvaluationGate) is     *)
(* not.  One tenant; digests are injective.                                *)
(***************************************************************************)
EXTENDS Integers, Sequences, SequencesExt

CONSTANTS Bundle, Author,      \* bundles, and who wrote each
          Engineer,            \* people, who may have every role
          Environment,
          Percent,             \* canary percentages tried, 100 among them
          NoRelease,
          MaxReleaseEvents     \* bound: events of an environment

ASSUME ReleaseAssumption ==
  /\ Author \in [Bundle -> Engineer]
  /\ Percent \subseteq 1 .. 100 /\ 100 \in Percent
  /\ MaxReleaseEvents \in Nat
  /\ NoRelease \notin Bundle

VARIABLES bundles, approved_by,   \* ReleaseStore.bundles; approved, with who (history)
          deployments             \* ReleaseStore.deployments

releaseVars == <<bundles, approved_by, deployments>>

\* What is recorded of the current state of an environment.
NoDeployment == [active |-> NoRelease, canary |-> NoRelease, percent |-> 0, frozen |-> FALSE]

ReleaseTypeOK ==
  /\ bundles \subseteq Bundle
  /\ approved_by \in [Bundle -> SUBSET Engineer]
  /\ \A e \in Environment :
       /\ deployments[e].now.active \in Bundle \cup {NoRelease}
       /\ deployments[e].now.canary \in Bundle \cup {NoRelease}
       /\ deployments[e].now.percent \in Percent \cup {0}
       /\ Len(deployments[e].events) <= MaxReleaseEvents

ReleaseInit ==
  /\ bundles = {}
  /\ approved_by = [b \in Bundle |-> {}]
  /\ deployments = [e \in Environment |-> [now |-> NoDeployment, events |-> <<>>]]
-----------------------------------------------------------------------------
Register(b) ==
  /\ b \notin bundles
  /\ bundles' = bundles \cup {b}
  /\ UNCHANGED <<approved_by, deployments>>

\* Mutant: an author may approve.
AnyEngineer(p, b) == TRUE

Independent(p, b) == p # Author[b]

ApproveBundle(p, b) ==
  /\ b \in bundles /\ Independent(p, b)
  /\ approved_by' = [approved_by EXCEPT ![b] = @ \cup {p}]
  /\ UNCHANGED <<bundles, deployments>>

Approved(b) == approved_by[b] # {}

\* _event, with the deployment it is written to.
Deploys(e, now, type, b, percent) ==
  /\ Len(deployments[e].events) < MaxReleaseEvents
  /\ deployments' = [deployments EXCEPT ![e] =
       [now |-> now,
        events |-> Append(@.events, [type |-> type, bundle |-> b, percent |-> percent,
                                     prior |-> deployments[e].now.active])]]
  /\ UNCHANGED <<bundles, approved_by>>

\* rollout: as a canary, or all of it.
Rollout(e, b, percent) ==
  LET now == deployments[e].now
  IN /\ Approved(b) /\ ~now.frozen
     /\ Deploys(e, IF percent = 100
                   THEN [now EXCEPT !.active = b, !.canary = NoRelease, !.percent = 0]
                   ELSE [now EXCEPT !.canary = b, !.percent = percent],
                "rollout", b, percent)

\* Mutant: rollback leaves the canary as it is.
RolledBackOnly(now, target) == [now EXCEPT !.active = target]

RolledBack(now, target) ==
  [now EXCEPT !.active = target, !.canary = NoRelease, !.percent = 0]

\* rollback, to any approved bundle, frozen or not.
RollbackTo(e, target) ==
  /\ Approved(target)
  /\ deployments[e].events # <<>>
  /\ Deploys(e, RolledBack(deployments[e].now, target), "rollback", target, 100)

Freeze(e) ==
  Deploys(e, [deployments[e].now EXCEPT !.frozen = TRUE], "freeze",
          deployments[e].now.active, 0)

ReleaseNext ==
  \/ \E b \in Bundle : Register(b) \/ \E p \in Engineer : ApproveBundle(p, b)
  \/ \E e \in Environment :
       \/ Freeze(e)
       \/ \E b \in Bundle : RollbackTo(e, b) \/ \E percent \in Percent : Rollout(e, b, percent)

ReleaseSpec == ReleaseInit /\ [][ReleaseNext]_releaseVars
-----------------------------------------------------------------------------
\* What the first n events make of an environment: the last of those in full is active, the
\* last canary after it is the canary, and after a freeze it is frozen.
Told(events, n) ==
  LET full   == {i \in 1 .. n : events[i].percent = 100}
      canary == {i \in 1 .. n : events[i].percent \in 1 .. 99 /\ \A j \in full : j < i}
  IN [active  |-> IF full = {} THEN NoRelease ELSE events[Max(full)].bundle,
      canary  |-> IF canary = {} THEN NoRelease ELSE events[Max(canary)].bundle,
      percent |-> IF canary = {} THEN 0 ELSE events[Max(canary)].percent,
      frozen  |-> \E i \in 1 .. n : events[i].type = "freeze"]

\* The events of an environment, read from the first, give what is deployed in it, and
\* each names what was active before it; none rolls out anything after a freeze; all that
\* is deployed was approved by someone who did not write it.
EventsExplainDeployment ==
  \A e \in Environment :
    LET d == deployments[e]
    IN /\ d.now = Told(d.events, Len(d.events))
       /\ \A n \in 1 .. Len(d.events) :
            /\ d.events[n].prior = Told(d.events, n - 1).active
            /\ d.events[n].type = "rollout" => ~Told(d.events, n - 1).frozen
       /\ \A b \in {d.now.active, d.now.canary} \ {NoRelease} :
            \E p \in approved_by[b] : p # Author[b]
===============================================================================
