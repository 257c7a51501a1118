---------------------------- MODULE RemediationRun ----------------------------
(***************************************************************************)
(* A remediation plan from its review to the end of its execution: the     *)
(* ReviewStore that people decide in, the capability token minted for an   *)
(* approved plan, the authorisation of each dispatch, and the              *)
(* ExecutionStore that takes what is reported and says what comes next.    *)
(*                                                                         *)
(* The endpoint that carries actions out is not part of the code: it       *)
(* answers within the deadline of a dispatch or is taken to have timed     *)
(* out, its answer may still arrive after that, and every report may       *)
(* arrive late, again, or after others, so reports stay in "reports".      *)
(* An action stands for its typed capability, and digests are injective.   *)
(***************************************************************************)
EXTENDS Integers, FiniteSets

CONSTANTS Plan, Run, Action, Person, None,
          ActionsOf,    \* the actions of each plan
          Reversible,   \* the actions that have a rollback capability
          Requester,    \* who submits each plan
          Approver,     \* the persons with the role approver or change_manager
          MaxMints      \* bound: tokens minted

ASSUME PlanAssumption ==
  /\ ActionsOf \in [Plan -> (SUBSET Action) \ {{}}]
  /\ Reversible \subseteq Action
  /\ Requester \in [Plan -> Person]
  /\ Approver \subseteq Person
  /\ None \notin Person \cup Plan
  /\ MaxMints \in Nat

VARIABLES review,        \* ReviewStore.rows
          tokens,        \* the capability tokens minted
          expired,       \* those past their expires_at
          run,           \* ExecutionStore.runs
          used_tokens,
          reports,       \* the results and rollback reports written so far
          device         \* the <<run, action>> whose effect is on the device

vars == <<review, tokens, expired, run, used_tokens, reports, device>>

storeVars == <<run, used_tokens>>

ReviewTERMINAL == {"approved", "rejected", "expired", "superseded"}

TERMINAL == {"verified", "rolled_back", "human_recovery", "cancelled"}

NoReview == [status |-> "absent", actor |-> None]
NoRun    == [status |-> "absent", plan |-> None, token |-> None, actions |-> {},
             repeated |-> FALSE, results |-> <<>>, undone |-> <<>>, checks |-> {}, employee |-> None]

Result   == {"succeeded", "failed", "partial", "timeout"}

TypeOK ==
  /\ \A p \in Plan : /\ review[p].status \in {"absent", "pending"} \cup ReviewTERMINAL
                     /\ review[p].actor # None <=> review[p].status \in {"approved", "rejected"}
  /\ \A r \in Run : /\ run[r].status \in {"absent", "running", "verifying", "rolling_back"} \cup TERMINAL
                    /\ run[r].status # "absent" => run[r].actions # {}
                    /\ run[r].repeated \in BOOLEAN
                    /\ DOMAIN run[r].results \subseteq run[r].actions
                    /\ DOMAIN run[r].undone \subseteq DOMAIN run[r].results
  /\ device \subseteq Run \X Action

Init ==
  /\ review = [p \in Plan |-> NoReview]
  /\ tokens = {} /\ expired = {}
  /\ run = [r \in Run |-> NoRun]
  /\ used_tokens = {}
  /\ reports = {}
  /\ device = {}
-----------------------------------------------------------------------------
Submit(p) ==
  /\ review[p].status = "absent"
  /\ review' = [review EXCEPT ![p].status = "pending"]
  /\ UNCHANGED <<tokens, expired, storeVars, reports, device>>

\* Mutant: decide that only looks for the plan, not whether it was decided.
UndecidedAlways(p) == review[p].status # "absent"

Undecided(p) == review[p].status # "absent" /\ review[p].status \notin ReviewTERMINAL

\* decide, of a decision not seen before; a repeat is answered and changes nothing.  One
\* dated after the plan's expiry finds the review expired.
Decide(p, who) ==
  /\ Undecided(p)
  /\ who \in Approver /\ who # Requester[p]
  /\ \/ \E outcome \in {"approved", "rejected"} :
          review' = [review EXCEPT ![p] = [status |-> outcome, actor |-> who]]
     \/ review' = [review EXCEPT ![p].status = "expired"]
  /\ UNCHANGED <<tokens, expired, storeVars, reports, device>>

\* Mutant: an identity for each token instead of one for each approval.
TokenIdPerMint(p, n) == <<p, review[p].actor, n>>

\* token_id is computed from the plan and the decision that approved it.
TokenId(p, n) == <<p, review[p].actor>>

\* mint_capability_token, which may be asked again, as after a lost answer or an expiry.
Mint(p) ==
  LET n == Cardinality(tokens) + 1
  IN /\ n <= MaxMints
     /\ review[p].status = "approved"
     /\ tokens' = tokens \cup {[n |-> n, id |-> TokenId(p, n), plan |-> p]}
     /\ UNCHANGED <<review, expired, storeVars, reports, device>>

ExpireToken(t) ==
  /\ t \in tokens \ expired
  /\ expired' = expired \cup {t}
  /\ UNCHANGED <<review, tokens, storeVars, reports, device>>
-----------------------------------------------------------------------------
\* start.  The caller lists the actions; each must be within the token's capabilities, and
\* nothing keeps a list from naming the same action_id more than once.
Start(r, t) ==
  /\ run[r].status = "absent"
  /\ t.id \notin used_tokens
  /\ \E actions \in (SUBSET ActionsOf[t.plan]) \ {{}}, repeated \in BOOLEAN :
       run' = [run EXCEPT ![r] =
         [status |-> "running", plan |-> t.plan, token |-> t.id, actions |-> actions,
          repeated |-> repeated, results |-> <<>>, undone |-> <<>>, checks |-> {}, employee |-> None]]
  /\ used_tokens' = used_tokens \cup {t.id}
  /\ UNCHANGED <<review, tokens, expired, reports, device>>

Report(r, a, status) == [run |-> r, action |-> a, status |-> status]

Answered(r, a) == \E m \in reports : m.run = r /\ m.action = a /\ m.status \in Result

\* authorize_dispatch admits an action under a token that is not over, and the endpoint
\* carries it out, or part of it, or nothing.
Dispatch(r, a) ==
  /\ run[r].status = "running" /\ a \in run[r].actions
  /\ ~Answered(r, a)
  /\ \E t \in tokens \ expired : t.id = run[r].token
  /\ \E status \in Result, applied \in BOOLEAN :
       /\ status = "succeeded" => applied
       /\ status = "failed" => ~applied
       /\ device' = IF applied THEN device \cup {<<r, a>>} ELSE device
       /\ reports' = reports \cup {Report(r, a, status)}
  /\ UNCHANGED <<review, tokens, expired, storeVars>>

\* The answer does not come in time, and a timeout is reported for the action.
TimeOut(r, a) ==
  /\ Answered(r, a)
  /\ reports' = reports \cup {Report(r, a, "timeout")}
  /\ UNCHANGED <<review, tokens, expired, storeVars, device>>

\* An action that is not dispatched, its token being over or another action having
\* failed, is reported as failed: the store goes on only when every action is reported.
GiveUp(r, a) ==
  /\ run[r].status = "running" /\ a \in run[r].actions
  /\ ~Answered(r, a)
  /\ reports' = reports \cup {Report(r, a, "failed")}
  /\ UNCHANGED <<review, tokens, expired, storeVars, device>>

Extend(f, x, v) == [y \in DOMAIN f \cup {x} |-> IF y = x THEN v ELSE f[y]]

Failed(r) == {a \in DOMAIN run[r].results : run[r].results[a] # "succeeded"}

\* Mutants: a run is taken to have succeeded when any of its actions did; a later report
\* of an action replaces the earlier one.
OneSucceeded(results) == \E a \in DOMAIN results : results[a] = "succeeded"

ReportedAgain(r, a) == a \in run[r].actions

AllSucceeded(results) == \A a \in DOMAIN results : results[a] = "succeeded"

Unreported(r, a) == a \in run[r].actions \ DOMAIN run[r].results

\* As many results as listed actions: results are held by action_id, so a list that
\* repeats one is longer than the results ever are.
Complete(actions, repeated, results) == DOMAIN results = actions /\ ~repeated

\* Where record takes a run from its results.
After(actions, repeated, results) ==
  IF ~Complete(actions, repeated, results) THEN "running"
  ELSE IF AllSucceeded(results) THEN "verifying"
  ELSE IF {a \in actions : results[a] # "succeeded"} \subseteq Reversible
  THEN "rolling_back" ELSE "human_recovery"

Record(m) ==
  LET r == m.run
      results == Extend(run[r].results, m.action, m.status)
  IN /\ m.status \in Result
     /\ run[r].status \notin TERMINAL
     /\ Unreported(r, m.action)
     /\ run' = [run EXCEPT ![r].results = results,
                           ![r].status = After(run[r].actions, run[r].repeated, results)]
     /\ UNCHANGED <<review, tokens, expired, used_tokens, reports, device>>
-----------------------------------------------------------------------------
\* The endpoint undoes an action, or fails to, and says which.
Undo(r, a) ==
  /\ run[r].status = "rolling_back" /\ a \in Failed(r)
  /\ \/ /\ device' = device \ {<<r, a>>}
        /\ reports' = reports \cup {Report(r, a, "undone")}
     \/ /\ reports' = reports \cup {Report(r, a, "not_undone")}
        /\ UNCHANGED device
  /\ UNCHANGED <<review, tokens, expired, storeVars>>

\* Mutant: one verified rollback is enough.
SomeUndone(undone) == \E a \in DOMAIN undone : undone[a]

AllUndone(undone) == \A a \in DOMAIN undone : undone[a]

\* Mutant: rollback that waits for word on every action.
EveryAction(r) == run[r].actions

ToUndo(r) == Failed(r)

\* rollback, with what is said of one action; a later word on it replaces the earlier.
Rollback(m) ==
  LET r == m.run
      undone == Extend(run[r].undone, m.action, m.status = "undone")
  IN /\ m.status \in {"undone", "not_undone"}
     /\ run[r].status = "rolling_back"
     /\ m.action \in Failed(r)
     /\ run' = [run EXCEPT ![r].undone = undone,
                           ![r].status = IF DOMAIN undone # ToUndo(r) THEN @
                                         ELSE IF AllUndone(undone) THEN "rolled_back"
                                         ELSE "human_recovery"]
     /\ UNCHANGED <<review, tokens, expired, used_tokens, reports, device>>

\* verify, with a check for each action of the run, and what the employee says.
Verify(r) ==
  /\ run[r].status = "verifying"
  /\ \E passed \in SUBSET run[r].actions, employee \in {"fixed", "not_fixed"} :
       run' = [run EXCEPT ![r].checks = passed, ![r].employee = employee,
                          ![r].status = IF passed = run[r].actions /\ employee = "fixed"
                                        THEN "verified" ELSE "human_recovery"]
  /\ UNCHANGED <<review, tokens, expired, used_tokens, reports, device>>
-----------------------------------------------------------------------------
Next ==
  \/ \E p \in Plan : Submit(p) \/ Mint(p)
  \/ \E p \in Plan, who \in Person : Decide(p, who)
  \/ \E t \in tokens : ExpireToken(t)
  \/ \E r \in Run, t \in tokens : Start(r, t)
  \/ \E r \in Run, a \in Action : \/ Dispatch(r, a) \/ TimeOut(r, a) \/ GiveUp(r, a)
                                  \/ Undo(r, a)
  \/ \E m \in reports : Record(m) \/ Rollback(m)
  \/ \E r \in Run : Verify(r)

Spec == Init /\ [][Next]_vars

\* The coordinator of a run goes on until every action is reported, every failed one has
\* been tried to be undone, and the employee has been asked.
FairSpec ==
  /\ Spec
  /\ \A r \in Run, a \in Action :
       /\ WF_vars(Dispatch(r, a) \/ GiveUp(r, a))
       /\ WF_vars(\E m \in reports : m.run = r /\ m.action = a /\ Record(m))
       /\ WF_vars(Undo(r, a))
       /\ WF_vars(\E m \in reports : m.run = r /\ m.action = a /\ Rollback(m))
  /\ \A r \in Run : WF_vars(Verify(r))
-----------------------------------------------------------------------------
\* An approval is spent once: however often its token is minted, lost or let expire, no
\* two runs carry out the same plan.  And what runs stands approved, by someone other than
\* who asked for it: no second decision takes the approval back under the run.
RunsStandApproved ==
  \A r \in Run : run[r].status # "absent" =>
    LET p == run[r].plan
    IN /\ review[p].status = "approved" /\ review[p].actor # Requester[p]
       /\ \A q \in Run : run[q].plan = p => q = r

\* A report, once taken, stands: a late answer does not replace the timeout that was
\* acted on, and a run that has ended stays as it ended.
ReportsStand ==
  [][\A r \in Run :
       /\ \A a \in DOMAIN run[r].results :
            a \in DOMAIN run'[r].results /\ run'[r].results[a] = run[r].results[a]
       /\ run[r].status \in TERMINAL => run'[r] = run[r]]_vars

\* What a run says at its end is so on the device: rolled back, no effect of a failed
\* action is left; verified, each of its actions is in place, none was undone, and the
\* employee has confirmed it.
EndsAsItSays ==
  \A r \in Run :
    /\ run[r].status = "rolled_back" => \A a \in Failed(r) : <<r, a>> \notin device
    /\ run[r].status = "verified" => /\ \A a \in run[r].actions : <<r, a>> \in device
                                     /\ run[r].employee = "fixed"

\* Every run of distinct actions comes to an end, whatever their outcomes and whenever its
\* token expires: the counts of results and of rollbacks it waits for are reached.  A run
\* started with a repeated action_id is not promised an end and has none: it takes a result
\* of each action_id and stays running.
EveryRunEnds ==
  \A r \in Run :
    run[r].status = "running" /\ ~run[r].repeated ~> run[r].status \in TERMINAL

\* "Resolution requires every plan-defined regression check": a verified run passed the
\* check of every action of its plan.
ResolutionNeedsEveryCheck ==
  \A r \in Run : run[r].status = "verified" => run[r].checks = ActionsOf[run[r].plan]
===============================================================================
