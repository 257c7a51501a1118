----------------------------- MODULE EvaluationGate -----------------------------
(***************************************************************************)
(* The evaluation gate of a release: evaluations, each under a policy, put *)
(* a gate in its place, blocked or open to review; an approver opens it    *)
(* for the evaluation run they looked at, and between the look and the     *)
(* approval the release may be evaluated again.                            *)
(*                                                                         *)
(* Scores, baselines and slices are data: what they come to is whether a   *)
(* policy finds a blocker in a run.  One release, of one tenant.           *)
(***************************************************************************)
EXTENDS Integers

CONSTANTS Evaluator,           \* people, who may have every role
          EvaluationRun,       \* candidate runs of the release
          Policy, Blocks,      \* policies, and the <<policy, run>> with a blocker
          NoRun,
          MaxEvaluations       \* bound: evaluations of the release

ASSUME GateAssumption ==
  /\ Blocks \subseteq Policy \X EvaluationRun
  /\ MaxEvaluations \in Nat
  /\ NoRun \notin Evaluator \cup EvaluationRun \cup Policy

VARIABLES gate,                \* GateStore.gates, at the release
          looked_at,           \* the run each approver looked at last
          evaluations          \* history: evaluations of the release

gateVars == <<gate, looked_at, evaluations>>

NoGate == [status |-> "absent", candidate |-> NoRun, policy |-> NoRun, approver |-> NoRun]

GateTypeOK ==
  /\ gate \in [status : {"absent", "blocked", "review", "approved"},
               candidate : EvaluationRun \cup {NoRun}, policy : Policy \cup {NoRun},
               approver : Evaluator \cup {NoRun}]
  /\ looked_at \in [Evaluator -> EvaluationRun \cup {NoRun}]
  /\ evaluations \in 0 .. MaxEvaluations

GateInit ==
  /\ gate = NoGate
  /\ looked_at = [p \in Evaluator |-> NoRun]
  /\ evaluations = 0
-----------------------------------------------------------------------------
\* evaluate, which takes the place of whatever gate the release had.
Evaluate(run, policy) ==
  /\ evaluations < MaxEvaluations
  /\ evaluations' = evaluations + 1
  /\ gate' = [status |-> IF <<policy, run>> \in Blocks THEN "blocked" ELSE "review",
              candidate |-> run, policy |-> policy, approver |-> NoRun]
  /\ UNCHANGED looked_at

LooksAt(p) ==
  /\ gate.status # "absent" /\ looked_at[p] # gate.candidate
  /\ looked_at' = [looked_at EXCEPT ![p] = gate.candidate]
  /\ UNCHANGED <<gate, evaluations>>

\* Mutant: the run that was looked at is not compared.
AnyRun(p) == looked_at[p] # NoRun

SameRun(p) == looked_at[p] = gate.candidate

ApproveGate(p) ==
  /\ gate.status = "review"
  /\ SameRun(p)
  /\ gate' = [gate EXCEPT !.status = "approved", !.approver = p]
  /\ UNCHANGED <<looked_at, evaluations>>

GateNext ==
  \/ \E run \in EvaluationRun, policy \in Policy : Evaluate(run, policy)
  \/ \E p \in Evaluator : LooksAt(p) \/ ApproveGate(p)

GateSpec == GateInit /\ [][GateNext]_gateVars
-----------------------------------------------------------------------------
\* A gate that is open was opened by someone who had looked at the run it holds, and the
\* policy it was last evaluated under does not block that run.
OpenedForItsRun ==
  gate.status = "approved" =>
    /\ looked_at[gate.approver] = gate.candidate
    /\ <<gate.policy, gate.candidate>> \notin Blocks
===============================================================================
