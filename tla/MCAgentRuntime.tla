---------------------------- MODULE MCAgentRuntime ----------------------------
(***************************************************************************)
(* AgentRuntime for TLC: an approval asked for by one engineer, and the    *)
(* consent of an employee.  The identities of commands and decisions bound *)
(* the run.                                                                *)
(***************************************************************************)
EXTENDS AgentRuntime, TLC

CONSTANTS approval, consent, engineer, approver, employee

MCKind == (approval :> "remediation_approval") @@ (consent :> "diagnostic_consent")

MCRequester == (approval :> engineer) @@ (consent :> engineer)

MCDecider == (approval :> {engineer, approver}) @@ (consent :> {employee})

\* commands, and decisions, are interchangeable
Identities == Permutations(Command) \cup Permutations(Decision)
===============================================================================
