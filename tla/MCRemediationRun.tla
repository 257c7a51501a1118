--------------------------- MODULE MCRemediationRun ---------------------------
(***************************************************************************)
(* RemediationRun for TLC: one plan of two actions, with or without an     *)
(* action that cannot be rolled back, and two runs that could take it.     *)
(***************************************************************************)
EXTENDS RemediationRun, TLC

CONSTANTS plan, restart, reset, purge, engineer, approver

MCActionsOf == (plan :> Action)

MCRequester == (plan :> engineer)

\* runs are interchangeable
Runs == Permutations(Run)
===============================================================================
