---------------------------- MODULE MCDurableJobs ----------------------------
(***************************************************************************)
(* DurableJobs for TLC: two jobs of different priority and two workers; the *)
(* configurations bound attempts, leases and delays.                       *)
(***************************************************************************)
EXTENDS DurableJobs

CONSTANTS urgent, routine

MCPriority == [j \in Job |-> IF j = urgent THEN 1 ELSE 50]
=============================================================================
