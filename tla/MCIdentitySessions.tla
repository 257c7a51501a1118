-------------------------- MODULE MCIdentitySessions --------------------------
(***************************************************************************)
(* IdentitySessions for TLC: at most two sessions at a time out of three,  *)
(* two handlers in flight.  The identities are interchangeable.            *)
(***************************************************************************)
EXTENDS IdentitySessions, TLC

Identities == Permutations(Session) \cup Permutations(Request)
===============================================================================
