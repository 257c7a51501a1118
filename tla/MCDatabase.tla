------------------------------ MODULE MCDatabase ------------------------------
(***************************************************************************)
(* The two parts that live in PostgreSQL, side by side for TLC, which      *)
(* checks their liveness: the job queue of DurableJobs, and the requests   *)
(* of IncidentRequests.  A behaviour is about one of them.                 *)
(***************************************************************************)
EXTENDS MCDurableJobs

CONSTANTS Session, Incident, Reader, Slot, Target, Batch, i1, i2, k1, k2

VARIABLES part, incident, record, events, audit, keyLock, rowLock, auditLock,
          call, effects, replies, stream

Requests == INSTANCE IncidentRequests

requestVars == <<incident, record, events, audit, keyLock, rowLock, auditLock,
                 call, effects, replies, stream>>

\* two incidents of one tenant, one of them changed under two keys: sessions meet at the
\* keys, at the row of i1 and at the audit chain, and each wants all three
TwoIncidents == {<<"create", None, k1>>, <<"create", None, k2>>,
                 <<"transition", i1, k1>>, <<"transition", i1, k2>>, <<"transition", i2, k1>>}

DatabaseInit == part \in {"jobs", "requests"} /\ Init /\ Requests!Init

DatabaseNext ==
  /\ UNCHANGED part
  /\ IF part = "jobs"     THEN Next          ELSE UNCHANGED vars
  /\ IF part = "requests" THEN Requests!Next ELSE UNCHANGED requestVars

\* The fairness of each part, in the behaviours that are about it.
DatabaseFairness ==
  /\ WF_vars(part = "jobs" /\ Tick)
  /\ \A w \in Worker : /\ WF_vars(part = "jobs" /\ ClaimSelect(w))
                       /\ SF_vars(part = "jobs" /\ ClaimCommit(w))
  /\ \A j \in Job : WF_vars(part = "jobs" /\ Verdict(j))
  /\ \A s \in Session : SF_requestVars(part = "requests" /\ Requests!Serve(s))

DatabaseSpec == DatabaseInit /\ [][DatabaseNext]_<<part, vars, requestVars>> /\ DatabaseFairness
-----------------------------------------------------------------------------
\* The audit chain of the incident requests has no fork and no gap (append_audit_event).
AuditChain == Requests!AuditChain

\* No incident request waits for ever for a lock (the order of the locks in transition).
EveryCallEnds == Requests!EveryCallEnds
===============================================================================
