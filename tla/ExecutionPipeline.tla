--------------------------- MODULE ExecutionPipeline ---------------------------
(***************************************************************************)
(* DeskPilotExecutionEngine: prepare an incident up to a plan that awaits  *)
(* approval, then approve_and_execute it: consume a grant of ApprovalGate, *)
(* run the mutating tool, run the verifying tool.                          *)
(*                                                                         *)
(* A call is synchronous, so one runs at a time, but each tool it awaits   *)
(* takes time and may raise, which loses the outcome and not the change.   *)
(* A prepared outcome is a value: it can be executed again, with the same  *)
(* grant, another one, or with a new one the engine issues itself.  The    *)
(* caller hands in the context, the incident and the outcome separately;   *)
(* the engine compares the tenants of the first two, and the gate the      *)
(* grant with the context and the plan.  The incident, whose device is the *)
(* one changed, is compared with neither the plan nor the grant.           *)
(***************************************************************************)
EXTENDS Integers

CONSTANTS Run,         \* RunContext and Incident of one tenant: what prepare is called with
          PlanOf,      \* fingerprint of the plan a run's outcome carries: runs may share one
          SessionOf,   \* session of a run's context
          Grant, NoGrant,
          GrantTime,   \* ttl_seconds of a grant
          ToolTime,    \* timeout_seconds of the tools
          Deadline,    \* deadline_at of the runs; the clock stops there too
          MaxChanges   \* bound: changes made

ASSUME PipelineAssumption ==
  /\ {GrantTime, ToolTime, Deadline, MaxChanges} \subseteq Nat \ {0}
  /\ NoGrant \notin Grant

VARIABLES time,
          prepared,   \* runs whose outcome awaits approval, in some caller's hands
          grants,     \* ApprovalGate._records
          call,       \* the approve_and_execute that runs: its arguments and next step
          outcome,    \* history: the states calls returned for the incident of each run
          changes     \* history: each change, on the device of a run's incident

pipelineVars == <<time, prepared, grants, call, outcome, changes>>

NoCall   == [plan |-> NoGrant, session |-> NoGrant, incident |-> NoGrant, grant |-> NoGrant,
             step |-> "none"]
NoRecord == [status |-> "absent", plan |-> NoGrant, session |-> NoGrant, expires_at |-> 0]

Plans    == {PlanOf[r] : r \in Run}
Sessions == {SessionOf[r] : r \in Run}

\* What is remembered of a change: what it was executed as, where, and on whose grant.
DeviceChange == [number : 1 .. MaxChanges, plan : Plans, session : Sessions,
                 incident : Run, grant : Grant]

PipelineTypeOK ==
  /\ time \in 0 .. Deadline
  /\ prepared \subseteq Run
  /\ DOMAIN grants = Grant
  /\ \A g \in Grant :
       /\ grants[g].status \in {"absent", "issued", "consumed"}
       /\ grants[g].expires_at \in 0 .. Deadline + GrantTime
  /\ call \in {NoCall} \cup
       [plan : Plans, session : Sessions, incident : Run, grant : Grant,
        step : {"remediating", "verifying"}]
  /\ outcome \in [Run -> SUBSET {"failed", "closed", "diagnosing"}]
  /\ changes \subseteq DeviceChange

PipelineInit ==
  /\ time = 0
  /\ prepared = {}
  /\ grants = [g \in Grant |-> NoRecord]
  /\ call = NoCall
  /\ outcome = [r \in Run |-> {}]
  /\ changes = {}

PipelineTick ==
  /\ time < Deadline
  /\ time' = time + 1
  /\ UNCHANGED <<prepared, grants, call, outcome, changes>>

\* GovernedMcpDispatcher.execute lets a tool run: the deadline leaves it time.
InTime == Deadline - time >= ToolTime

\* prepare, from intake to awaiting_approval: every checkpoint is before the deadline and
\* the diagnostic tool ran.  A prepare that raises leaves nothing.
Prepare(r) ==
  /\ call = NoCall
  /\ time < Deadline /\ InTime
  /\ prepared' = prepared \cup {r}
  /\ UNCHANGED <<time, grants, call, outcome, changes>>
-----------------------------------------------------------------------------
Issued(r, c) == [status |-> "issued", plan |-> PlanOf[r], session |-> SessionOf[c],
                 expires_at |-> time + GrantTime]

\* ApprovalGate.issue of a plan, by whoever holds a context.
Issue(r, c, g) ==
  /\ call = NoCall /\ grants[g] = NoRecord
  /\ grants' = [grants EXCEPT ![g] = Issued(r, c)]
  /\ UNCHANGED <<time, prepared, call, outcome, changes>>

\* Mutant: consume that does not mark the grant.
ConsumableAgain(r, c, k) ==
  k.status # "absent" /\ k.expires_at > time /\ k.session = SessionOf[c] /\ k.plan = PlanOf[r]

\* The checks of ApprovalGate.consume, of the record k, for the plan of r and the context of c.
Consumable(r, c, k) ==
  k.status = "issued" /\ k.expires_at > time /\ k.session = SessionOf[c] /\ k.plan = PlanOf[r]

\* approve_and_execute up to the remediation tool: the outcome prepared for r, the context of
\* c, the incident of i, and a grant handed in or issued here.
ExecuteApproved(r, c, i, g) ==
  /\ call = NoCall /\ r \in prepared
  /\ \E k \in {grants[g]} \cup (IF grants[g] = NoRecord THEN {Issued(r, c)} ELSE {}) :
       /\ Consumable(r, c, k)
       /\ grants' = [grants EXCEPT ![g] = [k EXCEPT !.status = "consumed"]]
  /\ call' = [plan |-> PlanOf[r], session |-> SessionOf[c], incident |-> i, grant |-> g,
              step |-> "remediating"]
  /\ UNCHANGED <<time, prepared, outcome, changes>>

\* The outcome returned, whose last event names the incident the call was given.
Answers(i, s) == /\ outcome' = [outcome EXCEPT ![i] = @ \cup {s}]
                 /\ call' = NoCall

Raised == call' = NoCall /\ UNCHANGED outcome

ChangesDevice == \E n \in 1 .. MaxChanges :
  /\ \A d \in changes : d.number < n
  /\ changes' = changes \cup {[number |-> n, plan |-> call.plan, session |-> call.session,
                               incident |-> call.incident, grant |-> call.grant]}

\* The mutating tool.  Without time it is not called; it may fail or its result be refused
\* after it changed the device.
Remediate ==
  /\ call.step = "remediating"
  /\ \/ ~InTime /\ Raised /\ UNCHANGED changes
     \/ /\ InTime
        /\ ChangesDevice
        /\ \/ call' = [call EXCEPT !.step = "verifying"] /\ UNCHANGED outcome
           \/ Answers(call.incident, "failed")
           \/ Raised
     \/ InTime /\ UNCHANGED changes /\ (Answers(call.incident, "failed") \/ Raised)
  /\ UNCHANGED <<time, prepared, grants>>

\* The verifying tool decides between closed and a new diagnosis, or raises.
VerifyChange ==
  /\ call.step = "verifying"
  /\ \/ InTime /\ \E s \in {"closed", "diagnosing"} : Answers(call.incident, s)
     \/ Raised
  /\ UNCHANGED <<time, prepared, grants, changes>>

PipelineNext ==
  \/ PipelineTick \/ Remediate \/ VerifyChange
  \/ \E r \in Run : Prepare(r)
  \/ \E r, c \in Run, g \in Grant : Issue(r, c, g) \/ \E i \in Run : ExecuteApproved(r, c, i, g)

PipelineSpec == PipelineInit /\ [][PipelineNext]_pipelineVars
-----------------------------------------------------------------------------
\* However often an outcome is executed again, with whichever context and incident, and
\* whichever calls raised on the way: no grant pays for two changes, and each was issued for
\* the plan that was executed and for the session it was executed in.  An incident is closed
\* only if its own device was changed.  (Nothing is said of the device the plan names: the
\* change is made on the device of the incident handed in.)
EachChangeItsGrant ==
  /\ \A d, e \in changes : d.grant = e.grant => d = e
  /\ \A d \in changes : LET k == grants[d.grant]
                         IN k.status = "consumed" /\ k.plan = d.plan /\ k.session = d.session
  /\ \A i \in Run : "closed" \in outcome[i] => \E d \in changes : d.incident = i
===============================================================================
