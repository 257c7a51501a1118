----------------------------- MODULE SupportGraph -----------------------------
(***************************************************************************)
(* The AI service's conversation graph: build_supervisor_graph with the    *)
(* nodes its sibling modules are written for.  A node returns the update   *)
(* its module's handoff computes, then route_supervisor picks the next     *)
(* node from the state, or raises.  Three nodes pause on interrupt() and   *)
(* are resumed with an envelope that validate_resume made of a decision.   *)
(*                                                                         *)
(* The caller of the graph, who is not in the repository, greets, attaches *)
(* the interrupt requests, mints capability tokens while an approval       *)
(* stands and may send a validated envelope more than once.                *)
(***************************************************************************)
EXTENDS Integers

CONSTANTS Plan,       \* remediation plans, by their provenance digest
          NoPlan,
          MaxRounds,  \* clarification rounds
          MaxAsk      \* bound: interrupt requests raised in one run

ASSUME SupportAssumption == MaxRounds \in Nat /\ MaxAsk \in Nat \ {0} /\ NoPlan \notin Plan

VARIABLES state,      \* DeskPilotState, the fields the routes and handoffs read
          node,       \* the node that runs next, "__end__", or "raised"
          ask,        \* pending_interrupt
          asked,      \* checkpoints that held a request so far: request ids count them
          envelope,   \* validated envelopes: what decide made of the requests, by id
          change,     \* history: the change sent to the device last
          built,      \* history: the plan in the state was built "before" the standing
                      \* approval was given, or "since"
          checked     \* history: the last change passed technical verification

supportVars == <<state, node, ask, asked, envelope, change, built, checked>>

TERMINAL_PHASES == {"resolved", "escalated", "cancelled"}

DECISIONS == [diagnostic_consent    |-> {"granted", "declined"},
              remediation_approval  |-> {"approved", "rejected"},
              employee_confirmation |-> {"confirmed", "not_fixed"}]

Ask(kind, plan) == [kind |-> kind, id |-> asked + 1, plan |-> plan, expired |-> FALSE]
NoAsk           == [kind |-> "none", id |-> 0, plan |-> NoPlan, expired |-> FALSE]
NoEnvelope      == [decision |-> "none", plan |-> NoPlan]
NoChange        == [plan |-> NoPlan, grant |-> 0, asked |-> 0, built |-> "before"]
Request         == 1 .. MaxAsk

SupportTypeOK ==
  /\ state \in [phase : TERMINAL_PHASES \cup {"greeting", "intake", "clarification",
                   "classification", "consent", "diagnosis", "evidence_fusion",
                   "remediation_planning", "approval", "execution", "verification",
                   "confirmation"},
                supported : BOOLEAN,
                consent : {"not_requested", "pending", "granted", "declined"},
                approval : {"not_required", "pending", "approved", "rejected"},
                grant : 0 .. MaxAsk,
                plan : Plan \cup {NoPlan}, token : Plan \cup {NoPlan},
                rounds : 0 .. MaxRounds,
                final : TERMINAL_PHASES \cup {"none"}]
  /\ ask \in [kind : DOMAIN DECISIONS \cup {"none"}, id : 0 .. MaxAsk,
              plan : Plan \cup {NoPlan}, expired : BOOLEAN]
  /\ asked \in 0 .. MaxAsk
  /\ envelope \in [Request -> [decision : {"none"} \cup UNION {DECISIONS[k] : k \in DOMAIN DECISIONS},
                               plan : Plan \cup {NoPlan}]]
  /\ change \in [plan : Plan, grant : Request, asked : Request, built : {"before", "since"}]
               \cup {NoChange}
  /\ built \in {"before", "since"} /\ checked \in BOOLEAN

\* new_state; the first edge of the graph leads to greet.
SupportInit ==
  /\ state = [phase |-> "greeting", supported |-> FALSE, consent |-> "not_requested",
              approval |-> "not_required", grant |-> 0, plan |-> NoPlan, token |-> NoPlan,
              rounds |-> 0, final |-> "none"]
  /\ node = "greet"
  /\ ask = NoAsk
  /\ asked = 0
  /\ envelope = [i \in Request |-> NoEnvelope]
  /\ change = NoChange
  /\ built = "before" /\ checked = FALSE
-----------------------------------------------------------------------------
\* validate_state, of what the handoffs can break.
Valid(s) ==
  /\ s.phase = "execution" => s.approval \in {"approved", "not_required"}
  /\ s.phase \in TERMINAL_PHASES => s.final = s.phase

\* The phases that lead to one node whatever else the state holds.
NodeOf == [greeting |-> "greet", intake |-> "intake", clarification |-> "clarify",
           evidence_fusion |-> "fuse_evidence", remediation_planning |-> "plan_remediation",
           verification |-> "verify", confirmation |-> "employee_confirmation_interrupt"]

\* route_supervisor.  No node takes from the step budget, so it is never found used up.
Route(s) ==
  IF ~Valid(s) THEN "raised"
  ELSE CASE s.phase \in TERMINAL_PHASES -> "__end__"
         [] s.phase \in DOMAIN NodeOf   -> NodeOf[s.phase]
         [] s.phase = "classification"  -> IF s.supported THEN "request_consent" ELSE "escalate"
         [] s.phase = "consent" ->
              CASE s.consent = "granted"  -> "diagnose"
                [] s.consent = "declined" -> "cancel"
                [] OTHER                  -> "diagnostic_consent_interrupt"
         [] s.phase = "diagnosis" -> IF s.consent = "granted" THEN "diagnose" ELSE "escalate"
         [] s.phase = "approval" ->
              CASE s.approval \in {"approved", "not_required"} -> "execute"
                [] s.approval = "rejected"                     -> "escalate"
                [] OTHER                                       -> "remediation_approval_interrupt"
         [] s.phase = "execution" -> IF s.token = NoPlan THEN "escalate" ELSE "execute"

\* A node returns: its update is merged and the conditional edge is taken.
Returns(s) == state' = s /\ node' = Route(s)

ToPhase(p) == [state EXCEPT !.phase = p]

\* The handoffs that set final_status with an escalation, and those that do not.
Ends(p)    == [state EXCEPT !.phase = p, !.final = p]

\* The caller's node attaches a request for the human the next phase waits for.
Raises(kind, plan) == asked < MaxAsk /\ ask' = Ask(kind, plan) /\ asked' = asked + 1
-----------------------------------------------------------------------------
Greet ==
  /\ node = "greet"
  /\ state' = ToPhase("intake") /\ node' = "intake"
  /\ UNCHANGED <<ask, asked, envelope, change, built, checked>>

\* The domain select_domain_route finds: one dominant domain, or none, or several, and
\* route_update then writes "unknown".
Classified(s) == {[s EXCEPT !.supported = d] : d \in BOOLEAN}

\* intake_state_update.
Intake ==
  /\ node = "intake"
  /\ \/ Returns(ToPhase("clarification"))
     \/ \E s \in Classified(ToPhase("classification")) : Returns(s)
  /\ UNCHANGED <<ask, asked, envelope, change, built, checked>>

\* plan_clarification: nothing open, too many rounds, or one more round.
Clarify ==
  /\ node = "clarify"
  /\ \/ \E s \in Classified(ToPhase("classification")) : Returns(s)
     \/ state.rounds >= MaxRounds /\ Returns(Ends("escalated"))
     \/ state.rounds < MaxRounds /\ Returns([state EXCEPT !.rounds = @ + 1])
  /\ UNCHANGED <<ask, asked, envelope, change, built, checked>>

\* A consent that was granted is kept, or asked for again.
RequestConsent ==
  /\ node = "request_consent"
  /\ \/ /\ state.consent = "granted" /\ Returns(ToPhase("consent"))
        /\ UNCHANGED <<ask, asked>>
     \/ /\ Returns([ToPhase("consent") EXCEPT !.consent = "pending"])
        /\ Raises("diagnostic_consent", NoPlan)
  /\ UNCHANGED <<envelope, change, built, checked>>

\* The specialists' supervisor_handoff and the fan-out's: both say when they end the run.
Diagnose ==
  /\ node = "diagnose"
  /\ \/ \E p \in {"evidence_fusion", "clarification"} : Returns(ToPhase(p))
     \/ Returns(Ends("escalated"))
  /\ UNCHANGED <<ask, asked, envelope, change, built, checked>>

\* fuse_evidence; contradictory evidence escalates and leaves final_status alone.
FuseEvidence ==
  /\ node = "fuse_evidence"
  /\ \E p \in {"remediation_planning", "clarification", "escalated"} : Returns(ToPhase(p))
  /\ UNCHANGED <<ask, asked, envelope, change, built, checked>>

\* build_plan, then review_plan: revise, escalate, or pass.  Of a passed plan the caller
\* asks for approval, or leaves the approval status it has.
PlanRemediation ==
  /\ node = "plan_remediation"
  /\ \E p \in Plan :
       LET planned(phase) == [ToPhase(phase) EXCEPT !.plan = p]
       IN \/ /\ \E phase \in {"remediation_planning", "escalated", "approval"} :
                  Returns(planned(phase))
             /\ UNCHANGED <<ask, asked>>
          \/ /\ Returns([planned("approval") EXCEPT !.approval = "pending"])
             /\ Raises("remediation_approval", p)
  /\ built' = "since"
  /\ UNCHANGED <<envelope, change, checked>>
-----------------------------------------------------------------------------
\* validate_resume of the pending request, before it expires: a decision of its kind, and
\* no other decision on record for it (DecisionConflict).
Decide(decision) ==
  /\ ask # NoAsk /\ ~ask.expired
  /\ decision \in DECISIONS[ask.kind]
  /\ envelope[ask.id] = NoEnvelope
  /\ envelope' = [envelope EXCEPT ![ask.id] = [decision |-> decision, plan |-> ask.plan]]
  /\ UNCHANGED <<state, node, ask, asked, change, built, checked>>

Expire ==
  /\ ask # NoAsk /\ ~ask.expired
  /\ ask' = [ask EXCEPT !.expired = TRUE]
  /\ UNCHANGED <<state, node, asked, envelope, change, built, checked>>

\* Mutant: _interrupt without the comparison of request ids.
AcceptsAnyOf(kind, i) == ask.kind = kind /\ envelope[i].decision \in DECISIONS[kind]

\* _interrupt: any envelope may be sent, the node takes the one made for its request.
Accepts(kind, i) ==
  ask.kind = kind /\ ask.id = i /\ envelope[i].decision \in DECISIONS[kind]

\* diagnostic_consent_interrupt_node.
ConsentResumed(i) ==
  /\ node = "diagnostic_consent_interrupt"
  /\ Accepts("diagnostic_consent", i)
  /\ IF envelope[i].decision = "granted"
     THEN Returns([ToPhase("diagnosis") EXCEPT !.consent = "granted"])
     ELSE Returns([ToPhase("cancelled") EXCEPT !.consent = "declined"])
  /\ ask' = NoAsk
  /\ UNCHANGED <<asked, envelope, change, built, checked>>

\* remediation_approval_interrupt_node; with an approval the caller may mint a token
\* (mint_capability_token), for whichever plan it hands in.
ApprovalResumed(i) ==
  /\ node = "remediation_approval_interrupt"
  /\ Accepts("remediation_approval", i)
  /\ IF envelope[i].decision = "approved"
     THEN /\ \E t \in {state.token} \cup Plan :
               Returns([ToPhase("execution") EXCEPT !.approval = "approved", !.grant = i,
                                                    !.token = t])
          /\ built' = "before"
     ELSE /\ Returns([ToPhase("escalated") EXCEPT !.approval = "rejected", !.grant = i])
          /\ UNCHANGED built
  /\ ask' = NoAsk
  /\ UNCHANGED <<asked, envelope, change, checked>>

\* employee_confirmation_interrupt_node.
ConfirmationResumed(i) ==
  /\ node = "employee_confirmation_interrupt"
  /\ Accepts("employee_confirmation", i)
  /\ Returns(Ends(IF envelope[i].decision = "confirmed" THEN "resolved" ELSE "escalated"))
  /\ ask' = NoAsk
  /\ UNCHANGED <<asked, envelope, change, built, checked>>
-----------------------------------------------------------------------------
\* The plans of the tokens a dispatch can be made under: that of the one in the state, or,
\* while an approval stands, any: the caller hands mint_capability_token the approval's
\* status and a plan, which is compared with nothing, since neither the envelope nor the
\* approval in the state names a plan.
TokenFor == ({state.token} \ {NoPlan}) \cup IF state.approval = "approved" THEN Plan ELSE {}

\* authorize_dispatch: a token of this plan.
MayDispatch == state.plan \in TokenFor

\* The dispatch is denied, for want of a token of this plan that has not expired, and the
\* node raises; or the change is sent and route_result hands on, to verification, to a
\* rollback under the same token, or to people.
Execute ==
  /\ node = "execute"
  /\ \/ node' = "raised" /\ UNCHANGED <<state, change, checked>>
     \/ /\ MayDispatch
        /\ change' = [plan |-> state.plan, grant |-> state.grant, asked |-> asked, built |-> built]
        /\ checked' = FALSE
        /\ \E p \in {"verification", "execution", "escalated"} :
             Returns([ToPhase(p) EXCEPT !.token = state.plan])
  /\ UNCHANGED <<ask, asked, envelope, built>>

\* Mutant: checks that end without a verdict are taken for a pass.
RoutesLenient == {<<"confirmation", TRUE>>, <<"confirmation", FALSE>>, <<"execution", FALSE>>,
                  <<"diagnosis", FALSE>>, <<"escalated", FALSE>>}

\* evaluate and its handoff: <<phase, whether every check passed>>.
VerifyRoutes == {<<"confirmation", TRUE>>, <<"execution", FALSE>>, <<"diagnosis", FALSE>>,
                 <<"escalated", FALSE>>}

Verify ==
  /\ node = "verify"
  /\ \E r \in VerifyRoutes :
       /\ Returns(ToPhase(r[1]))
       /\ checked' = r[2]
       /\ IF r[1] = "confirmation" THEN Raises("employee_confirmation", NoPlan)
                                   ELSE UNCHANGED <<ask, asked>>
  /\ UNCHANGED <<envelope, change, built>>

\* The escalate node returns terminal_update, and the graph ends.
Escalate ==
  /\ node = "escalate"
  /\ state' = Ends("escalated") /\ node' = "__end__" /\ ask' = NoAsk
  /\ UNCHANGED <<asked, envelope, change, built, checked>>

SupportNext ==
  \/ Greet \/ Intake \/ Clarify \/ RequestConsent \/ Diagnose \/ FuseEvidence
  \/ PlanRemediation \/ Execute \/ Verify \/ Escalate \/ Expire
  \/ \E k \in DOMAIN DECISIONS : \E d \in DECISIONS[k] : Decide(d)
  \/ \E i \in Request : ConsentResumed(i) \/ ApprovalResumed(i) \/ ConfirmationResumed(i)

SupportSpec == SupportInit /\ [][SupportNext]_supportVars
-----------------------------------------------------------------------------
\* No change goes out over a "no" or over a question still open: through new plans,
\* approvals and tokens kept from earlier ones and envelopes sent again, every request
\* raised before a change was answered, and with a yes; the approval it goes out under is
\* the last one given; and it is of the plan that approval was asked for, unless a plan was
\* built since then, which the graph executes under the standing approval.
ChangesStandApproved ==
  change # NoChange =>
    /\ \A i \in 1 .. change.asked : envelope[i].decision \in {"granted", "approved"}
    /\ envelope[change.grant].decision = "approved"
    /\ \A i \in change.grant + 1 .. change.asked : envelope[i].decision # "approved"
    /\ change.built = "before" => change.plan = envelope[change.grant].plan

\* A run that ends as resolved made a change, the change made last passed its technical
\* checks, and the employee confirmed after that.
ResolvedIsVerified ==
  state.final = "resolved" =>
    /\ change # NoChange /\ checked
    /\ envelope[asked].decision = "confirmed"

\* "Declined consent cancels endpoint diagnostics": a run whose employee declined is over.
DeclinedConsentCancels == state.consent = "declined" => node = "__end__"
===============================================================================
