--------------------------- MODULE SupportGraphProofs ---------------------------
(***************************************************************************)
(* Theorems about SupportGraph for any plans, any number of clarification  *)
(* rounds and any number of requests.                                      *)
(***************************************************************************)
EXTENDS SupportGraph, TLAPS

Kinds    == {"diagnostic_consent", "remediation_approval", "employee_confirmation"}
Verdicts == {"granted", "declined", "approved", "rejected", "confirmed", "not_fixed", "none"}
Phases   == TERMINAL_PHASES \cup
            {"greeting", "intake", "clarification", "classification", "consent", "diagnosis",
             "evidence_fusion", "remediation_planning", "approval", "execution",
             "verification", "confirmation"}

State == [phase : Phases, supported : BOOLEAN,
          consent : {"not_requested", "pending", "granted", "declined"},
          approval : {"not_required", "pending", "approved", "rejected"},
          grant : 0 .. MaxAsk, plan : Plan \cup {NoPlan}, token : Plan \cup {NoPlan},
          rounds : 0 .. MaxRounds, final : TERMINAL_PHASES \cup {"none"}]

Envelope == [decision : Verdicts, plan : Plan \cup {NoPlan}]

Change == [plan : Plan, grant : Request, asked : Request, built : {"before", "since"}]

(* The nodes a terminal phase leads to. *)
Stopped == {"raised", "__end__"}

(* A request stands only while the graph waits at the node that answers it, for the plan  *)
(* then in the state, and what was decided on it is about that plan.                      *)
AskOK ==
  /\ ask \in [kind : Kinds \cup {"none"}, id : 0 .. MaxAsk, plan : Plan \cup {NoPlan},
              expired : BOOLEAN]
  /\ asked \in 0 .. MaxAsk
  /\ envelope \in [Request -> Envelope]
  /\ ask.kind = "none" => ask = NoAsk
  /\ ask.kind # "none" => /\ ask.id = asked /\ asked \in Request
                          /\ envelope[asked].decision # "none" => envelope[asked].plan = ask.plan
  /\ ask.kind = "diagnostic_consent" => node = "diagnostic_consent_interrupt"
  /\ ask.kind = "remediation_approval" =>
       /\ node = "remediation_approval_interrupt" /\ state.approval = "pending"
       /\ ask.plan = state.plan /\ ask.plan \in Plan
  /\ ask.kind = "employee_confirmation" => node = "employee_confirmation_interrupt"
  /\ \A i \in Request : i > asked => envelope[i].decision = "none"
  /\ \A i \in Request : envelope[i].decision = "approved" => envelope[i].plan \in Plan

(* While the graph goes on, every request but the one that stands was answered with a yes. *)
AnswersOK ==
  node \notin Stopped =>
    \A i \in Request : i <= asked /\ i # ask.id => envelope[i].decision \in {"granted", "approved"}

(* An approval in the state is on record under its request, none was given after it, and   *)
(* it is of the plan in the state as long as no other was built.                           *)
GrantOK ==
  state.approval = "approved" =>
    /\ state.grant \in Request
    /\ envelope[state.grant].decision = "approved"
    /\ \A i \in Request : i > state.grant => envelope[i].decision # "approved"
    /\ built = "before" => state.plan = envelope[state.grant].plan

(* What was done before each of the last nodes; a token is minted under an approval. *)
ProgressOK ==
  /\ change \in Change \cup {NoChange}
  /\ built \in {"before", "since"} /\ checked \in BOOLEAN
  /\ node = "clarify" => state.phase = "clarification"
  /\ node = "execute" => state.approval \in {"approved", "not_required"}
  /\ state.approval = "not_required" => state.token = NoPlan
  /\ node = "verify" => change # NoChange
  /\ node = "employee_confirmation_interrupt" => change # NoChange /\ checked
  /\ state.final = "resolved" => node = "__end__"
  /\ ChangesStandApproved
  /\ ResolvedIsVerified

IInv == state \in State /\ AskOK /\ AnswersOK /\ GrantOK /\ ProgressOK

(* The decisions there are. *)
LEMMA DecisionsAre ==
  /\ DOMAIN DECISIONS = Kinds
  /\ DECISIONS["diagnostic_consent"] = {"granted", "declined"}
  /\ DECISIONS["remediation_approval"] = {"approved", "rejected"}
  /\ DECISIONS["employee_confirmation"] = {"confirmed", "not_fixed"}
  /\ {"none"} \cup UNION {DECISIONS[k] : k \in DOMAIN DECISIONS} = Verdicts
<1>1. /\ DOMAIN DECISIONS = Kinds
      /\ DECISIONS["diagnostic_consent"] = {"granted", "declined"}
      /\ DECISIONS["remediation_approval"] = {"approved", "rejected"}
      /\ DECISIONS["employee_confirmation"] = {"confirmed", "not_fixed"}
  BY DEF DECISIONS, Kinds
<1>2. {"none"} \cup UNION {DECISIONS[k] : k \in DOMAIN DECISIONS} = Verdicts
  BY <1>1 DEF Kinds, Verdicts
<1> QED BY <1>1, <1>2

(* Where route_supervisor leads from each phase. *)
LEMMA RouteOf ==
  ASSUME NEW s \in State
  PROVE  /\ Route(s) = "clarify" => s.phase = "clarification"
         /\ Route(s) = "verify" => s.phase = "verification"
         /\ Route(s) = "employee_confirmation_interrupt" => s.phase = "confirmation"
         /\ s.phase = "confirmation" => Route(s) = "employee_confirmation_interrupt"
         /\ s.phase = "resolved" /\ s.final = "resolved" => Route(s) = "__end__"
         /\ s.phase \in TERMINAL_PHASES => Route(s) \in Stopped
         /\ s.phase = "consent" /\ s.consent = "pending" =>
              Route(s) = "diagnostic_consent_interrupt"
         /\ s.phase = "approval" /\ s.approval = "pending" =>
              Route(s) = "remediation_approval_interrupt"
         /\ Route(s) = "execute" => s.approval \in {"approved", "not_required"}
<1>1. /\ DOMAIN NodeOf = {"greeting", "intake", "clarification", "evidence_fusion",
                          "remediation_planning", "verification", "confirmation"}
      /\ NodeOf["greeting"] = "greet" /\ NodeOf["intake"] = "intake"
      /\ NodeOf["clarification"] = "clarify" /\ NodeOf["evidence_fusion"] = "fuse_evidence"
      /\ NodeOf["remediation_planning"] = "plan_remediation"
      /\ NodeOf["verification"] = "verify"
      /\ NodeOf["confirmation"] = "employee_confirmation_interrupt"
  BY DEF NodeOf
<1>2. CASE s.phase \in TERMINAL_PHASES
  BY <1>1, <1>2 DEF Route, Valid, TERMINAL_PHASES, Stopped
<1>3. CASE s.phase \in DOMAIN NodeOf
  BY <1>1, <1>3 DEF Route, Valid, TERMINAL_PHASES
<1>4. CASE s.phase \in {"classification", "consent", "diagnosis", "approval", "execution"}
  BY <1>1, <1>4 DEF Route, Valid, TERMINAL_PHASES
<1> QED BY <1>1, <1>2, <1>3, <1>4 DEF State, Phases

LEMMA InitIInv == SupportInit => IInv
<1> SUFFICES ASSUME SupportInit PROVE IInv
  OBVIOUS
<1> USE SupportAssumption DEF SupportInit
<1>1. state \in State
  BY DEF State, Phases
<1>2. AskOK
  BY DEF AskOK, NoAsk, NoEnvelope, Envelope, Verdicts, Kinds
<1>3. AnswersOK
  BY DEF AnswersOK, Request
<1>4. GrantOK /\ ProgressOK
  BY DEF GrantOK, ProgressOK, ChangesStandApproved, ResolvedIsVerified
<1> QED BY <1>1, <1>2, <1>3, <1>4 DEF IInv

(* While no request stands, a node other than a raising one leaves the requests be. *)
LEMMA NoAskStep ==
  ASSUME IInv, ask.kind = "none", node \notin Stopped, UNCHANGED <<ask, asked, envelope>>
  PROVE  AskOK' /\ AnswersOK'
<1>1. ask = NoAsk /\ ask.kind = "none"
  BY DEF IInv, AskOK
<1>2. AskOK'
  BY <1>1 DEF IInv, AskOK, NoAsk, Kinds
<1> QED BY <1>2 DEF IInv, AnswersOK

(* The next request is new: nothing was decided on it. *)
LEMMA RaiseStep ==
  ASSUME IInv, ask.kind = "none", node \notin Stopped,
         NEW kind \in Kinds, NEW p \in Plan \cup {NoPlan}, Raises(kind, p),
         UNCHANGED envelope,
         kind = "diagnostic_consent" => node' = "diagnostic_consent_interrupt",
         kind = "remediation_approval" =>
           /\ node' = "remediation_approval_interrupt" /\ state'.approval = "pending"
           /\ p = state'.plan /\ p \in Plan,
         kind = "employee_confirmation" => node' = "employee_confirmation_interrupt"
  PROVE  AskOK' /\ AnswersOK'
<1>1. /\ asked \in Nat /\ asked < MaxAsk /\ asked' = asked + 1 /\ MaxAsk \in Nat
      /\ asked' \in Request /\ asked' \in 0 .. MaxAsk
  BY SupportAssumption DEF IInv, AskOK, Raises, Request
<1>2. ask' = [kind |-> kind, id |-> asked', plan |-> p, expired |-> FALSE]
  BY <1>1 DEF Raises, Ask
<1>3. envelope[asked'].decision = "none" /\ \A i \in Request : i > asked' => i > asked
  BY <1>1 DEF IInv, AskOK, Request
<1>4. AskOK'
  BY <1>1, <1>2, <1>3 DEF IInv, AskOK, Kinds
<1>5. AnswersOK'
  <2>1. \A i \in Request : i <= asked' /\ i # ask'.id => i <= asked /\ i # ask.id
    BY <1>1, <1>2 DEF IInv, AskOK, NoAsk, Request
  <2> QED BY <2>1 DEF IInv, AnswersOK
<1> QED BY <1>4, <1>5

(* An approval that stays is the one it was, of the plan it was given for or a newer one. *)
LEMMA GrantKept ==
  ASSUME GrantOK, NEW s, state' = s, UNCHANGED envelope,
         s.approval = "approved" => s.approval = state.approval /\ s.grant = state.grant,
         built' = "since" \/ (UNCHANGED built /\ s.plan = state.plan)
  PROVE  GrantOK'
<1> SUFFICES ASSUME s.approval = "approved"
             PROVE  /\ s.grant \in Request
                    /\ envelope[s.grant].decision = "approved"
                    /\ \A i \in Request : i > s.grant => envelope[i].decision # "approved"
                    /\ built' = "before" => s.plan = envelope[s.grant].plan
  BY DEF GrantOK, Request
<1> QED BY DEF GrantOK

(* A node that hands on, and neither sends a change nor checks one, keeps what is known of *)
(* the approval, and leads neither to the checks nor to the employee.                      *)
LEMMA HandsOn ==
  ASSUME IInv, AskOK', AnswersOK', NEW s \in State, Returns(s),
         UNCHANGED <<envelope, change, checked>>,
         node \notin {"raised", "execute"},
         s.phase \notin {"verification", "confirmation"}, s.final # "resolved",
         s.approval = "approved" => s.approval = state.approval /\ s.grant = state.grant,
         s.approval = "not_required" => s.approval = state.approval /\ s.token = state.token,
         built' = "since" \/ (UNCHANGED built /\ s.plan = state.plan)
  PROVE  IInv'
<1>1. /\ state' = s /\ node' = Route(s)
      /\ node' \notin {"verify", "employee_confirmation_interrupt"}
      /\ node' = "clarify" => s.phase = "clarification"
      /\ node' = "execute" => s.approval \in {"approved", "not_required"}
  BY RouteOf DEF Returns
<1>2. GrantOK'
  BY <1>1, GrantKept DEF IInv
<1>3. ProgressOK'
  BY <1>1 DEF IInv, ProgressOK, ChangesStandApproved, ResolvedIsVerified
<1> QED BY <1>1, <1>2, <1>3 DEF IInv

(* The nodes at which the graph works by itself. *)
Working == {"greet", "intake", "clarify", "request_consent", "diagnose", "fuse_evidence",
            "plan_remediation", "execute", "verify", "escalate"}

(* There, no request stands and the run has not ended. *)
LEMMA AtWork ==
  ASSUME IInv, node \in Working PROVE ask.kind = "none" /\ state.final # "resolved"
BY DEF IInv, AskOK, ProgressOK, Kinds, Working

(* A working node that asks nobody and keeps what is known of the approval. *)
LEMMA PassesOn ==
  ASSUME IInv, NEW s \in State, Returns(s), UNCHANGED <<ask, asked, envelope, change, checked>>,
         node \in Working \ {"execute"},
         s.phase \notin {"verification", "confirmation"}, s.final # "resolved",
         s.approval = state.approval, s.grant = state.grant, s.token = state.token,
         built' = "since" \/ (UNCHANGED built /\ s.plan = state.plan)
  PROVE  IInv'
<1>1. AskOK' /\ AnswersOK' /\ node \notin {"raised", "execute"}
  BY AtWork, NoAskStep DEF Working, Stopped
<1> QED BY <1>1, HandsOn

(* What a handoff that only sets the phase, or ends the run, leaves as it was. *)
LEMMA PhaseOf ==
  ASSUME state \in State, NEW p \in Phases
  PROVE  /\ ToPhase(p) \in State
         /\ ToPhase(p).phase = p /\ ToPhase(p).final = state.final
         /\ ToPhase(p).approval = state.approval /\ ToPhase(p).grant = state.grant
         /\ ToPhase(p).plan = state.plan /\ ToPhase(p).token = state.token
         /\ ToPhase(p).consent = state.consent
BY DEF ToPhase, State

LEMMA EndsOf ==
  ASSUME state \in State, NEW p \in TERMINAL_PHASES
  PROVE  /\ Ends(p) \in State
         /\ Ends(p).phase = p /\ Ends(p).final = p
         /\ Ends(p).approval = state.approval /\ Ends(p).grant = state.grant
         /\ Ends(p).plan = state.plan /\ Ends(p).token = state.token
BY DEF Ends, State, Phases

LEMMA ClassifiedOf ==
  ASSUME state \in State, NEW s \in Classified(ToPhase("classification"))
  PROVE  /\ s \in State
         /\ s.phase = "classification" /\ s.final = state.final
         /\ s.approval = state.approval /\ s.grant = state.grant /\ s.plan = state.plan
         /\ s.token = state.token
BY ZenonT(60) DEF Classified, ToPhase, State, Phases

LEMMA GreetIInv == ASSUME IInv, Greet PROVE IInv'
<1>1. Route(ToPhase("intake")) = "intake"
  BY PhaseOf DEF IInv, Phases, Route, Valid, TERMINAL_PHASES, NodeOf
<1>2. Returns(ToPhase("intake"))
  BY <1>1 DEF Greet, Returns
<1> QED BY <1>2, AtWork, PhaseOf, PassesOn DEF Greet, IInv, Phases, Working

LEMMA IntakeIInv == ASSUME IInv, Intake PROVE IInv'
<1>1. node \in Working \ {"execute"} /\ state \in State /\ state.final # "resolved"
      /\ UNCHANGED <<ask, asked, envelope, change, built, checked>>
  BY AtWork DEF Intake, Working, IInv
<1>2. CASE Returns(ToPhase("clarification"))
  BY <1>1, <1>2, PhaseOf, PassesOn DEF Phases
<1>3. ASSUME NEW s \in Classified(ToPhase("classification")), Returns(s) PROVE IInv'
  BY <1>1, <1>3, ClassifiedOf, PassesOn
<1> QED BY <1>2, <1>3 DEF Intake

LEMMA ClarifyIInv == ASSUME IInv, Clarify PROVE IInv'
<1>1. node \in Working \ {"execute"} /\ state \in State /\ state.final # "resolved"
      /\ UNCHANGED <<ask, asked, envelope, change, built, checked>>
      /\ state.phase = "clarification"
  BY AtWork DEF Clarify, Working, IInv, ProgressOK
<1>2. ASSUME NEW s \in Classified(ToPhase("classification")), Returns(s) PROVE IInv'
  BY <1>1, <1>2, ClassifiedOf, PassesOn
<1>3. CASE Returns(Ends("escalated"))
  BY <1>1, <1>3, EndsOf, PassesOn DEF TERMINAL_PHASES
<1>4. CASE state.rounds < MaxRounds /\ Returns([state EXCEPT !.rounds = @ + 1])
  <2> DEFINE s == [state EXCEPT !.rounds = @ + 1]
  <2>1. /\ s \in State /\ s.phase = state.phase /\ s.final = state.final
        /\ s.approval = state.approval /\ s.grant = state.grant /\ s.plan = state.plan
        /\ s.token = state.token
    <3>1. state.rounds + 1 \in 0 .. MaxRounds
      BY <1>1, <1>4, SupportAssumption DEF State
    <3> QED BY <1>1, <3>1 DEF State
  <2>2. Returns(s)
    BY <1>4
  <2> HIDE DEF s
  <2> QED BY <1>1, <2>1, <2>2, PassesOn
<1> QED BY <1>2, <1>3, <1>4 DEF Clarify

LEMMA RequestConsentIInv == ASSUME IInv, RequestConsent PROVE IInv'
<1>1. node \in Working \ {"execute"} /\ state \in State /\ state.final # "resolved"
      /\ UNCHANGED <<envelope, change, built, checked>>
  BY AtWork DEF RequestConsent, Working, IInv
<1>2. CASE Returns(ToPhase("consent")) /\ UNCHANGED <<ask, asked>>
  BY <1>1, <1>2, PhaseOf, PassesOn DEF Phases
<1>3. CASE /\ Returns([ToPhase("consent") EXCEPT !.consent = "pending"])
           /\ Raises("diagnostic_consent", NoPlan)
  <2> DEFINE s == [ToPhase("consent") EXCEPT !.consent = "pending"]
  <2>1. /\ s \in State /\ s.phase = "consent" /\ s.consent = "pending" /\ s.final = state.final
        /\ s.approval = state.approval /\ s.grant = state.grant /\ s.plan = state.plan
        /\ s.token = state.token
    BY <1>1 DEF ToPhase, State, Phases
  <2>2. Returns(s)
    BY <1>3
  <2> HIDE DEF s
  <2>3. node' = "diagnostic_consent_interrupt"
    BY <2>1, <2>2, RouteOf DEF Returns
  <2>4. AskOK' /\ AnswersOK'
    BY <1>1, <1>3, <2>3, AtWork, RaiseStep DEF Kinds, Working, Stopped
  <2> QED BY <1>1, <2>1, <2>2, <2>4, HandsOn DEF Working
<1> QED BY <1>2, <1>3 DEF RequestConsent

LEMMA DiagnoseIInv == ASSUME IInv, Diagnose PROVE IInv'
<1>1. node \in Working \ {"execute"} /\ state \in State /\ state.final # "resolved"
      /\ UNCHANGED <<ask, asked, envelope, change, built, checked>>
  BY AtWork DEF Diagnose, Working, IInv
<1>2. ASSUME NEW p \in {"evidence_fusion", "clarification"}, Returns(ToPhase(p)) PROVE IInv'
  BY <1>1, <1>2, PhaseOf, PassesOn DEF Phases
<1>3. CASE Returns(Ends("escalated"))
  BY <1>1, <1>3, EndsOf, PassesOn DEF TERMINAL_PHASES
<1> QED BY <1>2, <1>3 DEF Diagnose

LEMMA FuseEvidenceIInv == ASSUME IInv, FuseEvidence PROVE IInv'
<1>1. node \in Working \ {"execute"} /\ state \in State /\ state.final # "resolved"
      /\ UNCHANGED <<ask, asked, envelope, change, built, checked>>
  BY AtWork DEF FuseEvidence, Working, IInv
<1>2. ASSUME NEW p \in {"remediation_planning", "clarification", "escalated"}, Returns(ToPhase(p))
      PROVE  IInv'
  BY <1>1, <1>2, PhaseOf, PassesOn DEF Phases, TERMINAL_PHASES
<1> QED BY <1>2 DEF FuseEvidence

(* A plan replaces the one before; an approval asked for it is asked of this plan. *)
LEMMA PlanRemediationIInv == ASSUME IInv, PlanRemediation PROVE IInv'
<1>1. node \in Working \ {"execute"} /\ state \in State /\ state.final # "resolved"
      /\ UNCHANGED <<envelope, change, checked>> /\ built' = "since"
  BY AtWork DEF PlanRemediation, Working, IInv
<1> DEFINE planned(p, phase) == [ToPhase(phase) EXCEPT !.plan = p]
           pending(p)        == [planned(p, "approval") EXCEPT !.approval = "pending"]
<1>2. PICK p \in Plan :
        \/ /\ \E phase \in {"remediation_planning", "escalated", "approval"} :
                Returns(planned(p, phase))
           /\ UNCHANGED <<ask, asked>>
        \/ Returns(pending(p)) /\ Raises("remediation_approval", p)
  BY DEF PlanRemediation
<1>3. ASSUME NEW phase \in {"remediation_planning", "escalated", "approval"}
      PROVE  LET s == planned(p, phase)
             IN /\ s \in State /\ s.phase = phase /\ s.final = state.final
                /\ s.approval = state.approval /\ s.grant = state.grant
                /\ s.token = state.token
  BY <1>1 DEF ToPhase, State, Phases, TERMINAL_PHASES
<1>4. /\ pending(p) \in State /\ pending(p).phase = "approval" /\ pending(p).approval = "pending"
      /\ pending(p).final = state.final /\ pending(p).plan = p
  BY <1>1 DEF ToPhase, State, Phases
<1> HIDE DEF planned, pending
<1>5. ASSUME NEW phase \in {"remediation_planning", "escalated", "approval"},
             Returns(planned(p, phase)), UNCHANGED <<ask, asked>>
      PROVE  IInv'
  BY <1>1, <1>3, <1>5, PassesOn
<1>6. CASE Returns(pending(p)) /\ Raises("remediation_approval", p)
  <2>1. node' = "remediation_approval_interrupt" /\ state' = pending(p)
    BY <1>4, <1>6, RouteOf DEF Returns
  <2>2. AskOK' /\ AnswersOK'
    BY <1>1, <1>4, <1>6, <2>1, AtWork, RaiseStep DEF Kinds, Working, Stopped
  <2> QED BY <1>1, <1>4, <1>6, <2>2, HandsOn DEF Working
<1> QED BY <1>2, <1>5, <1>6

(* A decision is put on record once, for the plan its request was about. *)
LEMMA DecideIInv ==
  ASSUME IInv, NEW k \in Kinds, NEW d \in DECISIONS[k], Decide(d) PROVE IInv'
<1> DEFINE new == [decision |-> d, plan |-> ask.plan]
<1>1. /\ ask.kind \in Kinds /\ ask.id = asked /\ asked \in Request
      /\ d \in DECISIONS[ask.kind] /\ envelope[asked].decision = "none"
      /\ envelope' = [envelope EXCEPT ![asked] = new]
      /\ UNCHANGED <<state, node, ask, asked, change, built, checked>>
  <2>1. ask.kind \in Kinds /\ ask.id = asked /\ asked \in Request
    BY DEF IInv, AskOK, Decide
  <2>2. NoEnvelope.decision = "none"
    BY DEF NoEnvelope
  <2> QED BY <2>1, <2>2 DEF Decide
<1>2. d \in Verdicts /\ (d = "approved" => ask.kind = "remediation_approval")
  BY <1>1, DecisionsAre DEF Kinds, Verdicts
<1>3. new \in Envelope /\ new.decision = d /\ new.plan = ask.plan
  BY <1>2 DEF IInv, AskOK, Envelope
<1> HIDE DEF new
<1>4. /\ envelope' \in [Request -> Envelope]
      /\ \A i \in Request : envelope'[i] = IF i = asked THEN new ELSE envelope[i]
  BY <1>1, <1>3 DEF IInv, AskOK
<1>5. AskOK'
  BY <1>1, <1>2, <1>3, <1>4 DEF IInv, AskOK, NoAsk, Request
<1>6. AnswersOK' /\ GrantOK'
  <2>1. AnswersOK'
    BY <1>1, <1>4 DEF IInv, AnswersOK
  <2>2. state.approval = "approved" => d # "approved" /\ state.grant # asked
    BY <1>1, <1>2 DEF IInv, AskOK, GrantOK
  <2> QED BY <1>1, <1>3, <1>4, <2>1, <2>2 DEF IInv, GrantOK
<1>7. ProgressOK'
  <2>1. ChangesStandApproved'
    <3>1. CASE change = NoChange
      BY <1>1, <3>1 DEF ChangesStandApproved, NoChange
    <3>2. CASE change \in Change /\ change # NoChange
      <4>1. /\ change.asked \in Request /\ change.grant \in Request
            /\ \A i \in 1 .. change.asked : envelope[i].decision \in {"granted", "approved"}
            /\ envelope[change.grant].decision = "approved"
            /\ \A i \in change.grant + 1 .. change.asked : envelope[i].decision # "approved"
            /\ change.built = "before" => change.plan = envelope[change.grant].plan
        BY <3>2 DEF IInv, ProgressOK, ChangesStandApproved, Change
      <4>2. /\ change.grant # asked /\ \A i \in 1 .. change.asked : i # asked
            /\ 1 .. change.asked \subseteq Request
        BY <1>1, <4>1, SupportAssumption DEF Request
      <4>3. /\ change.grant + 1 .. change.asked \subseteq 1 .. change.asked
        BY <4>1 DEF Request
      <4> QED BY <1>1, <1>4, <4>1, <4>2, <4>3 DEF ChangesStandApproved
    <3> QED BY <3>1, <3>2 DEF IInv, ProgressOK
  <2>2. state.final # "resolved"
    BY <1>1 DEF IInv, AskOK, ProgressOK, Kinds
  <2> QED BY <1>1, <2>1, <2>2 DEF IInv, ProgressOK, ResolvedIsVerified
<1> QED BY <1>1, <1>5, <1>6, <1>7 DEF IInv

LEMMA ExpireIInv == ASSUME IInv, Expire PROVE IInv'
<1>1. /\ ask.kind # "none"
      /\ ask' = [ask EXCEPT !.expired = TRUE]
      /\ UNCHANGED <<state, node, asked, envelope, change, built, checked>>
  BY DEF IInv, AskOK, Expire
<1>2. AskOK' /\ AnswersOK'
  BY <1>1 DEF IInv, AskOK, AnswersOK
<1> QED BY <1>1, <1>2 DEF IInv, GrantOK, ProgressOK, ChangesStandApproved, ResolvedIsVerified

(* The decision a node accepts is that on the request it raised. *)
LEMMA AcceptsOf ==
  ASSUME IInv, NEW k \in Kinds, NEW i \in Request, Accepts(k, i), ask' = NoAsk,
         UNCHANGED <<asked, envelope>>, node \notin Stopped,
         envelope[i].decision \in {"granted", "approved"} \/ node' \in Stopped
  PROVE  /\ AskOK' /\ AnswersOK'
         /\ ask.kind = k /\ i = asked /\ envelope[i].plan = ask.plan
         /\ envelope[i].decision \in DECISIONS[k]
<1>1. ask.kind = k /\ i = asked /\ envelope[i].decision \in DECISIONS[k] /\ ask.kind # "none"
  BY DEF Accepts, IInv, AskOK, Kinds
<1>2. "none" \notin DECISIONS[k]
  BY DecisionsAre DEF Kinds
<1>3. envelope[i].plan = ask.plan
  BY <1>1, <1>2 DEF IInv, AskOK
<1>4. NoAsk.kind = "none" /\ NoAsk \in [kind : Kinds \cup {"none"}, id : 0 .. MaxAsk,
                                       plan : Plan \cup {NoPlan}, expired : BOOLEAN]
  BY SupportAssumption DEF NoAsk
<1>5. AskOK'
  BY <1>4 DEF IInv, AskOK
<1>6. AnswersOK'
  BY <1>1 DEF IInv, AskOK, AnswersOK, Request
<1> QED BY <1>1, <1>3, <1>5, <1>6

LEMMA ConsentResumedIInv == ASSUME IInv, NEW i \in Request, ConsentResumed(i) PROVE IInv'
<1>1. /\ node = "diagnostic_consent_interrupt" /\ node \notin Stopped /\ state \in State
      /\ Accepts("diagnostic_consent", i) /\ ask' = NoAsk
      /\ UNCHANGED <<asked, envelope, change, built, checked>>
  BY DEF ConsentResumed, Stopped, IInv
<1>2. ASSUME NEW p \in {"diagnosis", "cancelled"}, NEW c \in {"granted", "declined"},
             p = "diagnosis" => envelope[i].decision = "granted",
             Returns([ToPhase(p) EXCEPT !.consent = c])
      PROVE  IInv'
  <2> DEFINE s == [ToPhase(p) EXCEPT !.consent = c]
  <2>1. /\ s \in State /\ s.phase = p /\ s.final = state.final
        /\ s.approval = state.approval /\ s.grant = state.grant /\ s.plan = state.plan
        /\ s.token = state.token
    BY <1>1 DEF ToPhase, State, Phases, TERMINAL_PHASES
  <2>2. Returns(s)
    BY <1>2
  <2> HIDE DEF s
  <2>3. p = "cancelled" => node' \in Stopped
    BY <2>1, <2>2, RouteOf DEF Returns, TERMINAL_PHASES
  <2>4. /\ AskOK' /\ AnswersOK' /\ ask.kind = "diagnostic_consent"
    BY <1>1, <1>2, <2>3, AcceptsOf DEF Kinds
  <2>5. state.final # "resolved"
    BY <1>1 DEF IInv, ProgressOK
  <2> QED BY <1>1, <2>1, <2>2, <2>4, <2>5, HandsOn
<1> QED BY <1>1, <1>2 DEF ConsentResumed

(* An approval is of the plan now in the state, and it is the last one given. *)
LEMMA ApprovalResumedIInv == ASSUME IInv, NEW i \in Request, ApprovalResumed(i) PROVE IInv'
<1>1. /\ node = "remediation_approval_interrupt" /\ node \notin Stopped /\ state \in State
      /\ Accepts("remediation_approval", i) /\ ask' = NoAsk
      /\ UNCHANGED <<asked, envelope, change, checked>>
      /\ state.final # "resolved"
  BY DEF ApprovalResumed, Stopped, IInv, ProgressOK
<1>2. i \in 0 .. MaxAsk
  BY SupportAssumption DEF Request
<1>3. ASSUME NEW t \in {state.token} \cup Plan, envelope[i].decision = "approved",
             built' = "before",
             Returns([ToPhase("execution") EXCEPT !.approval = "approved", !.grant = i, !.token = t])
      PROVE  IInv'
  <2> DEFINE s == [ToPhase("execution") EXCEPT !.approval = "approved", !.grant = i, !.token = t]
  <2>1. /\ s \in State /\ s.phase = "execution" /\ s.final = state.final
        /\ s.approval = "approved" /\ s.grant = i /\ s.plan = state.plan
    BY <1>1, <1>2 DEF ToPhase, State, Phases
  <2>2. state' = s /\ node' = Route(s)
    BY <1>3 DEF Returns
  <2> HIDE DEF s
  <2>3. /\ AskOK' /\ AnswersOK' /\ i = asked /\ envelope[i].plan = state.plan
    BY <1>1, <1>3, AcceptsOf DEF Kinds, IInv, AskOK
  <2>4. GrantOK'
    BY <1>1, <1>3, <2>1, <2>2, <2>3 DEF GrantOK, IInv, AskOK
  <2>5. /\ node' \notin {"clarify", "verify", "employee_confirmation_interrupt"}
    BY <2>1, <2>2, RouteOf
  <2>6. ProgressOK'
    BY <1>1, <1>3, <2>1, <2>2, <2>5 DEF IInv, ProgressOK, ChangesStandApproved, ResolvedIsVerified
  <2> QED BY <1>1, <2>1, <2>2, <2>3, <2>4, <2>6 DEF IInv
<1>4. CASE /\ Returns([ToPhase("escalated") EXCEPT !.approval = "rejected", !.grant = i])
           /\ UNCHANGED built
  <2> DEFINE s == [ToPhase("escalated") EXCEPT !.approval = "rejected", !.grant = i]
  <2>1. /\ s \in State /\ s.phase = "escalated" /\ s.final = state.final
        /\ s.approval = "rejected" /\ s.plan = state.plan
    BY <1>1, <1>2 DEF ToPhase, State, Phases, TERMINAL_PHASES
  <2>2. Returns(s)
    BY <1>4
  <2> HIDE DEF s
  <2>3. node' \in Stopped
    BY <2>1, <2>2, RouteOf DEF Returns, TERMINAL_PHASES
  <2>4. AskOK' /\ AnswersOK'
    BY <1>1, <2>3, AcceptsOf DEF Kinds
  <2> QED BY <1>1, <1>4, <2>1, <2>2, <2>4, HandsOn
<1> QED BY <1>3, <1>4 DEF ApprovalResumed

LEMMA ConfirmationResumedIInv ==
  ASSUME IInv, NEW i \in Request, ConfirmationResumed(i) PROVE IInv'
<1>1. /\ node = "employee_confirmation_interrupt" /\ node \notin Stopped /\ state \in State
      /\ Accepts("employee_confirmation", i) /\ ask' = NoAsk
      /\ UNCHANGED <<asked, envelope, change, built, checked>>
  BY DEF ConfirmationResumed, Stopped, IInv
<1>2. PICK p \in {"resolved", "escalated"} :
        Returns(Ends(p)) /\ (p = "resolved" => envelope[i].decision = "confirmed")
  BY DEF ConfirmationResumed
<1> DEFINE s == Ends(p)
<1>3. /\ s \in State /\ s.phase = p /\ s.final = p /\ state' = s /\ node' = Route(s)
      /\ s.approval = state.approval /\ s.grant = state.grant /\ s.plan = state.plan
      /\ s.token = state.token
  BY <1>1, <1>2, EndsOf DEF Returns, TERMINAL_PHASES
<1> HIDE DEF s
<1>4. /\ node' \notin {"clarify", "verify", "employee_confirmation_interrupt", "execute"}
      /\ node' \in Stopped /\ (p = "resolved" => node' = "__end__")
  BY <1>3, RouteOf DEF TERMINAL_PHASES, Stopped
<1>5. AskOK' /\ AnswersOK' /\ i = asked
  BY <1>1, <1>4, AcceptsOf DEF Kinds
<1>6. GrantOK'
  BY <1>1, <1>3 DEF IInv, GrantOK
<1>7. ProgressOK'
  BY <1>1, <1>2, <1>3, <1>4, <1>5 DEF IInv, ProgressOK, ChangesStandApproved, ResolvedIsVerified
<1> QED BY <1>1, <1>3, <1>5, <1>6, <1>7 DEF IInv

(* A change is made under the last approval, with every request answered with a yes. *)
LEMMA ExecuteIInv == ASSUME IInv, Execute PROVE IInv'
<1>1. /\ node = "execute" /\ ask.kind = "none" /\ state.final # "resolved" /\ state \in State
      /\ UNCHANGED <<ask, asked, envelope, built>> /\ AskOK' /\ AnswersOK'
      /\ node \notin Stopped
  BY AtWork, NoAskStep DEF Execute, Working, Stopped, IInv
<1>2. CASE node' = "raised" /\ UNCHANGED <<state, change, checked>>
  BY <1>1, <1>2 DEF IInv, GrantOK, ProgressOK, ChangesStandApproved, ResolvedIsVerified
<1>3. ASSUME MayDispatch, NEW p \in {"verification", "execution", "escalated"},
             change' = [plan |-> state.plan, grant |-> state.grant, asked |-> asked,
                        built |-> built],
             checked' = FALSE,
             Returns([ToPhase(p) EXCEPT !.token = state.plan])
      PROVE  IInv'
  <2>1. /\ state.plan \in Plan /\ state.approval = "approved"
    BY <1>1, <1>3 DEF MayDispatch, TokenFor, State, IInv, ProgressOK
  <2>2. /\ state.grant \in Request /\ envelope[state.grant].decision = "approved"
        /\ \A i \in Request : i > state.grant => envelope[i].decision # "approved"
        /\ built = "before" => state.plan = envelope[state.grant].plan
    BY <2>1 DEF IInv, GrantOK
  <2>3. /\ asked \in Request /\ state.grant <= asked
        /\ \A i \in 1 .. asked : i \in Request /\ envelope[i].decision \in {"granted", "approved"}
    <3>1. /\ asked \in 0 .. MaxAsk /\ ask.id = 0
          /\ \A i \in Request : i > asked => envelope[i].decision = "none"
      BY <1>1 DEF IInv, AskOK, NoAsk
    <3>2. ~(state.grant > asked)
      BY <2>2, <3>1
    <3>3. asked \in Request /\ state.grant <= asked /\ 1 .. asked \subseteq Request
      BY <2>2, <3>1, <3>2, SupportAssumption DEF Request
    <3> QED BY <1>1, <3>1, <3>3 DEF IInv, AnswersOK, Request
  <2> DEFINE s == [ToPhase(p) EXCEPT !.token = state.plan]
  <2>4. /\ s \in State /\ s.phase = p /\ s.final = state.final /\ s.plan = state.plan
        /\ s.approval = state.approval /\ s.grant = state.grant
    BY <1>1, <2>1 DEF ToPhase, State, Phases, TERMINAL_PHASES
  <2>5. state' = s /\ node' = Route(s)
    BY <1>3 DEF Returns
  <2> HIDE DEF s
  <2>6. GrantOK'
    BY <1>1, <2>4, <2>5 DEF IInv, GrantOK
  <2>7. /\ change' \in Change /\ change' # NoChange /\ change'.plan = state.plan
        /\ change'.grant = state.grant /\ change'.asked = asked /\ change'.built = built
    <3>1. built \in {"before", "since"} /\ asked # 0
      BY <2>3, SupportAssumption DEF IInv, ProgressOK, Request
    <3> QED BY <1>3, <2>1, <2>2, <2>3, <3>1 DEF Change, NoChange
  <2>8. ChangesStandApproved'
    <3>1. \A i \in state.grant + 1 .. asked : i \in Request /\ i > state.grant
      BY <2>2, <2>3 DEF Request
    <3> QED BY <1>1, <2>2, <2>3, <2>7, <3>1 DEF ChangesStandApproved
  <2>9. node' \notin {"clarify", "employee_confirmation_interrupt"}
    BY <2>4, <2>5, RouteOf
  <2>10. /\ state'.final # "resolved" /\ checked' \in BOOLEAN /\ built' \in {"before", "since"}
         /\ state'.approval = "approved"
    BY <1>1, <1>3, <2>1, <2>4, <2>5 DEF IInv, ProgressOK
  <2>11. change' # NoChange'
    BY <2>7 DEF NoChange
  <2>12. change' \in (Change \cup {NoChange})'
    BY <2>7 DEF Change, NoChange, Request
  <2>13. ProgressOK'
    BY <2>8, <2>9, <2>10, <2>11, <2>12 DEF ProgressOK, ResolvedIsVerified
  <2> QED BY <1>1, <2>4, <2>5, <2>6, <2>13 DEF IInv
<1> QED BY <1>2, <1>3 DEF Execute

(* The employee is asked only after a change that passed its checks. *)
LEMMA VerifyIInv == ASSUME IInv, Verify PROVE IInv'
<1>1. /\ node = "verify" /\ node \in Working /\ ask.kind = "none" /\ state.final # "resolved"
      /\ state \in State /\ UNCHANGED <<envelope, change, built>> /\ change # NoChange
      /\ node \notin Stopped
  BY AtWork DEF Verify, Working, Stopped, IInv, ProgressOK
<1>2. PICK r \in VerifyRoutes :
        /\ Returns(ToPhase(r[1])) /\ checked' = r[2]
        /\ IF r[1] = "confirmation" THEN Raises("employee_confirmation", NoPlan)
                                    ELSE UNCHANGED <<ask, asked>>
  BY DEF Verify
<1>3. /\ r[1] \in {"confirmation", "execution", "diagnosis", "escalated"} /\ r[2] \in BOOLEAN
      /\ r[1] = "confirmation" => r[2] = TRUE
  <2>1. \/ r = <<"confirmation", TRUE>> \/ r = <<"execution", FALSE>>
        \/ r = <<"diagnosis", FALSE>> \/ r = <<"escalated", FALSE>>
    BY DEF VerifyRoutes
  <2>2. CASE r = <<"confirmation", TRUE>>
    BY <2>2
  <2>3. CASE r = <<"execution", FALSE>>
    BY <2>3
  <2>4. CASE r = <<"diagnosis", FALSE>>
    BY <2>4
  <2>5. CASE r = <<"escalated", FALSE>>
    BY <2>5
  <2> QED BY <2>1, <2>2, <2>3, <2>4, <2>5
<1> DEFINE s == ToPhase(r[1])
<1>4. /\ s \in State /\ s.phase = r[1] /\ s.final = state.final
      /\ s.approval = state.approval /\ s.grant = state.grant /\ s.plan = state.plan
      /\ s.token = state.token
  BY <1>1, <1>3, PhaseOf DEF Phases, TERMINAL_PHASES
<1>5. state' = s /\ node' = Route(s)
  BY <1>2 DEF Returns
<1> HIDE DEF s
<1>6. /\ node' \notin {"clarify", "verify"}
      /\ node' = "employee_confirmation_interrupt" <=> r[1] = "confirmation"
      /\ node' = "execute" => state'.approval \in {"approved", "not_required"}
  BY <1>3, <1>4, <1>5, RouteOf
<1>7. AskOK' /\ AnswersOK'
  <2>1. CASE r[1] = "confirmation"
    BY <1>1, <1>2, <1>6, <2>1, RaiseStep DEF Kinds
  <2>2. CASE r[1] # "confirmation"
    BY <1>1, <1>2, <2>2, NoAskStep
  <2> QED BY <2>1, <2>2
<1>8. GrantOK'
  BY <1>1, <1>4, <1>5, GrantKept DEF IInv
<1>9. ProgressOK'
  BY <1>1, <1>2, <1>3, <1>4, <1>5, <1>6
     DEF IInv, ProgressOK, ChangesStandApproved, ResolvedIsVerified
<1> QED BY <1>4, <1>5, <1>7, <1>8, <1>9 DEF IInv

LEMMA EscalateIInv == ASSUME IInv, Escalate PROVE IInv'
<1>1. /\ ask.kind = "none" /\ ask = NoAsk /\ state \in State /\ node = "escalate"
      /\ UNCHANGED <<ask, asked, envelope, change, built, checked>>
      /\ state' = Ends("escalated") /\ node' = "__end__"
  BY AtWork DEF Escalate, Working, IInv, AskOK
<1>2. AskOK' /\ AnswersOK'
  BY <1>1, NoAskStep DEF Stopped
<1>3. /\ Ends("escalated") \in State /\ Ends("escalated").final = "escalated"
      /\ Ends("escalated").approval = state.approval /\ Ends("escalated").grant = state.grant
      /\ Ends("escalated").plan = state.plan /\ Ends("escalated").token = state.token
  BY <1>1, EndsOf DEF TERMINAL_PHASES
<1>4. GrantOK' /\ ProgressOK'
  BY <1>1, <1>3 DEF IInv, GrantOK, ProgressOK, ChangesStandApproved, ResolvedIsVerified
<1> QED BY <1>1, <1>2, <1>3, <1>4 DEF IInv

LEMMA StepIInv == IInv /\ [SupportNext]_supportVars => IInv'
<1> SUFFICES ASSUME IInv, [SupportNext]_supportVars PROVE IInv'
  OBVIOUS
<1>1. CASE Greet \/ Intake \/ Clarify \/ RequestConsent \/ Diagnose
  BY <1>1, GreetIInv, IntakeIInv, ClarifyIInv, RequestConsentIInv, DiagnoseIInv
<1>2. CASE FuseEvidence \/ PlanRemediation \/ Execute \/ Verify \/ Escalate \/ Expire
  BY <1>2, FuseEvidenceIInv, PlanRemediationIInv, ExecuteIInv, VerifyIInv, EscalateIInv, ExpireIInv
<1>3. ASSUME NEW k \in DOMAIN DECISIONS, NEW d \in DECISIONS[k], Decide(d) PROVE IInv'
  BY <1>3, DecisionsAre, DecideIInv
<1>4. ASSUME NEW i \in Request, ConsentResumed(i) PROVE IInv'
  BY <1>4, ConsentResumedIInv
<1>5. ASSUME NEW i \in Request, ApprovalResumed(i) PROVE IInv'
  BY <1>5, ApprovalResumedIInv
<1>6. ASSUME NEW i \in Request, ConfirmationResumed(i) PROVE IInv'
  BY <1>6, ConfirmationResumedIInv
<1>7. CASE UNCHANGED supportVars
  BY <1>7 DEF supportVars, IInv, AskOK, AnswersOK, GrantOK, ProgressOK, ChangesStandApproved,
              ResolvedIsVerified
<1> QED BY <1>1, <1>2, <1>3, <1>4, <1>5, <1>6, <1>7 DEF SupportNext

LEMMA Invariant == SupportSpec => []IInv
<1> QED BY InitIInv, StepIInv, PTL DEF SupportSpec

(* The state of the graph, the requests and the envelopes stay of their types. *)
THEOREM TypeCorrect == SupportSpec => []SupportTypeOK
<1>1. IInv => SupportTypeOK
  <2> SUFFICES ASSUME IInv PROVE SupportTypeOK
    OBVIOUS
  <2>1. /\ change \in Change \cup {NoChange}
        /\ built \in {"before", "since"} /\ checked \in BOOLEAN
    BY DEF IInv, ProgressOK
  <2>2. state \in State /\ AskOK
    BY DEF IInv
  <2> QED BY <2>1, <2>2, DecisionsAre
          DEF AskOK, State, Phases, Envelope, Change, SupportTypeOK
<1> QED BY <1>1, Invariant, PTL

(* Whatever plans are made, approved, rejected and made again, and whatever envelopes and *)
(* tokens are left from earlier ones: a change goes out with every request before it      *)
(* answered with a yes, under the last approval given, and, unless a plan was built after *)
(* that, of the plan it was asked for (remediation_approval_interrupt_node,               *)
(* authorize_dispatch).                                                                   *)
THEOREM NoChangeOverANo == SupportSpec => []ChangesStandApproved
<1> QED BY Invariant, PTL DEF IInv, ProgressOK

(* A run is called resolved only when the last change passed its checks and the employee  *)
(* confirmed after that (employee_confirmation_interrupt_node).                           *)
THEOREM ResolvedWasVerified == SupportSpec => []ResolvedIsVerified
<1> QED BY Invariant, PTL DEF IInv, ProgressOK
===============================================================================
