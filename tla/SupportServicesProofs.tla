------------------------- MODULE SupportServicesProofs -------------------------
(***************************************************************************)
(* Theorems about the stores and calculations behind the incidents, component *)
(* by component, and at the end about all components side by side.         *)
(***************************************************************************)
EXTENDS SupportServices, SupportGraphProofs, TransportProofs, FiniteSetTheorems,
        WellFoundedInduction, TLAPS

-----------------------------------------------------------------------------
(***************************************************************************)
(* EvaluationGate, for any runs and policies.                              *)
(***************************************************************************)

\* Of a gate that is open or may be opened, the policy does not block the run; an open one
\* has an approver, who had looked at its run.
GateInv ==
  /\ GateTypeOK
  /\ gate.status \in {"review", "approved"} => <<gate.policy, gate.candidate>> \notin Blocks
  /\ gate.status = "approved" =>
       gate.approver \in Evaluator /\ looked_at[gate.approver] = gate.candidate

LEMMA GateInitInv == GateInit => GateInv
BY GateAssumption DEF GateInit, GateInv, GateTypeOK, NoGate

LEMMA GateStepInv == GateInv /\ [GateNext]_gateVars => GateInv'
<1> SUFFICES ASSUME GateInv, [GateNext]_gateVars PROVE GateInv'
  OBVIOUS
<1> USE GateAssumption
<1>1. ASSUME NEW run \in EvaluationRun, NEW policy \in Policy, Evaluate(run, policy)
      PROVE  GateInv'
  BY <1>1 DEF Evaluate, GateInv, GateTypeOK
<1>2. ASSUME NEW p \in Evaluator, LooksAt(p) PROVE GateInv'
  BY <1>2 DEF LooksAt, GateInv, GateTypeOK
<1>3. ASSUME NEW p \in Evaluator, ApproveGate(p) PROVE GateInv'
  BY <1>3 DEF ApproveGate, SameRun, GateInv, GateTypeOK
<1>4. CASE UNCHANGED gateVars
  BY <1>4 DEF gateVars, GateInv, GateTypeOK
<1> QED BY <1>1, <1>2, <1>3, <1>4 DEF GateNext

LEMMA GateInvOpens == GateInv => GateTypeOK /\ OpenedForItsRun
BY DEF GateInv, OpenedForItsRun

\* A gate that is open was opened by somebody who had looked at the run it holds, and the
\* policy it was last evaluated under does not block that run, however evaluations, looks
\* and approvals interleave.
THEOREM GatesOpenForTheirRun == GateSpec => [](GateTypeOK /\ OpenedForItsRun)
BY GateInitInv, GateStepInv, GateInvOpens, PTL DEF GateSpec

-----------------------------------------------------------------------------
(***************************************************************************)
(* ExecutionPipeline, for any runs and grants.                             *)
(***************************************************************************)

\* What may be recorded of a grant.
GrantRecord ==
  {NoRecord} \cup {[status |-> st, plan |-> p, session |-> s, expires_at |-> t] :
                     st \in {"issued", "consumed"}, p \in Plans, s \in Sessions, t \in 0 .. Deadline + GrantTime}

\* The grant is spent, on the plan and in the session.
PaysFor(g, plan, session) == /\ grants[g].status = "consumed"
                             /\ grants[g].plan = plan
                             /\ grants[g].session = session

AllPaid == \A d \in changes : PaysFor(d.grant, d.plan, d.session)

OnePerGrant == \A d, e \in changes : d.grant = e.grant => d = e

ClosedChanged == \A i \in Run : "closed" \in outcome[i] => \E d \in changes : d.incident = i

\* A call that remediates has spent a grant no change was paid with, one that verifies made
\* its change before.
PipelineInv ==
  /\ PipelineTypeOK
  /\ grants \in [Grant -> GrantRecord]
  /\ call.step = "remediating" =>
       /\ PaysFor(call.grant, call.plan, call.session)
       /\ \A d \in changes : d.grant # call.grant
  /\ call.step = "verifying" => \E d \in changes : d.incident = call.incident
  /\ OnePerGrant
  /\ AllPaid
  /\ ClosedChanged

LEMMA PositivePipeline ==
  GrantTime \in Nat /\ ToolTime \in Nat /\ Deadline \in Nat /\ MaxChanges \in Nat
BY PipelineAssumption

LEMMA PipelineInitInv == PipelineInit => PipelineInv
<1> SUFFICES ASSUME PipelineInit PROVE PipelineInv
  OBVIOUS
<1> USE PositivePipeline, PipelineAssumption
<1>1. grants \in [Grant -> GrantRecord]
  BY DEF PipelineInit, GrantRecord
<1>2. PipelineTypeOK
  BY DEF PipelineInit, PipelineTypeOK, NoRecord
<1> QED BY <1>1, <1>2 DEF PipelineInit, PipelineInv, NoCall, OnePerGrant, AllPaid, ClosedChanged

LEMMA GrantsTyped ==
  ASSUME NEW k \in GrantRecord
  PROVE  k.status \in {"absent", "issued", "consumed"} /\ k.expires_at \in 0 .. Deadline + GrantTime
BY PositivePipeline DEF GrantRecord, NoRecord

LEMMA IssuedTyped ==
  ASSUME PipelineTypeOK, NEW r \in Run, NEW c \in Run
  PROVE  Issued(r, c) \in GrantRecord
<1>1. time + GrantTime \in 0 .. Deadline + GrantTime
  BY PositivePipeline DEF PipelineTypeOK
<1>2. PlanOf[r] \in Plans /\ SessionOf[c] \in Sessions
  BY DEF Plans, Sessions
<1> QED BY <1>1, <1>2 DEF Issued, GrantRecord

LEMMA SpentTyped ==
  ASSUME NEW k \in GrantRecord, k.status = "issued"
  PROVE  /\ [k EXCEPT !.status = "consumed"] \in GrantRecord
         /\ [k EXCEPT !.status = "consumed"].status = "consumed"
         /\ [k EXCEPT !.status = "consumed"].plan = k.plan
         /\ [k EXCEPT !.status = "consumed"].session = k.session
<1>1. PICK st \in {"issued", "consumed"}, p \in Plans, s \in Sessions,
           t \in 0 .. Deadline + GrantTime :
        k = [status |-> st, plan |-> p, session |-> s, expires_at |-> t]
  BY DEF GrantRecord, NoRecord
<1>2. [k EXCEPT !.status = "consumed"]
        = [status |-> "consumed", plan |-> p, session |-> s, expires_at |-> t]
  BY <1>1
<1> QED BY <1>1, <1>2 DEF GrantRecord

\* The fields of a call under way, and of one that has just begun or gone a step further.
LEMMA CallTyped ==
  ASSUME PipelineTypeOK, call.step # "none"
  PROVE  /\ call.plan \in Plans /\ call.session \in Sessions
         /\ call.incident \in Run /\ call.grant \in Grant
         /\ [call EXCEPT !.step = "verifying"] =
              [plan |-> call.plan, session |-> call.session, incident |-> call.incident,
               grant |-> call.grant, step |-> "verifying"]
<1>1. call \in [plan : Plans, session : Sessions, incident : Run, grant : Grant,
                step : {"remediating", "verifying"}]
  BY DEF PipelineTypeOK, NoCall
<1> QED BY <1>1

\* The call ends, with or without an outcome that is justified.
LEMMA CallEnds ==
  ASSUME PipelineInv, call' = NoCall, UNCHANGED <<time, prepared, grants>>,
         changes' \subseteq DeviceChange, OnePerGrant', AllPaid',
         changes \subseteq changes',
         \/ UNCHANGED outcome
         \/ \E i \in Run, s \in {"failed", "closed", "diagnosing"} :
              /\ outcome' = [outcome EXCEPT ![i] = @ \cup {s}]
              /\ s = "closed" => \E d \in changes : d.incident = i
  PROVE  PipelineInv'
<1>1. /\ outcome' \in [Run -> SUBSET {"failed", "closed", "diagnosing"}]
      /\ ClosedChanged'
  BY DEF PipelineInv, PipelineTypeOK, ClosedChanged
<1>2. PipelineTypeOK'
  BY <1>1 DEF PipelineInv, PipelineTypeOK
<1>3. call'.step = "none"
  BY DEF NoCall
<1> QED BY <1>1, <1>2, <1>3 DEF PipelineInv

LEMMA PipelineStepInv == PipelineInv /\ [PipelineNext]_pipelineVars => PipelineInv'
<1> SUFFICES ASSUME PipelineInv, [PipelineNext]_pipelineVars PROVE PipelineInv'
  OBVIOUS
<1> USE PositivePipeline
<1>1. CASE PipelineTick
  <2>1. time + 1 \in 0 .. Deadline
    BY <1>1 DEF PipelineTick, PipelineInv, PipelineTypeOK
  <2>2. PipelineTypeOK'
    BY <1>1, <2>1 DEF PipelineTick, PipelineInv, PipelineTypeOK
  <2> QED BY <1>1, <2>2
          DEF PipelineTick, PipelineInv, PaysFor, OnePerGrant, AllPaid, ClosedChanged
<1>2. ASSUME NEW r \in Run, Prepare(r) PROVE PipelineInv'
  <2>1. PipelineTypeOK'
    BY <1>2 DEF Prepare, PipelineInv, PipelineTypeOK
  <2> QED BY <1>2, <2>1 DEF Prepare, PipelineInv, PaysFor, OnePerGrant, AllPaid, ClosedChanged
<1>3. ASSUME NEW r \in Run, NEW c \in Run, NEW g \in Grant, Issue(r, c, g) PROVE PipelineInv'
  <2>1. Issued(r, c) \in GrantRecord
    BY IssuedTyped DEF PipelineInv
  <2>2. grants' \in [Grant -> GrantRecord] /\ \A f \in Grant \ {g} : grants'[f] = grants[f]
    BY <1>3, <2>1 DEF Issue, PipelineInv
  <2>3. PipelineTypeOK'
    BY <1>3, <2>2, GrantsTyped DEF Issue, PipelineInv, PipelineTypeOK
  <2>4. \A d \in changes : d.grant # g /\ d.grant \in Grant
    BY <1>3 DEF Issue, NoRecord, PipelineInv, PipelineTypeOK, PaysFor, AllPaid, DeviceChange
  <2>5. AllPaid'
    BY <1>3, <2>2, <2>4 DEF Issue, PipelineInv, PaysFor, AllPaid
  <2>6. call'.step = "none"
    BY <1>3 DEF Issue, NoCall
  <2> QED BY <1>3, <2>2, <2>3, <2>5, <2>6 DEF Issue, PipelineInv, OnePerGrant, ClosedChanged
<1>4. ASSUME NEW r \in Run, NEW c \in Run, NEW i \in Run, NEW g \in Grant,
             ExecuteApproved(r, c, i, g)
      PROVE  PipelineInv'
  <2>1. PICK k \in {grants[g]} \cup (IF grants[g] = NoRecord THEN {Issued(r, c)} ELSE {}) :
          /\ Consumable(r, c, k)
          /\ grants' = [grants EXCEPT ![g] = [k EXCEPT !.status = "consumed"]]
    BY <1>4 DEF ExecuteApproved
  <2>2. k \in GrantRecord /\ grants[g].status # "consumed"
    BY <2>1, IssuedTyped DEF PipelineInv, Consumable, NoRecord
  <2>3. k.status = "issued" /\ k.plan = PlanOf[r] /\ k.session = SessionOf[c]
    BY <2>1 DEF Consumable
  <2> DEFINE spent == [k EXCEPT !.status = "consumed"]
  <2>4. /\ spent \in GrantRecord /\ spent.status = "consumed"
        /\ spent.plan = PlanOf[r] /\ spent.session = SessionOf[c]
    BY <2>2, <2>3, SpentTyped
  <2>5. /\ grants' \in [Grant -> GrantRecord] /\ grants'[g] = spent
        /\ \A f \in Grant \ {g} : grants'[f] = grants[f]
    BY <2>1, <2>4 DEF PipelineInv
  <2> HIDE DEF spent
  <2>6. /\ call'.step = "remediating" /\ call'.grant = g /\ call'.plan = PlanOf[r]
        /\ call'.session = SessionOf[c]
    BY <1>4 DEF ExecuteApproved
  <2>7. \A d \in changes : d.grant # g /\ d.grant \in Grant
    BY <2>2 DEF PipelineInv, PipelineTypeOK, PaysFor, AllPaid, DeviceChange
  <2>8. AllPaid'
    BY <1>4, <2>5, <2>7 DEF ExecuteApproved, PipelineInv, PaysFor, AllPaid
  <2>9. PipelineTypeOK'
    <3>1. call' \in [plan : Plans, session : Sessions, incident : Run, grant : Grant,
                     step : {"remediating", "verifying"}]
      BY <1>4 DEF ExecuteApproved, Plans, Sessions
    <3> QED BY <1>4, <2>5, <3>1, GrantsTyped DEF ExecuteApproved, PipelineInv, PipelineTypeOK
  <2>10. PaysFor(g, PlanOf[r], SessionOf[c])'
    BY <2>4, <2>5 DEF PaysFor
  <2>11. PaysFor(call.grant, call.plan, call.session)'
    BY <2>6, <2>10 DEF PaysFor
  <2> QED BY <1>4, <2>5, <2>6, <2>7, <2>8, <2>9, <2>11
          DEF ExecuteApproved, PipelineInv, OnePerGrant, ClosedChanged
<1>5. CASE Remediate
  <2>1. /\ call.incident \in Run /\ call.grant \in Grant /\ call.plan \in Plans
        /\ call.session \in Sessions /\ PaysFor(call.grant, call.plan, call.session)
        /\ \A d \in changes : d.grant # call.grant
    BY <1>5, CallTyped DEF Remediate, PipelineInv
  <2>2. \/ UNCHANGED outcome \/ outcome' = [outcome EXCEPT ![call.incident] = @ \cup {"failed"}]
    BY <1>5 DEF Remediate, Raised, Answers
  <2>3. CASE ChangesDevice
    <3>1. PICK n \in 1 .. MaxChanges :
            changes' = changes \cup {[number |-> n, plan |-> call.plan, session |-> call.session,
                                     incident |-> call.incident, grant |-> call.grant]}
      BY <2>3 DEF ChangesDevice
    <3> DEFINE new == [number |-> n, plan |-> call.plan, session |-> call.session,
                       incident |-> call.incident, grant |-> call.grant]
    <3>2. /\ new \in DeviceChange /\ new.grant = call.grant /\ new.plan = call.plan
          /\ new.session = call.session /\ new.incident = call.incident
      BY <2>1 DEF DeviceChange
    <3>3. changes' = changes \cup {new} /\ UNCHANGED grants
      BY <1>5, <3>1 DEF Remediate
    <3> HIDE DEF new
    <3>4. changes' \subseteq DeviceChange
      BY <3>2, <3>3 DEF PipelineInv, PipelineTypeOK
    <3>5. OnePerGrant'
      BY <2>1, <3>2, <3>3 DEF PipelineInv, OnePerGrant
    <3>6. AllPaid'
      BY <2>1, <3>2, <3>3 DEF PipelineInv, AllPaid, PaysFor
    <3>7. ASSUME call' = NoCall PROVE PipelineInv'
      BY <1>5, <2>1, <2>2, <3>3, <3>4, <3>5, <3>6, <3>7, CallEnds DEF Remediate
    <3>8. ASSUME call' = [call EXCEPT !.step = "verifying"], UNCHANGED outcome
          PROVE  PipelineInv'
      <4>1. call' = [plan |-> call.plan, session |-> call.session, incident |-> call.incident,
                     grant |-> call.grant, step |-> "verifying"]
        BY <1>5, <3>8, CallTyped DEF Remediate, PipelineInv
      <4>2. PipelineTypeOK'
        BY <1>5, <2>1, <3>4, <3>8, <4>1 DEF Remediate, PipelineInv, PipelineTypeOK
      <4>3. call'.step = "verifying" /\ \E d \in changes' : d.incident = call'.incident
        BY <3>2, <3>3, <4>1
      <4>4. ClosedChanged'
        BY <3>3, <3>8 DEF PipelineInv, ClosedChanged
      <4> QED BY <3>3, <3>5, <3>6, <4>2, <4>3, <4>4 DEF PipelineInv
    <3> QED BY <1>5, <2>3, <3>7, <3>8 DEF Remediate, Answers, Raised
  <2>4. CASE UNCHANGED changes
    <3>1. call' = NoCall \/ ChangesDevice
      BY <1>5 DEF Remediate, Answers, Raised
    <3>2. CASE call' = NoCall
      <4>1. changes' \subseteq DeviceChange /\ OnePerGrant' /\ AllPaid'
        BY <1>5, <2>4 DEF Remediate, PipelineInv, PipelineTypeOK, OnePerGrant, AllPaid, PaysFor
      <4> QED BY <1>5, <2>1, <2>2, <2>4, <3>2, <4>1, CallEnds DEF Remediate
    <3> QED BY <2>3, <3>1, <3>2
  <2> QED BY <1>5, <2>3, <2>4 DEF Remediate
<1>6. CASE VerifyChange
  <2>1. call.incident \in Run /\ \E d \in changes : d.incident = call.incident
    BY <1>6, CallTyped DEF VerifyChange, PipelineInv
  <2>2. /\ call' = NoCall
        /\ \/ UNCHANGED outcome
           \/ \E s \in {"failed", "closed", "diagnosing"} :
                outcome' = [outcome EXCEPT ![call.incident] = @ \cup {s}]
    BY <1>6 DEF VerifyChange, Answers, Raised
  <2>3. changes' \subseteq DeviceChange /\ OnePerGrant' /\ AllPaid'
    BY <1>6 DEF VerifyChange, PipelineInv, PipelineTypeOK, OnePerGrant, AllPaid, PaysFor
  <2> QED BY <1>6, <2>1, <2>2, <2>3, CallEnds DEF VerifyChange
<1>7. CASE UNCHANGED pipelineVars
  BY <1>7 DEF pipelineVars, PipelineInv, PipelineTypeOK, PaysFor, OnePerGrant, AllPaid,
              ClosedChanged
<1> QED BY <1>1, <1>2, <1>3, <1>4, <1>5, <1>6, <1>7 DEF PipelineNext

LEMMA PipelineInvPays == PipelineInv => PipelineTypeOK /\ EachChangeItsGrant
BY DEF PipelineInv, EachChangeItsGrant, PaysFor, OnePerGrant, AllPaid, ClosedChanged

\* approve_and_execute, whichever context, incident and outcome it is handed: a grant pays for
\* one change only, executed as the plan and in the session it was issued for, and an incident
\* is closed only when its own device was changed.
THEOREM ChangesArePaidFor == PipelineSpec => [](PipelineTypeOK /\ EachChangeItsGrant)
BY PipelineInitInv, PipelineStepInv, PipelineInvPays, PTL DEF PipelineSpec

-----------------------------------------------------------------------------
(***************************************************************************)
(* KnowledgeVersions, for any candidates.                                  *)
(***************************************************************************)

VersionOf == [status : {"published", "retired", "rolled_back"}, generation : Nat]
ArticleOf == [status : {"absent", "review", "published", "retired"}, versions : Seq(VersionOf)]

\* No generation is more than one beyond the tenant's, and only a retirement's is beyond it;
\* along a candidate's versions they never decrease.
OrderedVersions(versions) ==
  /\ Len(versions) <= MaxVersions
  /\ \A i \in 1 .. Len(versions) :
       /\ versions[i].generation <= index_generation + 1
       /\ versions[i].status # "retired" => versions[i].generation <= index_generation
  /\ \A i, j \in 1 .. Len(versions) :
       i <= j => versions[i].generation <= versions[j].generation

\* What the record says of the last version.
SaysLast(article) ==
  /\ article.versions = <<>> => article.status \in {"absent", "review"}
  /\ article.versions # <<>> =>
       /\ article.status \in {"published", "retired"}
       /\ article.status = "retired"
            <=> article.versions[Len(article.versions)].status = "retired"

\* The i-th refresh was of a version with generation i.
PointsAt(i) ==
  /\ refreshes[i][2] \in 1 .. Len(articles[refreshes[i][1]].versions)
  /\ articles[refreshes[i][1]].versions[refreshes[i][2]].generation = i

KnowledgeInv ==
  /\ articles \in [Candidate -> ArticleOf]
  /\ index_generation \in Nat
  /\ refreshes \in Seq(Candidate \X Nat)
  /\ Len(refreshes) = index_generation
  /\ \A i \in 1 .. Len(refreshes) : PointsAt(i)
  /\ \A c \in Candidate : OrderedVersions(articles[c].versions) /\ SaysLast(articles[c])

LEMMA KnowledgeInitInv == KnowledgeInit => KnowledgeInv
BY KnowledgeAssumption
   DEF KnowledgeInit, KnowledgeInv, ArticleOf, OrderedVersions, SaysLast, PointsAt

LEMMA GenerationsAreNumbers ==
  ASSUME NEW versions \in Seq(VersionOf)
  PROVE  /\ Len(versions) \in Nat
         /\ \A i \in 1 .. Len(versions) : versions[i].generation \in Nat
<1>1. \A i \in 1 .. Len(versions) : versions[i] \in VersionOf
  OBVIOUS
<1> QED BY <1>1 DEF VersionOf

\* A version goes on top of the candidate's: its generation is neither below the last one's
\* nor too far from the tenant's.
LEMMA OneVersionMore ==
  ASSUME KnowledgeInv, NEW c \in Candidate, NEW g \in Nat,
         NEW kind \in {"published", "retired", "rolled_back"},
         NEW status \in {"published", "retired"},
         Versioned(c, kind, g, status),
         index_generation' \in Nat, index_generation <= index_generation',
         g <= index_generation' + 1, kind # "retired" => g <= index_generation',
         \A i \in 1 .. Len(articles[c].versions) : articles[c].versions[i].generation <= g,
         status = "retired" <=> kind = "retired"
  PROVE  /\ articles' \in [Candidate -> ArticleOf]
         /\ \A d \in Candidate : OrderedVersions(articles[d].versions)' /\ SaysLast(articles[d])'
         /\ \A d \in Candidate : Len(articles[d].versions) <= Len(articles'[d].versions)
         /\ \A d \in Candidate : \A i \in 1 .. Len(articles[d].versions) :
              articles'[d].versions[i] = articles[d].versions[i]
         /\ Len(articles'[c].versions) = Len(articles[c].versions) + 1
         /\ articles'[c].versions[Len(articles[c].versions) + 1].generation = g
<1> DEFINE v == [status |-> kind, generation |-> g]
<1>0. PICK old \in Seq(VersionOf) : old = articles[c].versions
  BY DEF KnowledgeInv, ArticleOf
<1> DEFINE new == Append(old, v)
           article == [status |-> status, versions |-> new]
<1>1. v \in VersionOf /\ v.status = kind /\ v.generation = g
  BY DEF VersionOf
<1>2. Len(old) < MaxVersions /\ articles' = [articles EXCEPT ![c] = article]
  BY <1>0 DEF Versioned
<1> HIDE DEF v
<1>3. /\ new \in Seq(VersionOf) /\ Len(new) = Len(old) + 1
      /\ \A i \in 1 .. Len(old) : new[i] = old[i]
      /\ new[Len(old) + 1] = v /\ new # <<>>
  BY <1>1
<1>4. Len(old) \in Nat /\ \A i \in 1 .. Len(old) : old[i].generation \in Nat
  BY GenerationsAreNumbers
<1> HIDE DEF new
<1>5. article \in ArticleOf /\ article.versions = new /\ article.status = status
  BY <1>3 DEF ArticleOf
<1> HIDE DEF article
<1>6. articles' \in [Candidate -> ArticleOf] /\ articles'[c] = article
      /\ \A d \in Candidate \ {c} : articles'[d] = articles[d]
  BY <1>2, <1>5 DEF KnowledgeInv
<1>7. OrderedVersions(old)
  BY <1>0 DEF KnowledgeInv
<1>8. ASSUME NEW d \in Candidate \ {c} PROVE OrderedVersions(articles[d].versions)'
  <2>1. PICK s \in Seq(VersionOf) : s = articles[d].versions
    BY DEF KnowledgeInv, ArticleOf
  <2>2. OrderedVersions(s) /\ \A i \in 1 .. Len(s) : s[i].generation \in Nat
    BY <2>1, GenerationsAreNumbers DEF KnowledgeInv
  <2>3. articles'[d].versions = s
    BY <1>6, <2>1
  <2>4. Len(s) <= MaxVersions
    BY <2>2 DEF OrderedVersions
  <2>5. ASSUME NEW i \in 1 .. Len(s)
        PROVE  /\ s[i].generation <= index_generation' + 1
               /\ s[i].status # "retired" => s[i].generation <= index_generation'
    <3> index_generation \in Nat
      BY DEF KnowledgeInv
    <3> QED BY <2>2 DEF OrderedVersions
  <2> QED BY <2>2, <2>3, <2>4, <2>5 DEF OrderedVersions
<1>9. OrderedVersions(articles[c].versions)'
  <2>1. Len(new) <= MaxVersions
    BY <1>2, <1>3, <1>4, KnowledgeAssumption
  <2>2. ASSUME NEW i \in 1 .. Len(new)
        PROVE  /\ new[i].generation \in Nat /\ new[i].generation <= g
               /\ new[i].generation <= index_generation' + 1
               /\ new[i].status # "retired" => new[i].generation <= index_generation'
    <3> index_generation \in Nat
      BY DEF KnowledgeInv
    <3>1. CASE i \in 1 .. Len(old)
      <4>1. old[i].generation <= g
        BY <1>0, <3>1
      <4>2. /\ old[i].generation <= index_generation + 1
            /\ old[i].status # "retired" => old[i].generation <= index_generation
        BY <1>7, <3>1 DEF OrderedVersions
      <4> QED BY <1>3, <1>4, <3>1, <4>1, <4>2
    <3>2. CASE i = Len(old) + 1
      <4>1. new[i].generation = g /\ new[i].status = kind
        BY <1>1, <1>3, <3>2
      <4> QED BY <4>1
    <3> QED BY <1>3, <1>4, <3>1, <3>2
  <2>3. ASSUME NEW i \in 1 .. Len(new), NEW j \in 1 .. Len(new), i <= j
        PROVE  new[i].generation <= new[j].generation
    <3>1. CASE j \in 1 .. Len(old)
      BY <1>3, <1>4, <1>7, <2>3, <3>1 DEF OrderedVersions
    <3>2. CASE j = Len(old) + 1
      BY <1>1, <1>3, <2>2, <3>2
    <3> QED BY <1>3, <1>4, <3>1, <3>2
  <2>4. articles'[c].versions = new
    BY <1>5, <1>6
  <2> QED BY <2>1, <2>2, <2>3, <2>4 DEF OrderedVersions
<1>10. ASSUME NEW d \in Candidate PROVE SaysLast(articles[d])'
  <2>1. CASE d = c
    BY <1>1, <1>3, <1>5, <1>6, <2>1 DEF SaysLast
  <2>2. CASE d # c
    BY <1>6, <2>2 DEF SaysLast, KnowledgeInv
  <2> QED BY <2>1, <2>2
<1>11. \A d \in Candidate : Len(articles[d].versions) \in Nat
  BY DEF KnowledgeInv, ArticleOf
<1>12. ASSUME NEW d \in Candidate
       PROVE  /\ Len(articles[d].versions) <= Len(articles'[d].versions)
              /\ \A i \in 1 .. Len(articles[d].versions) :
                   articles'[d].versions[i] = articles[d].versions[i]
  <2>1. CASE d = c
    <3>1. articles'[d].versions = new /\ articles[d].versions = old
      BY <1>0, <1>5, <1>6, <2>1
    <3> QED BY <1>3, <1>4, <3>1
  <2>2. CASE d # c
    <3>1. articles'[d] = articles[d]
      BY <1>6, <2>2
    <3> QED BY <1>11, <3>1
  <2> QED BY <2>1, <2>2
<1>13. articles'[c].versions = new
  BY <1>5, <1>6
<1>14. /\ Len(articles'[c].versions) = Len(articles[c].versions) + 1
       /\ articles'[c].versions[Len(articles[c].versions) + 1].generation = g
  BY <1>0, <1>1, <1>3, <1>13
<1> QED BY <1>6, <1>8, <1>9, <1>10, <1>12, <1>14

\* Where a refresh points does not move when versions are added.
LEMMA PointsStay ==
  ASSUME KnowledgeInv, NEW i \in 1 .. Len(refreshes), refreshes'[i] = refreshes[i],
         \A d \in Candidate : Len(articles'[d].versions) \in Nat,
         \A d \in Candidate : Len(articles[d].versions) <= Len(articles'[d].versions),
         \A d \in Candidate : \A n \in 1 .. Len(articles[d].versions) :
           articles'[d].versions[n] = articles[d].versions[n]
  PROVE  /\ refreshes'[i][2] \in 1 .. Len(articles'[refreshes'[i][1]].versions)
         /\ articles'[refreshes'[i][1]].versions[refreshes'[i][2]].generation = i
<1>1. refreshes[i] \in Candidate \X Nat
  BY DEF KnowledgeInv
<1>2. PICK d \in Candidate, n \in Nat : d = refreshes[i][1] /\ n = refreshes[i][2]
  BY <1>1
<1>3. n \in 1 .. Len(articles[d].versions) /\ articles[d].versions[n].generation = i
  BY <1>2 DEF KnowledgeInv, PointsAt
<1>4. Len(articles[d].versions) \in Nat
  BY DEF KnowledgeInv, ArticleOf
<1>5. n \in 1 .. Len(articles'[d].versions) /\ articles'[d].versions[n].generation = i
  BY <1>3, <1>4, SMTT(30)
<1> QED BY <1>2, <1>5

LEMMA RefreshedInv ==
  ASSUME KnowledgeInv, NEW c \in Candidate, NEW kind \in {"published", "rolled_back"},
         Refreshed(c, kind)
  PROVE  KnowledgeInv'
<1> DEFINE g == index_generation + 1
<1>1. /\ Versioned(c, kind, g, "published") /\ index_generation' = g
      /\ refreshes' = Append(refreshes, <<c, Len(articles[c].versions) + 1>>)
  BY DEF Refreshed, NextGeneration
<1>2. g \in Nat /\ index_generation \in Nat
  BY DEF KnowledgeInv
<1>3. articles[c].versions \in Seq(VersionOf)
  BY DEF KnowledgeInv, ArticleOf
<1>4. \A i \in 1 .. Len(articles[c].versions) : articles[c].versions[i].generation <= g
  BY DEF KnowledgeInv, OrderedVersions
<1>5. /\ articles' \in [Candidate -> ArticleOf]
      /\ \A d \in Candidate : OrderedVersions(articles[d].versions)' /\ SaysLast(articles[d])'
      /\ \A d \in Candidate : Len(articles[d].versions) <= Len(articles'[d].versions)
      /\ \A d \in Candidate : \A i \in 1 .. Len(articles[d].versions) :
           articles'[d].versions[i] = articles[d].versions[i]
      /\ Len(articles'[c].versions) = Len(articles[c].versions) + 1
      /\ articles'[c].versions[Len(articles[c].versions) + 1].generation = g
  <2>1. /\ index_generation' \in Nat /\ index_generation <= index_generation'
        /\ g <= index_generation' + 1 /\ g <= index_generation'
    BY <1>1, <1>2
  <2>2. /\ kind \in {"published", "retired", "rolled_back"} /\ kind # "retired"
        /\ "published" \in {"published", "retired"}
    OBVIOUS
  <2> HIDE DEF g
  <2> QED BY <1>1, <1>2, <1>4, <2>1, <2>2, OneVersionMore
<1>6. PICK position \in Nat : position = Len(articles[c].versions) + 1
  BY <1>3
<1>7. /\ refreshes' \in Seq(Candidate \X Nat) /\ Len(refreshes') = g
      /\ \A i \in 1 .. Len(refreshes) : refreshes'[i] = refreshes[i]
      /\ refreshes'[g] = <<c, position>> /\ Len(refreshes) = index_generation
  BY <1>1, <1>6 DEF KnowledgeInv
<1>8. \A d \in Candidate : Len(articles'[d].versions) \in Nat
  BY <1>5 DEF ArticleOf
<1>9. ASSUME NEW i \in 1 .. Len(refreshes') PROVE PointsAt(i)'
  <2>1. CASE i = g
    <3>1. refreshes'[i][1] = c /\ refreshes'[i][2] = position
      BY <1>7, <2>1
    <3>2. position \in 1 .. Len(articles'[c].versions)
      BY <1>3, <1>5, <1>6
    <3>3. articles'[c].versions[position].generation = i
      BY <1>5, <1>6, <2>1
    <3> QED BY <3>1, <3>2, <3>3 DEF PointsAt
  <2>2. CASE i # g
    <3>1. i \in 1 .. Len(refreshes) /\ refreshes'[i] = refreshes[i]
      BY <1>2, <1>7, <2>2
    <3> QED BY <1>5, <1>8, <3>1, PointsStay DEF PointsAt
  <2> QED BY <2>1, <2>2
<1> QED BY <1>1, <1>2, <1>5, <1>7, <1>9 DEF KnowledgeInv

LEMMA RetireInv == ASSUME KnowledgeInv, NEW c \in Candidate, Retire(c) PROVE KnowledgeInv'
<1>1. PICK n \in Nat : n = Len(articles[c].versions)
  BY DEF KnowledgeInv, ArticleOf
<1>2. articles[c].versions \in Seq(VersionOf)
  BY DEF KnowledgeInv, ArticleOf
<1>3. articles[c].versions # <<>> /\ articles[c].versions[n].status # "retired"
  BY <1>1 DEF Retire, KnowledgeInv, SaysLast
<1>4. n \in 1 .. Len(articles[c].versions)
  BY <1>1, <1>2, <1>3
<1>5. PICK last \in Nat : last = articles[c].versions[n].generation
  BY <1>2, <1>4, GenerationsAreNumbers
<1>6. last <= index_generation /\ index_generation \in Nat
  BY <1>3, <1>4, <1>5 DEF KnowledgeInv, OrderedVersions
<1>7. \A i \in 1 .. Len(articles[c].versions) : articles[c].versions[i].generation <= last + 1
  <2>1. ASSUME NEW i \in 1 .. Len(articles[c].versions)
        PROVE  articles[c].versions[i].generation <= last + 1
    <3>1. articles[c].versions[i].generation <= last
      BY <1>1, <1>4, <1>5 DEF KnowledgeInv, OrderedVersions
    <3>2. articles[c].versions[i].generation \in Nat
      BY <1>2, GenerationsAreNumbers
    <3> QED BY <3>1, <3>2
  <2> QED BY <2>1
<1>8. Versioned(c, "retired", last + 1, "retired") /\ UNCHANGED <<index_generation, refreshes>>
  BY <1>1, <1>5 DEF Retire
<1>9. /\ articles' \in [Candidate -> ArticleOf]
      /\ \A d \in Candidate : OrderedVersions(articles[d].versions)' /\ SaysLast(articles[d])'
      /\ \A d \in Candidate : Len(articles[d].versions) <= Len(articles'[d].versions)
      /\ \A d \in Candidate : \A i \in 1 .. Len(articles[d].versions) :
           articles'[d].versions[i] = articles[d].versions[i]
  <2>1. /\ last + 1 \in Nat /\ index_generation' \in Nat /\ last + 1 <= index_generation' + 1
        /\ index_generation <= index_generation'
    BY <1>6, <1>8
  <2>2. "retired" \in {"published", "retired", "rolled_back"} /\ "retired" \in {"published", "retired"}
    OBVIOUS
  <2> DEFINE g == last + 1
  <2>3. /\ g \in Nat /\ g <= index_generation' + 1 /\ Versioned(c, "retired", g, "retired")
        /\ \A i \in 1 .. Len(articles[c].versions) : articles[c].versions[i].generation <= g
    BY <1>7, <1>8, <2>1
  <2> HIDE DEF g
  <2> QED BY <2>1, <2>2, <2>3, OneVersionMore
<1>10. \A d \in Candidate : Len(articles'[d].versions) \in Nat
  BY <1>9 DEF ArticleOf
<1>11. \A i \in 1 .. Len(refreshes') : PointsAt(i)'
  BY <1>8, <1>9, <1>10, PointsStay DEF PointsAt
<1> QED BY <1>8, <1>9, <1>11 DEF KnowledgeInv

LEMMA KnowledgeStepInv == KnowledgeInv /\ [KnowledgeNext]_knowledgeVars => KnowledgeInv'
<1> SUFFICES ASSUME KnowledgeInv, [KnowledgeNext]_knowledgeVars PROVE KnowledgeInv'
  OBVIOUS
<1>1. ASSUME NEW c \in Candidate, Submitted(c) PROVE KnowledgeInv'
  <2>1. articles[c] \in ArticleOf /\ articles[c].versions = <<>>
    BY <1>1 DEF Submitted, KnowledgeInv, SaysLast
  <2>2. articles' \in [Candidate -> ArticleOf]
    BY <1>1 DEF Submitted, KnowledgeInv, ArticleOf
  <2>3. /\ \A d \in Candidate : articles'[d].versions = articles[d].versions
        /\ articles'[c].status = "review"
        /\ \A d \in Candidate \ {c} : articles'[d] = articles[d]
    BY <1>1 DEF Submitted, KnowledgeInv, ArticleOf
  <2>4. ASSUME NEW d \in Candidate
        PROVE  OrderedVersions(articles[d].versions)' /\ SaysLast(articles[d])'
    <3>1. OrderedVersions(articles[d].versions)'
      BY <1>1, <2>3 DEF Submitted, KnowledgeInv, OrderedVersions
    <3>2. SaysLast(articles[d])'
      BY <2>1, <2>3 DEF KnowledgeInv, SaysLast
    <3> QED BY <3>1, <3>2
  <2>5. \A i \in 1 .. Len(refreshes') : refreshes'[i] = refreshes[i] /\ refreshes[i][1] \in Candidate
    BY <1>1 DEF Submitted, KnowledgeInv
  <2>6. \A i \in 1 .. Len(refreshes') : PointsAt(i)'
    BY <1>1, <2>3, <2>5 DEF Submitted, KnowledgeInv, PointsAt
  <2> QED BY <1>1, <2>2, <2>4, <2>6 DEF Submitted, KnowledgeInv
<1>2. ASSUME NEW c \in Candidate, Publish(c) PROVE KnowledgeInv'
  BY <1>2, RefreshedInv DEF Publish
<1>3. ASSUME NEW c \in Candidate, Retire(c) PROVE KnowledgeInv'
  BY <1>3, RetireInv
<1>4. ASSUME NEW c \in Candidate, NEW n \in 1 .. MaxVersions, RollbackVersion(c, n)
      PROVE  KnowledgeInv'
  BY <1>4, RefreshedInv DEF RollbackVersion
<1>5. CASE UNCHANGED knowledgeVars
  BY <1>5 DEF knowledgeVars, KnowledgeInv, OrderedVersions, SaysLast, PointsAt
<1> QED BY <1>1, <1>2, <1>3, <1>4, <1>5 DEF KnowledgeNext

LEMMA KnowledgeInvTells == KnowledgeInv => KnowledgeTypeOK /\ GenerationsTell
<1> SUFFICES ASSUME KnowledgeInv PROVE KnowledgeTypeOK /\ GenerationsTell
  OBVIOUS
<1>1. KnowledgeTypeOK
  BY DEF KnowledgeInv, KnowledgeTypeOK, ArticleOf, OrderedVersions
<1>2. ASSUME NEW c \in Candidate, NEW i \in 2 .. Len(articles[c].versions)
      PROVE  articles[c].versions[i - 1].generation <= articles[c].versions[i].generation
  <2>1. i - 1 \in 1 .. Len(articles[c].versions) /\ i \in 1 .. Len(articles[c].versions)
        /\ i - 1 <= i
    BY DEF KnowledgeInv, ArticleOf
  <2> QED BY <2>1 DEF KnowledgeInv, OrderedVersions
<1> QED BY <1>1, <1>2 DEF KnowledgeInv, GenerationsTell, PointsAt, SaysLast

\* The generations tell in which order the publications and rollbacks of a tenant were made;
\* a candidate's versions never go back in them, and its record says what the last one is.
THEOREM GenerationsKeepOrder == KnowledgeSpec => [](KnowledgeTypeOK /\ GenerationsTell)
BY KnowledgeInitInv, KnowledgeStepInv, KnowledgeInvTells, PTL DEF KnowledgeSpec

-----------------------------------------------------------------------------
(***************************************************************************)
(* StepUp, for any handlers, transactions and grants.                      *)
(***************************************************************************)

TransactionRecord == [status : {"none", "open", "consumed"}, session : Login \cup {Nothing},
                      scope : Scope \cup {Nothing}, created_at : 0 .. LastInstant]
HandlerRecord     == [at : {"idle", "body", "provider"}, session : Login \cup {Nothing},
                      transaction : Transaction \cup {Nothing}, now : 0 .. LastInstant]
StepUpGrantRecord == [session : Login \cup {Nothing}, scope : Scope \cup {Nothing},
                      expires_at : 0 .. LastInstant + GrantTtl, auth_time : 0 .. LastInstant,
                      transaction : Transaction \cup {Nothing}]
UseRecord         == [number : 1 .. MaxUses, grant : StepUpGrant, session : Login,
                      scope : Scope, at : 0 .. LastInstant]

StepUpTyped ==
  /\ instant \in 0 .. LastInstant
  /\ login \in [Login -> {"none", "active", "revoked"}]
  /\ transactions \in [Transaction -> TransactionRecord]
  /\ handler \in [StepUpHandler -> HandlerRecord]
  /\ granted \in [StepUpGrant -> StepUpGrantRecord]
  /\ consumed \subseteq StepUpGrant
  /\ uses \subseteq UseRecord /\ IsFiniteSet(uses)

\* A transaction that began, for a session and a scope.
Begun(t) == /\ transactions[t].session \in Login /\ transactions[t].scope \in Scope
            /\ transactions[t].created_at <= instant

\* A callback that popped its transaction and waits for the provider.
AtProvider(h) == handler[h].at = "provider" =>
  /\ handler[h].transaction \in Transaction
  /\ transactions[handler[h].transaction].status = "consumed"
  /\ handler[h].now <= instant

\* A grant holds what its transaction was begun for, and expires within two lifetimes of
\* the authentication it is for.
IssuedFor(g) == granted[g] # NoGrantYet =>
  /\ granted[g].transaction \in Transaction
  /\ transactions[granted[g].transaction].status = "consumed"
  /\ granted[g].session = transactions[granted[g].transaction].session
  /\ granted[g].scope = transactions[granted[g].transaction].scope
  /\ granted[g].expires_at <= granted[g].auth_time + 2 * GrantTtl

UsedFor(u) ==
  /\ u.grant \in consumed /\ granted[u.grant] # NoGrantYet
  /\ u.session = granted[u.grant].session /\ u.scope = granted[u.grant].scope
  /\ transactions[granted[u.grant].transaction].created_at <= u.at
  /\ u.at < granted[u.grant].expires_at

\* A transaction is with one callback or in one grant, and a grant in one use.
EachOnce ==
  /\ \A h, i \in StepUpHandler :
       handler[h].at = "provider" /\ handler[i].at = "provider"
         /\ handler[h].transaction = handler[i].transaction => h = i
  /\ \A h \in StepUpHandler, g \in StepUpGrant :
       handler[h].at = "provider" /\ granted[g] # NoGrantYet
         => handler[h].transaction # granted[g].transaction
  /\ \A f, g \in StepUpGrant :
       granted[f] # NoGrantYet /\ granted[g] # NoGrantYet
         /\ granted[f].transaction = granted[g].transaction => f = g
  /\ \A u, v \in uses : u.grant = v.grant => u = v

StepUpInv ==
  /\ StepUpTyped
  /\ \A t \in Transaction : transactions[t].status # "none" => Begun(t)
  /\ \A h \in StepUpHandler : handler[h].at = "body" => handler[h].session \in Login
  /\ \A h \in StepUpHandler : AtProvider(h)
  /\ \A g \in StepUpGrant : IssuedFor(g)
  /\ \A u \in uses : UsedFor(u)
  /\ EachOnce

LEMMA PositiveTimes ==
  GrantTtl \in Nat /\ TransactionTtl \in Nat /\ MaxUses \in Nat /\ LastInstant \in Nat
BY StepUpAssumption

LEMMA EmptyRecords ==
  /\ NoTransaction \in TransactionRecord /\ NoHandler \in HandlerRecord
  /\ NoGrantYet \in StepUpGrantRecord /\ NoTransaction.status = "none" /\ NoHandler.at = "idle"
<1> 0 \in 0 .. LastInstant /\ 0 \in 0 .. LastInstant + GrantTtl
  BY PositiveTimes
<1> QED BY DEF NoTransaction, NoHandler, NoGrantYet, TransactionRecord, HandlerRecord,
               StepUpGrantRecord

LEMMA StepUpInitInv == StepUpInit => StepUpInv
<1> SUFFICES ASSUME StepUpInit PROVE StepUpInv
  OBVIOUS
<1>1. StepUpTyped
  BY PositiveTimes, EmptyRecords, FS_EmptySet DEF StepUpInit, StepUpTyped
<1>2. /\ \A t \in Transaction : transactions[t].status = "none"
      /\ \A h \in StepUpHandler : handler[h].at = "idle"
      /\ \A g \in StepUpGrant : granted[g] = NoGrantYet
      /\ uses = {}
  BY EmptyRecords DEF StepUpInit
<1> QED BY <1>1, <1>2 DEF StepUpInv, AtProvider, IssuedFor, EachOnce

LEMMA StepUpInvPays == StepUpInv => StepUpTypeOK /\ OneActionPerStepUp
<1> SUFFICES ASSUME StepUpInv PROVE StepUpTypeOK /\ OneActionPerStepUp
  OBVIOUS
<1>1. StepUpTypeOK
  BY DEF StepUpInv, StepUpTyped, StepUpTypeOK, TransactionRecord, HandlerRecord,
         StepUpGrantRecord, UseRecord
<1>2. \A u \in uses : u.grant \in StepUpGrant /\ u.at \in Nat
  BY PositiveTimes DEF StepUpInv, StepUpTyped, UseRecord
<1>3. ASSUME NEW u \in uses, NEW v \in uses,
             granted[u.grant].transaction = granted[v.grant].transaction
      PROVE  u = v
  BY <1>2, <1>3 DEF StepUpInv, UsedFor, EachOnce
<1>4. ASSUME NEW u \in uses
      PROVE  /\ u.session = transactions[granted[u.grant].transaction].session
             /\ u.scope = transactions[granted[u.grant].transaction].scope
             /\ transactions[granted[u.grant].transaction].created_at <= u.at
             /\ u.at < granted[u.grant].auth_time + 2 * GrantTtl
  <2>1. UsedFor(u) /\ IssuedFor(u.grant) /\ granted[u.grant] \in StepUpGrantRecord
    BY <1>2 DEF StepUpInv, StepUpTyped
  <2>2. granted[u.grant].expires_at \in Nat /\ granted[u.grant].auth_time \in Nat
    BY <2>1, PositiveTimes DEF StepUpGrantRecord
  <2> QED BY <1>2, <2>1, <2>2, PositiveTimes DEF UsedFor, IssuedFor
<1> QED BY <1>1, <1>3, <1>4 DEF OneActionPerStepUp

\* A transaction that was consumed, or one whose callback is not over, is as it was; so are
\* the grants that were issued.
LEMMA IssuedStays ==
  ASSUME StepUpInv, UNCHANGED granted, 
         \A t \in Transaction : transactions[t].status = "consumed"
                                  => transactions'[t] = transactions[t]
  PROVE  \A g \in StepUpGrant : IssuedFor(g)'
BY DEF StepUpInv, IssuedFor

LEMMA UsedStays ==
  ASSUME StepUpInv, consumed \subseteq consumed',
         \A g \in StepUpGrant : granted[g] # NoGrantYet => granted'[g] = granted[g],
         \A t \in Transaction : transactions[t].status = "consumed"
                                  => transactions'[t] = transactions[t]
  PROVE  \A u \in uses : UsedFor(u)'
<1> SUFFICES ASSUME NEW u \in uses PROVE UsedFor(u)'
  OBVIOUS
<1>1. u.grant \in StepUpGrant /\ UsedFor(u)
  BY DEF StepUpInv, StepUpTyped, UseRecord
<1>2. granted[u.grant] # NoGrantYet /\ IssuedFor(u.grant)
  BY <1>1 DEF StepUpInv, UsedFor
<1>3. granted'[u.grant] = granted[u.grant]
  BY <1>1, <1>2
<1>4. granted[u.grant].transaction \in Transaction
      /\ transactions[granted[u.grant].transaction].status = "consumed"
  BY <1>2 DEF IssuedFor
<1>5. transactions'[granted[u.grant].transaction] = transactions[granted[u.grant].transaction]
  BY <1>4
<1> QED BY <1>1, <1>3, <1>5 DEF UsedFor

\* A handler that is over, or reads the body, is at no provider.
LEMMA HandlerLeaves ==
  ASSUME StepUpInv, NEW h \in StepUpHandler, NEW k \in HandlerRecord,
         handler' = [handler EXCEPT ![h] = k], k.at # "provider",
         k.at = "body" => k.session \in Login,
         UNCHANGED <<instant, granted, uses>>,
         \A t \in Transaction : transactions[t].status = "consumed"
                                  => transactions'[t] = transactions[t]
  PROVE  /\ handler' \in [StepUpHandler -> HandlerRecord]
         /\ \A i \in StepUpHandler : handler'[i].at = "body" => handler'[i].session \in Login
         /\ \A i \in StepUpHandler : AtProvider(i)'
         /\ EachOnce'
<1>1. /\ handler' \in [StepUpHandler -> HandlerRecord] /\ handler'[h] = k
      /\ \A i \in StepUpHandler \ {h} : handler'[i] = handler[i]
  BY DEF StepUpInv, StepUpTyped
<1>2. \A i \in StepUpHandler : AtProvider(i)'
  BY <1>1 DEF StepUpInv, AtProvider
<1>3. EachOnce'
  BY <1>1 DEF StepUpInv, EachOnce
<1> QED BY <1>1, <1>2, <1>3 DEF StepUpInv

LEMMA AskArrivesInv ==
  ASSUME StepUpInv, NEW h \in StepUpHandler, NEW s \in Login, AskArrives(h, s)
  PROVE  StepUpInv'
<1> DEFINE k == [NoHandler EXCEPT !.at = "body", !.session = s]
<1>1. k \in HandlerRecord /\ k.at = "body" /\ k.session = s
  BY EmptyRecords DEF NoHandler, HandlerRecord
<1>2. handler' = [handler EXCEPT ![h] = k]
      /\ UNCHANGED <<instant, login, transactions, granted, consumed, uses>>
  BY DEF AskArrives
<1> HIDE DEF k
<1>3. /\ handler' \in [StepUpHandler -> HandlerRecord]
      /\ \A i \in StepUpHandler : handler'[i].at = "body" => handler'[i].session \in Login
      /\ \A i \in StepUpHandler : AtProvider(i)'
      /\ EachOnce'
  BY <1>1, <1>2, HandlerLeaves
<1>4. /\ \A g \in StepUpGrant : IssuedFor(g)'
      /\ \A u \in uses : UsedFor(u)'
  BY <1>2, IssuedStays, UsedStays
<1> QED BY <1>2, <1>3, <1>4 DEF StepUpInv, StepUpTyped, Begun

LEMMA HandlerFailsInv ==
  ASSUME StepUpInv, NEW h \in StepUpHandler, HandlerFails(h)
  PROVE  StepUpInv'
<1>1. NoHandler \in HandlerRecord /\ NoHandler.at = "idle"
  BY EmptyRecords
<1>2. handler' = [handler EXCEPT ![h] = NoHandler]
      /\ UNCHANGED <<instant, login, transactions, granted, consumed, uses>>
  BY DEF HandlerFails
<1>3. /\ handler' \in [StepUpHandler -> HandlerRecord]
      /\ \A i \in StepUpHandler : handler'[i].at = "body" => handler'[i].session \in Login
      /\ \A i \in StepUpHandler : AtProvider(i)'
      /\ EachOnce'
  BY <1>1, <1>2, HandlerLeaves
<1>4. /\ \A g \in StepUpGrant : IssuedFor(g)'
      /\ \A u \in uses : UsedFor(u)'
  BY <1>2, IssuedStays, UsedStays
<1> QED BY <1>2, <1>3, <1>4 DEF StepUpInv, StepUpTyped, Begun

LEMMA AskBeginsInv ==
  ASSUME StepUpInv, NEW h \in StepUpHandler, NEW scope \in Scope, NEW t \in Transaction,
         AskBegins(h, scope, t)
  PROVE  StepUpInv'
<1> DEFINE k == [status |-> "open", session |-> handler[h].session, scope |-> scope,
                 created_at |-> instant]
<1>1. /\ transactions' = [transactions EXCEPT ![t] = k] /\ transactions[t] = NoTransaction
      /\ handler' = [handler EXCEPT ![h] = NoHandler]
      /\ UNCHANGED <<instant, login, granted, consumed, uses>>
      /\ handler[h].session \in Login
  BY DEF AskBegins, StepUpInv
<1>2. /\ k \in TransactionRecord /\ k.session \in Login /\ k.scope \in Scope
      /\ k.created_at = instant /\ k.status = "open"
  BY <1>1 DEF StepUpInv, StepUpTyped, TransactionRecord
<1> HIDE DEF k
<1>3. /\ transactions' \in [Transaction -> TransactionRecord] /\ transactions'[t] = k
      /\ \A u \in Transaction \ {t} : transactions'[u] = transactions[u]
  BY <1>1, <1>2 DEF StepUpInv, StepUpTyped
<1>4. \A u \in Transaction : transactions[u].status = "consumed"
                                => transactions'[u] = transactions[u]
  BY <1>1, <1>3, EmptyRecords
<1>5. /\ handler' \in [StepUpHandler -> HandlerRecord]
      /\ \A i \in StepUpHandler : handler'[i].at = "body" => handler'[i].session \in Login
      /\ \A i \in StepUpHandler : AtProvider(i)'
      /\ EachOnce'
  BY <1>1, <1>4, HandlerLeaves, EmptyRecords
<1>6. /\ \A g \in StepUpGrant : IssuedFor(g)'
      /\ \A u \in uses : UsedFor(u)'
  BY <1>1, <1>4, IssuedStays, UsedStays
<1>7. instant \in Nat
  BY PositiveTimes DEF StepUpInv, StepUpTyped
<1>8. \A u \in Transaction : transactions'[u].status # "none" => Begun(u)'
  BY <1>1, <1>2, <1>3, <1>7 DEF StepUpInv, Begun
<1> QED BY <1>1, <1>3, <1>5, <1>6, <1>8 DEF StepUpInv, StepUpTyped

LEMMA CallbackArrivesInv ==
  ASSUME StepUpInv, NEW h \in StepUpHandler, NEW t \in Transaction, CallbackArrives(h, t)
  PROVE  StepUpInv'
<1> DEFINE k == [at |-> "provider", session |-> Nothing, transaction |-> t, now |-> instant]
<1>1. /\ transactions[t].status = "open"
      /\ transactions' = [transactions EXCEPT ![t] = [transactions[t] EXCEPT !.status = "consumed"]]
      /\ UNCHANGED <<instant, login, granted, consumed, uses>>
      /\ UNCHANGED handler \/ handler' = [handler EXCEPT ![h] = k]
  BY DEF CallbackArrives, Popped
<1>2. /\ k \in HandlerRecord /\ k.at = "provider" /\ k.transaction = t /\ k.now = instant
  BY DEF StepUpInv, StepUpTyped, HandlerRecord
<1> HIDE DEF k
<1>3. transactions[t] \in TransactionRecord /\ Begun(t)
  BY <1>1 DEF StepUpInv, StepUpTyped
<1>4. /\ transactions' \in [Transaction -> TransactionRecord]
      /\ transactions'[t].status = "consumed"
      /\ transactions'[t].session = transactions[t].session
      /\ transactions'[t].scope = transactions[t].scope
      /\ transactions'[t].created_at = transactions[t].created_at
      /\ \A u \in Transaction \ {t} : transactions'[u] = transactions[u]
  BY <1>1, <1>3 DEF StepUpInv, StepUpTyped, TransactionRecord
<1>5. \A u \in Transaction : transactions[u].status = "consumed"
                                => transactions'[u] = transactions[u]
  BY <1>1, <1>4
<1>6. /\ \A g \in StepUpGrant : IssuedFor(g)'
      /\ \A u \in uses : UsedFor(u)'
  BY <1>1, <1>5, IssuedStays, UsedStays
<1>7. \A u \in Transaction : transactions'[u].status # "none" => Begun(u)'
  BY <1>1, <1>3, <1>4 DEF StepUpInv, Begun
<1>8. \A i \in StepUpHandler : handler[i].at = "provider" => handler[i].transaction # t
  BY <1>1 DEF StepUpInv, AtProvider
<1>9. \A g \in StepUpGrant : granted[g] # NoGrantYet => granted[g].transaction # t
  BY <1>1 DEF StepUpInv, IssuedFor
<1>10. /\ handler' \in [StepUpHandler -> HandlerRecord]
       /\ handler'[h] = k \/ handler'[h] = handler[h]
       /\ \A i \in StepUpHandler \ {h} : handler'[i] = handler[i]
  BY <1>1, <1>2 DEF StepUpInv, StepUpTyped
<1>11. instant \in Nat
  BY PositiveTimes DEF StepUpInv, StepUpTyped
<1>12. \A i \in StepUpHandler : AtProvider(i)'
  <2> SUFFICES ASSUME NEW i \in StepUpHandler, handler'[i].at = "provider"
               PROVE  /\ handler'[i].transaction \in Transaction
                      /\ transactions'[handler'[i].transaction].status = "consumed"
                      /\ handler'[i].now <= instant
    BY <1>1 DEF AtProvider
  <2>1. CASE handler'[i] = handler[i]
    <3>1. AtProvider(i)
      BY DEF StepUpInv
    <3> QED BY <1>5, <2>1, <3>1 DEF AtProvider
  <2>2. CASE handler'[i] = k
    BY <1>2, <1>4, <1>11, <2>2
  <2> QED BY <1>10, <2>1, <2>2
<1>13. EachOnce'
  <2>1. ASSUME NEW i \in StepUpHandler, NEW j \in StepUpHandler,
               handler'[i].at = "provider", handler'[j].at = "provider",
               handler'[i].transaction = handler'[j].transaction
        PROVE  i = j
    BY <1>2, <1>8, <1>10, <2>1 DEF StepUpInv, EachOnce
  <2>2. ASSUME NEW i \in StepUpHandler, NEW g \in StepUpGrant,
               handler'[i].at = "provider", granted'[g] # NoGrantYet
        PROVE  handler'[i].transaction # granted'[g].transaction
    BY <1>1, <1>2, <1>9, <1>10, <2>2 DEF StepUpInv, EachOnce
  <2> QED BY <1>1, <2>1, <2>2 DEF StepUpInv, EachOnce
<1>14. \A i \in StepUpHandler : handler'[i].at = "body" => handler'[i].session \in Login
  BY <1>2, <1>10 DEF StepUpInv
<1> QED BY <1>1, <1>4, <1>6, <1>7, <1>10, <1>12, <1>13, <1>14 DEF StepUpInv, StepUpTyped

LEMMA CallbackIssuesInv ==
  ASSUME StepUpInv, NEW h \in StepUpHandler, NEW g \in StepUpGrant, CallbackIssues(h, g)
  PROVE  StepUpInv'
<1>1. PICK t \in Transaction : t = handler[h].transaction
  BY DEF CallbackIssues, StepUpInv, AtProvider
<1>2. /\ handler[h].at = "provider" /\ transactions[t].status = "consumed"
      /\ granted[g] = NoGrantYet
      /\ handler' = [handler EXCEPT ![h] = NoHandler]
      /\ UNCHANGED <<instant, login, transactions, consumed, uses>>
  BY <1>1 DEF CallbackIssues, StepUpInv, AtProvider
<1>3. PICK begun_at \in 0 .. LastInstant : begun_at = handler[h].now
  BY DEF StepUpInv, StepUpTyped, HandlerRecord
<1>4. PICK a \in 0 .. begun_at :
        /\ a >= begun_at - GrantTtl
        /\ granted' = [granted EXCEPT ![g] =
             [session |-> transactions[t].session, scope |-> transactions[t].scope,
              expires_at |-> begun_at + GrantTtl, auth_time |-> a, transaction |-> t]]
  BY <1>1, <1>3 DEF CallbackIssues
<1>5. transactions[t].session \in Login /\ transactions[t].scope \in Scope
  BY <1>2 DEF StepUpInv, Begun
<1> DEFINE k == [session |-> transactions[t].session, scope |-> transactions[t].scope,
                 expires_at |-> begun_at + GrantTtl, auth_time |-> a, transaction |-> t]
<1>6. /\ begun_at + GrantTtl \in 0 .. LastInstant + GrantTtl /\ a \in 0 .. LastInstant
      /\ begun_at + GrantTtl <= a + 2 * GrantTtl
  BY <1>4, PositiveTimes
<1>7. /\ k \in StepUpGrantRecord /\ k.session = transactions[t].session
      /\ k.scope = transactions[t].scope /\ k.transaction = t
      /\ k.expires_at <= k.auth_time + 2 * GrantTtl
  BY <1>5, <1>6 DEF StepUpGrantRecord
<1> HIDE DEF k
<1>8. /\ granted' \in [StepUpGrant -> StepUpGrantRecord] /\ granted'[g] = k
      /\ \A f \in StepUpGrant \ {g} : granted'[f] = granted[f]
  BY <1>4, <1>7 DEF StepUpInv, StepUpTyped, k
<1>9. \A f \in StepUpGrant : IssuedFor(f)'
  BY <1>2, <1>7, <1>8 DEF StepUpInv, IssuedFor
<1>10. \A u \in uses : UsedFor(u)'
  BY <1>2, <1>8, UsedStays
<1>11. /\ handler' \in [StepUpHandler -> HandlerRecord] /\ handler'[h].at = "idle"
       /\ \A i \in StepUpHandler \ {h} : handler'[i] = handler[i]
  BY <1>2, EmptyRecords DEF StepUpInv, StepUpTyped
<1>12. \A i \in StepUpHandler : AtProvider(i)'
  BY <1>2, <1>11 DEF StepUpInv, AtProvider
<1>13. EachOnce'
  <2>1. \A i \in StepUpHandler \ {h} : handler[i].at = "provider" => handler[i].transaction # t
    BY <1>1, <1>2 DEF StepUpInv, EachOnce
  <2>2. \A f \in StepUpGrant : granted[f] # NoGrantYet => granted[f].transaction # t
    BY <1>1, <1>2 DEF StepUpInv, EachOnce
  <2>3. ASSUME NEW i \in StepUpHandler, NEW f \in StepUpGrant,
               handler'[i].at = "provider", granted'[f] # NoGrantYet
        PROVE  handler'[i].transaction # granted'[f].transaction
    BY <1>7, <1>8, <1>11, <2>1, <2>3 DEF StepUpInv, EachOnce
  <2>4. ASSUME NEW e \in StepUpGrant, NEW f \in StepUpGrant,
               granted'[e] # NoGrantYet, granted'[f] # NoGrantYet,
               granted'[e].transaction = granted'[f].transaction
        PROVE  e = f
    BY <1>7, <1>8, <2>2, <2>4 DEF StepUpInv, EachOnce
  <2>5. \A i, j \in StepUpHandler :
          handler'[i].at = "provider" /\ handler'[j].at = "provider"
            /\ handler'[i].transaction = handler'[j].transaction => i = j
    BY <1>11 DEF StepUpInv, EachOnce
  <2> QED BY <1>2, <2>3, <2>4, <2>5 DEF StepUpInv, EachOnce
<1>14. \A i \in StepUpHandler : handler'[i].at = "body" => handler'[i].session \in Login
  BY <1>11 DEF StepUpInv
<1> QED BY <1>2, <1>8, <1>9, <1>10, <1>11, <1>12, <1>13, <1>14 DEF StepUpInv, StepUpTyped, Begun

LEMMA AuthorizeInv ==
  ASSUME StepUpInv, NEW s \in Login, NEW scope \in Scope, NEW g \in StepUpGrant,
         Authorize(s, scope, g)
  PROVE  StepUpInv'
<1>1. PICK n \in 1 .. MaxUses : n = Cardinality(uses) + 1
  <2>1. Cardinality(uses) \in Nat
    BY FS_CardinalityType DEF StepUpInv, StepUpTyped
  <2> QED BY <2>1, PositiveTimes DEF Authorize
<1>2. PICK u \in UseRecord : u = [number |-> n, grant |-> g, session |-> s, scope |-> scope,
                                  at |-> instant]
  BY DEF StepUpInv, StepUpTyped, UseRecord
<1>3. /\ uses' = uses \cup {u} /\ consumed' = consumed \cup {g}
      /\ UNCHANGED <<instant, login, transactions, handler, granted>>
      /\ granted[g] # NoGrantYet /\ g \notin consumed /\ granted[g].expires_at > instant
      /\ granted[g].session = s /\ granted[g].scope = scope
  BY <1>1, <1>2 DEF Authorize, ConsumableGrant
<1>4. StepUpTyped'
  BY <1>3, <1>2, FS_AddElement DEF StepUpInv, StepUpTyped
<1>5. /\ \A f \in StepUpGrant : IssuedFor(f)'
      /\ \A v \in uses : UsedFor(v)'
  BY <1>3, IssuedStays, UsedStays
<1>6. UsedFor(u)'
  <2>1. granted[g].transaction \in Transaction /\ Begun(granted[g].transaction)
    BY <1>3 DEF StepUpInv, IssuedFor
  <2>2. granted[g].expires_at \in Nat /\ instant \in Nat
    BY PositiveTimes DEF StepUpInv, StepUpTyped, StepUpGrantRecord
  <2> QED BY <1>3, <1>2, <2>1, <2>2 DEF UsedFor, Begun
<1>7. \A v \in uses : v.grant # g
  BY <1>3 DEF StepUpInv, UsedFor
<1>8. EachOnce'
  BY <1>3, <1>2, <1>7 DEF StepUpInv, EachOnce
<1> QED BY <1>3, <1>4, <1>5, <1>6, <1>8 DEF StepUpInv, Begun, AtProvider

LEMMA StepUpStepInv == StepUpInv /\ [StepUpNext]_stepUpVars => StepUpInv'
<1> SUFFICES ASSUME StepUpInv, [StepUpNext]_stepUpVars PROVE StepUpInv'
  OBVIOUS
<1>1. CASE Elapses
  <2>1. /\ instant \in Nat /\ instant' = instant + 1 /\ instant' \in 0 .. LastInstant
        /\ UNCHANGED <<login, transactions, handler, granted, consumed, uses>>
    BY <1>1, PositiveTimes DEF Elapses, StepUpInv, StepUpTyped
  <2>2. \A t \in Transaction : transactions[t].created_at \in Nat
    BY PositiveTimes DEF StepUpInv, StepUpTyped, TransactionRecord
  <2>3. \A t \in Transaction : transactions'[t].status # "none" => Begun(t)'
    BY <2>1, <2>2 DEF StepUpInv, Begun
  <2>4. \A h \in StepUpHandler : handler[h].now \in Nat
    BY PositiveTimes DEF StepUpInv, StepUpTyped, HandlerRecord
  <2>5. \A h \in StepUpHandler : AtProvider(h)'
    BY <2>1, <2>4 DEF StepUpInv, AtProvider
  <2> QED BY <2>1, <2>3, <2>5 DEF StepUpInv, StepUpTyped, IssuedFor, UsedFor, EachOnce
<1>2. ASSUME NEW s \in Login, SessionChanges(s) PROVE StepUpInv'
  <2>1. login' \in [Login -> {"none", "active", "revoked"}]
    BY <1>2 DEF SessionChanges, StepUpInv, StepUpTyped
  <2> QED BY <1>2, <2>1 DEF SessionChanges, StepUpInv, StepUpTyped, Begun, AtProvider,
                            IssuedFor, UsedFor, EachOnce
<1>3. CASE UNCHANGED stepUpVars
  BY <1>3 DEF stepUpVars, StepUpInv, StepUpTyped, Begun, AtProvider, IssuedFor, UsedFor,
              EachOnce
<1> QED BY <1>1, <1>2, <1>3, AskArrivesInv, HandlerFailsInv, AskBeginsInv,
           CallbackArrivesInv, CallbackIssuesInv, AuthorizeInv DEF StepUpNext

\* Of two authorised actions no step-up grant and no transaction is the same; each was done
\* in the session and for the scope that asked, and in time.
THEOREM StepUpsPayOnce == StepUpSpec => [](StepUpTypeOK /\ OneActionPerStepUp)
BY StepUpInitInv, StepUpStepInv, StepUpInvPays, PTL DEF StepUpSpec

-----------------------------------------------------------------------------
(***************************************************************************)
(* HumanCustody, for any cases, incidents and people.                      *)
(***************************************************************************)

EventRecord == [type : {"queued", "acknowledged", "human_change", "returned_for_verification"},
                actor : Party, from : Party, to : Party]
CaseRecord  == [status : {"absent", "queued", "acknowledged", "verification_required",
                          "returned_for_verification"},
                owner : Party, changed : BOOLEAN, events : Seq(EventRecord)]
AuditRecord == [type : {"closed", "reopened"}, of : Seq(Closure)]
RowRecord   == [status : {"absent", "active", "closed", "reopened"}, closure : Seq(Closure),
                audit : Seq(AuditRecord), returned : SUBSET Closure]

\* The events of a case by their place: it is queued, acknowledged and changed, and all after
\* that give it back, each but the first by the owner.
ByPlace(owner, events) ==
  \A n \in 1 .. Len(events) :
    /\ n = 1 => events[n].type = "queued" /\ events[n].to = Queue
    /\ n > 1 => events[n].actor = owner
    /\ n = 2 => /\ events[n].type = "acknowledged"
                /\ events[n].from = Queue /\ events[n].to = owner
    /\ n = 3 => /\ events[n].type = "human_change"
                /\ events[n].from = owner /\ events[n].to = owner
    /\ n > 3 => /\ events[n].type = "returned_for_verification"
                /\ events[n].from = owner

\* How far a case is, by its status and its flag.
Traced(status, owner, changed, events) ==
  /\ status = "absent" => Len(events) = 0
  /\ status = "queued" => Len(events) = 1
  /\ status = "acknowledged" => Len(events) = 2
  /\ status = "verification_required" => Len(events) = 3
  /\ status = "returned_for_verification" => Len(events) > 3
  /\ changed => status \in {"verification_required", "returned_for_verification"}
  /\ ByPlace(owner, events)

\* Of the audit trail of a row: what it says of closures and reopenings is what was returned
\* and is shown, and the row is closed after an odd number of entries.
Audited(r) ==
  /\ r.status \in {"absent", "active"} => r.audit = <<>>
  /\ r.status = "closed" => Len(r.audit) % 2 = 1
  /\ r.status # "closed" => Len(r.audit) % 2 = 0
  /\ r.returned = {q \in Closure : \E n \in 1 .. Len(r.audit) : r.audit[n].of = <<q>>}
  /\ \A n \in 1 .. Len(r.audit) :
       r.audit[n].type = IF n % 2 = 1 THEN "closed" ELSE "reopened"
  /\ \A n \in 1 .. Len(r.audit) :
       r.audit[n].type = "closed" /\ (\A m \in n + 1 .. Len(r.audit) : r.audit[m].type # "closed")
         => r.closure = r.audit[n].of

CustodyInv ==
  /\ case \in [Case -> CaseRecord] /\ row \in [Incident -> RowRecord]
  /\ \A c \in Case :
       Traced(case[c].status, case[c].owner, case[c].changed, case[c].events)
  /\ \A i \in Incident : Audited(row[i])

LEMMA NothingYet == NoCase \in CaseRecord /\ NoRow \in RowRecord
BY DEF NoCase, CaseRecord, NoRow, RowRecord, Party

LEMMA CustodyInitInv == CustodyInit => CustodyInv
<1> SUFFICES ASSUME CustodyInit PROVE CustodyInv
  OBVIOUS
<1>1. case \in [Case -> CaseRecord] /\ row \in [Incident -> RowRecord]
  BY NothingYet DEF CustodyInit
<1>2. ASSUME NEW c \in Case
      PROVE  Traced(case[c].status, case[c].owner, case[c].changed, case[c].events)
  <2>1. case[c].status = "absent" /\ case[c].changed = FALSE /\ case[c].events = <<>>
    BY DEF CustodyInit, NoCase
  <2> QED BY <2>1 DEF Traced, ByPlace
<1>3. ASSUME NEW i \in Incident PROVE Audited(row[i])
  <2>1. row[i].status = "absent" /\ row[i].audit = <<>> /\ row[i].returned = {}
    BY DEF CustodyInit, NoRow
  <2>2. Len(<<>>) % 2 = 0 /\ 1 .. Len(<<>>) = {}
    OBVIOUS
  <2> QED BY <2>1, <2>2 DEF Audited
<1> QED BY <1>1, <1>2, <1>3 DEF CustodyInv

LEMMA CustodyInvTraces == CustodyInv => CustodyTypeOK /\ CustodyIsTraceable
<1> SUFFICES ASSUME CustodyInv PROVE CustodyTypeOK /\ CustodyIsTraceable
  OBVIOUS
<1>1. CustodyTypeOK
  BY DEF CustodyInv, CustodyTypeOK, CaseRecord, EventRecord, RowRecord, AuditRecord
<1>2. ASSUME NEW c \in Case
      PROVE  /\ case[c].events \in Seq(EventRecord) /\ case[c] \in CaseRecord
             /\ Traced(case[c].status, case[c].owner, case[c].changed, case[c].events)
             /\ ByPlace(case[c].owner, case[c].events)
  BY <1>2 DEF CustodyInv, CaseRecord, Traced
<1>3. SingleCustodian
  <2> SUFFICES ASSUME NEW c \in Case, NEW n \in 1 .. Len(case[c].events)
               PROVE  LET e      == case[c].events[n]
                          before == {case[c].events[m] : m \in 1 .. n - 1}
                          acks   == {b \in before : b.type = "acknowledged"}
                      IN /\ e.type = "acknowledged" => acks = {}
                         /\ e.type \in {"human_change", "returned_for_verification"} =>
                              acks # {} /\ \A a \in acks : a.actor = e.actor
                         /\ IsReturn(e) => \E b \in before : b.type = "human_change"
                         /\ (\E b \in before : IsReturn(b)) => IsReturn(e)
    BY DEF SingleCustodian
  <2>1. PICK events \in Seq(EventRecord) : events = case[c].events
    BY <1>2
  <2>2. PICK owner \in Party : owner = case[c].owner
    BY <1>2 DEF CaseRecord
  <2>3. n \in 1 .. Len(events) /\ ByPlace(owner, events)
    BY <1>2, <2>1, <2>2
  <2> DEFINE e      == events[n]
             before == {events[m] : m \in 1 .. n - 1}
             acks   == {b \in before : b.type = "acknowledged"}
  <2>4. \A b \in before : \E m \in 1 .. n - 1 : b = events[m]
    OBVIOUS
  <2>5. \A m \in 1 .. n - 1 : m \in 1 .. Len(events)
    BY <2>3
  <2>6. n # 2 \/ (\A m \in 1 .. n - 1 : events[m].type = "queued")
    BY <2>3, <2>5, SMTT(30) DEF ByPlace
  <2>7. e.type = "acknowledged" => n = 2
    BY <2>3, SMTT(30) DEF ByPlace
  <2>8. e.type = "acknowledged" => acks = {}
    BY <2>4, <2>6, <2>7
  <2>9. \A m \in 1 .. Len(events) : events[m].type = "acknowledged" => events[m].actor = owner
    BY <2>3, SMTT(30) DEF ByPlace
  <2>10. ASSUME e.type \in {"human_change", "returned_for_verification"}
         PROVE  acks # {} /\ \A b \in acks : b.actor = e.actor
    <3>1. n > 2
      BY <2>3, <2>10, SMTT(30) DEF ByPlace
    <3>2. 2 \in 1 .. n - 1 /\ events[2].type = "acknowledged" /\ e.actor = owner
      BY <2>3, <3>1, SMTT(30) DEF ByPlace
    <3> QED BY <2>4, <2>5, <2>9, <3>2
  <2>11. ASSUME IsReturn(e) PROVE \E b \in before : b.type = "human_change"
    <3>1. n > 3
      BY <2>3, <2>11, SMTT(30) DEF ByPlace, IsReturn
    <3>2. 3 \in 1 .. n - 1 /\ events[3].type = "human_change"
      BY <2>3, <3>1, SMTT(30) DEF ByPlace
    <3> QED BY <3>2
  <2>12. ASSUME NEW b \in before, IsReturn(b) PROVE IsReturn(e)
    <3>1. PICK m \in 1 .. n - 1 : b = events[m]
      BY <2>4
    <3>2. m > 3
      BY <2>3, <2>12, <3>1, SMTT(30) DEF ByPlace, IsReturn
    <3> QED BY <2>3, <3>2, SMTT(30) DEF ByPlace, IsReturn
  <2> QED BY <2>1, <2>8, <2>10, <2>11, <2>12
<1>4. EventsTellCustody
  <2> SUFFICES ASSUME NEW c \in Case
               PROVE  LET events == case[c].events
                          GaveLast(m, n) ==
                            ~IsReturn(events[m]) /\ \A k \in m + 1 .. n - 1 : IsReturn(events[k])
                      IN /\ events # <<>> => case[c].status = StatusAfter(events[Len(events)].type)
                         /\ \A m \in 1 .. Len(events) :
                              /\ \A n \in m + 1 .. Len(events) :
                                   GaveLast(m, n) => events[n].from = events[m].to
                              /\ GaveLast(m, Len(events) + 1) /\ case[c].status # "queued" =>
                                   case[c].owner = events[m].to
    BY DEF EventsTellCustody
  <2>1. PICK events \in Seq(EventRecord) : events = case[c].events
    BY <1>2
  <2>2. PICK owner \in Party : owner = case[c].owner
    BY <1>2 DEF CaseRecord
  <2>3. /\ Traced(case[c].status, owner, case[c].changed, events) /\ ByPlace(owner, events)
        /\ case[c].status \in {"absent", "queued", "acknowledged", "verification_required",
                              "returned_for_verification"}
    BY <1>2, <2>1, <2>2 DEF CaseRecord
  <2> DEFINE GaveLast(m, n) ==
        ~IsReturn(events[m]) /\ \A k \in m + 1 .. n - 1 : IsReturn(events[k])
  <2>4. ASSUME events # <<>> PROVE case[c].status = StatusAfter(events[Len(events)].type)
    <3>1. Len(events) \in 1 .. Len(events)
      BY <2>1, <2>4
    <3>2. /\ Len(events) = 1 => events[Len(events)].type = "queued"
          /\ Len(events) = 2 => events[Len(events)].type = "acknowledged"
          /\ Len(events) = 3 => events[Len(events)].type = "human_change"
          /\ Len(events) > 3 => events[Len(events)].type = "returned_for_verification"
      BY <2>3, <3>1, SMTT(30) DEF ByPlace
    <3> QED BY <2>3, <3>1, <3>2, SMTT(30) DEF Traced, StatusAfter
  <2>5. ASSUME NEW m \in 1 .. Len(events), ~IsReturn(events[m]) PROVE m < 4
    BY <2>3, <2>5, SMTT(30) DEF ByPlace, IsReturn
  <2>6. ASSUME NEW m \in 1 .. Len(events), NEW n \in m + 1 .. Len(events) + 1, GaveLast(m, n),
               m < 3
        PROVE  n = m + 1
    <3>1. SUFFICES ASSUME n > m + 1 PROVE FALSE
      BY <2>6
    <3>2. m + 1 \in m + 1 .. n - 1 /\ m + 1 \in 1 .. Len(events) /\ m + 1 < 4
      BY <2>6, <3>1
    <3>3. IsReturn(events[m + 1])
      BY <2>6, <3>2
    <3> QED BY <2>3, <3>2, <3>3, SMTT(30) DEF ByPlace, IsReturn
  <2>7. ASSUME NEW m \in 1 .. Len(events), NEW n \in m + 1 .. Len(events), GaveLast(m, n)
        PROVE  events[n].from = events[m].to
    <3>1. m < 4 /\ n \in 1 .. Len(events) /\ n > m
      BY <2>5, <2>7
    <3>2. m < 3 => n = m + 1
      BY <2>6, <2>7, <3>1
    <3> QED BY <2>3, <3>1, <3>2, SMTT(30) DEF ByPlace
  <2>8. ASSUME NEW m \in 1 .. Len(events), GaveLast(m, Len(events) + 1), case[c].status # "queued"
        PROVE  owner = events[m].to
    <3>1. m < 4
      BY <2>5, <2>8
    <3>2. m < 3 => Len(events) = m
      <4>1. Len(events) + 1 \in m + 1 .. Len(events) + 1
        BY <2>1, <2>8
      <4> QED BY <2>1, <2>6, <2>8, <4>1
    <3>3. Len(events) # 1
      BY <2>3, <2>8, SMTT(30) DEF Traced
    <3>4. PICK len \in Nat : len = Len(events)
      BY <2>1
    <3>5. m \in Nat /\ m # 0 /\ m < 4 /\ len # 1 /\ (m < 3 => len = m)
      BY <2>8, <3>1, <3>2, <3>3, <3>4
    <3>6. m = 1 \/ m = 2 \/ m = 3
      BY <3>5
    <3>7. m = 2 \/ m = 3
      BY <3>5, <3>6
    <3> QED BY <2>3, <2>8, <3>7, SMTT(30) DEF ByPlace
  <2> QED BY <2>1, <2>2, <2>4, <2>7, <2>8
<1>5. ClosuresAudited
  BY DEF CustodyInv, ClosuresAudited, Audited
<1> QED BY <1>1, <1>3, <1>4, <1>5 DEF CustodyIsTraceable

\* One event more, in its turn.
LEMMA TracedOnceMore ==
  ASSUME NEW status, NEW owner, NEW changed, NEW events \in Seq(EventRecord),
         Traced(status, owner, changed, events),
         NEW e \in EventRecord, NEW after, NEW newowner, NEW flag,
         \/ /\ e.type = "queued" /\ e.to = Queue /\ events = <<>> /\ after = "queued" /\ ~flag
         \/ /\ e.type = "acknowledged" /\ e.from = Queue /\ e.to = newowner
            /\ status = "queued" /\ flag = changed /\ after = "acknowledged"
            /\ newowner = e.actor
         \/ /\ e.type = "human_change" /\ status = "acknowledged"
            /\ after = "verification_required" /\ e.from = owner /\ e.to = owner
            /\ newowner = owner /\ e.actor = owner
         \/ /\ e.type = "returned_for_verification" /\ changed /\ flag
            /\ after = "returned_for_verification" /\ e.from = owner
            /\ newowner = owner /\ e.actor = owner
  PROVE  Traced(after, newowner, flag, Append(events, e))
<1> DEFINE new == Append(events, e)
<1>l. PICK len \in Nat : len = Len(events)
  OBVIOUS
<1>p. /\ status = "queued" => len = 1
      /\ status = "acknowledged" => len = 2
      /\ status = "verification_required" => len = 3
      /\ status = "returned_for_verification" => len > 3
  BY <1>l, Zenon DEF Traced
<1>b. ByPlace(owner, events)
  BY Zenon DEF Traced
<1>q. changed => status \in {"verification_required", "returned_for_verification"}
  BY Zenon DEF Traced
<1>1. /\ new \in Seq(EventRecord) /\ Len(new) = Len(events) + 1 /\ Len(events) \in Nat
      /\ \A n \in 1 .. Len(events) : new[n] = events[n]
      /\ new[Len(events) + 1] = e
      /\ \A n \in 1 .. Len(new) : n \in 1 .. Len(events) \/ n = Len(events) + 1
  OBVIOUS
<1>n. Len(new) = len + 1 /\ Len(events) = len
  BY <1>1, <1>l
<1> HIDE DEF new
<1>2. CASE e.type = "queued" /\ e.to = Queue /\ events = <<>> /\ after = "queued" /\ ~flag
  <2>1. Len(new) = 1 /\ new[1] = e
    BY <1>1, <1>2
  <2> QED BY <1>2, <2>1, SMTT(30) DEF Traced, ByPlace, new
<1>3. CASE /\ e.type = "acknowledged" /\ e.from = Queue /\ e.to = newowner
           /\ status = "queued" /\ flag = changed /\ after = "acknowledged"
           /\ newowner = e.actor
  <2>0. status = "queued"
    BY <1>3, Zenon
  <2>1. Len(events) = 1 /\ Len(new) = 2
    BY <1>n, <1>p, <1>l, <2>0
  <2>3. ~flag
    BY <1>3, <1>q, Zenon
  <2>2. ByPlace(newowner, new)
    BY <1>1, <1>3, <1>b, <2>1, SMTT(30) DEF ByPlace
  <2> QED BY <1>3, <2>1, <2>2, <2>3 DEF Traced, new
<1>4. CASE /\ e.type = "human_change" /\ status = "acknowledged"
           /\ after = "verification_required" /\ e.from = owner /\ e.to = owner
           /\ newowner = owner /\ e.actor = owner
  <2>0. status = "acknowledged"
    BY <1>4, Zenon
  <2>1. Len(events) = 2 /\ Len(new) = 3
    BY <1>n, <1>p, <1>l, <2>0
  <2>2. ByPlace(newowner, new)
    BY <1>1, <1>4, <1>b, <2>1, SMTT(30) DEF ByPlace
  <2> QED BY <1>4, <2>1, <2>2 DEF Traced, new
<1>5. CASE /\ e.type = "returned_for_verification" /\ changed /\ flag
           /\ after = "returned_for_verification" /\ e.from = owner
           /\ newowner = owner /\ e.actor = owner
  <2>1. Len(events) >= 3 /\ Len(new) = Len(events) + 1
    <3>1. len = 3 \/ len > 3
      BY <1>5, <1>p, <1>q, Zenon
    <3> QED BY <1>n, <3>1
  <2>2. ByPlace(newowner, new)
    BY <1>1, <1>5, <1>b, <2>1, SMTT(30) DEF ByPlace
  <2> QED BY <1>1, <1>5, <2>1, <2>2 DEF Traced, new
<1> QED BY <1>2, <1>3, <1>4, <1>5

LEMMA EventsTyped ==
  ASSUME NEW type \in {"queued", "acknowledged", "human_change", "returned_for_verification"},
         NEW actor \in Party, NEW from \in Party, NEW to \in Party
  PROVE  /\ Event(type, actor, from, to) \in EventRecord
         /\ Event(type, actor, from, to).type = type
         /\ Event(type, actor, from, to).actor = actor
         /\ Event(type, actor, from, to).from = from
         /\ Event(type, actor, from, to).to = to
BY DEF Event, EventRecord

\* A call of the handoff store leaves what it makes of the case, whatever that is, traced.
LEMMA CustodyKeeps ==
  ASSUME CustodyInv, NEW c \in Case, NEW e \in EventRecord, NEW owner \in Party,
         NEW changed \in BOOLEAN,
         NEW status \in {"queued", "acknowledged", "verification_required",
                         "returned_for_verification"},
         Custody(c, status, owner, changed, e),
         Traced(status, owner, changed, Append(case[c].events, e))
  PROVE  CustodyInv'
<1>1. PICK events \in Seq(EventRecord) : events = case[c].events
  BY DEF CustodyInv, CaseRecord
<1> DEFINE k == [status |-> status, owner |-> owner, changed |-> changed,
                 events |-> Append(events, e)]
<1>2. Append(events, e) \in Seq(EventRecord)
  OBVIOUS
<1>3. k \in CaseRecord
  BY <1>2 DEF CaseRecord
<1>4. k.status = status /\ k.owner = owner /\ k.events = Append(events, e)
  OBVIOUS
<1>5. k.changed = changed
  BY Zenon
<1>6. case' = [case EXCEPT ![c] = k] /\ row' = row
  BY <1>1 DEF Custody
<1> HIDE DEF k
<1>7. /\ case' \in [Case -> CaseRecord] /\ case'[c] = k
      /\ \A d \in Case \ {c} : case'[d] = case[d]
  BY <1>3, <1>6 DEF CustodyInv
<1>8. ASSUME NEW d \in Case
      PROVE  Traced(case'[d].status, case'[d].owner, case'[d].changed, case'[d].events)
  <2>1. CASE d = c
    <3>1. Traced(k.status, k.owner, k.changed, k.events)
      BY <1>1, <1>4, <1>5
    <3> QED BY <1>7, <2>1, <3>1
  <2>2. CASE d # c
    BY <1>7, <2>2 DEF CustodyInv
  <2> QED BY <2>1, <2>2
<1>9. \A i \in Incident : Audited(row'[i])
  BY <1>6 DEF CustodyInv
<1> QED BY <1>6, <1>7, <1>8, <1>9 DEF CustodyInv

\* One entry of the audit trail more, of a closure or a reopening.
LEMMA AuditedOnceMore ==
  ASSUME NEW r \in RowRecord, Audited(r), NEW q, NEW n \in RowRecord,
         \/ /\ r.status # "closed" /\ n.status = "closed" /\ n.closure = <<q>>
            /\ q \in Closure
            /\ n.audit = Append(r.audit, [type |-> "closed", of |-> <<q>>])
            /\ n.returned = r.returned \cup {q}
         \/ /\ r.status = "closed" /\ n.status = "reopened" /\ n.closure = r.closure
            /\ n.audit = Append(r.audit, [type |-> "reopened", of |-> <<>>])
            /\ n.returned = r.returned
  PROVE  Audited(n)
<1>1. PICK a \in Seq(AuditRecord) : a = r.audit
  BY DEF RowRecord
<1>2. PICK last \in Nat : last = Len(a)
  OBVIOUS
<1> DEFINE after == last + 1
<1>3. PICK e \in AuditRecord :
        /\ n.audit = Append(a, e)
        /\ \/ /\ r.status # "closed" /\ n.status = "closed" /\ n.closure = <<q>>
              /\ q \in Closure
              /\ e.type = "closed" /\ e.of = <<q>> /\ n.returned = r.returned \cup {q}
           \/ /\ r.status = "closed" /\ n.status = "reopened" /\ n.closure = r.closure
              /\ e.type = "reopened" /\ e.of = <<>> /\ n.returned = r.returned
  <2>1. CASE r.status # "closed"
    <3>1. <<q>> \in Seq(Closure)
      BY <2>1
    <3>2. [type |-> "closed", of |-> <<q>>] \in AuditRecord
      BY <3>1 DEF AuditRecord
    <3> QED BY <1>1, <2>1, <3>2
  <2>2. CASE r.status = "closed"
    <3>1. [type |-> "reopened", of |-> <<>>] \in AuditRecord
      BY DEF AuditRecord
    <3> QED BY <1>1, <2>2, <3>1
  <2> QED BY <2>1, <2>2
<1>4. /\ Len(n.audit) = after /\ n.audit[after] = e /\ after \in 1 .. after
      /\ \A m \in 1 .. last : n.audit[m] = a[m]
      /\ \A m \in 1 .. after : m # after => m \in 1 .. last
  BY <1>2, <1>3
<1>5. /\ r.status = "closed" => last % 2 = 1
      /\ r.status # "closed" => last % 2 = 0
      /\ r.returned = {p \in Closure : \E m \in 1 .. last : a[m].of = <<p>>}
      /\ \A m \in 1 .. last : a[m].type = IF m % 2 = 1 THEN "closed" ELSE "reopened"
      /\ \A m \in 1 .. last :
           a[m].type = "closed" /\ (\A l \in m + 1 .. last : a[l].type # "closed")
             => r.closure = a[m].of
  BY <1>1, <1>2 DEF Audited
<1>6. /\ n.status = "closed" <=> after % 2 = 1
      /\ n.status # "closed" <=> after % 2 = 0
      /\ e.type = IF after % 2 = 1 THEN "closed" ELSE "reopened"
      /\ n.status \notin {"absent", "active"}
  BY <1>3, <1>5, SMTT(30)
<1> HIDE DEF after
<1>7. \A m \in 1 .. after :
        n.audit[m].type = IF m % 2 = 1 THEN "closed" ELSE "reopened"
  BY <1>4, <1>5, <1>6
<1>8. n.returned = {p \in Closure : \E m \in 1 .. after : n.audit[m].of = <<p>>}
  <2>1. ASSUME NEW p \in Closure
        PROVE  p \in n.returned <=> \E m \in 1 .. after : n.audit[m].of = <<p>>
    <3>1. p \in r.returned <=> \E m \in 1 .. last : a[m].of = <<p>>
      BY <1>5
    <3>2. (\E m \in 1 .. after : n.audit[m].of = <<p>>)
            <=> (\E m \in 1 .. last : a[m].of = <<p>>) \/ e.of = <<p>>
      <4>1. \A m \in 1 .. last : m \in 1 .. after
        BY <1>2 DEF after
      <4> QED BY <1>4, <4>1
    <3>3. (<<q>> = <<p>> <=> q = p) /\ <<>> # <<p>>
      OBVIOUS
    <3>4. p \in n.returned <=> p \in r.returned \/ e.of = <<p>>
      BY <1>3, <3>3
    <3> QED BY <3>1, <3>2, <3>4
  <2>2. n.returned \subseteq Closure
    BY DEF RowRecord
  <2> QED BY <2>1, <2>2
<1>9. ASSUME NEW m \in 1 .. after, n.audit[m].type = "closed",
             \A l \in m + 1 .. after : n.audit[l].type # "closed"
      PROVE  n.closure = n.audit[m].of
  <2>1. CASE m = after
    BY <1>3, <1>4, <1>9, <2>1
  <2>2. CASE m \in 1 .. last
    <3>1. after \in m + 1 .. after /\ \A l \in m + 1 .. last : l \in m + 1 .. after /\ l \in 1 .. last
      BY <1>2, <2>2 DEF after
    <3>2. e.type # "closed"
      BY <1>4, <1>9, <3>1
    <3>3. \A l \in m + 1 .. last : a[l].type # "closed"
      BY <1>4, <1>9, <3>1
    <3> QED BY <1>3, <1>4, <1>5, <1>9, <2>2, <3>2, <3>3
  <2> QED BY <1>4, <2>1, <2>2
<1> QED BY <1>4, <1>6, <1>7, <1>8, <1>9 DEF Audited

\* A row of the closure store is put in place of one.
LEMMA RowKeeps ==
  ASSUME CustodyInv, NEW i \in Incident, NEW n \in RowRecord, Audited(n),
         row' = [row EXCEPT ![i] = n], UNCHANGED case
  PROVE  CustodyInv'
<1>1. /\ row' \in [Incident -> RowRecord] /\ row'[i] = n
      /\ \A j \in Incident \ {i} : row'[j] = row[j]
  BY DEF CustodyInv
<1>2. \A j \in Incident : Audited(row'[j])
  BY <1>1 DEF CustodyInv
<1> QED BY <1>1, <1>2 DEF CustodyInv

LEMMA CustodyStepInv == CustodyInv /\ [CustodyNext]_custodyVars => CustodyInv'
<1> SUFFICES ASSUME CustodyInv, [CustodyNext]_custodyVars PROVE CustodyInv'
  OBVIOUS
<1>1. /\ Queue \in Party /\ Agent \in Party
      /\ \A p \in Requester \cup Resolver : p \in Party
  BY DEF Party
<1>u. Unowned \in Party
  BY DEF Party
<1>2. \A c \in Case : /\ case[c] \in CaseRecord /\ case[c].events \in Seq(EventRecord)
                      /\ Traced(case[c].status, case[c].owner, case[c].changed, case[c].events)
  BY DEF CustodyInv, CaseRecord
<1>3. ASSUME NEW c \in Case, NEW p \in Requester, HandOff(c, p) PROVE CustodyInv'
  <2> DEFINE e == Event("queued", p, Unowned, Queue)
  <2>1. e \in EventRecord /\ e.type = "queued" /\ e.to = Queue
    BY <1>1, <1>u, EventsTyped
  <2>2. case[c].events = <<>> /\ Custody(c, "queued", Unowned, FALSE, e)
    <3>1. case[c] = NoCase /\ Custody(c, "queued", Unowned, FALSE, e)
      BY <1>3 DEF HandOff
    <3>2. case[c].events = <<>>
      BY <3>1 DEF NoCase
    <3> QED BY <3>1, <3>2
  <2> HIDE DEF e
  <2>3. Traced("queued", Unowned, FALSE, Append(case[c].events, e))
    BY <1>2, <2>1, <2>2, TracedOnceMore
  <2> QED BY <1>u, <2>1, <2>2, <2>3, CustodyKeeps
<1>4. ASSUME NEW c \in Case, NEW p \in Resolver, Acknowledge(c, p) PROVE CustodyInv'
  <2> DEFINE e == Event("acknowledged", p, Queue, p)
  <2>1. e \in EventRecord /\ e.type = "acknowledged" /\ e.actor = p
        /\ e.from = Queue /\ e.to = p
    BY <1>1, EventsTyped
  <2>2. case[c].status = "queued" /\ Custody(c, "acknowledged", p, case[c].changed, e)
    BY <1>4 DEF Acknowledge, Acknowledgeable
  <2> HIDE DEF e
  <2>3. PICK flag \in BOOLEAN : flag = case[c].changed
    BY <1>2 DEF CaseRecord
  <2>4. Traced("acknowledged", p, flag, Append(case[c].events, e))
    BY <1>2, <2>1, <2>2, <2>3, TracedOnceMore
  <2>5. Custody(c, "acknowledged", p, flag, e)
    BY <2>2, <2>3
  <2> QED BY <1>1, <2>1, <2>4, <2>5, CustodyKeeps
<1>5. ASSUME NEW c \in Case, NEW p \in Resolver, RecordChange(c, p) PROVE CustodyInv'
  <2> DEFINE e == Event("human_change", p, p, p)
  <2>1. e \in EventRecord /\ e.type = "human_change" /\ e.actor = p
        /\ e.from = p /\ e.to = p
    BY <1>1, EventsTyped
  <2>2. /\ case[c].status = "acknowledged" /\ case[c].owner = p
        /\ Custody(c, "verification_required", p, TRUE, e)
    BY <1>5 DEF RecordChange
  <2> HIDE DEF e
  <2>3. Traced("verification_required", p, TRUE, Append(case[c].events, e))
    BY <1>2, <2>1, <2>2, TracedOnceMore
  <2> QED BY <1>1, <2>1, <2>2, <2>3, CustodyKeeps
<1>6. ASSUME NEW c \in Case, NEW p \in Resolver, ReturnToAgent(c, p) PROVE CustodyInv'
  <2> DEFINE e == Event("returned_for_verification", p, p, Agent)
  <2>1. e \in EventRecord /\ e.type = "returned_for_verification" /\ e.actor = p
        /\ e.from = p
    BY <1>1, EventsTyped
  <2>2. /\ case[c].changed /\ case[c].owner = p
        /\ Custody(c, "returned_for_verification", p, TRUE, e)
    BY <1>6 DEF ReturnToAgent
  <2> HIDE DEF e
  <2>3. Traced("returned_for_verification", p, TRUE, Append(case[c].events, e))
    BY <1>2, <2>1, <2>2, TracedOnceMore
  <2> QED BY <1>1, <2>1, <2>2, <2>3, CustodyKeeps
<1>7. ASSUME NEW i \in Incident, Rejected(i) PROVE CustodyInv'
  <2> DEFINE n == [row[i] EXCEPT !.status = "active"]
  <2>1. row[i] \in RowRecord /\ Audited(row[i]) /\ row[i].status = "absent"
    BY <1>7 DEF Rejected, CustodyInv
  <2>2. /\ n \in RowRecord /\ n.status = "active" /\ n.audit = row[i].audit
        /\ n.closure = row[i].closure /\ n.returned = row[i].returned
    BY <2>1 DEF RowRecord
  <2>3. row' = [row EXCEPT ![i] = n] /\ UNCHANGED case
    BY <1>7 DEF Rejected, CustodyInv
  <2> HIDE DEF n
  <2>4. Audited(n)
    <3>1. /\ n.audit = <<>> /\ n.returned = {} /\ Len(<<>>) = 0 /\ 1 .. 0 = {} /\ 0 % 2 = 0
      BY <2>1, <2>2 DEF Audited
    <3> QED BY <2>2, <3>1 DEF Audited
  <2>5. PICK r \in RowRecord : r = n
    BY <2>2
  <2> QED BY <2>3, <2>4, <2>5, RowKeeps
<1>8. ASSUME NEW i \in Incident, Reopen(i) PROVE CustodyInv'
  <2>1. row[i] \in RowRecord /\ Audited(row[i]) /\ row[i].status = "closed"
    BY <1>8 DEF Reopen, CustodyInv
  <2>2. row[i].audit \in Seq(AuditRecord)
    BY <2>1 DEF RowRecord
  <2>3. [type |-> "reopened", of |-> <<>>] \in AuditRecord
    BY DEF AuditRecord
  <2>4. Append(row[i].audit, [type |-> "reopened", of |-> <<>>]) \in Seq(AuditRecord)
    BY <2>2, <2>3
  <2>5. PICK n \in RowRecord :
          /\ n = [row[i] EXCEPT !.status = "reopened",
                                !.audit = Append(@, [type |-> "reopened", of |-> <<>>])]
          /\ n.status = "reopened" /\ n.closure = row[i].closure
          /\ n.audit = Append(row[i].audit, [type |-> "reopened", of |-> <<>>])
          /\ n.returned = row[i].returned
    <3> DEFINE more == Append(row[i].audit, [type |-> "reopened", of |-> <<>>])
               n == [row[i] EXCEPT !.status = "reopened", !.audit = more]
    <3>1. more \in Seq(AuditRecord)
      BY <2>4
    <3> HIDE DEF more
    <3>2. n \in RowRecord /\ n.status = "reopened" /\ n.closure = row[i].closure
          /\ n.audit = more /\ n.returned = row[i].returned
      BY <2>1, <3>1 DEF RowRecord
    <3>3. n = [row[i] EXCEPT !.status = "reopened",
                             !.audit = Append(@, [type |-> "reopened", of |-> <<>>])]
      BY <2>1 DEF more, RowRecord
    <3> HIDE DEF n
    <3> QED BY <3>2, <3>3 DEF more
  <2>6. row' = [row EXCEPT ![i] = n] /\ UNCHANGED case
    BY <1>8, <2>1, <2>5 DEF Reopen, CustodyInv
  <2>7. Audited(n)
    BY <2>1, <2>5, AuditedOnceMore
  <2> QED BY <2>6, <2>7, RowKeeps
<1>9. ASSUME NEW i \in Incident, NEW q \in Closure, Close(i, q) PROVE CustodyInv'
  <2>1. row[i] \in RowRecord /\ Audited(row[i]) /\ row[i].status # "closed"
    BY <1>9 DEF Close, CustodyInv
  <2>2. row[i].audit \in Seq(AuditRecord) /\ row[i].returned \subseteq Closure
    BY <2>1 DEF RowRecord
  <2>3. [type |-> "closed", of |-> <<q>>] \in AuditRecord /\ <<q>> \in Seq(Closure)
    BY DEF AuditRecord
  <2>4. Append(row[i].audit, [type |-> "closed", of |-> <<q>>]) \in Seq(AuditRecord)
    BY <2>2, <2>3
  <2>5. PICK n \in RowRecord :
          /\ n = [status |-> "closed", closure |-> <<q>>,
                  audit |-> Append(row[i].audit, [type |-> "closed", of |-> <<q>>]),
                  returned |-> row[i].returned \cup {q}]
          /\ n.status = "closed" /\ n.closure = <<q>>
          /\ n.audit = Append(row[i].audit, [type |-> "closed", of |-> <<q>>])
          /\ n.returned = row[i].returned \cup {q}
    <3> DEFINE more == Append(row[i].audit, [type |-> "closed", of |-> <<q>>])
               n == [status |-> "closed", closure |-> <<q>>, audit |-> more,
                     returned |-> row[i].returned \cup {q}]
    <3>1. more \in Seq(AuditRecord)
      BY <2>4
    <3> HIDE DEF more
    <3>2. n \in RowRecord /\ n.status = "closed" /\ n.closure = <<q>>
          /\ n.audit = more /\ n.returned = row[i].returned \cup {q}
      BY <2>2, <2>3, <3>1 DEF RowRecord
    <3>3. n = [status |-> "closed", closure |-> <<q>>,
               audit |-> Append(row[i].audit, [type |-> "closed", of |-> <<q>>]),
               returned |-> row[i].returned \cup {q}]
      BY DEF more
    <3> HIDE DEF n
    <3> QED BY <3>2, <3>3 DEF more
  <2>6. row' = [row EXCEPT ![i] = n] /\ UNCHANGED case
    BY <1>9, <2>5 DEF Close
  <2>7. Audited(n)
    BY <2>1, <2>5, AuditedOnceMore
  <2> QED BY <2>6, <2>7, RowKeeps
<1>10. CASE UNCHANGED custodyVars
  BY <1>10 DEF custodyVars, CustodyInv
<1> QED BY <1>3, <1>4, <1>5, <1>6, <1>7, <1>8, <1>9, <1>10 DEF CustodyNext

\* Who has a case and how it stands is what its custody events say, except that a return, whose
\* event names the agent, leaves the owner who he was; a case is acknowledged once, who changed
\* it or gave it back is who acknowledged it, and a case given back is only given back again.
\* The audit trail of closures holds every closure that was returned, in turn with the
\* reopenings, and a row shows the last.
THEOREM CustodyIsKept == CustodySpec => [](CustodyTypeOK /\ CustodyIsTraceable)
BY CustodyInitInv, CustodyStepInv, CustodyInvTraces, PTL DEF CustodySpec

-----------------------------------------------------------------------------
(***************************************************************************)
(* ConversationStream, for any windows and commands.                       *)
(***************************************************************************)

KeptEvent == [cursor : 1 .. MaxCursor, said : Said]
ConversationRecord == [cursor : 0 .. MaxCursor, stopped : BOOLEAN,
                       commands : SUBSET SendCommand, events : Seq(KeptEvent)]

\* The events kept are the last ones, all of them as long as the list is not full.
KeptTail(events, reached) ==
  /\ Len(events) <= MAX_MESSAGES /\ Len(events) <= reached
  /\ Len(events) < MAX_MESSAGES => Len(events) = reached
  /\ \A k \in 1 .. Len(events) : events[k].cursor = reached - Len(events) + k

\* Of what was said, a message at the cursor it was written at, and the stop at the end.
SpokenInTurn ==
  /\ spoken \in Seq(Said) /\ Len(spoken) = conversation.cursor
  /\ \A i \in 1 .. Len(spoken) :
       /\ spoken[i].type = "message" => written_at[spoken[i].command] = i - 1
       /\ spoken[i].type = "assistant_stopped" => i = Len(spoken) /\ conversation.stopped

\* A window that misses an event was given a full list after it.
FullAfterGap(w) ==
  /\ window[w].got \subseteq 1 .. window[w].cursor
  /\ \A n \in 1 .. window[w].cursor :
       n \notin window[w].got =>
         \E m \in n + 1 .. window[w].cursor - MAX_MESSAGES + 1 :
           m - 1 \notin window[w].got /\ m .. m + MAX_MESSAGES - 1 \subseteq window[w].got

ConversationInv ==
  /\ conversation \in ConversationRecord
  /\ KeptTail(conversation.events, conversation.cursor)
  /\ window \in [Window -> [cursor : 0 .. MaxCursor, got : SUBSET (1 .. MaxCursor)]]
  /\ written_at \in [SendCommand -> -1 .. MaxCursor]
  /\ SpokenInTurn
  /\ \A w \in Window : window[w].cursor <= conversation.cursor /\ FullAfterGap(w)

LEMMA PositiveConversation ==
  MAX_MESSAGES \in Nat /\ MAX_MESSAGES >= 1 /\ MaxCursor \in Nat
BY ConversationAssumption

LEMMA ConversationInitInv == ConversationInit => ConversationInv
<1> SUFFICES ASSUME ConversationInit PROVE ConversationInv
  OBVIOUS
<1>1. 0 \in 0 .. MaxCursor /\ -1 \in -1 .. MaxCursor
  BY PositiveConversation
<1>2. conversation \in ConversationRecord
  BY <1>1 DEF ConversationInit, ConversationRecord
<1>3. conversation.events = <<>> /\ conversation.cursor = 0
  BY DEF ConversationInit
<1>4. KeptTail(conversation.events, conversation.cursor)
  BY <1>3, PositiveConversation DEF KeptTail
<1>5. window \in [Window -> [cursor : 0 .. MaxCursor, got : SUBSET (1 .. MaxCursor)]]
  BY <1>1 DEF ConversationInit
<1>6. written_at \in [SendCommand -> -1 .. MaxCursor]
  BY <1>1 DEF ConversationInit
<1>7. \A w \in Window : window[w].cursor = 0 /\ window[w].got = {}
  BY DEF ConversationInit
<1> QED BY <1>2, <1>3, <1>4, <1>5, <1>6, <1>7
        DEF ConversationInit, ConversationInv, SpokenInTurn, FullAfterGap

LEMMA ConversationInvTells == ConversationInv => ConversationTypeOK /\ ConversationTells
<1> SUFFICES ASSUME ConversationInv PROVE ConversationTypeOK /\ ConversationTells
  OBVIOUS
<1>1. ConversationTypeOK
  BY DEF ConversationInv, ConversationTypeOK, ConversationRecord, KeptTail, SpokenInTurn
<1>2. ConversationTells
  BY DEF ConversationInv, ConversationTells, SpokenInTurn, FullAfterGap
<1> QED BY <1>1, <1>2

\* Trimming drops from the front, and only what a full list has no place for.
LEMMA TrimmedKeepsTail ==
  ASSUME NEW events \in Seq(KeptEvent), NEW reached \in 0 .. MaxCursor, reached < MaxCursor,
         KeptTail(events, reached), NEW e \in KeptEvent, e.cursor = reached + 1
  PROVE  /\ Trimmed(Append(events, e)) \in Seq(KeptEvent)
         /\ KeptTail(Trimmed(Append(events, e)), reached + 1)
<1> USE PositiveConversation
<1>1. PICK len \in Nat : len = Len(events)
  OBVIOUS
<1> DEFINE more == Append(events, e)
<1>2. /\ more \in Seq(KeptEvent) /\ Len(more) = len + 1
      /\ \A k \in 1 .. len : more[k] = events[k]
      /\ more[len + 1] = e
  BY <1>1
<1>3. \A k \in 1 .. len + 1 : more[k].cursor = reached - len + k
  <2>1. \A k \in 1 .. len : more[k].cursor = reached - len + k
    BY <1>1, <1>2 DEF KeptTail
  <2>2. more[len + 1].cursor = reached - len + (len + 1)
    BY <1>2
  <2>3. \A k \in 1 .. len + 1 : k \in 1 .. len \/ k = len + 1
    OBVIOUS
  <2> HIDE DEF more
  <2> QED BY <2>1, <2>2, <2>3
<1>4. len <= MAX_MESSAGES /\ len <= reached /\ (len < MAX_MESSAGES => len = reached)
  BY <1>1 DEF KeptTail
<1> HIDE DEF more
<1>5. CASE len + 1 <= MAX_MESSAGES
  <2>1. Trimmed(more) = more
    BY <1>2, <1>5 DEF Trimmed
  <2> QED BY <1>2, <1>3, <1>4, <1>5, <2>1 DEF KeptTail, more
<1>6. CASE len + 1 > MAX_MESSAGES
  <2>1. len = MAX_MESSAGES /\ Trimmed(more) = SubSeq(more, 2, len + 1)
    BY <1>2, <1>4, <1>6 DEF Trimmed
  <2>2. /\ SubSeq(more, 2, len + 1) \in Seq(KeptEvent)
        /\ Len(SubSeq(more, 2, len + 1)) = len
        /\ \A k \in 1 .. len : SubSeq(more, 2, len + 1)[k] = more[k + 1]
    BY <1>2
  <2>3. \A k \in 1 .. len : SubSeq(more, 2, len + 1)[k].cursor = reached + 1 - len + k
    BY <1>3, <2>2
  <2> DEFINE kept == SubSeq(more, 2, len + 1)
  <2>4. /\ kept \in Seq(KeptEvent) /\ Len(kept) = len
        /\ \A k \in 1 .. len : kept[k].cursor = reached + 1 - len + k
    BY <2>2, <2>3
  <2> HIDE DEF kept
  <2>5. KeptTail(kept, reached + 1)
    BY <1>4, <2>1, <2>4 DEF KeptTail
  <2>6. Trimmed(more) = kept
    BY <2>1 DEF kept
  <2> QED BY <2>4, <2>5, <2>6 DEF more
<1> QED BY <1>4, <1>5, <1>6

\* One event more, said while the conversation goes on.
LEMMA AppendedInv ==
  ASSUME ConversationInv, NEW r \in ConversationRecord, NEW said \in Said, Appended(r, said),
         r.cursor = conversation.cursor, r.events = conversation.events, ~conversation.stopped,
         said.type = "message" =>
           written_at[said.command] = conversation.cursor,
         said.type = "assistant_stopped" => r.stopped,
         UNCHANGED <<window, written_at>>
  PROVE  ConversationInv'
<1>1. PICK reached \in 0 .. MaxCursor : reached = conversation.cursor
  BY DEF ConversationInv, ConversationRecord
<1>2. reached < MaxCursor /\ reached + 1 \in 0 .. MaxCursor /\ reached + 1 \in 1 .. MaxCursor
  BY <1>1, PositiveConversation DEF Appended
<1>3. PICK e \in KeptEvent : e = [cursor |-> reached + 1, said |-> said]
  BY <1>2 DEF KeptEvent
<1>4. PICK old \in Seq(KeptEvent) : old = conversation.events
  BY DEF ConversationInv, ConversationRecord
<1>5. PICK kept \in Seq(KeptEvent) :
        kept = Trimmed(Append(old, e)) /\ KeptTail(kept, reached + 1)
  BY <1>1, <1>2, <1>3, <1>4, TrimmedKeepsTail DEF ConversationInv
<1>6. conversation' = [r EXCEPT !.cursor = reached + 1, !.events = kept]
  BY <1>1, <1>3, <1>4, <1>5 DEF Appended, ConversationRecord
<1>7. /\ conversation' \in ConversationRecord /\ conversation'.cursor = reached + 1
      /\ conversation'.events = kept
  BY <1>2, <1>6 DEF ConversationRecord
<1>8. conversation'.stopped <=> r.stopped
  BY <1>6 DEF ConversationRecord
<1>9. PICK past \in Seq(Said) : past = spoken
  BY DEF ConversationInv, SpokenInTurn
<1>10. spoken' = Append(past, said)
  BY <1>9 DEF Appended
<1>11. /\ spoken' \in Seq(Said) /\ Len(spoken') = reached + 1 /\ spoken'[reached + 1] = said
       /\ \A i \in 1 .. reached : spoken'[i] = spoken[i] /\ spoken[i].type # "assistant_stopped"
       /\ Len(spoken) = reached
  <2>1. Len(past) = reached
    BY <1>1, <1>9 DEF ConversationInv, SpokenInTurn
  <2>2. \A i \in 1 .. reached : spoken[i].type # "assistant_stopped"
    BY <1>9, <2>1 DEF ConversationInv, SpokenInTurn
  <2>3. /\ spoken' \in Seq(Said) /\ Len(spoken') = reached + 1 /\ spoken'[reached + 1] = said
        /\ \A i \in 1 .. reached : spoken'[i] = past[i]
    BY <1>10, <2>1
  <2> QED BY <1>9, <2>1, <2>2, <2>3
<1>12. SpokenInTurn'
  <2>1. ASSUME NEW i \in 1 .. Len(spoken')
        PROVE  /\ spoken'[i].type = "message" => written_at'[spoken'[i].command] = i - 1
               /\ spoken'[i].type = "assistant_stopped"
                    => i = Len(spoken') /\ conversation'.stopped
    <3>1. CASE i = reached + 1
      BY <1>1, <1>8, <1>11, <3>1
    <3>2. CASE i \in 1 .. reached
      BY <1>11, <3>2 DEF ConversationInv, SpokenInTurn
    <3> QED BY <1>11, <3>1, <3>2
  <2> QED BY <1>7, <1>11, <2>1 DEF SpokenInTurn
<1>13. KeptTail(conversation'.events, conversation'.cursor)
  BY <1>5, <1>7
<1>14. \A w \in Window : window'[w].cursor <= conversation'.cursor /\ FullAfterGap(w)'
  <2>1. \A w \in Window : window[w].cursor \in 0 .. MaxCursor
    BY DEF ConversationInv
  <2>2. \A w \in Window : window'[w].cursor <= conversation'.cursor
    BY <1>1, <1>7, <2>1 DEF ConversationInv
  <2> QED BY <2>2 DEF ConversationInv, FullAfterGap
<1> QED BY <1>7, <1>12, <1>13, <1>14 DEF ConversationInv

\* A window reads on: it is given all that is new, or all that is kept.
LEMMA ReadAfterInv ==
  ASSUME ConversationInv, NEW w \in Window, ReadAfter(w) PROVE ConversationInv'
<1> USE PositiveConversation
<1>1. PICK reached \in 0 .. MaxCursor : reached = conversation.cursor
  BY DEF ConversationInv, ConversationRecord
<1>2. PICK events \in Seq(KeptEvent) : events = conversation.events
  BY DEF ConversationInv, ConversationRecord
<1>3. PICK len \in Nat : len = Len(events)
  OBVIOUS
<1>4. KeptTail(events, reached)
  BY <1>1, <1>2 DEF ConversationInv
<1>5. PICK from \in 0 .. MaxCursor, got \in SUBSET (1 .. MaxCursor) :
        from = window[w].cursor /\ got = window[w].got
  BY DEF ConversationInv
<1>6. from <= reached /\ got \subseteq 1 .. from
  BY <1>1, <1>5 DEF ConversationInv, FullAfterGap
<1> DEFINE fresh == {events[n].cursor : n \in {n \in DOMAIN events : events[n].cursor > from}}
<1>7. fresh = {n \in 1 .. reached : n > from /\ n > reached - len}
  <2>1. /\ len <= reached /\ DOMAIN events = 1 .. len
        /\ \A k \in 1 .. len : events[k].cursor = reached - len + k
    BY <1>3, <1>4 DEF KeptTail
  <2>2. ASSUME NEW n \in 1 .. reached, n > from, n > reached - len PROVE n \in fresh
    <3>1. n - (reached - len) \in 1 .. len /\ reached - len + (n - (reached - len)) = n
      BY <2>1, <2>2
    <3> QED BY <2>1, <2>2, <3>1
  <2>3. ASSUME NEW k \in 1 .. len, events[k].cursor > from
        PROVE  /\ events[k].cursor \in 1 .. reached /\ events[k].cursor > from
               /\ events[k].cursor > reached - len
    BY <2>1, <2>3
  <2> QED BY <2>1, <2>2, <2>3
<1>8. PICK new \in SUBSET (1 .. reached) :
        /\ new = fresh
        /\ \A n \in 1 .. reached : n \in new <=> n > from /\ n > reached - len
  BY <1>7
<1> HIDE DEF fresh
<1>9. PICK k \in [cursor : 0 .. MaxCursor, got : SUBSET (1 .. MaxCursor)] :
        k = [cursor |-> reached, got |-> got \cup new]
  <2>1. got \cup new \in SUBSET (1 .. MaxCursor)
    BY <1>8
  <2> QED BY <2>1
<1>10. window' = [window EXCEPT ![w] = k] /\ UNCHANGED <<conversation, written_at, spoken>>
  BY <1>1, <1>2, <1>5, <1>8, <1>9 DEF ReadAfter, fresh
<1>11. /\ window' \in [Window -> [cursor : 0 .. MaxCursor, got : SUBSET (1 .. MaxCursor)]]
       /\ window'[w].cursor = reached /\ window'[w].got = got \cup new
       /\ \A v \in Window \ {w} : window'[v] = window[v]
  BY <1>9, <1>10 DEF ConversationInv
<1>12. ASSUME NEW n \in 1 .. reached, n \notin got \cup new
       PROVE  \E m \in n + 1 .. reached - MAX_MESSAGES + 1 :
                m - 1 \notin got \cup new /\ m .. m + MAX_MESSAGES - 1 \subseteq got \cup new
  <2>1. CASE n <= from
    <3>1. n \in 1 .. from
      BY <2>1
    <3>2. PICK m \in n + 1 .. from - MAX_MESSAGES + 1 :
            m - 1 \notin got /\ m .. m + MAX_MESSAGES - 1 \subseteq got
      BY <1>5, <1>12, <3>1 DEF ConversationInv, FullAfterGap
    <3>3. m \in n + 1 .. reached - MAX_MESSAGES + 1 /\ m - 1 \in 1 .. reached /\ m - 1 <= from
      BY <1>6, <3>2
    <3>4. m - 1 \notin new
      BY <1>8, <3>3
    <3> QED BY <3>2, <3>3, <3>4
  <2>2. CASE n > from
    <3>1. n <= reached - len
      BY <1>8, <1>12, <2>2
    <3>2. len = MAX_MESSAGES
      BY <1>3, <1>4, <3>1 DEF KeptTail
    <3>3. PICK m \in n + 1 .. reached - MAX_MESSAGES + 1 : m = reached - MAX_MESSAGES + 1
      BY <3>1, <3>2
    <3>4. m - 1 \notin got /\ m - 1 \notin new
      BY <1>6, <1>8, <2>2, <3>2, <3>3
    <3>5. \A i \in m .. m + MAX_MESSAGES - 1 : i \in new
      BY <1>8, <2>2, <3>2, <3>3
    <3> QED BY <3>3, <3>4, <3>5
  <2> QED BY <2>1, <2>2
<1>13. FullAfterGap(w)'
  <2>1. got \cup new \subseteq 1 .. reached
    BY <1>6
  <2> QED BY <1>11, <1>12, <2>1 DEF FullAfterGap
<1>14. \A v \in Window : window'[v].cursor <= conversation'.cursor /\ FullAfterGap(v)'
  <2>1. ASSUME NEW v \in Window \ {w}
        PROVE  window'[v].cursor <= conversation'.cursor /\ FullAfterGap(v)'
    BY <1>10, <1>11 DEF ConversationInv, FullAfterGap
  <2>2. window'[w].cursor <= conversation'.cursor
    BY <1>1, <1>10, <1>11
  <2> QED BY <1>13, <2>1, <2>2
<1>15. SpokenInTurn'
  BY <1>10 DEF ConversationInv, SpokenInTurn
<1> QED BY <1>10, <1>11, <1>14, <1>15 DEF ConversationInv

LEMMA ConversationStepInv ==
  ConversationInv /\ [ConversationNext]_conversationVars => ConversationInv'
<1> SUFFICES ASSUME ConversationInv, [ConversationNext]_conversationVars
             PROVE  ConversationInv'
  OBVIOUS
<1>1. /\ conversation \in ConversationRecord /\ conversation.cursor \in 0 .. MaxCursor
      /\ conversation.stopped \in BOOLEAN
  BY DEF ConversationInv, ConversationRecord
<1>2. CASE StopConversation
  <2>1. PICK r \in ConversationRecord :
          /\ r = [conversation EXCEPT !.stopped = TRUE] /\ r.stopped
          /\ r.cursor = conversation.cursor /\ r.events = conversation.events
    <3> DEFINE k == [conversation EXCEPT !.stopped = TRUE]
    <3>1. k \in ConversationRecord
      BY <1>1 DEF ConversationRecord
    <3>2. k.cursor = conversation.cursor /\ k.events = conversation.events
      BY <1>1 DEF ConversationRecord
    <3>3. k.stopped
      BY <1>1 DEF ConversationRecord
    <3> QED BY <3>1, <3>2, <3>3
  <2>2. [type |-> "assistant_stopped"] \in Said
    BY DEF Said
  <2> QED BY <1>2, <2>1, <2>2, AppendedInv DEF StopConversation
<1>3. ASSUME NEW final \in BOOLEAN, AssistantDelta(final) PROVE ConversationInv'
  <2>1. PICK said \in Said :
          /\ said = [type |-> IF final THEN "assistant_complete" ELSE "assistant_delta"]
          /\ said.type \notin {"message", "assistant_stopped"}
    <3>1. CASE final
      <4>1. [type |-> "assistant_complete"] \in Said
        BY DEF Said
      <4> QED BY <3>1, <4>1
    <3>2. CASE ~final
      <4>1. [type |-> "assistant_delta"] \in Said
        BY DEF Said
      <4> QED BY <3>2, <4>1
    <3> QED BY <3>1, <3>2
  <2> QED BY <1>1, <1>3, <2>1, AppendedInv DEF AssistantDelta
<1>4. ASSUME NEW c \in SendCommand, Send(c) PROVE ConversationInv'
  <2>1. PICK r \in ConversationRecord :
          /\ r = [conversation EXCEPT !.commands = @ \cup {c}]
          /\ r.cursor = conversation.cursor /\ r.events = conversation.events
    <3> DEFINE k == [conversation EXCEPT !.commands = @ \cup {c}]
    <3>1. k \in ConversationRecord
      BY <1>1 DEF ConversationRecord
    <3>2. k.cursor = conversation.cursor /\ k.events = conversation.events
      BY <1>1 DEF ConversationRecord
    <3> QED BY <3>1, <3>2
  <2>2. PICK said \in Said :
          said = [type |-> "message", command |-> c] /\ said.type = "message" /\ said.command = c
    <3>1. [type |-> "message", command |-> c] \in Said
      BY DEF Said
    <3> QED BY <3>1
  <2> QED BY <1>4, <2>1, <2>2, AppendedInv DEF Send, AtCursor
<1>5. ASSUME NEW w \in Window, NEW c \in SendCommand, Writes(w, c) PROVE ConversationInv'
  <2>1. /\ written_at' \in [SendCommand -> -1 .. MaxCursor]
        /\ \A d \in SendCommand : written_at[d] # -1 => written_at'[d] = written_at[d]
        /\ UNCHANGED <<conversation, window, spoken>>
    BY <1>5, PositiveConversation DEF Writes, ConversationInv
  <2>2. ASSUME NEW i \in 1 .. Len(spoken), spoken[i].type = "message"
        PROVE  written_at'[spoken[i].command] = i - 1
    <3>1. spoken[i] \in Said /\ spoken[i].command \in SendCommand /\ i - 1 # -1
      BY <2>2 DEF ConversationInv, SpokenInTurn, Said
    <3> QED BY <2>1, <2>2, <3>1 DEF ConversationInv, SpokenInTurn
  <2>3. SpokenInTurn'
    BY <2>1, <2>2 DEF ConversationInv, SpokenInTurn
  <2> QED BY <2>1, <2>3 DEF ConversationInv, FullAfterGap
<1>6. CASE UNCHANGED conversationVars
  BY <1>6 DEF conversationVars, ConversationInv, SpokenInTurn, FullAfterGap
<1> QED BY <1>2, <1>3, <1>4, <1>5, <1>6, ReadAfterInv DEF ConversationNext

\* Each message was said once, at the cursor it was written at, nothing was said after the
\* stop, and a window that misses an event was given a full list after it.
THEOREM ConversationIsTold == ConversationSpec => [](ConversationTypeOK /\ ConversationTells)
BY ConversationInitInv, ConversationStepInv, ConversationInvTells, PTL DEF ConversationSpec

-----------------------------------------------------------------------------
(***************************************************************************)
(* Releases, for any bundles and engineers; first, the greatest of a finite *)
(* set of numbers.                                                         *)
(***************************************************************************)

\* Of numbers there is a least, and of bounded ones a greatest, which Max finds.
LEMMA LeastOf ==
  ASSUME NEW S \in SUBSET Nat, S # {}
  PROVE  \E x \in S : \A y \in S : x <= y
<1>1. PICK x \in S : \A y \in S : <<y, x>> \notin OpToRel(<, Nat)
  BY NatLessThanWellFounded, WFMin
<1>2. \A y \in S : ~(y < x)
  BY <1>1 DEF OpToRel
<1> QED BY <1>2

LEMMA MaxOf ==
  ASSUME NEW n \in Nat, NEW S \in SUBSET (1 .. n), S # {}
  PROVE  Max(S) \in S /\ \A y \in S : y <= Max(S)
<1> DEFINE T == {m \in Nat : n - m \in S}
<1>1. T \in SUBSET Nat /\ T # {}
  <2>1. PICK s \in S : TRUE
    OBVIOUS
  <2>2. n - s \in Nat /\ n - (n - s) = s
    OBVIOUS
  <2> QED BY <2>1, <2>2
<1>2. PICK x \in T : \A y \in T : x <= y
  BY <1>1, LeastOf
<1>3. \A y \in S : n - y \in T /\ y <= n - x
  <2>1. \A y \in S : n - y \in Nat /\ n - (n - y) = y
    OBVIOUS
  <2>2. \A y \in S : n - y \in T
    BY <2>1
  <2>3. x \in Nat /\ \A y \in S : x <= n - y
    BY <1>2, <2>2
  <2> QED BY <2>2, <2>3
<1>4. n - x \in S /\ \A y \in S : n - x >= y
  BY <1>2, <1>3
<1> QED BY <1>4 DEF Max

LEMMA MaxIs ==
  ASSUME NEW n \in Nat, NEW S \in SUBSET (1 .. n), NEW m \in S, \A y \in S : y <= m
  PROVE  Max(S) = m
<1>1. PICK greatest \in S : greatest = Max(S) /\ m <= greatest
  BY MaxOf
<1>2. greatest \in 1 .. n /\ m \in 1 .. n
  OBVIOUS
<1>3. greatest <= m
  OBVIOUS
<1> QED BY <1>1, <1>2, <1>3

ReleaseEvent == [type : {"rollout", "rollback", "freeze"}, bundle : Bundle \cup {NoRelease},
                 percent : 0 .. 100, prior : Bundle \cup {NoRelease}]
NowRecord == [active : Bundle \cup {NoRelease}, canary : Bundle \cup {NoRelease},
              percent : Percent \cup {0}, frozen : BOOLEAN]
DeploymentRecord == [now : NowRecord, events : Seq(ReleaseEvent)]

\* The events in full, and the canaries after the last of them, among the first n.
Full(events, n)   == {i \in 1 .. n : events[i].percent = 100}
Canary(events, n) == {i \in 1 .. n : /\ events[i].percent \in 1 .. 99
                                     /\ \A j \in Full(events, n) : j < i}
Frozen(events, n) == \E i \in 1 .. n : events[i].type = "freeze"

\* The events tell, field by field, what is deployed.
Tells(stands, events, n) ==
  /\ stands.active = IF Full(events, n) = {} THEN NoRelease
                  ELSE events[Max(Full(events, n))].bundle
  /\ stands.canary = IF Canary(events, n) = {} THEN NoRelease
                  ELSE events[Max(Canary(events, n))].bundle
  /\ stands.percent = IF Canary(events, n) = {} THEN 0
                   ELSE events[Max(Canary(events, n))].percent
  /\ stands.frozen <=> Frozen(events, n)

LEMMA TellsIsTold ==
  ASSUME NEW stands \in NowRecord, NEW events, NEW n, Tells(stands, events, n)
  PROVE  stands = Told(events, n)
<1>1. stands = [active |-> stands.active, canary |-> stands.canary, percent |-> stands.percent,
             frozen |-> stands.frozen]
  BY DEF NowRecord
<1>2. stands.frozen = Frozen(events, n)
  <2>1. stands.frozen \in BOOLEAN /\ Frozen(events, n) \in BOOLEAN
    BY DEF NowRecord, Frozen
  <2> QED BY <2>1 DEF Tells
<1>3. Told(events, n) =
        [active  |-> IF Full(events, n) = {} THEN NoRelease
                     ELSE events[Max(Full(events, n))].bundle,
         canary  |-> IF Canary(events, n) = {} THEN NoRelease
                     ELSE events[Max(Canary(events, n))].bundle,
         percent |-> IF Canary(events, n) = {} THEN 0
                     ELSE events[Max(Canary(events, n))].percent,
         frozen  |-> Frozen(events, n)]
  BY Zenon DEF Told, Full, Canary, Frozen
<1> QED BY <1>1, <1>2, <1>3, Zenon DEF Tells

LEMMA ToldFields ==
  ASSUME NEW events, NEW n
  PROVE  /\ Told(events, n).active = IF Full(events, n) = {} THEN NoRelease
                                     ELSE events[Max(Full(events, n))].bundle
         /\ Told(events, n).frozen <=> Frozen(events, n)
<1>1. Told(events, n).active = IF Full(events, n) = {} THEN NoRelease
                               ELSE events[Max(Full(events, n))].bundle
  BY DEF Told, Full
<1>2. Told(events, n).frozen = Frozen(events, n)
  BY Zenon DEF Told, Frozen
<1> QED BY <1>1, <1>2

\* What the first events tell does not depend on those that follow.
LEMMA ToldBefore ==
  ASSUME NEW n \in Nat, NEW events, NEW more, \A i \in 1 .. n : more[i] = events[i]
  PROVE  /\ Full(more, n) = Full(events, n) /\ Canary(more, n) = Canary(events, n)
         /\ Frozen(more, n) <=> Frozen(events, n)
         /\ \A stands : Tells(stands, events, n) => Tells(stands, more, n)
<1>1. /\ Full(more, n) = Full(events, n) /\ Canary(more, n) = Canary(events, n)
      /\ Frozen(more, n) <=> Frozen(events, n)
  BY DEF Full, Canary, Frozen
<1>2. Full(events, n) \in SUBSET (1 .. n) /\ Canary(events, n) \in SUBSET (1 .. n)
  BY DEF Full, Canary
<1>3. Full(events, n) # {} => more[Max(Full(events, n))] = events[Max(Full(events, n))]
  <2> SUFFICES ASSUME Full(events, n) # {}
               PROVE  more[Max(Full(events, n))] = events[Max(Full(events, n))]
    OBVIOUS
  <2>1. Max(Full(events, n)) \in 1 .. n
    BY <1>2, MaxOf
  <2> QED BY <2>1
<1>4. Canary(events, n) # {} => more[Max(Canary(events, n))] = events[Max(Canary(events, n))]
  <2> SUFFICES ASSUME Canary(events, n) # {}
               PROVE  more[Max(Canary(events, n))] = events[Max(Canary(events, n))]
    OBVIOUS
  <2>1. Max(Canary(events, n)) \in 1 .. n
    BY <1>2, MaxOf
  <2> QED BY <2>1
<1> QED BY <1>1, <1>3, <1>4 DEF Tells

\* What one more event tells: a bundle in full, a canary, or a freeze.
LEMMA OneEventMore ==
  ASSUME NEW n \in Nat, NEW events, NEW stands, NEW after, Tells(stands, events, n),
         \/ /\ events[n + 1].percent = 100 /\ after.active = events[n + 1].bundle
            /\ after.canary = NoRelease /\ after.percent = 0
         \/ /\ events[n + 1].percent \in 1 .. 99 /\ after.active = stands.active
            /\ after.canary = events[n + 1].bundle /\ after.percent = events[n + 1].percent
         \/ /\ events[n + 1].percent = 0 /\ after.active = stands.active
            /\ after.canary = stands.canary /\ after.percent = stands.percent,
         after.frozen <=> stands.frozen \/ events[n + 1].type = "freeze"
  PROVE  Tells(after, events, n + 1)
<1>1. \A i \in 1 .. n + 1 : i \in 1 .. n \/ i = n + 1
  OBVIOUS
<1>2. \A i \in 1 .. n : i \in 1 .. n + 1 /\ i < n + 1
  OBVIOUS
<1>3. Frozen(events, n + 1) <=> Frozen(events, n) \/ events[n + 1].type = "freeze"
  <2>1. n + 1 \in 1 .. n + 1
    OBVIOUS
  <2> QED BY <1>1, <1>2, <2>1 DEF Frozen
<1>4. after.frozen <=> Frozen(events, n + 1)
  BY <1>3 DEF Tells
<1>5. Full(events, n + 1) = Full(events, n) \cup
        (IF events[n + 1].percent = 100 THEN {n + 1} ELSE {})
  BY <1>1, <1>2 DEF Full
<1>6. CASE events[n + 1].percent = 100
  <2>1. n + 1 \in Full(events, n + 1) /\ Full(events, n + 1) \in SUBSET (1 .. n + 1)
    BY <1>6 DEF Full
  <2>2. Max(Full(events, n + 1)) = n + 1
    <3>1. n + 1 \in Nat /\ \A y \in Full(events, n + 1) : y <= n + 1
      BY <2>1
    <3> QED BY <2>1, <3>1, MaxIs
  <2>3. Canary(events, n + 1) = {}
    BY <1>1, <1>2, <1>6, <2>1 DEF Canary
  <2> QED BY <1>4, <1>6, <2>1, <2>2, <2>3 DEF Tells
<1>7. CASE events[n + 1].percent \in 1 .. 99
  <2>1. Full(events, n + 1) = Full(events, n)
    <3>1. events[n + 1].percent # 100
      BY <1>7
    <3> QED BY <1>5, <3>1
  <2>2. /\ n + 1 \in Canary(events, n + 1) /\ Canary(events, n + 1) \in SUBSET (1 .. n + 1)
    BY <1>2, <1>7, <2>1 DEF Canary, Full
  <2>3. Max(Canary(events, n + 1)) = n + 1
    <3>1. n + 1 \in Nat /\ \A y \in Canary(events, n + 1) : y <= n + 1
      BY <2>2
    <3> QED BY <2>2, <3>1, MaxIs
  <2> QED BY <1>4, <1>7, <2>1, <2>2, <2>3 DEF Tells
<1>8. CASE events[n + 1].percent = 0
  <2>1. Full(events, n + 1) = Full(events, n)
    BY <1>5, <1>8
  <2>2. Canary(events, n + 1) = Canary(events, n)
    BY <1>1, <1>2, <1>8, <2>1 DEF Canary
  <2> QED BY <1>4, <1>8, <2>1, <2>2 DEF Tells
<1> QED BY <1>6, <1>7, <1>8

ReleaseInv ==
  /\ bundles \subseteq Bundle
  /\ approved_by \in [Bundle -> SUBSET Engineer]
  /\ \A b \in Bundle : Author[b] \notin approved_by[b]
  /\ deployments \in [Environment -> DeploymentRecord]
  /\ \A e \in Environment :
       LET d == deployments[e]
       IN /\ Len(d.events) <= MaxReleaseEvents
          /\ Tells(d.now, d.events, Len(d.events))
          /\ \A n \in 1 .. Len(d.events) :
               /\ d.events[n].prior = Told(d.events, n - 1).active
               /\ d.events[n].type = "rollout" => ~Frozen(d.events, n - 1)
          /\ \A b \in {d.now.active, d.now.canary} \ {NoRelease} : Approved(b)

LEMMA ReleaseInitInv == ReleaseInit => ReleaseInv
<1> SUFFICES ASSUME ReleaseInit PROVE ReleaseInv
  OBVIOUS
<1> DEFINE d == [now |-> NoDeployment, events |-> <<>>]
<1>1. /\ NoDeployment \in NowRecord /\ NoDeployment.active = NoRelease
      /\ NoDeployment.canary = NoRelease /\ NoDeployment.percent = 0
  BY DEF NoDeployment, NowRecord
<1>2. ~NoDeployment.frozen
  BY DEF NoDeployment
<1>3. d \in DeploymentRecord /\ d.now = NoDeployment /\ d.events = <<>>
  BY <1>1 DEF DeploymentRecord
<1>4. Full(<<>>, 0) = {} /\ Canary(<<>>, 0) = {} /\ ~Frozen(<<>>, 0)
  BY DEF Full, Canary, Frozen
<1>5. Tells(NoDeployment, <<>>, 0)
  BY <1>1, <1>2, <1>4 DEF Tells
<1>6. deployments = [e \in Environment |-> d]
  BY DEF ReleaseInit
<1> HIDE DEF d
<1>7. \A e \in Environment : deployments[e] = d
  BY <1>6
<1>8. Len(<<>>) = 0 /\ 1 .. 0 = {}
  OBVIOUS
<1>9. deployments \in [Environment -> DeploymentRecord]
  BY <1>3, <1>6
<1>10. bundles \subseteq Bundle /\ approved_by \in [Bundle -> SUBSET Engineer]
       /\ \A b \in Bundle : Author[b] \notin approved_by[b]
  BY DEF ReleaseInit
<1> QED BY <1>1, <1>3, <1>5, <1>7, <1>8, <1>9, <1>10, ReleaseAssumption DEF ReleaseInv

LEMMA ReleaseInvExplains == ReleaseInv => ReleaseTypeOK /\ EventsExplainDeployment
<1> SUFFICES ASSUME ReleaseInv PROVE ReleaseTypeOK /\ EventsExplainDeployment
  OBVIOUS
<1>1. ReleaseTypeOK
  BY DEF ReleaseInv, ReleaseTypeOK, DeploymentRecord, NowRecord
<1>2. ASSUME NEW e \in Environment
      PROVE  deployments[e].now = Told(deployments[e].events, Len(deployments[e].events))
  <2>1. deployments[e].now \in NowRecord
    BY DEF ReleaseInv, DeploymentRecord
  <2>2. Tells(deployments[e].now, deployments[e].events, Len(deployments[e].events))
    BY DEF ReleaseInv
  <2> QED BY <2>1, <2>2, TellsIsTold
<1>3. ASSUME NEW e \in Environment, NEW n \in 1 .. Len(deployments[e].events)
      PROVE  /\ deployments[e].events[n].prior = Told(deployments[e].events, n - 1).active
             /\ deployments[e].events[n].type = "rollout"
                  => ~Told(deployments[e].events, n - 1).frozen
  <2>1. Told(deployments[e].events, n - 1).frozen <=> Frozen(deployments[e].events, n - 1)
    BY ToldFields
  <2> QED BY <2>1 DEF ReleaseInv
<1>4. ASSUME NEW e \in Environment,
             NEW b \in {deployments[e].now.active, deployments[e].now.canary} \ {NoRelease}
      PROVE  \E p \in approved_by[b] : p # Author[b]
  <2>1. deployments[e].now \in NowRecord
    BY DEF ReleaseInv, DeploymentRecord
  <2>2. b \in Bundle /\ Approved(b)
    BY <2>1 DEF ReleaseInv, NowRecord
  <2> QED BY <2>2 DEF ReleaseInv, Approved
<1> QED BY <1>1, <1>2, <1>3, <1>4 DEF EventsExplainDeployment

\* An event is added to those of an environment, and what is deployed there is what it tells.
LEMMA DeploysInv ==
  ASSUME ReleaseInv, NEW e \in Environment, NEW stands \in NowRecord,
         NEW type \in {"rollout", "rollback", "freeze"}, NEW b \in Bundle \cup {NoRelease},
         NEW percent \in 0 .. 100,
         Deploys(e, stands, type, b, percent),
         \/ percent = 100 /\ stands.active = b /\ stands.canary = NoRelease /\ stands.percent = 0
         \/ /\ percent \in 1 .. 99 /\ stands.active = deployments[e].now.active
            /\ stands.canary = b /\ stands.percent = percent
         \/ /\ percent = 0 /\ stands.active = deployments[e].now.active
            /\ stands.canary = deployments[e].now.canary
            /\ stands.percent = deployments[e].now.percent,
         stands.frozen <=> deployments[e].now.frozen \/ type = "freeze",
         type = "rollout" => ~deployments[e].now.frozen,
         percent # 0 => Approved(b)
  PROVE  ReleaseInv'
<1>1. PICK before \in NowRecord, old \in Seq(ReleaseEvent) :
        before = deployments[e].now /\ old = deployments[e].events
  BY DEF ReleaseInv, DeploymentRecord
<1>2. PICK n \in Nat : n = Len(old)
  OBVIOUS
<1>3. PICK entry \in ReleaseEvent :
        /\ entry = [type |-> type, bundle |-> b, percent |-> percent, prior |-> before.active]
        /\ entry.type = type /\ entry.bundle = b /\ entry.percent = percent
        /\ entry.prior = before.active
  <2> DEFINE k == [type |-> type, bundle |-> b, percent |-> percent, prior |-> before.active]
  <2>1. before.active \in Bundle \cup {NoRelease}
    BY DEF NowRecord
  <2>2. k \in ReleaseEvent
    BY <2>1 DEF ReleaseEvent
  <2>3. k.type = type /\ k.bundle = b /\ k.percent = percent /\ k.prior = before.active
    OBVIOUS
  <2> QED BY <2>2, <2>3
<1>4. PICK more \in Seq(ReleaseEvent) : more = Append(old, entry)
  <2>1. Append(old, entry) \in Seq(ReleaseEvent)
    OBVIOUS
  <2> QED BY <2>1
<1>5. /\ Len(more) = n + 1 /\ more[n + 1] = entry /\ \A i \in 1 .. n : more[i] = old[i]
  BY <1>2, <1>4
<1>6. n < MaxReleaseEvents /\ deployments' = [deployments EXCEPT ![e] =
        [now |-> stands, events |-> more]] /\ UNCHANGED <<bundles, approved_by>>
  BY <1>1, <1>2, <1>3, <1>4 DEF Deploys
<1>7. /\ deployments' \in [Environment -> DeploymentRecord]
      /\ deployments'[e].now = stands /\ deployments'[e].events = more
      /\ \A f \in Environment \ {e} : deployments'[f] = deployments[f]
  BY <1>6 DEF ReleaseInv, DeploymentRecord
<1>8. /\ Tells(before, old, n)
      /\ \A i \in 1 .. n : /\ old[i].prior = Told(old, i - 1).active
                           /\ old[i].type = "rollout" => ~Frozen(old, i - 1)
      /\ \A c \in {before.active, before.canary} \ {NoRelease} : Approved(c)
  BY <1>1, <1>2 DEF ReleaseInv
<1>9. Tells(before, more, n)
  BY <1>5, <1>8, ToldBefore
<1>10. Tells(stands, more, n + 1)
  <2>1. /\ more[n + 1].percent = percent /\ more[n + 1].bundle = b /\ more[n + 1].type = type
    BY <1>3, <1>5
  <2>2. \/ /\ more[n + 1].percent = 100 /\ stands.active = more[n + 1].bundle
           /\ stands.canary = NoRelease /\ stands.percent = 0
        \/ /\ more[n + 1].percent \in 1 .. 99 /\ stands.active = before.active
           /\ stands.canary = more[n + 1].bundle /\ stands.percent = more[n + 1].percent
        \/ /\ more[n + 1].percent = 0 /\ stands.active = before.active
           /\ stands.canary = before.canary /\ stands.percent = before.percent
    BY <1>1, <2>1
  <2>3. stands.frozen <=> before.frozen \/ more[n + 1].type = "freeze"
    BY <1>1, <2>1
  <2> QED BY <1>9, <2>2, <2>3, OneEventMore
<1>11. ASSUME NEW i \in 1 .. n + 1
       PROVE  /\ more[i].prior = Told(more, i - 1).active
              /\ more[i].type = "rollout" => ~Frozen(more, i - 1)
  <2>1. i - 1 \in Nat /\ i - 1 <= n
    OBVIOUS
  <2>2. ASSUME NEW k \in Nat, k <= n
        PROVE  Told(more, k).active = Told(old, k).active /\ (Frozen(more, k) <=> Frozen(old, k))
    <3>1. \A j \in 1 .. k : more[j] = old[j]
      BY <1>5, <2>2
    <3>2. /\ Full(more, k) = Full(old, k)
          /\ Frozen(more, k) <=> Frozen(old, k)
      BY <3>1, ToldBefore
    <3>3. CASE Full(old, k) = {}
      BY <3>2, <3>3, ToldFields
    <3>4. CASE Full(old, k) # {}
      <4>1. Full(old, k) \in SUBSET (1 .. k)
        BY DEF Full
      <4>2. Max(Full(old, k)) \in 1 .. k
        BY <3>4, <4>1, MaxOf
      <4> QED BY <3>1, <3>2, <4>2, ToldFields
    <3> QED BY <3>2, <3>3, <3>4
  <2>3. CASE i \in 1 .. n
    <3>1. more[i] = old[i]
      BY <1>5, <2>3
    <3> QED BY <1>8, <2>1, <2>2, <2>3, <3>1
  <2>4. CASE i = n + 1
    <3>1. Told(old, n).active = before.active
      BY <1>8, ToldFields DEF Tells
    <3>2. type = "rollout" => ~Frozen(old, n)
      BY <1>1, <1>8 DEF Tells
    <3>3. i - 1 = n /\ more[i] = entry
      BY <1>5, <2>4
    <3> QED BY <1>3, <2>2, <3>1, <3>2, <3>3
  <2> QED BY <2>3, <2>4
<1>12. \A c \in {stands.active, stands.canary} \ {NoRelease} : Approved(c)
  BY <1>1, <1>8
<1>13. ASSUME NEW f \in Environment
       PROVE  /\ Len(deployments'[f].events) <= MaxReleaseEvents
              /\ Tells(deployments'[f].now, deployments'[f].events, Len(deployments'[f].events))
              /\ \A i \in 1 .. Len(deployments'[f].events) :
                   /\ deployments'[f].events[i].prior = Told(deployments'[f].events, i - 1).active
                   /\ deployments'[f].events[i].type = "rollout"
                        => ~Frozen(deployments'[f].events, i - 1)
              /\ \A c \in {deployments'[f].now.active, deployments'[f].now.canary} \ {NoRelease} :
                   Approved(c)'
  <2>1. CASE f = e
    <3>1. n + 1 <= MaxReleaseEvents
      BY <1>6, ReleaseAssumption
    <3> QED BY <1>5, <1>6, <1>7, <1>10, <1>11, <1>12, <2>1, <3>1 DEF Approved
  <2>2. CASE f # e
    BY <1>6, <1>7, <2>2 DEF ReleaseInv, Approved
  <2> QED BY <2>1, <2>2
<1> QED BY <1>6, <1>7, <1>13 DEF ReleaseInv

LEMMA ReleaseStepInv == ReleaseInv /\ [ReleaseNext]_releaseVars => ReleaseInv'
<1> SUFFICES ASSUME ReleaseInv, [ReleaseNext]_releaseVars PROVE ReleaseInv'
  OBVIOUS
<1>1. \A e \in Environment : deployments[e].now \in NowRecord
  BY DEF ReleaseInv, DeploymentRecord
<1>2. 0 \in 0 .. 100 /\ 100 \in 0 .. 100
  OBVIOUS
<1>3. ASSUME NEW b \in Bundle, Register(b) PROVE ReleaseInv'
  BY <1>3 DEF Register, ReleaseInv, Approved
<1>4. ASSUME NEW b \in Bundle, NEW p \in Engineer, ApproveBundle(p, b) PROVE ReleaseInv'
  <2>1. /\ approved_by' \in [Bundle -> SUBSET Engineer]
        /\ \A c \in Bundle : Author[c] \notin approved_by'[c]
        /\ \A c \in Bundle : Approved(c) => Approved(c)'
    BY <1>4 DEF ApproveBundle, Independent, ReleaseInv, Approved
  <2>2. \A e \in Environment :
          \A c \in {deployments[e].now.active, deployments[e].now.canary} \ {NoRelease} :
            Approved(c)'
    <3>1. \A e \in Environment :
            \A c \in {deployments[e].now.active, deployments[e].now.canary} \ {NoRelease} :
              c \in Bundle /\ Approved(c)
      BY <1>1 DEF ReleaseInv, NowRecord
    <3> QED BY <2>1, <3>1
  <2> QED BY <1>4, <2>1, <2>2 DEF ApproveBundle, ReleaseInv
<1>5. ASSUME NEW e \in Environment, Freeze(e) PROVE ReleaseInv'
  <2> DEFINE stands == [deployments[e].now EXCEPT !.frozen = TRUE]
  <2>1. stands \in NowRecord
    BY <1>1 DEF NowRecord
  <2>2. /\ stands.active = deployments[e].now.active /\ stands.canary = deployments[e].now.canary
        /\ stands.percent = deployments[e].now.percent
    BY <1>1 DEF NowRecord
  <2>3. stands.frozen
    BY <1>1 DEF NowRecord
  <2>4. deployments[e].now.active \in Bundle \cup {NoRelease}
    BY <1>1 DEF NowRecord
  <2>5. Deploys(e, stands, "freeze", deployments[e].now.active, 0)
    BY <1>5 DEF Freeze
  <2>6. PICK n \in NowRecord, b \in Bundle \cup {NoRelease} : n = stands /\ b = deployments[e].now.active
    BY <2>1, <2>4
  <2> HIDE DEF stands
  <2> QED BY <1>2, <2>2, <2>3, <2>5, <2>6, DeploysInv
<1>6. ASSUME NEW e \in Environment, NEW b \in Bundle, RollbackTo(e, b) PROVE ReleaseInv'
  <2> DEFINE stands == RolledBack(deployments[e].now, b)
  <2>1. stands \in NowRecord
    BY <1>1 DEF NowRecord, RolledBack
  <2>2. stands.active = b /\ stands.canary = NoRelease /\ stands.percent = 0
    BY <1>1 DEF NowRecord, RolledBack
  <2>3. stands.frozen <=> deployments[e].now.frozen
    BY <1>1 DEF NowRecord, RolledBack
  <2>4. Deploys(e, stands, "rollback", b, 100) /\ Approved(b)
    BY <1>6 DEF RollbackTo
  <2>5. PICK n \in NowRecord : n = stands
    BY <2>1
  <2> HIDE DEF stands
  <2>6. b \in Bundle \cup {NoRelease} /\ "rollback" \in {"rollout", "rollback", "freeze"}
    OBVIOUS
  <2>7. (stands.frozen <=> deployments[e].now.frozen \/ "rollback" = "freeze")
        /\ "rollback" # "rollout"
    BY <2>3
  <2> QED BY <1>2, <2>1, <2>2, <2>4, <2>6, <2>7, DeploysInv, ZenonT(40)
<1>7. ASSUME NEW e \in Environment, NEW b \in Bundle, NEW percent \in Percent,
             Rollout(e, b, percent)
      PROVE  ReleaseInv'
  <2>1. percent \in 0 .. 100 /\ percent \in 1 .. 100 /\ Approved(b)
        /\ ~deployments[e].now.frozen
    BY <1>7, ReleaseAssumption DEF Rollout
  <2>2. CASE percent = 100
    <3> DEFINE stands == [deployments[e].now EXCEPT !.active = b, !.canary = NoRelease, !.percent = 0]
    <3>1. stands \in NowRecord
      BY <1>1 DEF NowRecord
    <3>2. stands.active = b /\ stands.canary = NoRelease /\ stands.percent = 0
      BY <1>1 DEF NowRecord
    <3>3. stands.frozen <=> deployments[e].now.frozen
      BY <1>1 DEF NowRecord
    <3>4. Deploys(e, stands, "rollout", b, 100)
      BY <1>7, <2>2 DEF Rollout
    <3>5. PICK n \in NowRecord : n = stands
      BY <3>1
    <3> HIDE DEF stands
    <3> QED BY <1>2, <2>1, <3>2, <3>3, <3>4, <3>5, DeploysInv, ZenonT(40)
  <2>3. CASE percent # 100
    <3> DEFINE stands == [deployments[e].now EXCEPT !.canary = b, !.percent = percent]
    <3>1. stands \in NowRecord
      BY <1>1 DEF NowRecord
    <3>2. stands.active = deployments[e].now.active /\ stands.canary = b /\ stands.percent = percent
      BY <1>1 DEF NowRecord
    <3>3. stands.frozen <=> deployments[e].now.frozen
      BY <1>1 DEF NowRecord
    <3>4. Deploys(e, stands, "rollout", b, percent)
      BY <1>7, <2>3 DEF Rollout
    <3>5. PICK n \in NowRecord : n = stands
      BY <3>1
    <3>6. percent \in 1 .. 99
      BY <2>1, <2>3
    <3> HIDE DEF stands
    <3> QED BY <2>1, <3>2, <3>3, <3>4, <3>5, <3>6, DeploysInv
  <2> QED BY <2>2, <2>3
<1>8. CASE UNCHANGED releaseVars
  BY <1>8 DEF releaseVars, ReleaseInv, Approved
<1> QED BY <1>3, <1>4, <1>5, <1>6, <1>7, <1>8 DEF ReleaseNext

\* The events of an environment, read from the first, give what is deployed in it; none
\* rolls out anything after a freeze; all that is deployed was approved by somebody who did
\* not write it.
THEOREM DeploymentsExplained == ReleaseSpec => [](ReleaseTypeOK /\ EventsExplainDeployment)
BY ReleaseInitInv, ReleaseStepInv, ReleaseInvExplains, PTL DEF ReleaseSpec

-----------------------------------------------------------------------------
(***************************************************************************)
(* DigitalTwin, for any places and faults.                                 *)
(***************************************************************************)

PlaceValue == {Baseline[p] : p \in Place} \cup {FaultValue[f] : f \in Fault}
TwinState  == [Place -> PlaceValue]
EntryRecord == [sequence : 1 .. MaxVersion, kind : {"activate", "rollback"}, place : Place,
                value : PlaceValue, previous : PlaceValue, result : TwinState]
TwinRecord == [state : TwinState, version : 0 .. MaxVersion, generation : 1 .. MaxGeneration,
               journal : Seq(EntryRecord)]
SnapshotRecord == [generation : 1 .. MaxGeneration, version : 0 .. MaxVersion,
                   state : TwinState]

\* What the changes in a journal make of a place.
ChangesAt(journal, p) == {i \in 1 .. Len(journal) : journal[i].place = p}
Replay(journal, p) ==
  IF ChangesAt(journal, p) = {} THEN Baseline[p] ELSE journal[Max(ChangesAt(journal, p))].value

\* Along a journal the numbers of its changes grow, and each led to the state that was kept.
JournalGrows(journal) ==
  \A i \in 1 .. Len(journal) :
    /\ i <= journal[i].sequence /\ journal[i].sequence <= twin.version
    /\ past_states[journal[i].sequence + 1] = journal[i].result
    /\ \A j \in 1 .. i - 1 : journal[j].sequence < journal[i].sequence

SnapshotsShow ==
  /\ snapshots \subseteq SnapshotRecord /\ IsFiniteSet(snapshots)
  /\ Cardinality(snapshots) <= SnapshotLimit
  /\ \A s \in snapshots : /\ s.generation = twin.generation /\ s.version <= twin.version
                          /\ s.state = past_states[s.version + 1]

TwinInv ==
  /\ twin \in TwinRecord
  /\ known \in [Operator -> 0 .. MaxVersion]
  /\ past_states \in Seq(TwinState) /\ Len(past_states) = twin.version + 1
  /\ past_states[twin.version + 1] = twin.state
  /\ JournalGrows(twin.journal)
  /\ \A p \in Place : Replay(twin.journal, p) = twin.state[p]
  /\ twin.journal # <<>> =>
       /\ twin.version >= 1
       /\ [twin.state EXCEPT ![twin.journal[Len(twin.journal)].place]
             = twin.journal[Len(twin.journal)].previous] = past_states[twin.version]
  /\ SnapshotsShow

LEMMA PositiveTwin ==
  /\ SnapshotLimit \in Nat /\ MaxVersion \in Nat /\ MaxGeneration \in Nat /\ MaxGeneration >= 1
  /\ Baseline \in TwinState /\ \A f \in Fault : FaultValue[f] \in PlaceValue
BY TwinAssumption DEF TwinState, PlaceValue

\* The state of a twin before any change, alone in the history of its generation.
LEMMA BaselineIsExplained ==
  ASSUME NEW generation \in 1 .. MaxGeneration,
         twin = [state |-> Baseline, version |-> 0, generation |-> generation, journal |-> <<>>],
         past_states = <<Baseline>>, snapshots = {}, known \in [Operator -> 0 .. MaxVersion]
  PROVE  TwinInv
<1>1. 0 \in 0 .. MaxVersion
  BY PositiveTwin
<1>2. twin \in TwinRecord
  BY <1>1, PositiveTwin DEF TwinRecord
<1>3. /\ past_states \in Seq(TwinState) /\ Len(past_states) = 1
      /\ past_states[1] = Baseline
  BY PositiveTwin
<1>4. \A p \in Place : ChangesAt(<<>>, p) = {}
  BY DEF ChangesAt
<1>5. SnapshotsShow
  BY FS_EmptySet, PositiveTwin DEF SnapshotsShow
<1>6. twin.state = Baseline /\ twin.version = 0 /\ twin.journal = <<>>
  OBVIOUS
<1>7. JournalGrows(<<>>)
  BY DEF JournalGrows
<1> QED BY <1>2, <1>3, <1>4, <1>5, <1>6, <1>7 DEF TwinInv, Replay

LEMMA TwinInitInv == TwinInit => TwinInv
<1> SUFFICES ASSUME TwinInit PROVE TwinInv
  OBVIOUS
<1>1. 1 \in 1 .. MaxGeneration /\ 0 \in 0 .. MaxVersion
  BY PositiveTwin
<1>2. known \in [Operator -> 0 .. MaxVersion]
  BY <1>1 DEF TwinInit
<1> QED BY <1>1, <1>2, BaselineIsExplained DEF TwinInit

LEMMA TwinInvExplains == TwinInv => TwinTypeOK /\ JournalExplainsTwin
<1> SUFFICES ASSUME TwinInv PROVE TwinTypeOK /\ JournalExplainsTwin
  OBVIOUS
<1>1. PICK journal \in Seq(EntryRecord), version \in 0 .. MaxVersion, was \in TwinState :
        journal = twin.journal /\ version = twin.version /\ was = twin.state
  BY DEF TwinInv, TwinRecord
<1>2. DOMAIN journal = 1 .. Len(journal) /\ Len(journal) \in Nat /\ version \in Nat
  BY PositiveTwin
<1>3. JournalGrows(journal)
  BY <1>1 DEF TwinInv
<1>4. Len(journal) <= version
  <2>1. CASE Len(journal) = 0
    BY <1>2, <2>1
  <2>2. CASE Len(journal) # 0
    <3>1. Len(journal) \in 1 .. Len(journal) /\ journal[Len(journal)] \in EntryRecord
      BY <1>2, <2>2
    <3>2. journal[Len(journal)].sequence \in Nat
      BY <3>1, PositiveTwin DEF EntryRecord
    <3> QED BY <1>1, <1>2, <1>3, <3>1, <3>2 DEF JournalGrows
  <2> QED BY <2>1, <2>2
<1>5. TwinTypeOK
  BY <1>1, <1>4 DEF TwinInv, TwinTypeOK, TwinRecord, TwinState, SnapshotsShow
<1>6. Replayed = was
  <2>1. \A p \in Place : Replay(journal, p) = was[p]
    BY <1>1 DEF TwinInv
  <2>2. Replayed = [p \in Place |-> Replay(journal, p)]
    BY <1>1, <1>2, Zenon DEF Replayed, Replay, ChangesAt
  <2>3. was = [p \in Place |-> was[p]]
    BY DEF TwinState
  <2> QED BY <2>1, <2>2, <2>3, Zenon
<1>7. ASSUME NEW i \in 1 .. Len(journal)
      PROVE  /\ past_states[journal[i].sequence + 1] = journal[i].result
             /\ i > 1 => journal[i - 1].sequence < journal[i].sequence
  <2>1. i > 1 => i - 1 \in 1 .. i - 1
    BY <1>2
  <2> QED BY <1>3, <2>1 DEF JournalGrows
<1>8. journal # <<>> =>
        [was EXCEPT ![Last(journal).place] = Last(journal).previous] = past_states[version]
  BY <1>1 DEF TwinInv, Last
<1>9. \A s \in snapshots :
        s.generation = twin.generation /\ s.state = past_states[s.version + 1]
  BY DEF TwinInv, SnapshotsShow
<1> QED BY <1>1, <1>5, <1>6, <1>7, <1>8, <1>9 DEF JournalExplainsTwin

\* One change more: at its place it says what becomes of it, elsewhere the journal says it.
LEMMA ReplayOneMore ==
  ASSUME NEW base \in Seq(EntryRecord), NEW entry \in EntryRecord, NEW p \in Place
  PROVE  Replay(Append(base, entry), p) =
           IF p = entry.place THEN entry.value ELSE Replay(base, p)
<1> DEFINE n == Len(base)  more == Append(base, entry)
<1>1. /\ n \in Nat /\ more \in Seq(EntryRecord) /\ Len(more) = n + 1 /\ more[n + 1] = entry
      /\ \A i \in 1 .. n : more[i] = base[i]
  OBVIOUS
<1>2. /\ ChangesAt(base, p) \in SUBSET (1 .. n)
      /\ ChangesAt(more, p) \in SUBSET (1 .. n + 1)
  BY <1>1 DEF ChangesAt
<1> HIDE DEF n, more
<1>3. CASE p = entry.place
  <2>1. n + 1 \in ChangesAt(more, p) /\ \A i \in ChangesAt(more, p) : i <= n + 1
    BY <1>1, <1>2, <1>3 DEF ChangesAt
  <2>2. n + 1 \in Nat
    BY <1>1
  <2>3. Max(ChangesAt(more, p)) = n + 1
    BY <1>2, <2>1, <2>2, MaxIs
  <2> QED BY <1>1, <1>3, <2>1, <2>3 DEF Replay, more
<1>4. CASE p # entry.place
  <2>1. ChangesAt(more, p) = ChangesAt(base, p)
    BY <1>1, <1>4 DEF ChangesAt, n
  <2>2. CASE ChangesAt(base, p) = {}
    BY <1>4, <2>1, <2>2 DEF Replay, more
  <2>3. CASE ChangesAt(base, p) # {}
    <3>1. Max(ChangesAt(base, p)) \in 1 .. n
      BY <1>1, <1>2, <2>3, MaxOf
    <3> QED BY <1>1, <1>4, <2>1, <2>3, <3>1 DEF Replay, more
  <2> QED BY <2>2, <2>3
<1> QED BY <1>3, <1>4

\* A change keeps a journal that grows as it should, and says what the twin is after it.
LEMMA ChangeIsExplained ==
  ASSUME TwinInv, NEW base \in Seq(EntryRecord), NEW place \in Place,
         NEW value \in PlaceValue, NEW kind \in {"activate", "rollback"},
         JournalGrows(base), \A q \in Place : q # place => Replay(base, q) = twin.state[q],
         Changed(base, place, value, kind), known' = known,
         \/ snapshots' = snapshots
         \/ snapshots' = snapshots \cup {Snapshot} /\ Cardinality(snapshots) < SnapshotLimit
  PROVE  TwinInv'
<1> DEFINE after == [twin.state EXCEPT ![place] = value]
           made  == [sequence |-> twin.version + 1, kind |-> kind, place |-> place,
                     value |-> value, previous |-> twin.state[place], result |-> after]
<1>1. /\ twin.version \in 0 .. MaxVersion /\ twin.version < MaxVersion
      /\ twin.version + 1 \in 1 .. MaxVersion /\ twin.version + 1 \in 0 .. MaxVersion
  BY PositiveTwin DEF Changed, TwinInv, TwinRecord
<1>2. after \in TwinState /\ twin.state \in TwinState /\ twin.state[place] \in PlaceValue
  BY DEF TwinInv, TwinRecord, TwinState
<1>3. made \in EntryRecord
  BY <1>1, <1>2 DEF EntryRecord
<1>4. PICK entry \in EntryRecord : entry = made
  BY <1>3
<1>5. PICK version \in 0 .. MaxVersion, was \in TwinState, changed \in TwinState :
        version = twin.version /\ was = twin.state /\ changed = after
  BY <1>1, <1>2
<1>6. /\ entry.sequence = version + 1 /\ entry.place = place /\ entry.value = value
      /\ entry.previous = was[place] /\ entry.result = changed
  BY <1>4, <1>5
<1>7. changed = [was EXCEPT ![place] = value]
  BY <1>5
<1>8. /\ twin' = [twin EXCEPT !.state = changed, !.version = version + 1,
                              !.journal = Append(base, entry)]
      /\ past_states' = Append(past_states, changed)
  BY <1>4, <1>5 DEF Changed, PreviousValue
<1> HIDE DEF after, made
<1>9. PICK old \in Seq(TwinState) : old = past_states
  BY DEF TwinInv
<1>10. Len(old) = version + 1 /\ version \in Nat /\ old[version + 1] = was
  BY <1>5, <1>9, PositiveTwin DEF TwinInv
<1>11. /\ past_states' \in Seq(TwinState) /\ Len(past_states') = version + 2
       /\ past_states'[version + 2] = changed /\ past_states'[version + 1] = was
       /\ \A i \in 1 .. version + 1 : past_states'[i] = old[i]
  BY <1>8, <1>9, <1>10
<1>12. PICK longer \in Seq(EntryRecord) : longer = Append(base, entry)
  <2>1. Append(base, entry) \in Seq(EntryRecord)
    OBVIOUS
  <2> QED BY <2>1
<1>13. /\ Len(longer) = Len(base) + 1 /\ longer[Len(longer)] = entry
       /\ \A i \in 1 .. Len(base) : longer[i] = base[i]
       /\ Len(base) \in Nat /\ longer # <<>>
  BY <1>12
<1>14. twin' \in TwinRecord
  BY <1>1, <1>5, <1>8, <1>12 DEF TwinInv, TwinRecord
<1>15. twin'.state = changed /\ twin'.version = version + 1 /\ twin'.journal = longer
       /\ twin'.generation = twin.generation
  BY <1>8, <1>12 DEF TwinInv, TwinRecord
<1>16. JournalGrows(base)
  OBVIOUS
<1>17. \A i \in 1 .. Len(base) :
         /\ i <= base[i].sequence /\ base[i].sequence <= version
         /\ base[i].sequence \in 1 .. MaxVersion
         /\ old[base[i].sequence + 1] = base[i].result
  <2> TAKE i \in 1 .. Len(base)
  <2>1. base[i] \in EntryRecord
    BY <1>13
  <2>2. base[i].sequence \in 1 .. MaxVersion
    BY <2>1 DEF EntryRecord
  <2> QED BY <1>5, <1>9, <1>16, <2>2 DEF JournalGrows
<1>18. JournalGrows(longer)'
  <2> SUFFICES ASSUME NEW i \in 1 .. Len(longer)
               PROVE  /\ i <= longer[i].sequence /\ longer[i].sequence <= twin'.version
                      /\ past_states'[longer[i].sequence + 1] = longer[i].result
                      /\ \A j \in 1 .. i - 1 : longer[j].sequence < longer[i].sequence
    BY DEF JournalGrows
  <2>1. CASE i \in 1 .. Len(base)
    <3>1. longer[i] = base[i]
      BY <1>13, <2>1
    <3>2. base[i].sequence + 1 \in 1 .. version + 1
      BY <1>10, <1>17, <2>1, PositiveTwin
    <3>3. \A j \in 1 .. i - 1 : longer[j] = base[j]
      BY <1>13, <2>1
    <3>4. base[i].sequence <= version + 1
      BY <1>10, <1>17, <2>1, PositiveTwin
    <3>5. \A j \in 1 .. i - 1 : base[j].sequence < base[i].sequence
      BY <1>16, <2>1 DEF JournalGrows
    <3> QED BY <1>11, <1>15, <1>17, <2>1, <3>1, <3>2, <3>3, <3>4, <3>5
  <2>2. CASE i = Len(base) + 1
    <3>1. longer[i] = entry
      BY <1>13, <2>2
    <3>2. \A j \in 1 .. i - 1 : longer[j].sequence < version + 1
      BY <1>10, <1>13, <1>17, <2>2, PositiveTwin
    <3>3. i <= version + 1
      <4>1. CASE Len(base) = 0
        BY <1>10, <2>2, <4>1
      <4>2. CASE Len(base) # 0
        <5>1. Len(base) \in 1 .. Len(base)
          BY <1>13, <4>2
        <5> QED BY <1>10, <1>13, <1>17, <2>2, <5>1, PositiveTwin
      <4> QED BY <4>1, <4>2
    <3>4. version + 1 + 1 = version + 2
      BY <1>10
    <3> QED BY <1>6, <1>10, <1>11, <1>15, <3>1, <3>2, <3>3, <3>4
  <2> QED BY <1>13, <2>1, <2>2
<1>19. \A p \in Place : Replay(longer, p) = changed[p]
  <2> TAKE p \in Place
  <2>1. Replay(longer, p) = IF p = place THEN value ELSE Replay(base, p)
    BY <1>6, <1>12, ReplayOneMore
  <2>2. changed[p] = IF p = place THEN value ELSE was[p]
    BY <1>7 DEF TwinState
  <2>3. p # place => Replay(base, p) = was[p]
    BY <1>5
  <2> QED BY <2>1, <2>2, <2>3
<1>20. [changed EXCEPT ![entry.place] = entry.previous] = was
  BY <1>6, <1>7 DEF TwinState
<1>21. SnapshotsShow'
  <2>1. Snapshot \in SnapshotRecord /\ Snapshot.generation = twin.generation
        /\ Snapshot.version = version /\ Snapshot.state = was
    BY <1>5 DEF Snapshot, SnapshotRecord, TwinInv, TwinRecord
  <2>2. \A s \in snapshots' : s = Snapshot \/ s \in snapshots
    OBVIOUS
  <2>3. /\ snapshots' \subseteq SnapshotRecord /\ IsFiniteSet(snapshots')
        /\ Cardinality(snapshots') <= SnapshotLimit
    <3>1. snapshots \subseteq SnapshotRecord /\ IsFiniteSet(snapshots)
          /\ Cardinality(snapshots) <= SnapshotLimit /\ Cardinality(snapshots) \in Nat
      BY FS_CardinalityType DEF TwinInv, SnapshotsShow
    <3>2. IsFiniteSet(snapshots \cup {Snapshot})
          /\ Cardinality(snapshots \cup {Snapshot}) <= Cardinality(snapshots) + 1
      <4> DEFINE all == snapshots \cup {Snapshot}
      <4>1. /\ IsFiniteSet(all)
            /\ Cardinality(all) = Cardinality(snapshots)
               \/ Cardinality(all) = Cardinality(snapshots) + 1
        BY <3>1, FS_AddElement, Zenon
      <4> QED BY <3>1, <4>1
    <3>3. Cardinality(snapshots \cup {Snapshot}) \in Nat
      BY <3>2, FS_CardinalityType
    <3>4. Snapshot \in SnapshotRecord
      BY <2>1
    <3>5. CASE snapshots' = snapshots
      BY <3>1, <3>5, Zenon
    <3>6. CASE snapshots' = snapshots \cup {Snapshot} /\ Cardinality(snapshots) < SnapshotLimit
      <4>1. Cardinality(snapshots \cup {Snapshot}) <= SnapshotLimit
        BY <3>1, <3>2, <3>3, <3>6, PositiveTwin
      <4>2. snapshots \cup {Snapshot} \subseteq SnapshotRecord
        BY <3>1, <3>4
      <4> QED BY <3>2, <3>6, <4>1, <4>2, Zenon
    <3> QED BY <3>5, <3>6
  <2>4. \A s \in snapshots : s.version <= version /\ s.version \in Nat
                             /\ s.generation = twin.generation
                             /\ s.state = old[s.version + 1]
    BY <1>5, <1>9, PositiveTwin DEF TwinInv, SnapshotsShow, SnapshotRecord
  <2>5. \A s \in snapshots' :
          /\ s.generation = twin.generation /\ s.version <= version + 1
          /\ s.state = past_states'[s.version + 1]
    <3> TAKE s \in snapshots'
    <3>1. CASE s = Snapshot
      BY <1>10, <1>11, <2>1, <3>1
    <3>2. CASE s \in snapshots
      <4>1. s.version + 1 \in 1 .. version + 1 /\ s.version <= version + 1
        BY <1>10, <2>4, <3>2
      <4> QED BY <1>11, <2>4, <3>2, <4>1
    <3> QED BY <2>2, <3>1, <3>2
  <2> QED BY <1>15, <2>3, <2>5 DEF SnapshotsShow
<1>22. known' \in [Operator -> 0 .. MaxVersion]
  BY DEF TwinInv
<1>23. twin'.version >= 1 /\ twin'.version + 1 = version + 2
  BY <1>10, <1>15
<1>24. past_states'[twin'.version] = was /\ past_states'[twin'.version + 1] = twin'.state
  BY <1>11, <1>15, <1>23
<1>25. (\A p \in Place : Replay(twin.journal, p) = twin.state[p])'
  BY <1>15, <1>19 DEF Replay, ChangesAt
<1>26. JournalGrows(twin.journal)'
  BY <1>15, <1>18 DEF JournalGrows
<1>27. [twin'.state EXCEPT ![twin'.journal[Len(twin'.journal)].place]
          = twin'.journal[Len(twin'.journal)].previous] = past_states'[twin'.version]
  BY <1>13, <1>15, <1>20, <1>24
<1> QED BY <1>11, <1>14, <1>15, <1>21, <1>22, <1>23, <1>24, <1>25, <1>26, <1>27 DEF TwinInv

\* A shorter journal grows as well.
LEMMA FrontOfJournal ==
  ASSUME TwinInv, twin.journal # <<>>
  PROVE  /\ Front(twin.journal) \in Seq(EntryRecord)
         /\ Last(twin.journal) \in EntryRecord
         /\ Last(twin.journal) = twin.journal[Len(twin.journal)]
         /\ twin.journal = Append(Front(twin.journal), Last(twin.journal))
         /\ JournalGrows(Front(twin.journal))
<1>1. PICK journal \in Seq(EntryRecord) : journal = twin.journal
  BY DEF TwinInv, TwinRecord
<1>2. /\ journal # <<>> /\ Len(journal) \in Nat /\ Len(journal) > 0
      /\ Last(journal) = journal[Len(journal)] /\ Last(journal) \in EntryRecord
  BY <1>1 DEF Last
<1>3. PICK front \in Seq(EntryRecord) :
        /\ front = Front(journal) /\ Len(front) = Len(journal) - 1
        /\ \A i \in 1 .. Len(front) : front[i] = journal[i]
  <2>1. Front(journal) \in Seq(EntryRecord)
    BY <1>2 DEF Front
  <2>2. Len(Front(journal)) = Len(journal) - 1
        /\ \A i \in 1 .. Len(journal) - 1 : Front(journal)[i] = journal[i]
    BY <1>2 DEF Front
  <2> QED BY <2>1, <2>2
<1>4. Append(front, Last(journal)) = journal
  <2>1. PICK again \in Seq(EntryRecord) : again = Append(front, Last(journal))
    <3>1. Append(front, Last(journal)) \in Seq(EntryRecord)
      BY <1>2
    <3> QED BY <3>1
  <2>2. Len(again) = Len(journal) /\ \A i \in 1 .. Len(journal) : again[i] = journal[i]
    BY <1>2, <1>3, <2>1
  <2> QED BY <2>1, <2>2
<1>5. JournalGrows(journal)
  BY <1>1 DEF TwinInv
<1>6. JournalGrows(front)
  <2> SUFFICES ASSUME NEW i \in 1 .. Len(front)
               PROVE  /\ i <= front[i].sequence /\ front[i].sequence <= twin.version
                      /\ past_states[front[i].sequence + 1] = front[i].result
                      /\ \A j \in 1 .. i - 1 : front[j].sequence < front[i].sequence
    BY DEF JournalGrows
  <2>1. i \in 1 .. Len(journal) /\ \A j \in 1 .. i - 1 : j \in 1 .. Len(front)
    BY <1>2, <1>3
  <2>2. front[i] = journal[i] /\ \A j \in 1 .. i - 1 : front[j] = journal[j]
    BY <1>3, <2>1
  <2> QED BY <1>5, <2>1, <2>2 DEF JournalGrows
<1> QED BY <1>1, <1>2, <1>3, <1>4, <1>6

LEMMA TwinStepInv == TwinInv /\ [TwinNext]_twinVars => TwinInv'
<1> SUFFICES ASSUME TwinInv, [TwinNext]_twinVars PROVE TwinInv'
  OBVIOUS
<1>1. CASE Capture
  <2>1. /\ UNCHANGED <<twin, known, past_states>> /\ snapshots' = snapshots \cup {Snapshot}
        /\ Cardinality(snapshots) < SnapshotLimit
    BY <1>1 DEF Capture
  <2>2. Snapshot \in SnapshotRecord /\ Snapshot.generation = twin.generation
        /\ Snapshot.version = twin.version /\ Snapshot.state = past_states[twin.version + 1]
        /\ twin.version \in Nat
    BY PositiveTwin DEF Snapshot, SnapshotRecord, TwinInv, TwinRecord
  <2>3. /\ snapshots \subseteq SnapshotRecord /\ IsFiniteSet(snapshots)
        /\ Cardinality(snapshots) \in Nat
    BY FS_CardinalityType DEF TwinInv, SnapshotsShow
  <2>4. /\ IsFiniteSet(snapshots \cup {Snapshot})
        /\ Cardinality(snapshots \cup {Snapshot}) = Cardinality(snapshots)
           \/ Cardinality(snapshots \cup {Snapshot}) = Cardinality(snapshots) + 1
    BY <2>3, FS_AddElement, Zenon
  <2>5. Cardinality(snapshots \cup {Snapshot}) <= SnapshotLimit
    BY <2>1, <2>3, <2>4, PositiveTwin
  <2>6. \A s \in snapshots' : /\ s.generation = twin.generation /\ s.version <= twin.version
                              /\ s.state = past_states[s.version + 1]
    BY <2>1, <2>2 DEF TwinInv, SnapshotsShow
  <2>7. snapshots' \subseteq SnapshotRecord
    BY <2>1, <2>2, <2>3
  <2>8. SnapshotsShow'
    BY <2>1, <2>4, <2>5, <2>6, <2>7 DEF SnapshotsShow
  <2> QED BY <2>1, <2>8 DEF TwinInv, JournalGrows, Replay, ChangesAt
<1>2. CASE Reset
  <2>1. /\ twin' = [state |-> Baseline, version |-> 0, generation |-> twin.generation + 1,
                    journal |-> <<>>]
        /\ past_states' = <<Baseline>> /\ snapshots' = {} /\ UNCHANGED known
        /\ twin.generation < MaxGeneration
    BY <1>2 DEF Reset, ClearedJournal
  <2>2. twin.generation + 1 \in 1 .. MaxGeneration
    BY <2>1, PositiveTwin DEF TwinInv, TwinRecord
  <2>3. PICK generation \in 1 .. MaxGeneration : generation = twin.generation + 1
    BY <2>2
  <2>4. 0 \in 0 .. MaxVersion /\ known' \in [Operator -> 0 .. MaxVersion]
    BY <2>1, PositiveTwin DEF TwinInv
  <2>5. /\ twin'.state = Baseline /\ twin'.version = 0 /\ twin'.journal = <<>>
        /\ twin' \in TwinRecord
    <3>1. <<>> \in Seq(EntryRecord) /\ Baseline \in TwinState
      BY PositiveTwin
    <3> QED BY <2>1, <2>3, <2>4, <3>1 DEF TwinRecord
  <2>6. /\ past_states' \in Seq(TwinState) /\ Len(past_states') = 1
        /\ past_states'[1] = Baseline
    <3>1. <<Baseline>> \in Seq(TwinState) /\ Len(<<Baseline>>) = 1 /\ <<Baseline>>[1] = Baseline
      BY PositiveTwin
    <3> QED BY <2>1, <3>1
  <2>7. SnapshotsShow'
    BY <2>1, FS_EmptySet, PositiveTwin DEF SnapshotsShow
  <2>8. JournalGrows(twin.journal)'
    BY <2>5 DEF JournalGrows
  <2>9. \A p \in Place : Replay(twin'.journal, p) = Baseline[p]
    BY <2>5 DEF Replay, ChangesAt
  <2>10. (\A p \in Place : Replay(twin.journal, p) = twin.state[p])'
    BY <2>5, <2>9 DEF Replay, ChangesAt
  <2> QED BY <2>4, <2>5, <2>6, <2>7, <2>8, <2>10 DEF TwinInv
<1>3. ASSUME NEW o \in Operator, Reads(o) PROVE TwinInv'
  <2>1. /\ known' = [known EXCEPT ![o] = twin.version]
        /\ UNCHANGED <<twin, snapshots, past_states>>
    BY <1>3 DEF Reads
  <2>2. known' \in [Operator -> 0 .. MaxVersion]
    BY <2>1 DEF TwinInv, TwinRecord
  <2> QED BY <2>1, <2>2, ZenonT(40) DEF TwinInv, JournalGrows, Replay, ChangesAt, SnapshotsShow
<1>4. ASSUME NEW o \in Operator, RollBack(o) PROVE TwinInv'
  <2>1. PICK front \in Seq(EntryRecord), last \in EntryRecord :
          /\ front = Front(twin.journal) /\ last = Last(twin.journal)
          /\ last = twin.journal[Len(twin.journal)]
          /\ twin.journal = Append(front, last) /\ JournalGrows(front)
    BY <1>4, FrontOfJournal DEF RollBack
  <2>2. Changed(front, last.place, last.previous, "rollback")
    BY <1>4, <2>1 DEF RollBack
  <2>3. \A q \in Place : q # last.place => Replay(front, q) = twin.state[q]
    <3>1. \A q \in Place : Replay(Append(front, last), q) = twin.state[q]
      BY <2>1 DEF TwinInv
    <3> QED BY <3>1, ReplayOneMore
  <2>4. last.place \in Place /\ last.previous \in PlaceValue
    BY DEF EntryRecord
  <2>5. known' = known /\ snapshots' = snapshots
    BY <1>4 DEF RollBack
  <2>6. PICK place \in Place, value \in PlaceValue :
          place = last.place /\ value = last.previous
    BY <2>4
  <2> QED BY <2>1, <2>2, <2>3, <2>5, <2>6, ChangeIsExplained
<1>5. ASSUME NEW o \in Operator, NEW f \in Fault, Activate(o, f) PROVE TwinInv'
  <2>1. /\ Changed(twin.journal, PlaceOf[f], FaultValue[f], "activate") /\ known' = known
        /\ snapshots' = snapshots \cup {Snapshot} /\ Cardinality(snapshots) < SnapshotLimit
    BY <1>5 DEF Activate
  <2>2. PlaceOf[f] \in Place /\ FaultValue[f] \in PlaceValue
    BY PositiveTwin, TwinAssumption
  <2>3. PICK journal \in Seq(EntryRecord) : journal = twin.journal
    BY DEF TwinInv, TwinRecord
  <2>4. /\ JournalGrows(journal) /\ Changed(journal, PlaceOf[f], FaultValue[f], "activate")
        /\ \A q \in Place : q # PlaceOf[f] => Replay(journal, q) = twin.state[q]
    BY <2>1, <2>3 DEF TwinInv
  <2> QED BY <2>1, <2>2, <2>4, ChangeIsExplained
<1>6. CASE UNCHANGED twinVars
  BY <1>6 DEF twinVars, TwinInv, JournalGrows, Replay, ChangesAt, SnapshotsShow
<1> QED BY <1>1, <1>2, <1>3, <1>4, <1>5, <1>6 DEF TwinNext

\* The twin's journal, out of which a rollback takes the change it undoes, gives the twin's
\* state when replayed from the baseline, and the snapshots show states it had.
THEOREM TwinIsExplained == TwinSpec => [](TwinTypeOK /\ JournalExplainsTwin)
<1>1. TwinSpec => []TwinInv
  BY TwinInitInv, TwinStepInv, PTL DEF TwinSpec
<1> QED BY <1>1, TwinInvExplains, PTL

-----------------------------------------------------------------------------
(***************************************************************************)
(* StateChannels, for any records and nodes; first, what is known of the   *)
(* first members of an ordered finite set.                                 *)
(***************************************************************************)

\* A strict total order on the members of a set, those that come before one of them, and
\* the first ones.
Ordered(S, Order) ==
  /\ \A r \in S : <<r, r>> \notin Order
  /\ \A r, s \in S : r # s => <<r, s>> \in Order \/ <<s, r>> \in Order
  /\ \A r, s, t \in S : <<r, s>> \in Order /\ <<s, t>> \in Order => <<r, t>> \in Order
Before(S, Order, r) == {s \in S : <<s, r>> \in Order}
First(S, Order, k) == {r \in S : Cardinality(Before(S, Order, r)) < k}

LEMMA BeforeCounted ==
  ASSUME NEW S, IsFiniteSet(S), NEW Order, NEW r
  PROVE  /\ IsFiniteSet(Before(S, Order, r)) /\ Cardinality(Before(S, Order, r)) \in Nat
         /\ IsFiniteSet(S) /\ Cardinality(S) \in Nat
<1>1. Before(S, Order, r) \subseteq S
  BY DEF Before
<1> QED BY <1>1, FS_Subset, FS_CardinalityType

\* What comes later has more before it.
LEMMA LaterHasMore ==
  ASSUME NEW S, IsFiniteSet(S), NEW Order, Ordered(S, Order),
         NEW r \in S, NEW s \in S, <<s, r>> \in Order
  PROVE  Cardinality(Before(S, Order, s)) < Cardinality(Before(S, Order, r))
<1> DEFINE bs == Before(S, Order, s)  br == Before(S, Order, r)
<1>1. bs \subseteq br
  BY DEF Ordered, Before
<1>2. s \in br /\ s \notin bs
  BY DEF Ordered, Before
<1>3. IsFiniteSet(br) /\ Cardinality(br) \in Nat /\ IsFiniteSet(bs) /\ Cardinality(bs) \in Nat
  BY BeforeCounted
<1> HIDE DEF bs, br
<1>4. Cardinality(bs) <= Cardinality(br) /\ (Cardinality(br) = Cardinality(bs) => br = bs)
  BY <1>1, <1>3, FS_Subset
<1>5. br # bs
  BY <1>2
<1>6. Cardinality(bs) < Cardinality(br)
  BY <1>3, <1>4, <1>5
<1> QED BY <1>6 DEF bs, br

\* Of a finite set there are as many first ones as were asked for, or all.
LEMMA FirstCounted ==
  ASSUME NEW S, IsFiniteSet(S), NEW Order, Ordered(S, Order), NEW k \in Nat
  PROVE  /\ First(S, Order, k) \subseteq S /\ IsFiniteSet(First(S, Order, k))
         /\ Cardinality(First(S, Order, k)) = IF k < Cardinality(S) THEN k ELSE Cardinality(S)
<1> DEFINE n == Cardinality(S)  rank == [r \in S |-> Cardinality(Before(S, Order, r))]
<1>1. n \in Nat /\ \A r \in S : rank[r] \in Nat
  BY BeforeCounted, FS_CardinalityType
<1>2. \A r \in S : rank[r] < n
  <2> TAKE r \in S
  <2>1. Before(S, Order, r) \subseteq S /\ r \notin Before(S, Order, r)
    BY DEF Before, Ordered
  <2>2. Cardinality(Before(S, Order, r)) <= n /\ Cardinality(Before(S, Order, r)) # n
    BY <2>1, FS_Subset
  <2> QED BY <1>1, <2>2
<1>3. rank \in [S -> 0 .. n - 1]
  BY <1>1, <1>2
<1>4. \A r, s \in S : rank[r] = rank[s] => r = s
  <2> SUFFICES ASSUME NEW r \in S, NEW s \in S, r # s PROVE rank[r] # rank[s]
    OBVIOUS
  <2>1. <<r, s>> \in Order \/ <<s, r>> \in Order
    BY DEF Ordered
  <2>2. rank[r] < rank[s] \/ rank[s] < rank[r]
    BY <2>1, LaterHasMore
  <2> QED BY <1>1, <2>2
<1> HIDE DEF n, rank
<1>5. rank \in Injection(S, 0 .. n - 1)
  BY <1>3, <1>4 DEF Injection, IsInjective
<1>6. IsFiniteSet(0 .. n - 1) /\ Cardinality(0 .. n - 1) = n
  BY <1>1, FS_Interval
<1>7. rank \in Surjection(S, 0 .. n - 1)
  BY <1>5, <1>6, FS_Injection DEF n
<1> DEFINE first == First(S, Order, k)  some == IF k < n THEN k ELSE n
           place == [r \in first |-> rank[r]]
<1>8. first \subseteq S /\ \A r \in S : r \in first <=> rank[r] < k
  BY DEF First, rank
<1>9. some \in Nat /\ some <= n /\ some <= k
  BY <1>1
<1>10. \A r \in first : rank[r] \in 0 .. some - 1
  BY <1>1, <1>2, <1>8
<1>11. \A m \in 0 .. some - 1 : \E r \in first : rank[r] = m
  BY <1>1, <1>7, <1>8, <1>9 DEF Surjection
<1> HIDE DEF first, some
<1>12. place \in [first -> 0 .. some - 1] /\ \A r \in first : place[r] = rank[r]
  BY <1>10
<1> HIDE DEF place
<1>13. \A r, s \in first : place[r] = place[s] => r = s
  BY <1>4, <1>8, <1>12
<1>14. \A m \in 0 .. some - 1 : \E r \in first : place[r] = m
  BY <1>11, <1>12
<1>15. place \in Injection(first, 0 .. some - 1)
  BY <1>12, <1>13 DEF Injection, IsInjective
<1>16. place \in Surjection(first, 0 .. some - 1)
  BY <1>12, <1>14 DEF Surjection
<1>17. IsFiniteSet(0 .. some - 1) /\ Cardinality(0 .. some - 1) = some
  BY <1>9, FS_Interval
<1>18. Cardinality(first) = some /\ IsFiniteSet(first)
  BY <1>15, <1>16, <1>17, FS_Injection
<1> QED BY <1>8, <1>18 DEF first, some, n

\* Before one that is not among the first, all of them come, and none is missing.
LEMMA FirstComeBefore ==
  ASSUME NEW S, IsFiniteSet(S), NEW Order, Ordered(S, Order), NEW k \in Nat,
         NEW r \in S, r \notin First(S, Order, k)
  PROVE  /\ First(S, Order, k) \subseteq Before(S, Order, r)
         /\ Cardinality(First(S, Order, k)) = k
<1>1. Cardinality(Before(S, Order, r)) >= k /\ Cardinality(Before(S, Order, r)) \in Nat
  BY BeforeCounted DEF First
<1>2. ASSUME NEW s \in First(S, Order, k) PROVE <<s, r>> \in Order
  <2>1. s \in S /\ Cardinality(Before(S, Order, s)) < k
        /\ Cardinality(Before(S, Order, s)) \in Nat
    BY BeforeCounted DEF First
  <2>2. s # r
    BY <1>1, <2>1
  <2>3. ASSUME <<r, s>> \in Order PROVE FALSE
    BY <1>1, <2>1, <2>3, LaterHasMore
  <2> QED BY <2>1, <2>2, <2>3 DEF Ordered
<1>3. First(S, Order, k) \subseteq Before(S, Order, r)
  BY <1>2 DEF Before, First
<1>4. Cardinality(Before(S, Order, r)) <= Cardinality(S) /\ Cardinality(S) \in Nat
  BY FS_Subset, BeforeCounted DEF Before
<1>5. ~(k < Cardinality(S)) => Cardinality(S) = k
  BY <1>1, <1>4
<1> QED BY <1>3, <1>5, FirstCounted

\* What is among the first of more is among the first of less.
LEMMA FirstOfLess ==
  ASSUME NEW T, NEW A, IsFiniteSet(T), A \subseteq T, NEW Order, NEW k \in Nat,
         NEW r, r \in A, r \in First(T, Order, k)
  PROVE  r \in First(A, Order, k)
<1>1. Before(A, Order, r) \subseteq Before(T, Order, r) /\ IsFiniteSet(A)
  BY FS_Subset DEF Before
<1>2. /\ Cardinality(Before(A, Order, r)) \in Nat /\ Cardinality(Before(T, Order, r)) \in Nat
      /\ Cardinality(Before(A, Order, r)) <= Cardinality(Before(T, Order, r))
  BY <1>1, BeforeCounted, FS_Subset
<1>3. Cardinality(Before(T, Order, r)) < k
  BY DEF First
<1> QED BY <1>2, <1>3 DEF First

\* Leaving out early what is not among the first changes nothing.
LEMMA FirstOfFirst ==
  ASSUME NEW A, NEW B, IsFiniteSet(A), IsFiniteSet(B), NEW Order, Ordered(A \cup B, Order),
         NEW k \in Nat
  PROVE  First(First(A, Order, k) \cup B, Order, k) = First(A \cup B, Order, k)
<1> DEFINE C == First(A, Order, k)
<1>1. Ordered(A, Order) /\ C \subseteq A
  BY DEF Ordered, First
<1>2. IsFiniteSet(C) /\ IsFiniteSet(A \cup B) /\ IsFiniteSet(C \cup B)
  BY <1>1, FS_Subset, FS_Union
<1> HIDE DEF C
<1>3. First(A \cup B, Order, k) \subseteq First(C \cup B, Order, k)
  <2> SUFFICES ASSUME NEW r \in First(A \cup B, Order, k) PROVE r \in First(C \cup B, Order, k)
    OBVIOUS
  <2>1. PICK both, less : both = A \cup B /\ less = C \cup B
    OBVIOUS
  <2>2. r \in both /\ r \in First(both, Order, k)
    BY <2>1 DEF First
  <2>3. IsFiniteSet(both) /\ A \subseteq both /\ less \subseteq both
    BY <1>1, <1>2, <2>1
  <2>4. r \in A => r \in First(A, Order, k)
    BY <2>2, <2>3, FirstOfLess, Zenon
  <2>5. r \in less
    BY <2>1, <2>2, <2>4 DEF C
  <2>6. r \in First(less, Order, k)
    BY <2>2, <2>3, <2>5, FirstOfLess, Zenon
  <2> QED BY <2>1, <2>6
<1>4. \A r : Cardinality(Before(C \cup B, Order, r)) \in Nat
  BY <1>2, BeforeCounted
<1>5. ASSUME NEW r \in First(C \cup B, Order, k) PROVE r \in First(A \cup B, Order, k)
  <2>1. r \in C \cup B /\ r \in A \cup B /\ Cardinality(Before(C \cup B, Order, r)) < k
    BY <1>1 DEF First
  <2>2. CASE Before(A \cup B, Order, r) \subseteq C \cup B
    <3>1. Before(A \cup B, Order, r) = Before(C \cup B, Order, r)
      BY <1>1, <2>2 DEF Before
    <3> QED BY <2>1, <3>1 DEF First
  <2>3. CASE ~(Before(A \cup B, Order, r) \subseteq C \cup B)
    <3>1. PICK x \in A : x \notin C /\ <<x, r>> \in Order
      BY <2>3 DEF Before
    <3>2. C \subseteq Before(A, Order, x) /\ Cardinality(C) = k
      BY <1>1, <3>1, FirstComeBefore DEF C
    <3>3. C \subseteq Before(C \cup B, Order, r)
      BY <1>1, <2>1, <3>1, <3>2 DEF Before, Ordered
    <3>4. IsFiniteSet(Before(C \cup B, Order, r))
      BY <1>2, BeforeCounted
    <3>5. k <= Cardinality(Before(C \cup B, Order, r))
      BY <3>2, <3>3, <3>4, FS_Subset
    <3> QED BY <1>4, <2>1, <3>5
  <2> QED BY <2>2, <2>3
<1> QED BY <1>3, <1>5 DEF C

Ids(items) == {r.id : r \in items}
Agree(items) == \A r, s \in items : r.id = s.id => r.place = s.place
LaterOrder == {pair \in Item \X Item : Later(pair[1], pair[2])}

LEMMA ItemFields ==
  /\ \A r \in Item : r.id \in Nat /\ r.place \in Nat /\ r.canonical \in Nat
  /\ \A r, s \in Item : r.canonical = s.canonical => r = s
  /\ Limit \in Nat /\ Limit > 0
  /\ \A items \in SUBSET Item : IsFiniteSet(items)
BY ChannelAssumption, FS_Subset

\* Of every record there is one version, the greatest.
LEMMA MergedIsGreatest ==
  ASSUME NEW items \in SUBSET Item
  PROVE  /\ Merged(items) \subseteq items
         /\ \A r, s \in Merged(items) : r.id = s.id => r = s
         /\ \A r \in items : \E g \in Merged(items) : g.id = r.id /\ r.canonical <= g.canonical
<1>1. Merged(items) \subseteq items
  BY DEF Merged
<1>2. ASSUME NEW r \in Merged(items), NEW s \in Merged(items), r.id = s.id PROVE r = s
  <2>1. r.canonical <= s.canonical /\ s.canonical <= r.canonical
    BY <1>2 DEF Merged
  <2>2. r \in Item /\ s \in Item
    BY <1>1
  <2> QED BY <2>1, <2>2, ItemFields
<1>3. ASSUME NEW r \in items
      PROVE  \E g \in Merged(items) : g.id = r.id /\ r.canonical <= g.canonical
  <2> DEFINE versions == {s \in items : s.id = r.id}
             Order == {pair \in Item \X Item : pair[1].canonical > pair[2].canonical}
             greatest == First(versions, Order, 1)
  <2>1. versions \subseteq Item /\ IsFiniteSet(versions) /\ r \in versions
    BY ItemFields
  <2>2. \A s, t \in versions : <<s, t>> \in Order <=> s.canonical > t.canonical
    BY <2>1
  <2> HIDE DEF Order
  <2>3. Ordered(versions, Order)
    BY <2>1, <2>2, ItemFields DEF Ordered
  <2>4. Cardinality(versions) \in Nat /\ Cardinality(versions) # 0
    BY <2>1, FS_EmptySet, FS_CardinalityType
  <2>5. Cardinality(greatest) # 0 /\ greatest \subseteq versions
    <3> HIDE DEF versions
    <3>1. /\ Cardinality(greatest) = IF 1 < Cardinality(versions) THEN 1 ELSE Cardinality(versions)
          /\ greatest \subseteq versions
      BY <2>1, <2>3, FirstCounted
    <3> QED BY <2>4, <3>1
  <2>6. PICK g \in versions : g \in greatest
    BY <2>5, FS_EmptySet
  <2>7. Cardinality(Before(versions, Order, g)) = 0 /\ IsFiniteSet(Before(versions, Order, g))
    BY <2>1, <2>6, BeforeCounted DEF First
  <2>8. Before(versions, Order, g) = {}
    BY <2>7, FS_EmptySet
  <2>9. \A s \in versions : s.canonical <= g.canonical
    <3> TAKE s \in versions
    <3>1. ~(s.canonical > g.canonical)
      BY <2>2, <2>8 DEF Before
    <3>2. s \in Item /\ g \in Item
      BY <2>1
    <3> QED BY <3>1, <3>2, ItemFields
  <2> QED BY <2>1, <2>9 DEF Merged
<1> QED BY <1>1, <1>2, <1>3

\* Sets of items and of their identities are as large, where no two items are of one record.
LEMMA OneOfEach ==
  ASSUME NEW items \in SUBSET Item, \A r, s \in items : r.id = s.id => r = s
  PROVE  IsFiniteSet(Ids(items)) /\ Cardinality(Ids(items)) = Cardinality(items)
<1> DEFINE id == [r \in items |-> r.id]
<1>1. id \in Bijection(items, Ids(items))
  BY DEF Bijection, Injection, Surjection, IsInjective, Ids
<1>2. ExistsBijection(items, Ids(items))
  BY <1>1 DEF ExistsBijection
<1> QED BY <1>2, ItemFields, FS_Bijection

LEMMA MergedIds ==
  ASSUME NEW items \in SUBSET Item
  PROVE  /\ Ids(Merged(items)) = Ids(items) /\ IsFiniteSet(Ids(items))
         /\ Cardinality(Merged(items)) = Cardinality(Ids(items))
<1>1. Ids(Merged(items)) = Ids(items)
  BY MergedIsGreatest DEF Ids
<1> QED BY <1>1, MergedIsGreatest, OneOfEach

\* As many records are kept as there is room for.
LEMMA KeptAreCounted ==
  ASSUME NEW items \in SUBSET Item
  PROVE  /\ LastOf(Merged(items)) \subseteq Merged(items)
         /\ Cardinality(LastOf(Merged(items))) = Smaller(Limit, Cardinality(Ids(items)))
<1> DEFINE versions == Merged(items)
<1>1. versions \subseteq Item /\ IsFiniteSet(versions)
      /\ \A r, s \in versions : r.id = s.id => r = s
  BY MergedIsGreatest, ItemFields
<1>2. Cardinality(versions) = Cardinality(Ids(items))
  BY MergedIds
<1> HIDE DEF versions
<1>3. \A r, s \in versions : <<s, r>> \in LaterOrder <=> Later(s, r)
  BY <1>1 DEF LaterOrder
<1>4. Ordered(versions, LaterOrder)
  BY <1>1, <1>3, ItemFields DEF Ordered, Later
<1>5. LastOf(versions) = First(versions, LaterOrder, Limit)
  <2>1. \A r \in versions : {s \in versions : Later(s, r)} = Before(versions, LaterOrder, r)
    BY <1>3 DEF Before
  <2> QED BY <2>1 DEF LastOf, First
<1> QED BY <1>1, <1>2, <1>4, <1>5, FirstCounted, ItemFields DEF Smaller, versions

\* The order of the identities of records whose versions agree on their places.
IdOrder(items) == {pair \in Nat \X Nat : \E s, r \in items :
                     s.id = pair[1] /\ r.id = pair[2] /\ Later(s, r)}

LEMMA IdsAreOrdered ==
  ASSUME NEW all \in SUBSET Item, Agree(all)
  PROVE  /\ Ordered(Ids(all), IdOrder(all))
         /\ \A r, s \in all : <<s.id, r.id>> \in IdOrder(all) <=> Later(s, r)
<1>1. \A r \in all : r \in Item /\ r.id \in Nat /\ r.place \in Nat
  BY ItemFields
<1>2. ASSUME NEW r \in all, NEW s \in all
      PROVE  <<s.id, r.id>> \in IdOrder(all) <=> Later(s, r)
  <2>1. ASSUME <<s.id, r.id>> \in IdOrder(all) PROVE Later(s, r)
    <3>1. PICK s1 \in all, r1 \in all : s1.id = s.id /\ r1.id = r.id /\ Later(s1, r1)
      BY <2>1 DEF IdOrder
    <3>2. s1.place = s.place /\ r1.place = r.place
      BY <3>1 DEF Agree
    <3> QED BY <3>1, <3>2 DEF Later
  <2>2. ASSUME Later(s, r) PROVE <<s.id, r.id>> \in IdOrder(all)
    BY <1>1, <2>2 DEF IdOrder
  <2> QED BY <2>1, <2>2
<1> DEFINE ids == Ids(all)  Order == IdOrder(all)
<1>3. \A i \in ids : \E r \in all : r.id = i
  BY DEF Ids
<1> HIDE DEF ids, Order
<1>4. \A i \in ids : <<i, i>> \notin Order
  BY <1>1, <1>2, <1>3 DEF Later, Order
<1>5. ASSUME NEW i \in ids, NEW j \in ids, i # j
      PROVE  <<i, j>> \in Order \/ <<j, i>> \in Order
  <2>1. PICK r \in all, s \in all : r.id = i /\ s.id = j
    BY <1>3
  <2>2. Later(r, s) \/ Later(s, r)
    BY <1>1, <1>5, <2>1 DEF Later
  <2> QED BY <1>2, <2>1, <2>2 DEF Order
<1>6. ASSUME NEW i \in ids, NEW j \in ids, NEW k \in ids,
             <<i, j>> \in Order, <<j, k>> \in Order
      PROVE  <<i, k>> \in Order
  <2>1. PICK r \in all, s \in all, t \in all : r.id = i /\ s.id = j /\ t.id = k
    BY <1>3
  <2>2. Later(r, s) /\ Later(s, t)
    BY <1>2, <1>6, <2>1 DEF Order
  <2>3. Later(r, t)
    BY <1>1, <2>1, <2>2 DEF Later
  <2> QED BY <1>2, <2>1, <2>3 DEF Order
<1>7. Ordered(ids, Order)
  BY <1>4, <1>5, <1>6 DEF Ordered
<1> QED BY <1>2, <1>7 DEF ids, Order

\* What is kept of some versions: the greatest of the records whose identities are first.
LEMMA KeptById ==
  ASSUME NEW all \in SUBSET Item, Agree(all), NEW items \in SUBSET all
  PROVE  LastOf(Merged(items)) =
           {r \in Merged(items) : r.id \in First(Ids(items), IdOrder(all), Limit)}
<1> DEFINE versions == Merged(items)  ids == Ids(items)  Order == IdOrder(all)
<1>1. /\ items \in SUBSET Item /\ versions \subseteq items /\ Ids(versions) = ids
      /\ \A r, s \in versions : r.id = s.id => r = s
  BY MergedIsGreatest, MergedIds
<1>2. \A r, s \in versions : <<s.id, r.id>> \in Order <=> Later(s, r)
  BY <1>1, IdsAreOrdered
<1> HIDE DEF versions, ids, Order
<1>3. ASSUME NEW r \in versions
      PROVE  /\ Cardinality({s \in versions : Later(s, r)}) = Cardinality(Before(ids, Order, r.id))
             /\ r.id \in ids
  <2> DEFINE later == {s \in versions : Later(s, r)}
  <2>1. later \in SUBSET Item /\ \A s, t \in later : s.id = t.id => s = t
    BY <1>1
  <2>2. Ids(later) = Before(ids, Order, r.id)
    BY <1>1, <1>2 DEF Ids, Before
  <2>3. Cardinality(Ids(later)) = Cardinality(later)
    BY <2>1, OneOfEach
  <2>4. r.id \in ids
    BY <1>1 DEF Ids
  <2> QED BY <2>2, <2>3, <2>4
<1>4. \A r \in versions : r \in LastOf(versions) <=> r.id \in First(ids, Order, Limit)
  BY <1>3 DEF LastOf, First
<1>5. LastOf(versions) = {r \in versions : r.id \in First(ids, Order, Limit)}
  BY <1>4 DEF LastOf
<1> QED BY <1>5 DEF versions, ids, Order

\* Merging with what was kept before is merging with all there was before.
LEMMA MergedAgain ==
  ASSUME NEW old \in SUBSET Item, NEW updates \in SUBSET Item, Agree(old \cup updates)
  PROVE  Bounded(LastOf(Merged(old)), updates) = LastOf(Merged(old \cup updates))
<1>1. PICK all, kept, some :
        /\ all = old \cup updates /\ kept = LastOf(Merged(old)) /\ some = kept \cup updates
  OBVIOUS
<1>2. /\ Merged(old) \subseteq old /\ kept \subseteq Merged(old)
      /\ all \in SUBSET Item /\ some \in SUBSET all /\ some \in SUBSET Item
      /\ old \in SUBSET all /\ updates \in SUBSET all /\ all \in SUBSET all /\ Agree(all)
  BY <1>1, MergedIsGreatest DEF LastOf
<1>3. PICK Order : Order = IdOrder(all)
  OBVIOUS
<1>4. PICK before : before = First(Ids(old), Order, Limit)
  OBVIOUS
<1>5. kept = {r \in Merged(old) : r.id \in before}
  BY <1>1, <1>2, <1>3, <1>4, KeptById
<1>6. Ids(Merged(old)) = Ids(old) /\ before \subseteq Ids(old)
  BY <1>4, MergedIds DEF First
<1>7. Ids(kept) = before
  BY <1>5, <1>6 DEF Ids
<1>8. Ids(some) = before \cup Ids(updates) /\ Ids(all) = Ids(old) \cup Ids(updates)
  BY <1>1, <1>7 DEF Ids
<1>9. /\ IsFiniteSet(Ids(old)) /\ IsFiniteSet(Ids(updates)) /\ IsFiniteSet(Ids(all))
      /\ Ordered(Ids(all), Order) /\ Limit \in Nat
  BY <1>2, <1>3, MergedIds, IdsAreOrdered, ItemFields
<1>10. First(Ids(some), Order, Limit) = First(Ids(all), Order, Limit)
  BY <1>4, <1>8, <1>9, FirstOfFirst
<1>11. ASSUME NEW r \in Merged(old), r.id \in First(Ids(all), Order, Limit) PROVE r \in kept
  <2>1. r.id \in Ids(old) /\ Ids(old) \subseteq Ids(all)
    BY <1>6, <1>8, <1>11 DEF Ids
  <2>2. r.id \in before
    BY <1>4, <1>9, <1>11, <2>1, FirstOfLess, Zenon
  <2> QED BY <1>5, <2>2
<1>12. ASSUME NEW r, r.id \in First(Ids(all), Order, Limit)
       PROVE  r \in Merged(some) <=> r \in Merged(all)
  <2>1. ASSUME r \in Merged(all) PROVE r \in Merged(some)
    <3>1. r \in all /\ \A s \in all : s.id = r.id => s.canonical <= r.canonical
      BY <2>1 DEF Merged
    <3>2. r \in old => r \in Merged(old)
      BY <1>2, <3>1 DEF Merged
    <3>3. r \in some
      BY <1>1, <1>11, <1>12, <3>1, <3>2
    <3> QED BY <1>2, <3>1, <3>3 DEF Merged
  <2>2. ASSUME r \in Merged(some) PROVE r \in Merged(all)
    <3>1. r \in some /\ \A s \in some : s.id = r.id => s.canonical <= r.canonical
      BY <2>2 DEF Merged
    <3>2. ASSUME NEW s \in all, s.id = r.id PROVE s.canonical <= r.canonical
      <4>1. CASE s \in updates
        BY <1>1, <3>1, <3>2, <4>1
      <4>2. CASE s \in old
        <5>1. PICK g \in Merged(old) : g.id = s.id /\ s.canonical <= g.canonical
          BY <4>2, MergedIsGreatest
        <5>2. g \in kept
          BY <1>11, <1>12, <3>2, <5>1
        <5>3. g.canonical <= r.canonical
          BY <1>1, <3>1, <3>2, <5>1, <5>2
        <5>4. g \in Item /\ r \in Item /\ s \in Item
          BY <1>2, <3>1
        <5> QED BY <5>1, <5>3, <5>4, ItemFields
      <4> QED BY <1>1, <4>1, <4>2
    <3> QED BY <1>2, <3>1, <3>2 DEF Merged
  <2> QED BY <2>1, <2>2
<1>13. /\ LastOf(Merged(some)) = {r \in Merged(some) : r.id \in First(Ids(some), Order, Limit)}
       /\ LastOf(Merged(all)) = {r \in Merged(all) : r.id \in First(Ids(all), Order, Limit)}
  BY <1>2, <1>3, KeptById
<1>14. LastOf(Merged(some)) = LastOf(Merged(all))
  BY <1>10, <1>12, <1>13
<1> QED BY <1>1, <1>14 DEF Bounded

\* The nodes that failed, and the first of them by name.
Failed == {m \in RetryNode : reported[m] > 0}
ByName == {pair \in RetryNode \X RetryNode : pair[1] < pair[2]}

RecordsKept ==
  /\ channel \subseteq written
  /\ PlacesAgree => channel = LastOf(Merged(written))
  /\ \A r, s \in channel : r.id = s.id => r = s
  /\ Cardinality(channel) = Smaller(Limit, Cardinality(Ids(written)))

RetriesKept ==
  \A n \in RetryNode :
    retry_counts[n] = IF n \in First(Failed, ByName, MaxRetryNodes)
                      THEN Smaller(MaxRetryPerNode, reported[n]) ELSE 0

ChannelInv == ChannelTypeOK /\ RecordsKept /\ RetriesKept

LEMMA RetryFacts ==
  /\ \A S \in SUBSET RetryNode : IsFiniteSet(S) /\ Ordered(S, ByName)
  /\ \A m, n \in RetryNode : <<m, n>> \in ByName <=> m < n
  /\ MaxRetryNodes \in Nat /\ MaxRetryPerNode \in Nat /\ MaxRetryPerNode > 0
  /\ MaxCount \in Nat
<1>1. \A m, n \in RetryNode : <<m, n>> \in ByName <=> m < n
  BY DEF ByName
<1>2. \A n \in RetryNode : n \in Nat
  BY ChannelAssumption
<1>3. ASSUME NEW S \in SUBSET RetryNode PROVE Ordered(S, ByName)
  BY <1>1, <1>2 DEF Ordered
<1>4. \A S \in SUBSET RetryNode : IsFiniteSet(S)
  BY ChannelAssumption, FS_Subset
<1> QED BY <1>1, <1>3, <1>4, ChannelAssumption

LEMMA ChannelInitInv == ChannelInit => ChannelInv
<1> SUFFICES ASSUME ChannelInit PROVE ChannelInv
  OBVIOUS
<1>1. Merged({}) = {} /\ LastOf({}) = {} /\ Ids({}) = {}
  BY DEF Merged, LastOf, Ids
<1>2. RecordsKept
  BY <1>1, FS_EmptySet, ItemFields, SMTT(30) DEF ChannelInit, RecordsKept, Smaller
<1>3. RetriesKept
  BY RetryFacts DEF ChannelInit, RetriesKept, First, Failed, Smaller
<1>4. ChannelTypeOK
  BY RetryFacts DEF ChannelInit, ChannelTypeOK
<1> QED BY <1>2, <1>3, <1>4 DEF ChannelInv

LEMMA ChannelInvFree == ChannelInv => ChannelTypeOK /\ MergesAreOrderFree
<1> SUFFICES ASSUME ChannelInv PROVE MergesAreOrderFree
  BY DEF ChannelInv
<1>1. {} \cup written = written /\ Ids(written) = {r.id : r \in written}
  BY DEF Ids
<1>2. /\ PlacesAgree => channel = Bounded({}, written)
      /\ \A r, s \in channel : r.id = s.id => r = s
      /\ Cardinality(channel) = Smaller(Limit, Cardinality({r.id : r \in written}))
  BY <1>1 DEF ChannelInv, RecordsKept, Bounded
<1>3. ASSUME NEW n \in RetryNode
      PROVE  retry_counts[n] =
               IF Cardinality({m \in RetryNode : m < n /\ reported[m] > 0}) < MaxRetryNodes
               THEN Smaller(MaxRetryPerNode, reported[n]) ELSE 0
  <2>1. {m \in RetryNode : m < n /\ reported[m] > 0} = Before(Failed, ByName, n)
    BY RetryFacts DEF Before, Failed
  <2>2. n \notin Failed => Smaller(MaxRetryPerNode, reported[n]) = 0
    BY RetryFacts DEF ChannelInv, ChannelTypeOK, Failed, Smaller
  <2>3. n \in First(Failed, ByName, MaxRetryNodes) <=>
          n \in Failed /\ Cardinality(Before(Failed, ByName, n)) < MaxRetryNodes
    BY DEF First
  <2>4. retry_counts[n] = IF n \in First(Failed, ByName, MaxRetryNodes)
                          THEN Smaller(MaxRetryPerNode, reported[n]) ELSE 0
    BY DEF ChannelInv, RetriesKept
  <2> QED BY <2>1, <2>2, <2>3, <2>4
<1> QED BY <1>2, <1>3 DEF MergesAreOrderFree

LEMMA RecordsStepInv ==
  ASSUME ChannelInv, NEW updates \in SUBSET Item, MergeRecords(updates)
  PROVE  ChannelInv'
<1>1. /\ channel' = LastOf(Merged(channel \cup updates)) /\ written' = written \cup updates
      /\ UNCHANGED <<retry_counts, reported>>
  BY DEF MergeRecords, Bounded
<1>2. /\ channel \subseteq written /\ written \in SUBSET Item
      /\ \A r, s \in channel : r.id = s.id => r = s
      /\ Cardinality(channel) = Smaller(Limit, Cardinality(Ids(written)))
  BY DEF ChannelInv, ChannelTypeOK, RecordsKept
<1>3. PICK some, all : some = channel \cup updates /\ all = written \cup updates
  OBVIOUS
<1>4. some \in SUBSET Item /\ all \in SUBSET Item /\ some \subseteq all
  BY <1>2, <1>3
<1>5. /\ Merged(some) \subseteq some /\ LastOf(Merged(some)) \subseteq Merged(some)
      /\ \A r, s \in Merged(some) : r.id = s.id => r = s
      /\ Cardinality(LastOf(Merged(some))) = Smaller(Limit, Cardinality(Ids(some)))
  BY <1>4, MergedIsGreatest, KeptAreCounted
<1>6. Smaller(Limit, Cardinality(Ids(some))) = Smaller(Limit, Cardinality(Ids(all)))
  <2>1. /\ IsFiniteSet(Ids(some)) /\ Cardinality(Ids(some)) \in Nat
        /\ IsFiniteSet(Ids(all)) /\ Cardinality(Ids(all)) \in Nat
        /\ IsFiniteSet(Ids(written)) /\ Cardinality(Ids(written)) \in Nat
    BY <1>2, <1>4, MergedIds, FS_CardinalityType
  <2>2. Ids(channel) \subseteq Ids(written) /\ Ids(channel) \subseteq Ids(some)
        /\ Ids(some) \subseteq Ids(all)
    BY <1>2, <1>3, <1>4 DEF Ids
  <2>3. Cardinality(Ids(channel)) = Cardinality(channel)
    BY <1>2, OneOfEach
  <2>4. CASE Cardinality(Ids(written)) <= Limit
    <3>1. Cardinality(Ids(channel)) = Cardinality(Ids(written))
      BY <1>2, <2>1, <2>3, <2>4, ItemFields DEF Smaller
    <3>2. Ids(channel) = Ids(written)
      BY <2>1, <2>2, <3>1, FS_Subset
    <3>3. Ids(some) = Ids(all)
      BY <1>3, <3>2 DEF Ids
    <3> QED BY <3>3
  <2>5. CASE Cardinality(Ids(written)) > Limit
    <3>1. Cardinality(Ids(channel)) = Limit
      BY <1>2, <2>1, <2>3, <2>5, ItemFields DEF Smaller
    <3>2. Limit <= Cardinality(Ids(some))
      BY <2>1, <2>2, <3>1, FS_Subset
    <3>3. Cardinality(Ids(some)) <= Cardinality(Ids(all))
      BY <2>1, <2>2, FS_Subset
    <3> QED BY <2>1, <3>2, <3>3, ItemFields DEF Smaller
  <2> QED BY <2>1, <2>4, <2>5, ItemFields
<1>7. ASSUME PlacesAgree' PROVE channel' = LastOf(Merged(written'))
  <2>1. Agree(written \cup updates)
    BY <1>1, <1>7 DEF PlacesAgree, Agree
  <2>2. PlacesAgree
    BY <1>1, <1>7 DEF PlacesAgree
  <2>3. channel = LastOf(Merged(written))
    BY <2>2 DEF ChannelInv, RecordsKept
  <2>4. Bounded(LastOf(Merged(written)), updates) = LastOf(Merged(written \cup updates))
    BY <1>2, <2>1, MergedAgain
  <2> QED BY <1>1, <2>3, <2>4 DEF Bounded
<1>8. channel' = LastOf(Merged(some)) /\ written' = all
  BY <1>1, <1>3
<1>9. channel' \subseteq written' /\ written' \subseteq Item
  BY <1>4, <1>5, <1>8
<1>10. \A r, s \in channel' : r.id = s.id => r = s
  BY <1>5, <1>8
<1>11. Cardinality(channel') = Smaller(Limit, Cardinality(Ids(written')))
  BY <1>5, <1>6, <1>8
<1>12. RecordsKept'
  BY <1>7, <1>9, <1>10, <1>11 DEF RecordsKept, LastOf, Merged, Ids, Later
<1>13. ChannelTypeOK'
  BY <1>1, <1>9 DEF ChannelInv, ChannelTypeOK
<1>14. RetriesKept'
  BY <1>1 DEF ChannelInv, RetriesKept, First, Failed, Before
<1> QED BY <1>12, <1>13, <1>14 DEF ChannelInv

LEMMA RetriesStepInv ==
  ASSUME ChannelInv, NEW named_one \in RetryNode, NEW count \in 1 .. MaxCount,
         MergeRetries(named_one, count)
  PROVE  ChannelInv'
<1> DEFINE merged == [retry_counts EXCEPT ![named_one] =
                        Smaller(MaxRetryPerNode, Larger(retry_counts[named_one], count))]
           named  == {n \in RetryNode : merged[n] > 0}
           failed == Failed \cup {named_one}
<1>1. /\ retry_counts' = [n \in RetryNode |->
             IF Cardinality({m \in named : m < n}) < MaxRetryNodes THEN merged[n] ELSE 0]
      /\ reported' = [reported EXCEPT ![named_one] = Larger(reported[named_one], count)]
      /\ UNCHANGED <<channel, written>>
  BY DEF MergeRetries, MergedCounts
<1>2. /\ retry_counts \in [RetryNode -> 0 .. MaxRetryPerNode]
      /\ reported \in [RetryNode -> 0 .. MaxCount]
      /\ \A n \in RetryNode :
           retry_counts[n] = IF n \in First(Failed, ByName, MaxRetryNodes)
                             THEN Smaller(MaxRetryPerNode, reported[n]) ELSE 0
  BY DEF ChannelInv, ChannelTypeOK, RetriesKept
<1>3. \A n \in RetryNode : /\ retry_counts[n] \in Nat /\ retry_counts[n] <= MaxRetryPerNode
                          /\ reported[n] \in Nat /\ reported[n] <= MaxCount
  BY <1>2, RetryFacts
<1>4. count \in Nat /\ count > 0 /\ count <= MaxCount
  BY RetryFacts
<1>5. /\ merged \in [RetryNode -> 0 .. MaxRetryPerNode]
      /\ merged[named_one] = Smaller(MaxRetryPerNode, Larger(retry_counts[named_one], count))
      /\ \A n \in RetryNode \ {named_one} : merged[n] = retry_counts[n]
  <2>1. Smaller(MaxRetryPerNode, Larger(retry_counts[named_one], count)) \in 0 .. MaxRetryPerNode
    BY <1>3, <1>4, RetryFacts DEF Smaller, Larger
  <2> QED BY <1>2, <2>1
<1> HIDE DEF merged
<1>6. named \subseteq RetryNode /\ failed \subseteq RetryNode /\ Failed \subseteq RetryNode
  BY DEF Failed
<1>7. First(Failed, ByName, MaxRetryNodes) \subseteq Failed
  BY DEF First
<1>8. named = First(Failed, ByName, MaxRetryNodes) \cup {named_one}
  <2>1. merged[named_one] > 0
    BY <1>3, <1>4, <1>5, RetryFacts DEF Smaller, Larger
  <2>2. ASSUME NEW n \in RetryNode \ {named_one}
        PROVE  merged[n] > 0 <=> n \in First(Failed, ByName, MaxRetryNodes)
    <3>1. n \in Failed => Smaller(MaxRetryPerNode, reported[n]) > 0
      BY <1>3, RetryFacts DEF Failed, Smaller
    <3> QED BY <1>2, <1>5, <1>7, <3>1
  <2> QED BY <1>6, <1>7, <2>1, <2>2
<1>9. First(named, ByName, MaxRetryNodes) = First(failed, ByName, MaxRetryNodes)
  <2>1. IsFiniteSet(Failed) /\ IsFiniteSet({named_one}) /\ Ordered(Failed \cup {named_one}, ByName)
    BY <1>6, RetryFacts
  <2> QED BY <1>8, <2>1, RetryFacts, FirstOfFirst
<1>10. \A n \in RetryNode : /\ reported'[n] = IF n = named_one THEN Larger(reported[named_one], count)
                                               ELSE reported[n]
                           /\ reported'[n] \in 0 .. MaxCount
  BY <1>1, <1>2, <1>3, <1>4, RetryFacts DEF Larger
<1>11. Failed' = failed
  BY <1>3, <1>4, <1>10 DEF Failed, Larger
<1>12. IsFiniteSet(failed) /\ Failed \subseteq failed
  BY <1>6, RetryFacts
<1> HIDE DEF failed
<1>13. ASSUME NEW n \in RetryNode
       PROVE  retry_counts'[n] = IF n \in First(failed, ByName, MaxRetryNodes)
                                 THEN Smaller(MaxRetryPerNode, reported'[n]) ELSE 0
  <2>1. {m \in named : m < n} = Before(named, ByName, n)
    BY <1>6, RetryFacts DEF Before
  <2>2. retry_counts'[n] = IF Cardinality(Before(named, ByName, n)) < MaxRetryNodes
                           THEN merged[n] ELSE 0
    BY <1>1, <2>1
  <2>3. CASE n \in First(failed, ByName, MaxRetryNodes)
    <3>1. n \in named /\ Cardinality(Before(named, ByName, n)) < MaxRetryNodes
      BY <1>9, <2>3 DEF First
    <3>2. ASSUME n \in Failed PROVE retry_counts[n] = Smaller(MaxRetryPerNode, reported[n])
      <4>1. n \in First(Failed, ByName, MaxRetryNodes)
        BY <1>12, <2>3, <3>2, RetryFacts, FirstOfLess, Zenon
      <4> QED BY <1>2, <4>1
    <3>3. ASSUME n \notin Failed PROVE retry_counts[n] = Smaller(MaxRetryPerNode, reported[n])
      <4>1. reported[n] = 0
        BY <1>3, <3>3 DEF Failed
      <4> QED BY <1>2, <1>7, <3>3, <4>1, RetryFacts DEF Smaller
    <3>4. merged[n] = Smaller(MaxRetryPerNode, reported'[n])
      <4>1. CASE n = named_one
        BY <1>3, <1>4, <1>5, <1>10, <3>2, <3>3, <4>1, RetryFacts DEF Smaller, Larger
      <4>2. CASE n # named_one
        BY <1>5, <1>10, <3>2, <3>3, <4>2
      <4> QED BY <4>1, <4>2
    <3> QED BY <2>2, <2>3, <3>1, <3>4
  <2>4. CASE n \notin First(failed, ByName, MaxRetryNodes)
    <3>1. n \in named => ~(Cardinality(Before(named, ByName, n)) < MaxRetryNodes)
      BY <1>9, <2>4 DEF First
    <3>2. n \notin named => merged[n] = 0
      BY <1>5, RetryFacts
    <3> QED BY <2>2, <2>4, <3>1, <3>2
  <2> QED BY <2>3, <2>4
<1>14. RetriesKept'
  BY <1>11, <1>13 DEF RetriesKept, First, Before
<1>15. retry_counts' \in [RetryNode -> 0 .. MaxRetryPerNode]
  BY <1>1, <1>5, RetryFacts
<1>16. reported' \in [RetryNode -> 0 .. MaxCount]
  BY <1>1, <1>2, <1>10
<1>17. ChannelTypeOK' /\ RecordsKept'
  BY <1>1, <1>15, <1>16
     DEF ChannelInv, ChannelTypeOK, RecordsKept, PlacesAgree, LastOf, Merged, Ids
<1> QED BY <1>14, <1>17 DEF ChannelInv

LEMMA ChannelStepInv == ChannelInv /\ [ChannelNext]_channelVars => ChannelInv'
<1> SUFFICES ASSUME ChannelInv, [ChannelNext]_channelVars PROVE ChannelInv'
  OBVIOUS
<1>1. ASSUME NEW r \in Item, NEW s \in Item, MergeRecords({r, s}) PROVE ChannelInv'
  <2>1. {r, s} \in SUBSET Item
    OBVIOUS
  <2> QED BY <1>1, <2>1, RecordsStepInv
<1>2. ASSUME NEW n \in RetryNode, NEW count \in 1 .. MaxCount, MergeRetries(n, count)
      PROVE  ChannelInv'
  BY <1>2, RetriesStepInv
<1>3. CASE UNCHANGED channelVars
  BY <1>3 DEF channelVars, ChannelInv, ChannelTypeOK, RecordsKept, RetriesKept, PlacesAgree,
              LastOf, Merged, Ids, First, Failed, Before
<1> QED BY <1>1, <1>2, <1>3 DEF ChannelNext

\* What the reducers leave of the updates of parallel nodes depends on which updates there
\* were, not on the order they were merged in nor on how often.
THEOREM MergesCommute == ChannelSpec => [](ChannelTypeOK /\ MergesAreOrderFree)
<1>1. ChannelSpec => []ChannelInv
  BY ChannelInitInv, ChannelStepInv, PTL DEF ChannelSpec
<1> QED BY <1>1, ChannelInvFree, PTL

-----------------------------------------------------------------------------
(***************************************************************************)
(* ServiceLevel, for any calendar.                                         *)
(***************************************************************************)

LEMMA CalendarFacts ==
  /\ DayLength \in Nat /\ DayLength > 0 /\ MaxStart \in Nat /\ MaxMinutes \in Nat
  /\ OpeningTime \in Nat /\ ClosingTime \in Nat
  /\ OpeningTime < ClosingTime /\ ClosingTime <= DayLength
BY CalendarAssumption

LEMMA EvenTimes ==
  /\ OpeningTime % 2 = 0 /\ ClosingTime % 2 = 0
  /\ \E half \in Nat : DayLength = 2 * half
BY CalendarAssumption

LEMMA TimesGrow ==
  ASSUME NEW a \in Nat, NEW b \in Nat, NEW c \in Nat, a < b
  PROVE  a * c + c <= b * c /\ a * c \in Nat /\ b * c \in Nat
<1>1. PICK k \in Nat : b = a + 1 + k
  <2>1. b - a - 1 \in Nat /\ b = a + 1 + (b - a - 1)
    OBVIOUS
  <2> QED BY <2>1
<1>2. (a + 1 + k) * c = a * c + c + k * c
  OBVIOUS
<1>3. k * c \in Nat /\ a * c \in Nat /\ b * c \in Nat
  OBVIOUS
<1> QED BY <1>1, <1>2, <1>3

\* A time is so many days and a part of a day.
LEMMA DayOf ==
  ASSUME NEW t \in Nat
  PROVE  /\ Day(t) \in Nat /\ t % DayLength \in 0 .. DayLength - 1
         /\ t = Day(t) * DayLength + (t % DayLength)
BY CalendarFacts DEF Day

LEMMA DayIs ==
  ASSUME NEW d \in Nat, NEW m \in 0 .. DayLength - 1
  PROVE  Day(d * DayLength + m) = d /\ (d * DayLength + m) % DayLength = m
<1>1. PICK t \in Nat : t = d * DayLength + m
  <2>1. d * DayLength + m \in Nat
    BY CalendarFacts
  <2> QED BY <2>1
<1>2. PICK e \in Nat, k \in 0 .. DayLength - 1 :
        e = Day(t) /\ k = t % DayLength /\ t = e * DayLength + k
  BY DayOf
<1>3. d * DayLength \in Nat /\ e * DayLength \in Nat /\ m \in Nat /\ k \in Nat
      /\ m < DayLength /\ k < DayLength /\ DayLength \in Nat
  BY CalendarFacts
<1>4. ~(d < e)
  <2> SUFFICES ASSUME d < e PROVE FALSE
    OBVIOUS
  <2>1. d * DayLength + DayLength <= e * DayLength
    BY <1>3, TimesGrow
  <2> QED BY <1>1, <1>2, <1>3, <2>1
<1>5. ~(e < d)
  <2> SUFFICES ASSUME e < d PROVE FALSE
    OBVIOUS
  <2>1. e * DayLength + DayLength <= d * DayLength
    BY <1>3, TimesGrow
  <2> QED BY <1>1, <1>2, <1>3, <2>1
<1>6. d = e
  BY <1>4, <1>5
<1>7. k = m
  <2>1. PICK base \in Nat : base = d * DayLength /\ base = e * DayLength
    BY <1>3, <1>6
  <2>2. base + m = base + k
    BY <1>1, <1>2, <2>1, Zenon
  <2> QED BY <2>2
<1>8. Day(t) = d /\ t % DayLength = m
  BY <1>2, <1>6, <1>7
<1> QED BY <1>1, <1>8, Zenon

\* The half minutes of working hours from one time up to another.
OpenIn(from, to) == {t \in from .. to - 1 : Open(t)}

LEMMA WorkedIsOpen == \A from, to : Worked(from, to) = Cardinality(OpenIn(from, to))
BY DEF Worked, OpenIn

LEMMA OpenInFinite ==
  ASSUME NEW from \in Nat, NEW to \in Nat
  PROVE  IsFiniteSet(OpenIn(from, to)) /\ Cardinality(OpenIn(from, to)) \in Nat
<1>1. OpenIn(from, to) \subseteq from .. to - 1 /\ IsFiniteSet(from .. to - 1)
  BY FS_Interval DEF OpenIn
<1> QED BY <1>1, FS_Subset, FS_CardinalityType

\* What was worked up to a time, and from there on.
LEMMA WorkedOn ==
  ASSUME NEW from \in Nat, NEW mid \in Nat, NEW to \in Nat, from <= mid, mid <= to
  PROVE  Worked(from, to) = Worked(from, mid) + Worked(mid, to)
<1>1. OpenIn(from, to) = OpenIn(from, mid) \cup OpenIn(mid, to)
  BY DEF OpenIn
<1>2. OpenIn(from, mid) \cap OpenIn(mid, to) = {}
  BY DEF OpenIn
<1>3. /\ IsFiniteSet(OpenIn(from, mid)) /\ Cardinality(OpenIn(from, mid)) \in Nat
      /\ IsFiniteSet(OpenIn(mid, to)) /\ Cardinality(OpenIn(mid, to)) \in Nat
  BY OpenInFinite
<1>4. Cardinality(OpenIn(from, mid) \cup OpenIn(mid, to)) =
        Cardinality(OpenIn(from, mid)) + Cardinality(OpenIn(mid, to)) - Cardinality({})
  BY <1>2, <1>3, FS_Union, Zenon
<1> QED BY <1>1, <1>3, <1>4, FS_EmptySet, WorkedIsOpen

LEMMA NothingWorked ==
  ASSUME NEW from \in Nat, NEW to \in Nat, \A t \in from .. to - 1 : ~Open(t)
  PROVE  Worked(from, to) = 0
BY FS_EmptySet, WorkedIsOpen DEF OpenIn

LEMMA AllWorked ==
  ASSUME NEW from \in Nat, NEW to \in Nat, from <= to, \A t \in from .. to - 1 : Open(t)
  PROVE  Worked(from, to) = to - from
<1>1. OpenIn(from, to) = from .. to - 1
  BY DEF OpenIn
<1>2. Cardinality(from .. to - 1) = IF from > to - 1 THEN 0 ELSE to - 1 - from + 1
  BY FS_Interval
<1>3. Cardinality(from .. to - 1) = to - from
  BY <1>2
<1> QED BY <1>1, <1>3, WorkedIsOpen

SlaInv ==
  /\ SlaTypeOK
  /\ calendar = "business" =>
       /\ Worked(opened, cursor) = 2 * (minutes - remaining)
       /\ remaining = 0 /\ minutes > 0 => cursor > opened /\ Open(cursor - 1)
       /\ NeverDue(cursor, remaining) <=> NeverDue(opened, minutes)
  /\ calendar = "continuous" =>
       \/ remaining = minutes /\ cursor = opened
       \/ remaining = 0 /\ cursor = opened + 2 * minutes

LEMMA SlaInitInv == SlaInit => SlaInv
<1> SUFFICES ASSUME SlaInit PROVE SlaInv
  OBVIOUS
<1>1. /\ opened \in Nat /\ minutes \in Nat /\ cursor = opened /\ remaining = minutes
  BY CalendarFacts DEF SlaInit
<1>2. Worked(opened, cursor) = 0
  BY <1>1, NothingWorked
<1>3. SlaTypeOK
  BY <1>1 DEF SlaInit, SlaTypeOK
<1> QED BY <1>1, <1>2, <1>3 DEF SlaInv

LEMMA NeverDueAt ==
  ASSUME NEW t \in Nat, NEW left \in Nat, NEW at \in Nat, t % 2 = 1, Open(t), t % DayLength = at
  PROVE  NeverDue(t, left) <=> left > (ClosingTime - at) \div 2
BY DEF NeverDue

\* A round of the loop, which works the half minutes it takes from the target and no other.
LEMMA RoundWorks ==
  ASSUME NEW begin \in Nat, NEW left \in Nat, left > 0, cursor = begin, remaining = left
  PROVE  \E later \in Nat, now_left \in 0 .. left :
           /\ Round = <<later, now_left>> /\ begin <= later
           /\ Worked(begin, later) = 2 * (left - now_left)
           /\ now_left = 0 => later > begin /\ Open(later - 1)
           /\ NeverDue(begin, left) <=> NeverDue(later, now_left)
           /\ later = begin => NeverDue(begin, left)
<1>1. PICK day \in Nat, at \in 0 .. DayLength - 1, base \in Nat :
        /\ day = Day(begin) /\ at = begin % DayLength /\ base = day * DayLength
        /\ begin = base + at
  <2>1. Day(begin) \in Nat /\ Day(begin) * DayLength \in Nat
    BY DayOf, CalendarFacts
  <2> QED BY <2>1, DayOf
<1>0. /\ begin = base + at /\ at \in Nat /\ at < DayLength
      /\ Day(cursor) = day /\ cursor % DayLength = at /\ cursor = begin
  BY <1>1, CalendarFacts
<1>2. base + DayLength = (day + 1) * DayLength
  BY <1>1, CalendarFacts
<1>3. \A m \in 0 .. DayLength - 1 : /\ Day(base + m) = day /\ (base + m) % DayLength = m
                                   /\ Day(base + DayLength + m) = day + 1
                                   /\ (base + DayLength + m) % DayLength = m
  BY <1>1, <1>2, DayIs
<1>4. base % 2 = 0 /\ (base + DayLength) % 2 = 0
  <2>1. PICK half \in Nat : DayLength = 2 * half
    BY EvenTimes
  <2>2. base = 2 * (day * half) /\ day * half \in Nat
    BY <1>1, <2>1
  <2> QED BY <2>1, <2>2
<1>5. CASE ~Works(Day(cursor)) \/ AfterHours(cursor)
  <2> DEFINE later == base + DayLength + OpeningTime
  <2>1. Round = <<later, left>>
    BY <1>0, <1>1, <1>2, <1>5 DEF Round, NextOpening
  <2>2. later \in Nat /\ begin < later /\ later % 2 = 0
    BY <1>0, <1>4, CalendarFacts, EvenTimes
  <2>3. ASSUME NEW t \in begin .. later - 1 PROVE ~Open(t)
    <3>1. CASE t < base + DayLength
      <4>1. PICK m \in 0 .. DayLength - 1 : t = base + m /\ m >= at
        <5>1. t - base \in 0 .. DayLength - 1 /\ t = base + (t - base) /\ t - base >= at
          BY <1>0, <2>2, <3>1, CalendarFacts
        <5> QED BY <5>1
      <4>2. Day(t) = day /\ t % DayLength = m
        BY <1>3, <4>1
      <4> QED BY <1>0, <1>5, <4>1, <4>2, CalendarFacts DEF Open, AfterHours
    <3>2. CASE t >= base + DayLength
      <4>1. PICK m \in 0 .. DayLength - 1 : t = base + DayLength + m /\ m < OpeningTime
        <5>1. /\ t - base - DayLength \in 0 .. DayLength - 1
              /\ t = base + DayLength + (t - base - DayLength)
              /\ t - base - DayLength < OpeningTime
          BY <1>0, <2>2, <3>2, CalendarFacts
        <5> QED BY <5>1
      <4>2. t % DayLength = m
        BY <1>3, <4>1
      <4> QED BY <4>1, <4>2, CalendarFacts DEF Open
    <3> QED BY <2>2, <3>1, <3>2, CalendarFacts
  <2>4. Worked(begin, later) = 0
    BY <2>2, <2>3, NothingWorked
  <2>5. ~NeverDue(later, left)
    BY <2>2 DEF NeverDue
  <2>6. ~Open(begin)
    BY <1>5, CalendarFacts DEF Open, AfterHours
  <2>7. ~NeverDue(begin, left)
    BY <2>6 DEF NeverDue
  <2> QED BY <2>1, <2>2, <2>4, <2>5, <2>7
<1>6. CASE ~(~Works(Day(cursor)) \/ AfterHours(cursor))
  <2>1. Works(day) /\ at < ClosingTime
    BY <1>0, <1>6, CalendarFacts DEF AfterHours
  <2>2. PICK from \in Nat, m \in 0 .. DayLength - 1 :
          /\ from = FromOpening(cursor) /\ from = base + m
          /\ m = IF at < OpeningTime THEN OpeningTime ELSE at
    <3>1. CASE at < OpeningTime
      BY <1>0, <1>1, <3>1, CalendarFacts DEF FromOpening
    <3>2. CASE ~(at < OpeningTime)
      BY <1>0, <3>2, CalendarFacts DEF FromOpening
    <3> QED BY <3>1, <3>2
  <2>3. /\ OpeningTime <= m /\ m < ClosingTime /\ at <= m /\ Day(from) = day
        /\ m % 2 = 1 => at % 2 = 1
    <3>1. Day(from) = day
      BY <1>3, <2>2
    <3>2. OpeningTime <= m /\ m < ClosingTime /\ at <= m
      BY <1>0, <2>1, <2>2, CalendarFacts
    <3>3. m % 2 = 1 => m = at
      BY <2>2, EvenTimes
    <3> QED BY <3>1, <3>2, <3>3
  <2>4. PICK available \in Nat :
          /\ available = (Day(from) * DayLength + ClosingTime - from) \div 2
          /\ 2 * available <= ClosingTime - m /\ ClosingTime - m <= 2 * available + 1
    <3>1. Day(from) * DayLength + ClosingTime - from = ClosingTime - m
      <4>1. Day(from) * DayLength = base
        BY <1>1, <2>3, Zenon
      <4>2. from = base + m /\ from \in Nat /\ ClosingTime \in Nat /\ m \in Nat
        BY <2>2, CalendarFacts
      <4>3. base + ClosingTime - from = ClosingTime - m
        BY <4>2
      <4> QED BY <4>1, <4>3
    <3>2. /\ ClosingTime - m \in Nat /\ (ClosingTime - m) \div 2 \in Nat
          /\ 2 * ((ClosingTime - m) \div 2) <= ClosingTime - m
          /\ ClosingTime - m <= 2 * ((ClosingTime - m) \div 2) + 1
      BY <2>3, CalendarFacts
    <3> QED BY <3>1, <3>2
  <2>5. PICK used_up \in 0 .. left :
          /\ used_up = IF left < available THEN left ELSE available
          /\ used_up <= available
    <3>1. (IF left < available THEN left ELSE available) \in 0 .. left
      OBVIOUS
    <3> QED BY <3>1
  <2> DEFINE later == from + 2 * used_up
  <2>6. Round = <<later, left - used_up>>
    BY <1>6, <2>2, <2>4, <2>5 DEF Round
  <2>7. later \in Nat /\ from <= later /\ begin <= from /\ later <= base + ClosingTime
        /\ left - used_up \in 0 .. left
    BY <1>0, <2>2, <2>3, <2>4, <2>5, CalendarFacts
  <2>8. ASSUME NEW t \in begin .. later - 1 PROVE Open(t) <=> t >= from
    <3>1. PICK k \in 0 .. DayLength - 1 : t = base + k /\ k < ClosingTime /\ at <= k
      <4>1. t - base \in 0 .. DayLength - 1 /\ t = base + (t - base)
            /\ t - base < ClosingTime /\ at <= t - base
        BY <1>0, <2>7, CalendarFacts
      <4> QED BY <4>1
    <3>2. Day(t) = day /\ t % DayLength = k
      BY <1>3, <3>1
    <3>3. t >= from <=> OpeningTime <= k
      BY <1>0, <2>2, <2>3, <3>1, CalendarFacts
    <3> QED BY <2>1, <3>1, <3>2, <3>3 DEF Open
  <2>9. Worked(begin, from) = 0
    <3>1. \A t \in begin .. from - 1 : ~Open(t)
      BY <2>2, <2>7, <2>8
    <3> QED BY <3>1, NothingWorked
  <2>10. Worked(from, later) = 2 * used_up
    <3>1. \A t \in from .. later - 1 : Open(t)
      BY <2>2, <2>7, <2>8
    <3>2. Worked(from, later) = later - from
      BY <2>7, <3>1, AllWorked
    <3> QED BY <2>2, <2>5, <3>2
  <2>11. Worked(begin, later) = 2 * used_up
    <3>1. Worked(begin, later) = Worked(begin, from) + Worked(from, later)
      BY <2>2, <2>7, WorkedOn
    <3> QED BY <2>5, <2>9, <2>10, <3>1
  <2>12. left - used_up = 0 => later > begin /\ Open(later - 1)
    BY <2>2, <2>5, <2>7, <2>8
  <2>13. later % 2 = 1 <=> m % 2 = 1
    BY <1>4, <2>2, <2>5
  <2>14. m % 2 = 1 => from = begin /\ begin % 2 = 1 /\ Open(begin)
    BY <1>0, <1>4, <2>1, <2>2, <2>3, EvenTimes DEF Open
  <2>15. NeverDue(begin, left) => m % 2 = 1
    BY <1>0, <1>4, <2>2 DEF NeverDue, Open
  <2>16. ASSUME m % 2 = 1 PROVE NeverDue(begin, left) <=> NeverDue(later, left - used_up)
    <3>1. from = begin /\ begin % 2 = 1 /\ Open(begin) /\ m = at /\ later % 2 = 1
      BY <1>0, <2>2, <2>13, <2>14, <2>16
    <3>2. PICK k \in 0 .. DayLength - 1 : later = base + k /\ k = m + 2 * used_up /\ k < ClosingTime
      <4>1. later = base + (m + 2 * used_up) /\ m + 2 * used_up < ClosingTime
        BY <1>4, <2>2, <2>5, <2>7, <3>1, CalendarFacts, EvenTimes
      <4>2. m + 2 * used_up \in 0 .. DayLength - 1
        BY <2>2, <2>5, <4>1, CalendarFacts
      <4> QED BY <4>1, <4>2
    <3>3. Day(later) = day /\ later % DayLength = k
      BY <1>3, <3>2
    <3>4. Open(later)
      <4>1. OpeningTime <= k
        BY <2>3, <2>5, <3>2, CalendarFacts
      <4> QED BY <2>1, <3>2, <3>3, <4>1, CalendarFacts DEF Open
    <3>5. (ClosingTime - k) \div 2 = (ClosingTime - m) \div 2 - used_up
      BY <2>2, <2>3, <2>5, <3>2, CalendarFacts
    <3>6. left > (ClosingTime - m) \div 2 <=> left - used_up > (ClosingTime - k) \div 2
      BY <2>3, <2>5, <3>5, CalendarFacts
    <3>7. begin % DayLength = m
      BY <1>1, <2>2, <3>1
    <3>8. NeverDue(begin, left) <=> left > (ClosingTime - m) \div 2
      BY <2>2, <3>1, <3>7, NeverDueAt
    <3>9. NeverDue(later, left - used_up) <=> left - used_up > (ClosingTime - k) \div 2
      BY <2>7, <3>1, <3>2, <3>3, <3>4, NeverDueAt
    <3> QED BY <3>6, <3>8, <3>9
  <2>17. NeverDue(begin, left) <=> NeverDue(later, left - used_up)
    BY <2>13, <2>15, <2>16 DEF NeverDue
  <2>18. later = begin => NeverDue(begin, left)
    <3> SUFFICES ASSUME later = begin PROVE NeverDue(begin, left)
      OBVIOUS
    <3>1. used_up = 0 /\ from = begin
      BY <2>2, <2>5, <2>7
    <3>2. available = 0
      BY <2>5, <3>1
    <3>3. m = ClosingTime - 1
      BY <2>3, <2>4, <3>2, CalendarFacts
    <3>4. begin % 2 = 1 /\ Open(begin)
      BY <1>0, <1>4, <2>14, <3>3, CalendarFacts, EvenTimes
    <3>5. begin % DayLength = ClosingTime - 1
      <4>1. m \in 0 .. DayLength - 1 /\ begin = base + m
        BY <2>2, <3>1
      <4>2. (base + m) % DayLength = m
        BY <1>3, <4>1
      <4> QED BY <3>3, <4>1, <4>2
    <3>6. PICK end \in Nat : end = ClosingTime - 1 /\ (ClosingTime - end) \div 2 = 0
      <4>1. ClosingTime - 1 \in Nat /\ ClosingTime - (ClosingTime - 1) = 1
        BY CalendarFacts
      <4> QED BY <4>1
    <3>7. NeverDue(begin, left) <=> left > (ClosingTime - end) \div 2
      BY <3>4, <3>5, <3>6, NeverDueAt
    <3> QED BY <3>6, <3>7
  <2>19. left - (left - used_up) = used_up
    BY <2>5
  <2> QED BY <2>6, <2>7, <2>11, <2>12, <2>17, <2>18, <2>19
<1> QED BY <1>5, <1>6

LEMMA SlaInvIsDue == SlaInv => SlaTypeOK /\ DueWhenWorked
<1> SUFFICES ASSUME SlaInv PROVE DueWhenWorked
  BY DEF SlaInv
<1>1. /\ opened \in Nat /\ minutes \in Nat /\ cursor \in Nat /\ remaining \in Nat
      /\ opened <= cursor
  BY CalendarFacts DEF SlaInv, SlaTypeOK
<1>2. CASE calendar = "business"
  <2>1. /\ Worked(opened, cursor) = 2 * (minutes - remaining)
        /\ remaining = 0 /\ minutes > 0 => cursor > opened /\ Open(cursor - 1)
        /\ NeverDue(cursor, remaining) <=> NeverDue(opened, minutes)
    BY <1>2 DEF SlaInv
  <2>2. ASSUME remaining = 0, minutes > 0 PROVE Worked(opened, cursor - 1) < 2 * minutes
    <3>1. cursor - 1 \in Nat /\ opened <= cursor - 1 /\ Open(cursor - 1)
      BY <1>1, <2>1, <2>2
    <3>2. PICK before \in Nat : before = cursor - 1 /\ cursor = before + 1
      BY <1>1, <3>1
    <3>3. Worked(before, cursor) = 1
      <4>1. \A t \in before .. cursor - 1 : Open(t)
        BY <3>1, <3>2
      <4>2. Worked(before, cursor) = cursor - before
        BY <1>1, <3>2, <4>1, AllWorked
      <4> QED BY <3>2, <4>2
    <3>4. Worked(opened, cursor) = Worked(opened, before) + Worked(before, cursor)
      BY <1>1, <3>1, <3>2, WorkedOn
    <3>5. Worked(opened, before) \in Nat
      BY <1>1, WorkedIsOpen, OpenInFinite
    <3>6. Worked(opened, before) < 2 * minutes
      BY <1>1, <2>1, <2>2, <3>3, <3>4, <3>5
    <3> QED BY <3>2, <3>6
  <2>3. ASSUME remaining > 0, Round = <<cursor, remaining>> PROVE NeverDue(opened, minutes)
    <3>1. PICK later \in Nat, now_left \in 0 .. remaining :
            /\ Round = <<later, now_left>>
            /\ later = cursor => NeverDue(cursor, remaining)
      BY <1>1, <2>3, RoundWorks
    <3>2. later = cursor
      BY <2>3, <3>1
    <3> QED BY <2>1, <3>1, <3>2
  <2>4. NeverDue(opened, minutes) => remaining > 0
    <3>1. ASSUME NeverDue(cursor, remaining) PROVE remaining > 0
      BY <1>1, <3>1, DayOf, CalendarFacts DEF NeverDue, Open
    <3> QED BY <2>1, <3>1
  <2> QED BY <1>2, <2>1, <2>2, <2>3, <2>4 DEF DueWhenWorked
<1>3. CASE calendar = "continuous"
  BY <1>1, <1>3 DEF SlaInv, DueWhenWorked
<1>4. calendar \in {"continuous", "business"}
  BY DEF SlaInv, SlaTypeOK
<1> QED BY <1>2, <1>3, <1>4

LEMMA SlaStepInv == SlaInv /\ [SlaNext]_slaVars => SlaInv'
<1> SUFFICES ASSUME SlaInv, [SlaNext]_slaVars PROVE SlaInv'
  OBVIOUS
<1>1. /\ opened \in Nat /\ minutes \in Nat /\ cursor \in Nat /\ remaining \in 0 .. minutes
      /\ remaining \in Nat /\ opened <= cursor
  BY CalendarFacts DEF SlaInv, SlaTypeOK
<1>2. CASE AddContinuous
  <2>1. /\ calendar = "continuous" /\ remaining > 0
        /\ cursor' = cursor + 2 * remaining /\ remaining' = 0
        /\ UNCHANGED <<opened, minutes, calendar>>
    BY <1>2 DEF AddContinuous
  <2>2. cursor' \in Nat /\ cursor' >= opened' /\ remaining' \in 0 .. minutes'
    BY <1>1, <2>1
  <2>3. cursor' = opened' + 2 * minutes'
    BY <1>1, <2>1 DEF SlaInv
  <2> QED BY <2>1, <2>2, <2>3 DEF SlaInv, SlaTypeOK
<1>3. CASE AddMinutes
  <2>1. /\ calendar = "business" /\ remaining > 0
        /\ cursor' = Round[1] /\ remaining' = Round[2]
        /\ UNCHANGED <<opened, minutes, calendar>>
    BY <1>3 DEF AddMinutes
  <2>2. PICK later \in Nat, now_left \in 0 .. remaining :
          /\ Round = <<later, now_left>> /\ cursor <= later
          /\ Worked(cursor, later) = 2 * (remaining - now_left)
          /\ now_left = 0 => later > cursor /\ Open(later - 1)
          /\ NeverDue(cursor, remaining) <=> NeverDue(later, now_left)
    BY <1>1, <2>1, RoundWorks
  <2>3. cursor' = later /\ remaining' = now_left
    BY <2>1, <2>2
  <2>4. Worked(opened, later) = 2 * (minutes - now_left)
    <3>1. Worked(opened, later) = Worked(opened, cursor) + Worked(cursor, later)
      BY <1>1, <2>2, WorkedOn
    <3>2. Worked(opened, cursor) = 2 * (minutes - remaining)
      BY <2>1 DEF SlaInv
    <3>3. 2 * (minutes - now_left) = 2 * (minutes - remaining) + 2 * (remaining - now_left)
      BY <1>1
    <3> QED BY <2>2, <3>1, <3>2, <3>3
  <2>5. later >= opened /\ now_left \in 0 .. minutes
        /\ (now_left = 0 => later > opened /\ Open(later - 1))
    BY <1>1, <2>2
  <2>6. NeverDue(later, now_left) <=> NeverDue(opened, minutes)
    BY <2>1, <2>2 DEF SlaInv
  <2>7. SlaTypeOK'
    BY <2>1, <2>3, <2>5 DEF SlaInv, SlaTypeOK
  <2>8. /\ Worked(opened, cursor)' = Worked(opened, later)
        /\ NeverDue(cursor, remaining)' <=> NeverDue(later, now_left)
        /\ NeverDue(opened, minutes)' <=> NeverDue(opened, minutes)
    BY <2>1, <2>3 DEF Worked, NeverDue, Open
  <2>9. Open(cursor - 1)' <=> Open(later - 1)
    BY <2>3 DEF Open
  <2> QED BY <2>1, <2>3, <2>4, <2>5, <2>6, <2>7, <2>8, <2>9 DEF SlaInv
<1>4. CASE UNCHANGED slaVars
  BY <1>4 DEF slaVars, SlaInv, SlaTypeOK, Worked, NeverDue, Open
<1> QED BY <1>2, <1>3, <1>4 DEF SlaNext

\* A due time is the first by which the minutes of the target were worked, with holidays,
\* nights and days off left out.  The loop runs for ever exactly where NeverDue says so of
\* the opening time and the minutes: there no round is the last, and elsewhere no round
\* leaves everything as it was.
THEOREM DueTimesAreWorked == SlaSpec => [](SlaTypeOK /\ DueWhenWorked)
<1>1. SlaSpec => []SlaInv
  BY SlaInitInv, SlaStepInv, PTL DEF SlaSpec
<1> QED BY <1>1, SlaInvIsDue, PTL

-----------------------------------------------------------------------------
(***************************************************************************)
(* SupportServices: the steps of the whole are, for each component, its    *)
(* own steps or none, so that what was proved of it alone holds of it      *)
(* among the others.                                                       *)
(***************************************************************************)

\* A component that was not chosen is in an initial state of its own all the same.
LEMMA SlaStarts == Init => SlaInit
<1> SUFFICES ASSUME Init PROVE SlaInit
  OBVIOUS
<1>1. CASE part = "sla"
  BY <1>1 DEF Init
<1>2. CASE part # "sla"
  <2>1. opened = 0 /\ minutes = 0 /\ calendar = "business" /\ cursor = 0 /\ remaining = 0
    BY <1>2 DEF Init
  <2>2. 0 \in 0 .. MaxStart /\ 0 \in 0 .. MaxMinutes
    BY CalendarFacts
  <2> QED BY <2>1, <2>2 DEF SlaInit
<1> QED BY <1>1, <1>2

LEMMA PartsStart ==
  Init =>
    /\ SupportInit /\ NodeInit /\ CustodyInit /\ PipelineInit /\ ChannelInit /\ SocketInit
    /\ LineInit /\ StepUpInit /\ RequestsInit /\ RatesInit /\ SlaInit /\ LockInit
    /\ ConversationInit /\ TwinInit /\ ReleaseInit /\ GateInit /\ KnowledgeInit
BY SlaStarts DEF Init

LEMMA PartsStep ==
  [Next]_partVars =>
    /\ [SupportNext]_supportVars /\ [NodeNext]_nodeVars
    /\ [CustodyNext]_custodyVars /\ [PipelineNext]_pipelineVars
    /\ [ChannelNext]_channelVars /\ [SocketNext]_socketVars
    /\ [LineNext]_lineVars /\ [StepUpNext]_stepUpVars
    /\ [RequestsNext]_requestVars /\ [RatesNext]_rateVars
    /\ [SlaNext]_slaVars /\ [LockNext]_lockVars
    /\ [ConversationNext]_conversationVars /\ [TwinNext]_twinVars
    /\ [ReleaseNext]_releaseVars /\ [GateNext]_gateVars
    /\ [KnowledgeNext]_knowledgeVars
BY DEF Next, partVars

\* Every behaviour of the whole is one of each of its components.
LEMMA PartsBehave ==
  Spec =>
    /\ SupportSpec /\ NodeSpec /\ CustodySpec /\ PipelineSpec
    /\ ChannelSpec /\ SocketSpec /\ LineSpec /\ StepUpSpec
    /\ RequestsSpec /\ RatesSpec /\ SlaSpec /\ LockSpec
    /\ ConversationSpec /\ TwinSpec /\ ReleaseSpec /\ GateSpec
    /\ KnowledgeSpec
BY PartsStart, PartsStep, PTL
   DEF Spec, SupportSpec, NodeSpec, CustodySpec, PipelineSpec, ChannelSpec, SocketSpec,
       LineSpec, StepUpSpec, RequestsSpec, RatesSpec, SlaSpec, LockSpec,
       ConversationSpec, TwinSpec, ReleaseSpec, GateSpec, KnowledgeSpec

\* Every component's state stays within its type, whatever the values of the constants.
THEOREM PartsStayTyped == Spec => []PartsTypeOK
<1>1. Spec => [](SupportTypeOK /\ NodeTypeOK /\ CustodyTypeOK /\ PipelineTypeOK
                 /\ ChannelTypeOK /\ SocketTypeOK)
  BY PartsBehave, TypeCorrect, ChangesAccountedFor, CustodyIsKept, ChangesArePaidFor,
     MergesCommute, SocketLinesAccountedFor, PTL
<1>2. Spec => [](LineTypeOK /\ StepUpTypeOK /\ RequestsTypeOK /\ RatesTypeOK
                 /\ SlaTypeOK /\ LockTypeOK)
  BY PartsBehave, EventsHandedInOrder, StepUpsPayOnce, CallsTakeTheirTurn,
     BurstsAreBounded, DueTimesAreWorked, LockIsKept, PTL
<1>3. Spec => [](ConversationTypeOK /\ TwinTypeOK /\ ReleaseTypeOK /\ GateTypeOK
                 /\ KnowledgeTypeOK)
  BY PartsBehave, ConversationIsTold, TwinIsExplained, DeploymentsExplained,
     GatesOpenForTheirRun, GenerationsKeepOrder, PTL
<1> QED BY <1>1, <1>2, <1>3, PTL DEF PartsTypeOK

\* No approval and no step-up pays for a second change or a second action.
THEOREM GrantsArePaidOutOnce == Spec => []GrantsPayOnce
BY PartsBehave, ChangesArePaidFor, StepUpsPayOnce, PTL DEF GrantsPayOnce

\* The page's calls are made once and answered in turn, whatever else the system does.
THEOREM CallsStayInTurn == Spec => []CallsInTurn
BY PartsBehave, CallsTakeTheirTurn, PTL DEF CallsInTurn

\* The stores' records of their past tell what happened.
THEOREM HistoriesAreTrue == Spec => []HistoriesTell
BY PartsBehave, ConversationIsTold, TwinIsExplained, DeploymentsExplained,
   GatesOpenForTheirRun, GenerationsKeepOrder, PTL DEF HistoriesTell
===============================================================================
