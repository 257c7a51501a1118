-------------------------- MODULE RemediationRunProofs --------------------------
(***************************************************************************)
(* Theorems about RemediationRun for any plans, runs, actions and people.  *)
(***************************************************************************)
EXTENDS RemediationRun, TLAPS

ReviewStatus == {"absent", "pending"} \cup ReviewTERMINAL
RunStatus    == {"absent", "running", "verifying", "rolling_back"} \cup TERMINAL
TokenIds     == Plan \X (Person \cup {None})
Partial(V)   == UNION {[S -> V] : S \in SUBSET Action}

Row == [status : RunStatus, plan : Plan \cup {None}, token : TokenIds \cup {None},
        actions : SUBSET Action, repeated : BOOLEAN, results : Partial(Result), undone : Partial(BOOLEAN),
        checks : SUBSET Action, employee : {None, "fixed", "not_fixed"}]

(* The types of the variables. *)
Typed ==
  /\ review \in [Plan -> [status : ReviewStatus, actor : Person \cup {None}]]
  /\ run \in [Run -> Row]
  /\ reports \subseteq [run : Run, action : Action,
                        status : Result \cup {"undone", "not_undone"}]
  /\ device \subseteq Run \X Action

(* A token's identity is its plan and who approved it, someone other than who asked. *)
ApprovedAs(p, id) ==
  /\ p \in Plan /\ review[p].status = "approved" /\ review[p].actor # Requester[p]
  /\ id = <<p, review[p].actor>>

TokensStand == \A t \in tokens : ApprovedAs(t.plan, t.id)

RunsHoldTokens ==
  /\ \A r \in Run : run[r].status # "absent" =>
       ApprovedAs(run[r].plan, run[r].token) /\ run[r].token \in used_tokens
  /\ \A q, r \in Run :
       run[q].status # "absent" /\ run[r].status # "absent" /\ run[q].token = run[r].token
         => q = r

(* How far the results and the rollbacks of a run are. *)
Progress(r) ==
  /\ run[r].status = "absent" => run[r].actions = {} /\ run[r].plan = None
  /\ run[r].status # "absent" => run[r].actions # {}
  /\ DOMAIN run[r].results \subseteq run[r].actions
  /\ DOMAIN run[r].undone \subseteq Failed(r)
  /\ run[r].status \notin {"absent", "running"} => DOMAIN run[r].results = run[r].actions
  /\ run[r].status \in {"verifying", "verified"} => AllSucceeded(run[r].results)
  /\ run[r].status = "rolled_back" =>
       DOMAIN run[r].undone = Failed(r) /\ AllUndone(run[r].undone)
  /\ run[r].status = "verified" => run[r].employee = "fixed"

(* What the reports say of the device. *)
Reported ==
  /\ \A r \in Run, a \in Action :
       Report(r, a, "succeeded") \in reports
         /\ (a \in DOMAIN run[r].results => run[r].results[a] = "succeeded")
           => <<r, a>> \in device
  /\ \A r \in Run, a \in Action :
       Report(r, a, "undone") \in reports =>
         <<r, a>> \notin device /\ run[r].status \notin {"absent", "running"}
  /\ \A r \in Run : \A a \in DOMAIN run[r].results :
       run[r].results[a] = "succeeded" => Report(r, a, "succeeded") \in reports
  /\ \A r \in Run : \A a \in DOMAIN run[r].undone :
       run[r].undone[a] => Report(r, a, "undone") \in reports

(* Who decided is known of what people decided, and they had not asked for it. *)
ReviewOK ==
  \A p \in Plan :
    /\ review[p].actor # None <=> review[p].status \in {"approved", "rejected"}
    /\ review[p].status = "approved" => review[p].actor # Requester[p]

IInv == Typed /\ ReviewOK /\ TokensStand /\ RunsHoldTokens /\ (\A r \in Run : Progress(r)) /\ Reported

(* A function extended by one value. *)
LEMMA ExtendOf ==
  ASSUME NEW V, NEW f \in Partial(V), NEW a \in Action, NEW v \in V
  PROVE  /\ Extend(f, a, v) \in Partial(V)
         /\ DOMAIN Extend(f, a, v) = DOMAIN f \cup {a}
         /\ Extend(f, a, v)[a] = v
         /\ \A b \in DOMAIN f : b # a => Extend(f, a, v)[b] = f[b]
<1>1. PICK S \in SUBSET Action : f \in [S -> V]
  BY DEF Partial
<1>2. Extend(f, a, v) \in [S \cup {a} -> V]
  BY <1>1 DEF Extend
<1> QED BY <1>1, <1>2 DEF Extend, Partial

(* What holds of the reviews, tokens and runs depends on nothing else. *)
LEMMA ReportsDisturbOnly ==
  ASSUME IInv, UNCHANGED <<review, tokens, run, used_tokens>>,
         Typed', Reported'
  PROVE  IInv'
<1> USE DEF IInv
<1>1. TokensStand' /\ RunsHoldTokens' /\ ReviewOK'
  BY DEF TokensStand, RunsHoldTokens, ApprovedAs, ReviewOK
<1>2. \A r \in Run : Progress(r)'
  BY DEF Progress, Failed, AllSucceeded, AllUndone
<1> QED BY <1>1, <1>2

LEMMA InitIInv == Init => IInv
<1> SUFFICES ASSUME Init PROVE IInv
  OBVIOUS
<1>1. \A V : <<>> \in Partial(V)
  BY DEF Partial
<1>2. Typed
  BY <1>1 DEF Init, Typed, Row, NoRun, NoReview, ReviewStatus, RunStatus
<1>3. \A r \in Run : /\ run[r].status = "absent" /\ run[r].actions = {} /\ run[r].plan = None
                     /\ DOMAIN run[r].results = {} /\ DOMAIN run[r].undone = {}
  BY DEF Init, NoRun
<1>4. \A r \in Run : Progress(r)
  BY <1>3 DEF Progress
<1>5. ReviewOK /\ TokensStand /\ RunsHoldTokens /\ Reported
  BY <1>3 DEF Init, ReviewOK, NoReview, TokensStand, RunsHoldTokens, Reported
<1> QED BY <1>2, <1>4, <1>5 DEF IInv

(* Reviews: what is approved stays so, and by whom. *)
LEMMA ReviewStep ==
  ASSUME IInv, Typed', ReviewOK', UNCHANGED <<tokens, run, used_tokens, reports, device>>,
         \A p \in Plan : review[p].status = "approved" => review'[p] = review[p]
  PROVE  IInv'
<1> USE DEF IInv
<1>1. TokensStand' /\ RunsHoldTokens'
  BY DEF TokensStand, RunsHoldTokens, ApprovedAs
<1>2. \A r \in Run : Progress(r)'
  BY DEF Progress, Failed, AllSucceeded, AllUndone
<1>3. Reported'
  BY DEF Reported, Report
<1> QED BY <1>1, <1>2, <1>3

LEMMA SubmitIInv == ASSUME IInv, NEW p \in Plan, Submit(p) PROVE IInv'
<1>1. Typed' /\ ReviewOK'
  BY DEF IInv, Submit, storeVars, Typed, ReviewOK, ReviewStatus
<1>2. \A q \in Plan : review[q].status = "approved" => review'[q] = review[q]
  BY DEF IInv, Submit, Typed
<1> QED BY <1>1, <1>2, ReviewStep DEF Submit, storeVars

(* A review is decided once: one that was approved is in ReviewTERMINAL. *)
LEMMA DecideIInv ==
  ASSUME IInv, NEW p \in Plan, NEW who \in Person, Decide(p, who) PROVE IInv'
<1>1. Typed' /\ ReviewOK'
  <2>1. ASSUME NEW outcome \in {"approved", "rejected"},
               review' = [review EXCEPT ![p] = [status |-> outcome, actor |-> who]]
        PROVE  Typed' /\ ReviewOK'
    BY <2>1, PlanAssumption
       DEF IInv, Decide, storeVars, Typed, ReviewOK, ReviewStatus, ReviewTERMINAL
  <2>2. CASE review' = [review EXCEPT ![p].status = "expired"]
    BY <2>2 DEF IInv, Decide, storeVars, Typed, ReviewOK, ReviewStatus, ReviewTERMINAL, Undecided
  <2> QED BY <2>1, <2>2 DEF Decide
<1>2. \A q \in Plan : review[q].status = "approved" => review'[q] = review[q]
  BY DEF IInv, Decide, Typed, Undecided, ReviewTERMINAL
<1> QED BY <1>1, <1>2, ReviewStep DEF Decide, storeVars

LEMMA MintIInv == ASSUME IInv, NEW p \in Plan, Mint(p) PROVE IInv'
<1> USE DEF IInv, Mint, storeVars
<1>1. Typed' /\ ReviewOK'
  BY DEF Typed, ReviewOK
<1>2. TokensStand'
  <2>1. PICK n : tokens' = tokens \cup {[n |-> n, id |-> TokenId(p, n), plan |-> p]}
    OBVIOUS
  <2>2. ApprovedAs(p, TokenId(p, n))
    BY DEF ApprovedAs, TokenId, ReviewOK
  <2>3. \A t \in tokens' : ApprovedAs(t.plan, t.id)
    BY <2>1, <2>2 DEF TokensStand
  <2> QED BY <2>3 DEF TokensStand, ApprovedAs
<1>3. RunsHoldTokens'
  BY DEF RunsHoldTokens, ApprovedAs
<1>4. (\A r \in Run : Progress(r)') /\ Reported'
  BY DEF Progress, Failed, AllSucceeded, AllUndone, Reported, Report
<1> QED BY <1>1, <1>2, <1>3, <1>4

LEMMA ExpireIInv == ASSUME IInv, NEW t \in tokens, ExpireToken(t) PROVE IInv'
<1> USE DEF IInv, ExpireToken, storeVars
<1>1. Typed' /\ ReviewOK' /\ TokensStand' /\ RunsHoldTokens'
  BY DEF Typed, ReviewOK, TokensStand, RunsHoldTokens, ApprovedAs
<1>2. (\A r \in Run : Progress(r)') /\ Reported'
  BY DEF Progress, Failed, AllSucceeded, AllUndone, Reported, Report
<1> QED BY <1>1, <1>2

(* A run begins with a token no run has used, and with nothing reported of it. *)
LEMMA StartIInv == ASSUME IInv, NEW r \in Run, NEW t \in tokens, Start(r, t) PROVE IInv'
<1> USE DEF IInv
<1>1. PICK actions \in (SUBSET ActionsOf[t.plan]) \ {{}}, repeated \in BOOLEAN :
        run' = [run EXCEPT ![r] =
          [status |-> "running", plan |-> t.plan, token |-> t.id, actions |-> actions,
           repeated |-> repeated, results |-> <<>>, undone |-> <<>>, checks |-> {}, employee |-> None]]
  BY DEF Start
<1>2. /\ ApprovedAs(t.plan, t.id) /\ t.plan \in Plan /\ t.id \in TokenIds
      /\ actions \subseteq Action /\ actions # {}
  <2>1. ApprovedAs(t.plan, t.id) /\ t.plan \in Plan
    BY DEF TokensStand, ApprovedAs
  <2>2. review[t.plan].actor \in Person \cup {None}
    BY <2>1 DEF Typed
  <2>3. t.id \in TokenIds
    BY <2>1, <2>2 DEF ApprovedAs, TokenIds
  <2>4. actions \subseteq Action /\ actions # {}
    BY <2>1, PlanAssumption
  <2> QED BY <2>1, <2>3, <2>4
<1> DEFINE row == [status |-> "running", plan |-> t.plan, token |-> t.id, actions |-> actions,
                   repeated |-> repeated, results |-> <<>>, undone |-> <<>>, checks |-> {},
                   employee |-> None]
<1>3. run' = [run EXCEPT ![r] = row]
  BY <1>1
<1>4. row \in Row
  <2>1. \A V : <<>> \in Partial(V)
    BY DEF Partial
  <2> QED BY <1>2, <2>1 DEF Row, RunStatus
<1>5. \A q \in Run : run'[q] = IF q = r THEN row ELSE run[q]
  BY <1>3 DEF Typed
<1>6. /\ row.status = "running" /\ row.plan = t.plan /\ row.token = t.id /\ row.actions = actions
      /\ DOMAIN row.results = {} /\ DOMAIN row.undone = {}
  OBVIOUS
<1>7. run[r].status = "absent" /\ run[r].actions = {} /\ DOMAIN run[r].results = {}
  BY DEF Start, Progress
<1>8. Typed' /\ ReviewOK' /\ TokensStand'
  BY <1>3, <1>4 DEF Start, Typed, ReviewOK, TokensStand, ApprovedAs
<1> HIDE DEF row
<1>9. RunsHoldTokens'
  <2>1. used_tokens' = used_tokens \cup {t.id} /\ t.id \notin used_tokens /\ review' = review
    BY DEF Start
  <2>2. \A q \in Run : run'[q].status # "absent" =>
          ApprovedAs(run'[q].plan, run'[q].token) /\ run'[q].token \in used_tokens'
    BY <1>2, <1>5, <1>6, <2>1 DEF RunsHoldTokens
  <2>3. \A q, k \in Run :
          run'[q].status # "absent" /\ run'[k].status # "absent" /\ run'[q].token = run'[k].token
            => q = k
    BY <1>5, <1>6, <2>1 DEF RunsHoldTokens
  <2> QED BY <2>1, <2>2, <2>3 DEF RunsHoldTokens, ApprovedAs
<1>10. \A q \in Run : Progress(q)'
  BY <1>2, <1>5, <1>6 DEF Progress, Failed, AllSucceeded, AllUndone
<1>11. Reported'
  <2>1. reports' = reports /\ device' = device
    BY DEF Start
  <2>2. \A q \in Run, a \in Action : Report(q, a, "undone") \in reports => q # r
    BY <1>7 DEF Reported
  <2> QED BY <1>5, <1>6, <1>7, <2>1, <2>2 DEF Reported, Report
<1> QED BY <1>8, <1>9, <1>10, <1>11

(* Reports of different actions, or of another kind, are different reports. *)
LEMMA ReportsDiffer ==
  \A r, q, a, b, v, w : Report(r, a, v) = Report(q, b, w) <=> r = q /\ a = b /\ v = w
  BY DEF Report

LEMMA DispatchIInv == ASSUME IInv, NEW r \in Run, NEW a \in Action, Dispatch(r, a) PROVE IInv'
<1> USE DEF IInv
<1>1. PICK status \in Result, applied \in BOOLEAN :
        /\ status = "succeeded" => applied
        /\ device' = IF applied THEN device \cup {<<r, a>>} ELSE device
        /\ reports' = reports \cup {Report(r, a, status)}
  BY DEF Dispatch
<1>2. UNCHANGED <<review, tokens, run, used_tokens>> /\ run[r].status = "running"
  BY DEF Dispatch, storeVars
<1>3. Typed'
  BY <1>1, <1>2 DEF Typed, Report
<1>4. Reported'
  <2>1. \A q \in Run, b \in Action : \A v : Report(q, b, v) \in reports' <=>
          Report(q, b, v) \in reports \/ (q = r /\ b = a /\ v = status)
    BY <1>1, ReportsDiffer
  <2>2. "undone" \notin Result
    BY DEF Result
  <2>3. ASSUME NEW q \in Run, NEW b \in Action, Report(q, b, "succeeded") \in reports',
               b \in DOMAIN run'[q].results => run'[q].results[b] = "succeeded"
        PROVE  <<q, b>> \in device'
    BY <1>1, <1>2, <2>1, <2>3 DEF Reported
  <2>4. ASSUME NEW q \in Run, NEW b \in Action, Report(q, b, "undone") \in reports'
        PROVE  <<q, b>> \notin device' /\ run'[q].status \notin {"absent", "running"}
    BY <1>1, <1>2, <2>1, <2>2, <2>4 DEF Reported
  <2>5. ASSUME NEW q \in Run, NEW b \in DOMAIN run'[q].results, run'[q].results[b] = "succeeded"
        PROVE  Report(q, b, "succeeded") \in reports'
    BY <1>1, <1>2, <2>5 DEF Reported
  <2>6. ASSUME NEW q \in Run, NEW b \in DOMAIN run'[q].undone, run'[q].undone[b]
        PROVE  Report(q, b, "undone") \in reports'
    BY <1>1, <1>2, <2>6 DEF Reported
  <2> QED BY <2>3, <2>4, <2>5, <2>6 DEF Reported, Report
<1> QED BY <1>2, <1>3, <1>4, ReportsDisturbOnly

(* A report that tells of no effect on the device may be written at any time. *)
LEMMA WrittenIInv ==
  ASSUME IInv, NEW r \in Run, NEW a \in Action, NEW status \in {"timeout", "failed"},
         reports' = reports \cup {Report(r, a, status)},
         UNCHANGED <<review, tokens, expired, storeVars, device>>
  PROVE  IInv'
<1> USE DEF IInv, storeVars
<1>1. Typed'
  BY DEF Typed, Report, Result
<1>2. \A q \in Run, b \in Action :
        /\ Report(q, b, "succeeded") \in reports' <=> Report(q, b, "succeeded") \in reports
        /\ Report(q, b, "undone") \in reports' <=> Report(q, b, "undone") \in reports
  BY ReportsDiffer
<1>3. \A v : v \in reports => v \in reports'
  OBVIOUS
<1>4. Reported'
  BY <1>2, <1>3 DEF Reported, Report
<1> QED BY <1>1, <1>4, ReportsDisturbOnly

(* The device tells of what is undone, and only failed actions are. *)
LEMMA UndoIInv == ASSUME IInv, NEW r \in Run, NEW a \in Action, Undo(r, a) PROVE IInv'
<1> USE DEF IInv
<1>1. PICK status \in {"undone", "not_undone"} :
        /\ reports' = reports \cup {Report(r, a, status)}
        /\ device' = IF status = "undone" THEN device \ {<<r, a>>} ELSE device
  <2>1. CASE device' = device \ {<<r, a>>} /\ reports' = reports \cup {Report(r, a, "undone")}
    BY <2>1
  <2>2. CASE device' = device /\ reports' = reports \cup {Report(r, a, "not_undone")}
    BY <2>2
  <2> QED BY <2>1, <2>2 DEF Undo
<1>2. /\ UNCHANGED <<review, tokens, run, used_tokens>> /\ run[r].status = "rolling_back"
      /\ a \in DOMAIN run[r].results /\ run[r].results[a] # "succeeded"
  BY DEF Undo, storeVars, Failed
<1>3. Typed'
  BY <1>1, <1>2 DEF Typed, Report
<1>4. \A q \in Run, b \in Action : \A v : Report(q, b, v) \in reports' <=>
        Report(q, b, v) \in reports \/ (q = r /\ b = a /\ v = status)
  BY <1>1, ReportsDiffer
<1>5. Reported'
  <2>1. ASSUME NEW q \in Run, NEW b \in Action, Report(q, b, "succeeded") \in reports',
               b \in DOMAIN run'[q].results => run'[q].results[b] = "succeeded"
        PROVE  <<q, b>> \in device'
    BY <1>1, <1>2, <1>4, <2>1 DEF Reported
  <2>2. ASSUME NEW q \in Run, NEW b \in Action, Report(q, b, "undone") \in reports'
        PROVE  <<q, b>> \notin device' /\ run'[q].status \notin {"absent", "running"}
    BY <1>1, <1>2, <1>4, <2>2 DEF Reported
  <2>3. ASSUME NEW q \in Run, NEW b \in DOMAIN run'[q].results, run'[q].results[b] = "succeeded"
        PROVE  Report(q, b, "succeeded") \in reports'
    BY <1>1, <1>2, <2>3 DEF Reported
  <2>4. ASSUME NEW q \in Run, NEW b \in DOMAIN run'[q].undone, run'[q].undone[b]
        PROVE  Report(q, b, "undone") \in reports'
    BY <1>1, <1>2, <2>4 DEF Reported
  <2> QED BY <2>1, <2>2, <2>3, <2>4 DEF Reported, Report
<1> QED BY <1>2, <1>3, <1>5, ReportsDisturbOnly

(* A step of the store on one run, which keeps its plan, token and actions. *)
LEMMA StoreStep ==
  ASSUME IInv, NEW r \in Run, NEW row \in Row, run' = [run EXCEPT ![r] = row],
         UNCHANGED <<review, tokens, expired, used_tokens, reports, device>>,
         run[r].status # "absent", row.status # "absent",
         row.plan = run[r].plan, row.token = run[r].token,
         Progress(r)', Reported'
  PROVE  IInv'
<1> USE DEF IInv
<1>1. \A q \in Run : run'[q] = IF q = r THEN row ELSE run[q]
  BY DEF Typed
<1>2. Typed' /\ ReviewOK' /\ TokensStand'
  BY DEF Typed, ReviewOK, TokensStand, ApprovedAs
<1>3. RunsHoldTokens'
  <2>1. \A q \in Run : /\ run'[q].token = run[q].token /\ run'[q].plan = run[q].plan
                       /\ run'[q].status # "absent" => run[q].status # "absent"
    BY <1>1
  <2> QED BY <2>1 DEF RunsHoldTokens, ApprovedAs
<1>4. \A q \in Run : Progress(q)'
  <2>1. ASSUME NEW q \in Run, q # r PROVE Progress(q)'
    BY <1>1, <2>1 DEF Progress, Failed, AllSucceeded, AllUndone
  <2> QED BY <2>1
<1> QED BY <1>2, <1>3, <1>4

(* record: a run leaves "running" with the result of its last action. *)
LEMMA RecordIInv == ASSUME IInv, NEW m \in reports, Record(m) PROVE IInv'
<1> USE DEF IInv
<1> DEFINE r == m.run
           a == m.action
           results == Extend(run[r].results, a, m.status)
           next == After(run[r].actions, run[r].repeated, results)
           row == [run[r] EXCEPT !.results = results, !.status = next]
<1>1. /\ r \in Run /\ a \in Action /\ m.status \in Result /\ run[r] \in Row
      /\ m = Report(r, a, m.status)
      /\ a \in run[r].actions /\ a \notin DOMAIN run[r].results
      /\ UNCHANGED <<review, tokens, expired, used_tokens, reports, device>>
  BY DEF Record, Typed, Unreported, Report
<1>2. /\ results \in Partial(Result)
      /\ DOMAIN results = DOMAIN run[r].results \cup {a} /\ results[a] = m.status
      /\ \A b \in DOMAIN run[r].results : results[b] = run[r].results[b]
  <2>1. run[r].results \in Partial(Result)
    BY <1>1 DEF Row
  <2> HIDE DEF r, a
  <2> DEFINE f == run[r].results
             v == m.status
  <2>2. f \in Partial(Result) /\ a \in Action /\ v \in Result
    BY ONLY <1>1, <2>1
  <2> HIDE DEF f, v
  <2>3. /\ Extend(f, a, v) \in Partial(Result)
        /\ DOMAIN Extend(f, a, v) = DOMAIN f \cup {a} /\ Extend(f, a, v)[a] = v
        /\ \A b \in DOMAIN f : b # a => Extend(f, a, v)[b] = f[b]
    BY ONLY <2>2, ExtendOf
  <2> QED BY ONLY <1>1, <2>3 DEF f, v
<1> HIDE DEF r, a, results
<1>3. run[r].status = "running"
  BY <1>1 DEF Progress, RunStatus, Row, TERMINAL
<1>4. /\ next \in {"running", "verifying", "rolling_back", "human_recovery"}
      /\ next # "running" => DOMAIN results = run[r].actions
      /\ next = "verifying" => AllSucceeded(results)
  BY DEF After, Complete
<1> HIDE DEF next
<1>5. /\ row \in Row /\ row.status = next /\ row.results = results
      /\ row.plan = run[r].plan /\ row.token = run[r].token /\ row.actions = run[r].actions
      /\ row.undone = run[r].undone
  BY <1>1, <1>2, <1>4 DEF Row, RunStatus, TERMINAL
<1>6. run' = [run EXCEPT ![r] = row]
  BY <1>1 DEF Record, Typed, r, a, results, next
<1> HIDE DEF row
<1>7. \A q \in Run : run'[q] = IF q = r THEN row ELSE run[q]
  BY <1>6 DEF Typed
<1>8. DOMAIN run[r].undone \subseteq Failed(r) /\ Failed(r) \subseteq Failed(r)'
  BY <1>1, <1>2, <1>5, <1>7 DEF Progress, Failed
<1>9. Progress(r)'
  <2>1. run'[r] = row /\ Failed(r)' = {b \in DOMAIN results : results[b] # "succeeded"}
    BY <1>1, <1>5, <1>7 DEF Failed
  <2>2. run[r].actions # {} /\ DOMAIN run[r].results \subseteq run[r].actions
    BY <1>1, <1>3 DEF Progress
  <2>3. DOMAIN results \subseteq run[r].actions
    BY <1>1, <1>2, <2>2
  <2>4. DOMAIN row.undone \subseteq Failed(r)'
    BY <1>5, <1>8
  <2>5. next = "verifying" => AllSucceeded(row.results)
    BY <1>4, <1>5
  <2> QED BY <1>1, <1>4, <1>5, <2>1, <2>2, <2>3, <2>4, <2>5
          DEF Progress, AllSucceeded, AllUndone
<1>10. Reported'
  <2>1. ASSUME NEW q \in Run, NEW b \in Action, Report(q, b, "succeeded") \in reports',
               b \in DOMAIN run'[q].results => run'[q].results[b] = "succeeded"
        PROVE  <<q, b>> \in device'
    BY <1>1, <1>2, <1>5, <1>7, <2>1 DEF Reported
  <2>2. ASSUME NEW q \in Run, NEW b \in Action, Report(q, b, "undone") \in reports'
        PROVE  <<q, b>> \notin device' /\ run'[q].status \notin {"absent", "running"}
    BY <1>1, <1>3, <1>7, <2>2 DEF Reported
  <2>3. ASSUME NEW q \in Run, NEW b \in DOMAIN run'[q].results, run'[q].results[b] = "succeeded"
        PROVE  Report(q, b, "succeeded") \in reports'
    <3>1. CASE q = r /\ b = a
      BY <1>1, <1>2, <1>5, <1>7, <2>3, <3>1
    <3>2. CASE ~(q = r /\ b = a)
      BY <1>1, <1>2, <1>5, <1>7, <2>3, <3>2 DEF Reported
    <3> QED BY <3>1, <3>2
  <2>4. ASSUME NEW q \in Run, NEW b \in DOMAIN run'[q].undone, run'[q].undone[b]
        PROVE  Report(q, b, "undone") \in reports'
    BY <1>1, <1>5, <1>7, <2>4 DEF Reported
  <2> QED BY <2>1, <2>2, <2>3, <2>4 DEF Reported, Report
<1> QED BY <1>1, <1>3, <1>4, <1>5, <1>6, <1>9, <1>10, StoreStep

(* rollback: a run is rolled back when the last word on every failed action is that it is. *)
LEMMA RollbackIInv == ASSUME IInv, NEW m \in reports, Rollback(m) PROVE IInv'
<1> USE DEF IInv
<1> DEFINE r == m.run
           a == m.action
           undone == Extend(run[r].undone, a, m.status = "undone")
           next == IF DOMAIN undone # ToUndo(r) THEN run[r].status
                   ELSE IF AllUndone(undone) THEN "rolled_back" ELSE "human_recovery"
           row == [run[r] EXCEPT !.undone = undone, !.status = next]
<1>1. /\ r \in Run /\ a \in Action /\ run[r] \in Row /\ m = Report(r, a, m.status)
      /\ run[r].status = "rolling_back" /\ a \in Failed(r)
      /\ UNCHANGED <<review, tokens, expired, used_tokens, reports, device>>
  BY DEF Rollback, Typed, Report
<1>2. /\ undone \in Partial(BOOLEAN)
      /\ DOMAIN undone = DOMAIN run[r].undone \cup {a} /\ undone[a] = (m.status = "undone")
      /\ \A b \in DOMAIN run[r].undone : b # a => undone[b] = run[r].undone[b]
  <2>1. run[r].undone \in Partial(BOOLEAN)
    BY <1>1 DEF Row
  <2> HIDE DEF r, a
  <2> DEFINE f == run[r].undone
             v == m.status = "undone"
  <2>2. f \in Partial(BOOLEAN) /\ a \in Action /\ v \in BOOLEAN
    BY ONLY <1>1, <2>1
  <2> HIDE DEF f, v
  <2>3. /\ Extend(f, a, v) \in Partial(BOOLEAN)
        /\ DOMAIN Extend(f, a, v) = DOMAIN f \cup {a} /\ Extend(f, a, v)[a] = v
        /\ \A b \in DOMAIN f : b # a => Extend(f, a, v)[b] = f[b]
    BY ONLY <2>2, ExtendOf
  <2> QED BY ONLY <2>3 DEF f, v
<1> HIDE DEF r, a, undone
<1>3. /\ next \in {"rolling_back", "rolled_back", "human_recovery"}
      /\ next = "rolled_back" => DOMAIN undone = Failed(r) /\ AllUndone(undone)
  BY <1>1 DEF ToUndo
<1>4. run' = [run EXCEPT ![r] = row]
  BY <1>1 DEF Rollback, Typed, r, a, undone
<1> HIDE DEF next
<1>5. /\ row \in Row /\ row.status = next /\ row.undone = undone
      /\ row.plan = run[r].plan /\ row.token = run[r].token /\ row.actions = run[r].actions
      /\ row.results = run[r].results
  BY <1>1, <1>2, <1>3 DEF Row, RunStatus, TERMINAL
<1> HIDE DEF row
<1>6. \A q \in Run : run'[q] = IF q = r THEN row ELSE run[q]
  BY <1>4 DEF Typed
<1>7. Progress(r)'
  <2>1. run'[r] = row /\ Failed(r)' = Failed(r)
    BY <1>1, <1>5, <1>6 DEF Failed
  <2>2. /\ run[r].actions # {} /\ DOMAIN run[r].results = run[r].actions
        /\ DOMAIN run[r].undone \subseteq Failed(r)
    BY <1>1 DEF Progress
  <2>3. next = "rolled_back" => DOMAIN row.undone = Failed(r) /\ AllUndone(row.undone)
    BY <1>3, <1>5
  <2>4. DOMAIN row.undone \subseteq Failed(r)
    BY <1>1, <1>2, <1>5, <2>2
  <2> QED BY <1>1, <1>3, <1>5, <2>1, <2>2, <2>3, <2>4 DEF Progress, AllUndone
<1>8. Reported'
  <2>1. ASSUME NEW q \in Run, NEW b \in Action, Report(q, b, "succeeded") \in reports',
               b \in DOMAIN run'[q].results => run'[q].results[b] = "succeeded"
        PROVE  <<q, b>> \in device'
    BY <1>1, <1>5, <1>6, <2>1 DEF Reported
  <2>2. ASSUME NEW q \in Run, NEW b \in Action, Report(q, b, "undone") \in reports'
        PROVE  <<q, b>> \notin device' /\ run'[q].status \notin {"absent", "running"}
    BY <1>1, <1>3, <1>5, <1>6, <2>2 DEF Reported
  <2>3. ASSUME NEW q \in Run, NEW b \in DOMAIN run'[q].results, run'[q].results[b] = "succeeded"
        PROVE  Report(q, b, "succeeded") \in reports'
    BY <1>1, <1>5, <1>6, <2>3 DEF Reported
  <2>4. ASSUME NEW q \in Run, NEW b \in DOMAIN run'[q].undone, run'[q].undone[b]
        PROVE  Report(q, b, "undone") \in reports'
    <3>1. CASE q = r /\ b = a
      BY <1>1, <1>2, <1>5, <1>6, <2>4, <3>1
    <3>2. CASE ~(q = r /\ b = a)
      BY <1>1, <1>2, <1>5, <1>6, <2>4, <3>2 DEF Reported
    <3> QED BY <3>1, <3>2
  <2> QED BY <2>1, <2>2, <2>3, <2>4 DEF Reported, Report
<1> QED BY <1>1, <1>3, <1>4, <1>5, <1>7, <1>8, StoreStep

LEMMA VerifyIInv == ASSUME IInv, NEW r \in Run, Verify(r) PROVE IInv'
<1> USE DEF IInv
<1>1. PICK passed \in SUBSET run[r].actions, employee \in {"fixed", "not_fixed"} :
        run' = [run EXCEPT ![r].checks = passed, ![r].employee = employee,
                           ![r].status = IF passed = run[r].actions /\ employee = "fixed"
                                         THEN "verified" ELSE "human_recovery"]
  BY DEF Verify
<1> DEFINE next == IF passed = run[r].actions /\ employee = "fixed"
                   THEN "verified" ELSE "human_recovery"
           row == [run[r] EXCEPT !.checks = passed, !.employee = employee, !.status = next]
<1>2. /\ run[r] \in Row /\ run[r].status = "verifying"
      /\ UNCHANGED <<review, tokens, expired, used_tokens, reports, device>>
  BY DEF Verify, Typed
<1>3. next \in {"verified", "human_recovery"} /\ (next = "verified" => employee = "fixed")
  OBVIOUS
<1>4. run' = [run EXCEPT ![r] = row]
  BY <1>1 DEF Typed
<1> HIDE DEF next
<1>5. /\ row \in Row /\ row.status = next /\ row.employee = employee
      /\ row.plan = run[r].plan /\ row.token = run[r].token /\ row.actions = run[r].actions
      /\ row.results = run[r].results /\ row.undone = run[r].undone
  BY <1>1, <1>2, <1>3 DEF Row, RunStatus, TERMINAL
<1> HIDE DEF row
<1>6. \A q \in Run : run'[q] = IF q = r THEN row ELSE run[q]
  BY <1>4 DEF Typed
<1>7. Progress(r)'
  BY <1>2, <1>3, <1>5, <1>6 DEF Progress, Failed, AllSucceeded, AllUndone
<1>8. Reported'
  BY <1>2, <1>3, <1>5, <1>6 DEF Reported, Report
<1> QED BY <1>2, <1>3, <1>4, <1>5, <1>7, <1>8, StoreStep

LEMMA StepIInv == IInv /\ [Next]_vars => IInv'
<1> SUFFICES ASSUME IInv, [Next]_vars PROVE IInv'
  OBVIOUS
<1>1. ASSUME NEW p \in Plan, Submit(p) PROVE IInv'
  BY <1>1, SubmitIInv
<1>2. ASSUME NEW p \in Plan, Mint(p) PROVE IInv'
  BY <1>2, MintIInv
<1>3. ASSUME NEW p \in Plan, NEW who \in Person, Decide(p, who) PROVE IInv'
  BY <1>3, DecideIInv
<1>4. ASSUME NEW t \in tokens, ExpireToken(t) PROVE IInv'
  BY <1>4, ExpireIInv
<1>5. ASSUME NEW r \in Run, NEW t \in tokens, Start(r, t) PROVE IInv'
  BY <1>5, StartIInv
<1>6. ASSUME NEW r \in Run, NEW a \in Action, Dispatch(r, a) PROVE IInv'
  BY <1>6, DispatchIInv
<1>7. ASSUME NEW r \in Run, NEW a \in Action, TimeOut(r, a) PROVE IInv'
  BY <1>7, WrittenIInv DEF TimeOut
<1>8. ASSUME NEW r \in Run, NEW a \in Action, GiveUp(r, a) PROVE IInv'
  BY <1>8, WrittenIInv DEF GiveUp
<1>9. ASSUME NEW r \in Run, NEW a \in Action, Undo(r, a) PROVE IInv'
  BY <1>9, UndoIInv
<1>10. ASSUME NEW m \in reports, Record(m) PROVE IInv'
  BY <1>10, RecordIInv
<1>11. ASSUME NEW m \in reports, Rollback(m) PROVE IInv'
  BY <1>11, RollbackIInv
<1>12. ASSUME NEW r \in Run, Verify(r) PROVE IInv'
  BY <1>12, VerifyIInv
<1>13. CASE UNCHANGED vars
  <2>1. Typed' /\ ReviewOK' /\ TokensStand' /\ RunsHoldTokens'
    BY <1>13 DEF vars, storeVars, IInv, Typed, ReviewOK, TokensStand, RunsHoldTokens, ApprovedAs
  <2>2. (\A r \in Run : Progress(r)') /\ Reported'
    BY <1>13 DEF vars, storeVars, IInv, Progress, Failed, AllSucceeded, AllUndone, Reported, Report
  <2> QED BY <2>1, <2>2 DEF IInv
<1> QED BY <1>1, <1>2, <1>3, <1>4, <1>5, <1>6, <1>7, <1>8, <1>9, <1>10, <1>11, <1>12, <1>13
        DEF Next

LEMMA Invariant == Spec => []IInv
  BY InitIInv, StepIInv, PTL DEF Spec

(* Every reachable state of the review and of the execution store is well typed. *)
THEOREM TypeCorrect == Spec => []TypeOK
<1>1. IInv => TypeOK
  BY DEF IInv, Typed, Row, TypeOK, ReviewOK, ReviewStatus, RunStatus, Progress, Failed
<1> QED BY <1>1, Invariant, PTL

(* An approval is spent once, whoever mints its token again, and what runs stands         *)
(* approved by someone other than who asked for it (ReviewStore, ExecutionStore.start).   *)
THEOREM RunsAreApproved == Spec => []RunsStandApproved
<1>1. IInv => RunsStandApproved
  <2> SUFFICES ASSUME IInv, NEW r \in Run, run[r].status # "absent"
               PROVE  /\ review[run[r].plan].status = "approved"
                      /\ review[run[r].plan].actor # Requester[run[r].plan]
                      /\ \A q \in Run : run[q].plan = run[r].plan => q = r
    BY DEF RunsStandApproved
  <2>1. ApprovedAs(run[r].plan, run[r].token) /\ run[r].plan # None
    BY PlanAssumption DEF IInv, RunsHoldTokens, ApprovedAs
  <2>2. ASSUME NEW q \in Run, run[q].plan = run[r].plan PROVE q = r
    <3>1. run[q].status # "absent"
      BY <2>1, <2>2 DEF IInv, Progress
    <3>2. run[q].token = run[r].token
      BY <2>1, <2>2, <3>1 DEF IInv, RunsHoldTokens, ApprovedAs
    <3> QED BY <3>1, <3>2 DEF IInv, RunsHoldTokens
  <2> QED BY <2>1, <2>2 DEF ApprovedAs
<1> QED BY <1>1, Invariant, PTL

(* What a run says at its end is so on the device (record, rollback, verify).             *)
THEOREM EndsHold == Spec => []EndsAsItSays
<1>1. IInv => EndsAsItSays
  <2> SUFFICES ASSUME IInv, NEW r \in Run
               PROVE  /\ run[r].status = "rolled_back" =>
                           \A a \in Failed(r) : <<r, a>> \notin device
                      /\ run[r].status = "verified" =>
                           /\ \A a \in run[r].actions : <<r, a>> \in device
                           /\ run[r].employee = "fixed"
    BY DEF EndsAsItSays
  <2>1. /\ run[r].actions \subseteq Action
        /\ DOMAIN run[r].results \subseteq run[r].actions /\ Failed(r) \subseteq DOMAIN run[r].results
    BY DEF IInv, Typed, Row, Progress, Failed
  <2>2. ASSUME run[r].status = "rolled_back", NEW a \in Failed(r) PROVE <<r, a>> \notin device
    BY <2>1, <2>2 DEF IInv, Progress, AllUndone, Reported
  <2>3. ASSUME run[r].status = "verified", NEW a \in run[r].actions PROVE <<r, a>> \in device
    BY <2>1, <2>3 DEF IInv, Progress, AllSucceeded, Reported, TERMINAL
  <2>4. run[r].status = "verified" => run[r].employee = "fixed"
    BY DEF IInv, Progress
  <2> QED BY <2>2, <2>3, <2>4
<1> QED BY <1>1, Invariant, PTL

(* A result once recorded is not replaced, and a run that has ended stays as it ended     *)
(* (the early returns of record, rollback and verify).                                    *)
THEOREM ResultsStand == Spec => ReportsStand
<1> DEFINE Stands(r) ==
             /\ \A a \in DOMAIN run[r].results :
                  a \in DOMAIN run'[r].results /\ run'[r].results[a] = run[r].results[a]
             /\ run[r].status \in TERMINAL => run'[r] = run[r]
<1>1. IInv /\ [Next]_vars => [\A r \in Run : Stands(r)]_vars
  <2> SUFFICES ASSUME IInv, Next, NEW q \in Run PROVE Stands(q)
    OBVIOUS
  <2> USE DEF IInv
  <2>1. run' = run => Stands(q)
    OBVIOUS
  <2>2. ASSUME NEW r \in Run, NEW t \in tokens, Start(r, t) PROVE Stands(q)
    <3>1. DOMAIN run[r].results = {} /\ run[r].status \notin TERMINAL
      BY <2>2 DEF Start, Progress, TERMINAL
    <3>2. q # r => run'[q] = run[q]
      BY <2>2 DEF Start, Typed
    <3> QED BY <3>1, <3>2
  <2>3. ASSUME NEW m \in reports, Record(m) PROVE Stands(q)
    <3> DEFINE f == Extend(run[m.run].results, m.action, m.status)
    <3>1. m.run \in Run /\ m.action \notin DOMAIN run[m.run].results /\ run[m.run] \in Row
      BY <2>3 DEF Record, Unreported, Typed
    <3>2. \A b \in DOMAIN run[m.run].results : b \in DOMAIN f /\ f[b] = run[m.run].results[b]
      BY <3>1 DEF Extend
    <3>3. run'[m.run].results = f /\ (q # m.run => run'[q] = run[q])
      BY <2>3, <3>1 DEF Record, Typed, Row
    <3> HIDE DEF f
    <3>4. run[m.run].status \notin TERMINAL
      BY <2>3 DEF Record
    <3> QED BY <3>2, <3>3, <3>4
  <2>4. ASSUME NEW m \in reports, Rollback(m) PROVE Stands(q)
    <3>1. m.run \in Run /\ run[m.run].status \notin TERMINAL /\ run[m.run] \in Row
      BY <2>4 DEF Rollback, Typed, TERMINAL
    <3>2. run'[m.run].results = run[m.run].results /\ (q # m.run => run'[q] = run[q])
      BY <2>4, <3>1 DEF Rollback, Typed, Row
    <3> QED BY <3>1, <3>2
  <2>5. ASSUME NEW r \in Run, Verify(r) PROVE Stands(q)
    <3>1. run[r].status \notin TERMINAL /\ run[r] \in Row
      BY <2>5 DEF Verify, Typed, TERMINAL
    <3>2. run'[r].results = run[r].results /\ (q # r => run'[q] = run[q])
      BY <2>5, <3>1 DEF Verify, Typed, Row
    <3> QED BY <3>1, <3>2
  <2>6. ASSUME NEW p \in Plan, Submit(p) \/ Mint(p) \/ \E who \in Person : Decide(p, who)
        PROVE  run' = run
    BY <2>6 DEF Submit, Mint, Decide, storeVars
  <2>7. ASSUME NEW t \in tokens, ExpireToken(t) PROVE run' = run
    BY <2>7 DEF ExpireToken, storeVars
  <2>8. ASSUME NEW r \in Run, NEW a \in Action,
               Dispatch(r, a) \/ TimeOut(r, a) \/ GiveUp(r, a) \/ Undo(r, a)
        PROVE  run' = run
    BY <2>8 DEF Dispatch, TimeOut, GiveUp, Undo, storeVars
  <2> HIDE DEF Stands
  <2> QED BY <2>1, <2>2, <2>3, <2>4, <2>5, <2>6, <2>7, <2>8 DEF Next
<1> QED BY <1>1, Invariant, PTL DEF Spec, ReportsStand
===============================================================================
