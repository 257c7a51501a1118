-------------------------- MODULE DurableJobsProofs --------------------------
(***************************************************************************)
(* Theorems about DurableJobs for any jobs, workers, attempts and delays.  *)
(***************************************************************************)
EXTENDS DurableJobs, TLAPS

Row     == [status : Status, token : 0..MaxAttempts, attempt_count : 0..MaxAttempts,
            lease : Nat, wait : Nat]
History == [Attempt -> [worker : Worker \cup {None}, outcome : Outcome]]

(* The invariant that is inductive: the ledger bounds the attempt a claim opens only *)
(* together with the exclusion of claims, which says the claimed job is pending.     *)
IInv == TypeOK /\ ClaimExclusive /\ AttemptLedger

(* A delay drawn by retry_delay_seconds is a natural number of ticks. *)
LEMMA DelayIsNat == \A n \in Attempt : 0..RetryCeiling(n) \subseteq Nat
  BY DEF RetryCeiling, Attempt

(* Closing the open attempts of job j rewrites the outcome of those and nothing else. *)
LEMMA FinishAttemptRows ==
  ASSUME TypeOK, NEW j \in Job, NEW o \in Outcome
  PROVE  /\ FinishAttempt(j, o) \in [Job -> History]
         /\ \A k \in Job, n \in Attempt :
              /\ FinishAttempt(j, o)[k][n].worker = attempts[k][n].worker
              /\ FinishAttempt(j, o)[k][n].outcome =
                   IF k = j /\ attempts[k][n].outcome = "open" THEN o
                   ELSE attempts[k][n].outcome
<1> DEFINE closed == [n \in Attempt |->
              IF attempts[j][n].outcome = "open"
              THEN [attempts[j][n] EXCEPT !.outcome = o] ELSE attempts[j][n]]
<1>1. \A n \in Attempt : attempts[j][n] \in [worker : Worker \cup {None}, outcome : Outcome]
  BY DEF TypeOK
<1>2. /\ closed \in History
      /\ \A n \in Attempt :
           /\ closed[n].worker = attempts[j][n].worker
           /\ closed[n].outcome = IF attempts[j][n].outcome = "open" THEN o
                                 ELSE attempts[j][n].outcome
  BY <1>1 DEF History
<1>3. FinishAttempt(j, o) = [attempts EXCEPT ![j] = closed]
  BY DEF FinishAttempt
<1>4. attempts \in [Job -> History]
  BY DEF TypeOK, History
<1> HIDE DEF closed
<1> QED BY <1>2, <1>3, <1>4

(* The ledger of a job depends on its row and its attempts only. *)
LEMMA LedgerOfUntouchedJob ==
  ASSUME NEW k \in Job, job'[k] = job[k], attempts'[k] = attempts[k], Numbered(k), Verdicts(k)
  PROVE  Numbered(k)' /\ Verdicts(k)'
  BY DEF Numbered, Verdicts, Last

LEMMA InitIInv == Init => IInv
<1> SUFFICES ASSUME Init PROVE IInv
  OBVIOUS
<1>1. TypeOK
  BY BoundAssumption DEF Init, TypeOK, Status, Outcome, NoAttempt, NoClaim
<1>2. ClaimExclusive
  BY DEF Init, ClaimExclusive, NoClaim
<1>3. AttemptLedger
  <2>1. \A j \in Job : job[j].status = "absent" /\ job[j].attempt_count = 0
    BY DEF Init
  <2>2. \A j \in Job, n \in Attempt : attempts[j][n].outcome = "none" /\ n > 0
    BY BoundAssumption DEF Init, NoAttempt, Attempt
  <2>3. \A j \in Job : Numbered(j)
    BY <2>1, <2>2 DEF Numbered, Attempt
  <2>4. \A j \in Job : Verdicts(j)
    BY <2>1, BoundAssumption DEF Verdicts
  <2> QED BY <2>3, <2>4 DEF AttemptLedger
<1> QED BY <1>1, <1>2, <1>3 DEF IInv

(* enqueue inserts an absent row and leaves any other alone. *)
LEMMA EnqueueIInv == ASSUME IInv, NEW j \in Job, Enqueue(j) PROVE IInv'
<1> USE DEF IInv, Enqueue
<1>1. TypeOK'
  BY DEF TypeOK, Status
<1>2. \A k \in Job : \/ job'[k] = job[k]
                     \/ /\ job[k].status = "absent" /\ job'[k].status = "pending"
                        /\ job'[k].attempt_count = job[k].attempt_count
  BY DEF TypeOK
<1>3. ClaimExclusive'
  BY <1>2 DEF ClaimExclusive, TypeOK
<1>4. AttemptLedger'
  BY <1>2, BoundAssumption DEF AttemptLedger, Numbered, Verdicts, Last, TypeOK
<1> QED BY <1>1, <1>3, <1>4

LEMMA ClaimSelectIInv == ASSUME IInv, NEW w \in Worker, ClaimSelect(w) PROVE IInv'
<1> USE DEF IInv, ClaimSelect
<1> PICK j \in Candidates : claiming' = [claiming EXCEPT ![w] = [job |-> j, lease |-> LeaseTicks]]
  OBVIOUS
<1>0. j \in Job /\ job[j].status = "pending" /\ \A v \in Worker : claiming[v].job # j
  BY DEF Candidates, Locked
<1>1. TypeOK'
  BY <1>0, BoundAssumption DEF TypeOK
<1>2. \A v \in Worker : claiming'[v].job = IF v = w THEN j ELSE claiming[v].job
  BY DEF TypeOK
<1>3. ClaimExclusive'
  BY <1>0, <1>2 DEF ClaimExclusive
<1>4. AttemptLedger'
  BY DEF AttemptLedger, Numbered, Verdicts, Last
<1> QED BY <1>1, <1>3, <1>4

(* A committed claim opens the next attempt of a job that has one left. *)
LEMMA ClaimCommitIInv == ASSUME IInv, NEW w \in Worker, ClaimCommit(w) PROVE IInv'
<1> USE DEF IInv
<1>1. PICK j \in Job : /\ j = claiming[w].job
                       /\ job[j].status = "pending" /\ job[j] \in Row
                       /\ \A v \in Worker \ {w} : claiming[v].job # j
  BY DEF TypeOK, ClaimExclusive, ClaimCommit, Row
<1>2. PICK n \in Attempt : n = job[j].attempt_count + 1 /\ attempts[j][n].outcome = "none"
  BY <1>1, BoundAssumption DEF AttemptLedger, Numbered, Verdicts, Attempt, Row
<1>3. /\ job' = [job EXCEPT ![j] = [@ EXCEPT !.status = "leased", !.token = n,
                                   !.attempt_count = n, !.lease = claiming[w].lease]]
      /\ attempts' = [attempts EXCEPT ![j][n] = [worker |-> w, outcome |-> "open"]]
      /\ claiming' = [claiming EXCEPT ![w] = NoClaim]
  BY <1>1, <1>2 DEF ClaimCommit
<1>4. /\ job'[j] = [job[j] EXCEPT !.status = "leased", !.token = n,
                                   !.attempt_count = n, !.lease = claiming[w].lease]
      /\ \A k \in Job \ {j} : job'[k] = job[k]
  BY <1>1, <1>3 DEF TypeOK
<1>5. \A k \in Job, m \in Attempt :
        attempts'[k][m] = IF k = j /\ m = n THEN [worker |-> w, outcome |-> "open"]
                          ELSE attempts[k][m]
  BY <1>1, <1>2, <1>3 DEF TypeOK
<1>u. \A k \in Job \ {j} : attempts'[k] = attempts[k]
  BY <1>1, <1>3 DEF TypeOK
<1>6. \A v \in Worker : claiming'[v] = IF v = w THEN NoClaim ELSE claiming[v]
  BY <1>3 DEF TypeOK
<1>7. TypeOK'
  <2>1. job' \in [Job -> Row]
    <3>1. claiming[w].lease \in Nat
      BY DEF TypeOK
    <3>2. ASSUME NEW r \in Row, NEW m \in Attempt, NEW l \in Nat
          PROVE  [r EXCEPT !.status = "leased", !.token = m,
                           !.attempt_count = m, !.lease = l] \in Row
      <4>1. m \in 0..MaxAttempts /\ "leased" \in Status
        BY BoundAssumption DEF Attempt, Status
      <4> QED BY <4>1 DEF Row
    <3> QED BY <1>1, <1>2, <1>3, <3>1, <3>2, ZenonT(60) DEF TypeOK, Row
  <2>2. attempts' \in [Job -> History]
    BY <1>1, <1>2, <1>3 DEF TypeOK, History, Outcome
  <2>3. claiming' \in [Worker -> [job : Job \cup {None}, lease : Nat]]
    BY <1>3 DEF TypeOK, NoClaim
  <2> QED BY <2>1, <2>2, <2>3 DEF TypeOK, Row, History
<1>8. ClaimExclusive'
  BY <1>1, <1>4, <1>6 DEF ClaimExclusive, NoClaim, TypeOK
<1>9. AttemptLedger'
  <2>1. /\ job'[j].attempt_count = n /\ job'[j].token = n /\ job'[j].status = "leased"
        /\ n > 1 => attempts[j][job[j].attempt_count].outcome = "retry"
    BY <1>1, <1>2, <1>4 DEF Row, AttemptLedger, Verdicts, Last
  <2>2. job[j].attempt_count \in Nat
    BY <1>1 DEF Row
  <2>3. j \in Job /\ n \in Attempt /\ job[j].status = "pending"
    BY <1>1, <1>2
  <2>5. \A m \in Attempt : attempts'[j][m].outcome =
                             IF m = n THEN "open" ELSE attempts[j][m].outcome
    BY <2>3, <1>5
  <2>6. \A m \in Attempt : /\ attempts'[j][m].outcome = "none" <=> m > n
                           /\ m < n => attempts'[j][m].outcome = "retry"
    BY <1>2, <2>1, <2>2, <2>3, <2>5 DEF AttemptLedger, Numbered, Attempt
  <2>7. n > 0 /\ attempts'[j][n].outcome = "open"
    BY <2>3, <2>5 DEF Attempt
  <2>8. Numbered(j)' /\ Verdicts(j)'
    BY <2>1, <2>6, <2>7 DEF Numbered, Verdicts, Last
  <2>9. ASSUME NEW k \in Job, k # j PROVE Numbered(k)' /\ Verdicts(k)'
    BY <2>9, <1>4, <1>u, LedgerOfUntouchedJob DEF AttemptLedger
  <2> QED BY <2>8, <2>9 DEF AttemptLedger
<1> QED BY <1>7, <1>8, <1>9

LEMMA ClaimAbortIInv == ASSUME IInv, NEW w \in Worker, ClaimAbort(w) PROVE IInv'
<1> USE DEF IInv, ClaimAbort
<1>1. TypeOK'
  BY DEF TypeOK, NoClaim
<1>2. ClaimExclusive'
  BY DEF ClaimExclusive, NoClaim, TypeOK
<1>3. AttemptLedger'
  BY DEF AttemptLedger, Numbered, Verdicts, Last
<1> QED BY <1>1, <1>2, <1>3

(* A verdict on a leased job closes its last attempt with an outcome that agrees *)
(* with the status the job is left in.                                           *)
LEMMA CloseIInv ==
  ASSUME IInv, NEW j \in Job, NEW n \in Attempt, Holds(j, n), NEW row \in Row,
         NEW o \in {"succeeded", "retry", "dead_lettered"},
         row.attempt_count = job[j].attempt_count,
         \/ o = "succeeded" /\ row.status = "succeeded"
         \/ o = "retry" /\ row.status = "pending" /\ row.attempt_count < MaxAttempts
         \/ o = "retry" /\ row.status = "dead_lettered" /\ ~(row.attempt_count < MaxAttempts)
         \/ o = "dead_lettered" /\ row.status = "dead_lettered",
         job' = [job EXCEPT ![j] = row],
         attempts' = FinishAttempt(j, o),
         UNCHANGED claiming
  PROVE  IInv'
<1> USE DEF IInv
<1>0. o \in Outcome
  BY DEF Outcome
<1>1. /\ attempts' \in [Job -> History]
      /\ \A k \in Job, m \in Attempt :
           attempts'[k][m].outcome = IF k = j /\ attempts[k][m].outcome = "open" THEN o
                                     ELSE attempts[k][m].outcome
  BY <1>0, FinishAttemptRows
<1>2. /\ job'[j] = row
      /\ \A k \in Job \ {j} : job'[k] = job[k] /\ attempts'[k] = attempts[k]
  BY DEF TypeOK, FinishAttempt
<1>3. TypeOK'
  <2>1. job' \in [Job -> Row]
    BY DEF TypeOK, Row
  <2> QED BY <1>1, <2>1 DEF TypeOK, Row, History
<1>4. ClaimExclusive'
  BY <1>2 DEF ClaimExclusive, Holds, TypeOK
<1>5. AttemptLedger'
  <2> DEFINE c == job[j].attempt_count
  <2>1. /\ c \in Attempt /\ attempts[j][c].outcome = "open"
        /\ \A m \in Attempt : /\ attempts[j][m].outcome = "none" <=> m > c
                              /\ m < c => attempts[j][m].outcome = "retry"
    BY BoundAssumption DEF AttemptLedger, Numbered, Verdicts, Last, Holds, TypeOK, Attempt
  <2>2. \A m \in Attempt : /\ attempts'[j][m].outcome = "none" <=> m > c
                           /\ m < c => attempts'[j][m].outcome = "retry"
    BY <1>1, <2>1
  <2>3. c > 0 /\ attempts'[j][c].outcome = o
    BY <1>1, <2>1 DEF Attempt
  <2>4. row.attempt_count \in 0..MaxAttempts
    BY DEF Row
  <2>5. Numbered(j)'
    BY <1>2, <2>2 DEF Numbered
  <2>6. Verdicts(j)'
    <3>1. job'[j].attempt_count = c /\ Last(j)' = o /\ c > 0 /\ c \in 0..MaxAttempts
      BY <1>2, <2>3, <2>4 DEF Last
    <3>2. job'[j].status = row.status
      BY <1>2
    <3> HIDE DEF c
    <3>3. ~(c < MaxAttempts) => c = MaxAttempts
      BY <3>1, BoundAssumption
    <3> QED BY <1>2, <3>1, <3>2, <3>3 DEF Verdicts
  <2>7. ASSUME NEW k \in Job, k # j PROVE Numbered(k)' /\ Verdicts(k)'
    BY <2>7, <1>2, LedgerOfUntouchedJob DEF AttemptLedger
  <2> QED BY <2>5, <2>6, <2>7 DEF AttemptLedger
<1> QED BY <1>3, <1>4, <1>5

LEMMA CompleteIInv ==
  ASSUME IInv, NEW w \in Worker, NEW j \in Job, NEW n \in Attempt, Complete(w, j, n)
  PROVE  IInv'
<1> DEFINE row == [job[j] EXCEPT !.status = "succeeded"]
<1>1. row \in Row /\ row.attempt_count = job[j].attempt_count /\ row.status = "succeeded"
  BY DEF IInv, TypeOK, Row, Status
<1>2. job' = [job EXCEPT ![j] = row]
  BY DEF Complete, IInv, TypeOK
<1> HIDE DEF row
<1> QED BY <1>1, <1>2, CloseIInv DEF Complete

(* The row fail writes: still a row, its attempt count kept, its status decided by the *)
(* error code and the attempts left.                                                   *)
LEMMA FailRow ==
  ASSUME TypeOK, NEW w \in Worker, NEW j \in Job, NEW n \in Attempt,
         NEW retryable \in BOOLEAN, Fail(w, j, n, retryable)
  PROVE  \E row \in Row :
           /\ job' = [job EXCEPT ![j] = row]
           /\ row.attempt_count = job[j].attempt_count
           /\ row.status = IF retryable /\ job[j].attempt_count < MaxAttempts
                           THEN "pending" ELSE "dead_lettered"
<1> DEFINE status == IF retryable /\ job[j].attempt_count < MaxAttempts
                     THEN "pending" ELSE "dead_lettered"
           r == job[j]
<1>1. PICK delay \in 0..RetryCeiling(n) :
        job' = [job EXCEPT ![j] = [@ EXCEPT !.status = status, !.token = 0,
                                            !.lease = 0, !.wait = delay]]
  BY DEF Fail, Requeued
<1>2. r \in Row /\ delay \in Nat /\ status \in Status
  BY DelayIsNat DEF TypeOK, Row, Status
<1>3. 0 \in 0..MaxAttempts /\ 0 \in Nat
  BY BoundAssumption
<1>4. job' = [job EXCEPT ![j] = [r EXCEPT !.status = status, !.token = 0,
                                          !.lease = 0, !.wait = delay]]
  BY <1>1
<1>5. r.attempt_count = job[j].attempt_count
  OBVIOUS
<1> HIDE DEF r, status
<1>6. LET x == [r EXCEPT !.status = status, !.token = 0, !.lease = 0, !.wait = delay]
      IN x \in Row /\ x.attempt_count = r.attempt_count /\ x.status = status
  BY <1>2, <1>3 DEF Row
<1> QED BY <1>4, <1>5, <1>6 DEF status

LEMMA FailIInv ==
  ASSUME IInv, NEW w \in Worker, NEW j \in Job, NEW n \in Attempt,
         NEW retryable \in BOOLEAN, Fail(w, j, n, retryable)
  PROVE  IInv'
<1> DEFINE status == IF retryable /\ job[j].attempt_count < MaxAttempts
                     THEN "pending" ELSE "dead_lettered"
           o == IF retryable THEN "retry" ELSE "dead_lettered"
<1>1. PICK row \in Row : /\ job' = [job EXCEPT ![j] = row]
                         /\ row.attempt_count = job[j].attempt_count
                         /\ row.status = status
  BY FailRow DEF IInv
<1>2. Holds(j, n) /\ attempts' = FinishAttempt(j, o) /\ UNCHANGED claiming
  BY DEF Fail, Requeued
<1>3. \/ o = "retry" /\ status = "pending" /\ job[j].attempt_count < MaxAttempts
      \/ o = "retry" /\ status = "dead_lettered" /\ ~(job[j].attempt_count < MaxAttempts)
      \/ o = "dead_lettered" /\ status = "dead_lettered"
  OBVIOUS
<1>4. o \in {"succeeded", "retry", "dead_lettered"}
  OBVIOUS
<1> HIDE DEF status, o
<1> QED BY <1>1, <1>2, <1>3, <1>4, CloseIInv

LEMMA RenewIInv ==
  ASSUME IInv, NEW w \in Worker, NEW j \in Job, NEW n \in Attempt, Renew(w, j, n)
  PROVE  IInv'
<1> USE DEF IInv, Renew
<1>1. TypeOK'
  BY BoundAssumption DEF TypeOK
<1>2. \A k \in Job : /\ job'[k].status = job[k].status /\ job'[k].token = job[k].token
                     /\ job'[k].attempt_count = job[k].attempt_count
  BY DEF TypeOK
<1>3. ClaimExclusive'
  BY <1>2 DEF ClaimExclusive, TypeOK
<1>4. AttemptLedger'
  BY <1>2 DEF AttemptLedger, Numbered, Verdicts, Last
<1> QED BY <1>1, <1>3, <1>4

LEMMA LessIsNat == ASSUME NEW t \in Nat PROVE Less(t) \in Nat
  BY DEF Less

(* The clock touches countdowns only. *)
LEMMA TickIInv == ASSUME IInv, Tick PROVE IInv'
<1>1. /\ \A k \in Job : /\ job'[k] = [job[k] EXCEPT !.lease = Less(job[k].lease),
                                                  !.wait  = Less(job[k].wait)]
                        /\ job[k] \in Row
      /\ job' = [k \in Job |-> job'[k]]
  BY DEF Tick, IInv, TypeOK, Row
<1>2. /\ \A w \in Worker : claiming'[w] = [claiming[w] EXCEPT !.lease = Less(claiming[w].lease)]
      /\ claiming \in [Worker -> [job : Job \cup {None}, lease : Nat]]
      /\ claiming' = [w \in Worker |-> claiming'[w]]
      /\ attempts' = attempts
  BY DEF Tick, IInv, TypeOK
<1>3. ASSUME NEW k \in Job
      PROVE  /\ job'[k] \in Row
             /\ job'[k].status = job[k].status /\ job'[k].token = job[k].token
             /\ job'[k].attempt_count = job[k].attempt_count
  <2>1. Less(job[k].lease) \in Nat /\ Less(job[k].wait) \in Nat
    BY <1>1, LessIsNat DEF Row
  <2> DEFINE r == job[k]
             l == Less(job[k].lease)
             d == Less(job[k].wait)
  <2>2. r \in Row /\ l \in Nat /\ d \in Nat /\ job'[k] = [r EXCEPT !.lease = l, !.wait = d]
    BY <1>1, <2>1
  <2> HIDE DEF r, l, d
  <2>3. /\ job'[k] \in Row /\ job'[k].status = r.status /\ job'[k].token = r.token
        /\ job'[k].attempt_count = r.attempt_count
    BY <2>2 DEF Row
  <2> QED BY <2>3 DEF r
<1>4. ASSUME NEW w \in Worker
      PROVE  /\ claiming'[w] \in [job : Job \cup {None}, lease : Nat]
             /\ claiming'[w].job = claiming[w].job
  BY <1>2, LessIsNat
<1>5. TypeOK'
  BY <1>1, <1>2, <1>3, <1>4 DEF IInv, TypeOK, Row
<1>6. ClaimExclusive'
  <2>1. ClaimExclusive /\ \A w \in Worker : claiming[w].job \in Job \cup {None}
    BY <1>2 DEF IInv
  <2> QED BY <2>1, <1>3, <1>4 DEF ClaimExclusive
<1>7. AttemptLedger'
  <2>1. AttemptLedger
    BY DEF IInv
  <2> QED BY <2>1, <1>2, <1>3 DEF AttemptLedger, Numbered, Verdicts, Last
<1> QED BY <1>5, <1>6, <1>7 DEF IInv

LEMMA StepIInv == IInv /\ [Next]_vars => IInv'
<1> SUFFICES ASSUME IInv, [Next]_vars PROVE IInv'
  OBVIOUS
<1>1. ASSUME NEW j \in Job, Enqueue(j) PROVE IInv'
  BY <1>1, EnqueueIInv
<1>2. ASSUME NEW w \in Worker, ClaimSelect(w) \/ ClaimCommit(w) \/ ClaimAbort(w) PROVE IInv'
  BY <1>2, ClaimSelectIInv, ClaimCommitIInv, ClaimAbortIInv
<1>3. ASSUME NEW w \in Worker, NEW j \in Job, NEW n \in Attempt, Renew(w, j, n) PROVE IInv'
  BY <1>3, RenewIInv
<1>4. ASSUME NEW j \in Job, Verdict(j) PROVE IInv'
  BY <1>4, CompleteIInv, FailIInv DEF Verdict
<1>5. CASE Tick
  BY <1>5, TickIInv
<1>6. CASE UNCHANGED vars
  BY <1>6 DEF vars, IInv, TypeOK, ClaimExclusive, AttemptLedger, Numbered, Verdicts, Last
<1> QED BY <1>1, <1>2, <1>3, <1>4, <1>5, <1>6 DEF Next

LEMMA SpecIInv == Spec => []IInv
  BY InitIInv, StepIInv, PTL DEF Spec

(* Every row of the store has its type whatever the workers do. *)
THEOREM TypeCorrect == Spec => []TypeOK
  BY SpecIInv, PTL DEF IInv

(* Two workers are never handed the same pending job. *)
THEOREM ClaimsAreExclusive == Spec => []ClaimExclusive
  BY SpecIInv, PTL DEF IInv

(* The attempt history and the job's row agree in every reachable state. *)
THEOREM LedgerHolds == Spec => []AttemptLedger
  BY SpecIInv, PTL DEF IInv
(* What one step does to the attempt rows: a claim fills an empty one, a verdict closes *)
(* the open one of its job, anything else leaves them alone.                            *)
LEMMA AttemptStep ==
  ASSUME IInv, [Next]_vars, NEW j \in Job, NEW n \in Attempt
  PROVE  attempts[j][n].outcome # "none" =>
           /\ attempts'[j][n].worker = attempts[j][n].worker
           /\ attempts[j][n].outcome # "open" => attempts'[j][n] = attempts[j][n]
<1>1. attempts \in [Job -> History]
  BY DEF IInv, TypeOK, History
<1>2. ASSUME NEW w \in Worker, ClaimCommit(w)
      PROVE  attempts[j][n].outcome # "none" => attempts'[j][n] = attempts[j][n]
  <2>1. PICK k \in Job : k = claiming[w].job /\ job[k].status = "pending" /\ job[k] \in Row
    BY <1>2 DEF IInv, TypeOK, ClaimExclusive, ClaimCommit, Row
  <2>2. PICK m \in Attempt : m = job[k].attempt_count + 1 /\ attempts[k][m].outcome = "none"
    BY <2>1, BoundAssumption DEF IInv, AttemptLedger, Numbered, Verdicts, Attempt, Row
  <2>3. attempts' = [attempts EXCEPT ![k][m] = [worker |-> w, outcome |-> "open"]]
    BY <1>2, <2>1, <2>2 DEF ClaimCommit
  <2> QED BY <1>1, <2>2, <2>3 DEF History
<1>3. ASSUME NEW k \in Job, NEW o \in Outcome, attempts' = FinishAttempt(k, o)
      PROVE  /\ attempts'[j][n].worker = attempts[j][n].worker
             /\ attempts[j][n].outcome # "open" => attempts'[j][n] = attempts[j][n]
  <2>1. attempts'[j][n].worker = attempts[j][n].worker
    BY <1>3, FinishAttemptRows DEF IInv
  <2>2. attempts[j][n].outcome # "open" => attempts'[j][n] = attempts[j][n]
    BY <1>1, <1>3 DEF FinishAttempt, History
  <2> QED BY <2>1, <2>2
<1>4. ASSUME NEW k \in Job, Verdict(k)
      PROVE  \E o \in Outcome : attempts' = FinishAttempt(k, o)
  BY <1>4 DEF Verdict, Complete, Fail, Outcome
<1>5. CASE UNCHANGED attempts
  BY <1>5
<1> QED BY <1>2, <1>3, <1>4, <1>5
        DEF Next, vars, Enqueue, ClaimSelect, ClaimAbort, Renew, Tick

(* Attempt history is immutable: decided attempts never change, open ones keep their *)
(* worker, for any number of workers and attempts.                                   *)
THEOREM HistoryIsImmutable == Spec => HistoryImmutable
<1>1. IInv /\ [Next]_vars =>
        [\A j \in Job, n \in Attempt :
           LET a == attempts[j][n]
           IN a.outcome # "none" =>
                /\ attempts'[j][n].worker = a.worker
                /\ a.outcome # "open" => attempts'[j][n] = a]_vars
  BY AttemptStep
<1> QED BY <1>1, SpecIInv, PTL DEF Spec, HistoryImmutable

(* A call that takes effect comes from the worker of the open attempt, whose lease has *)
(* not run out: tokens fence off every superseded, late or repeated call.              *)
THEOREM LeaseFencesCalls == Spec => OnlyLeaseHolderActs
<1>1. ASSUME IInv, NEW w \in Worker, NEW j \in Job, NEW n \in Attempt,
             Given(w, j, n), Holds(j, n)
      PROVE  attempts[j][n] = [worker |-> w, outcome |-> "open"] /\ job[j].lease > 0
  <2>1. attempts[j][n] \in [worker : Worker \cup {None}, outcome : Outcome]
    BY <1>1 DEF IInv, TypeOK
  <2>2. attempts[j][n].outcome = "open" /\ attempts[j][n].worker = w
    BY <1>1 DEF IInv, AttemptLedger, Verdicts, Last, Holds, Given
  <2> QED BY <1>1, <2>1, <2>2 DEF Holds
<1>2. IInv /\ [Next]_vars =>
        [\A w \in Worker, j \in Job, n \in Attempt :
           (\/ Complete(w, j, n)
            \/ Renew(w, j, n)
            \/ \E retryable \in BOOLEAN : Fail(w, j, n, retryable))
           => attempts[j][n] = [worker |-> w, outcome |-> "open"] /\ job[j].lease > 0]_vars
  BY <1>1 DEF Complete, Renew, Fail
<1> QED BY <1>2, SpecIInv, PTL DEF Spec, OnlyLeaseHolderActs

LEMMA InitContract == Init => Contract!Init
  BY DEF Init, Contract!Init, Phase

(* Under the mapping of statuses to phases each step of the store is a step of the *)
(* contract on one job, or none.                                                   *)
LEMMA StepContract == IInv /\ [Next]_vars => [Contract!Next]_(Contract!vars)
<1> SUFFICES ASSUME IInv, [Next]_vars PROVE [Contract!Next]_(Contract!vars)
  OBVIOUS
<1> DEFINE P == [j \in Job |-> Phase(job[j].status)]
           R == [j \in Job |-> job[j].attempt_count]
<1>1. job \in [Job -> Row]
  BY DEF IInv, TypeOK, Row
<1>2. ASSUME NEW j \in Job, NEW row \in Row, job' = [job EXCEPT ![j] = row]
      PROVE  /\ P' = [P EXCEPT ![j] = Phase(row.status)]
             /\ R' = [R EXCEPT ![j] = row.attempt_count]
             /\ P[j] = Phase(job[j].status) /\ R[j] = job[j].attempt_count
  BY <1>1, <1>2
<1>3. ASSUME \A k \in Job : /\ job'[k].status = job[k].status
                            /\ job'[k].attempt_count = job[k].attempt_count
      PROVE  P' = P /\ R' = R
  BY <1>3
<1>4. P' = P /\ R' = R => UNCHANGED Contract!vars
  BY DEF Contract!vars
<1> HIDE DEF P, R
<1>5. ASSUME NEW j \in Job, Enqueue(j) PROVE [Contract!Next]_(Contract!vars)
  <2>1. CASE job[j].status = "absent"
    <3> DEFINE row == [job[j] EXCEPT !.status = "pending"]
    <3>1. /\ row \in Row /\ row.status = "pending" /\ row.attempt_count = job[j].attempt_count
          /\ job' = [job EXCEPT ![j] = row]
      BY <1>1, <1>5, <2>1 DEF Enqueue, Row, Status
    <3> HIDE DEF row
    <3>2. /\ P' = [P EXCEPT ![j] = "waiting"] /\ P[j] = "absent"
          /\ R' = [R EXCEPT ![j] = R[j]]
      BY <1>2, <2>1, <3>1 DEF Phase
    <3>3. R' = R
      BY <3>2 DEF R
    <3>4. Contract!Submit(j)
      BY <3>2, <3>3 DEF Contract!Submit, P, R
    <3> QED BY <3>4 DEF Contract!Next
  <2>2. CASE job[j].status # "absent"
    BY <1>3, <1>4, <1>5, <2>2 DEF Enqueue
  <2> QED BY <2>1, <2>2
<1>6. ASSUME NEW w \in Worker, ClaimCommit(w) PROVE [Contract!Next]_(Contract!vars)
  <2>1. PICK j \in Job : j = claiming[w].job /\ job[j].status = "pending"
    BY <1>6 DEF IInv, TypeOK, ClaimExclusive, ClaimCommit
  <2> DEFINE n == job[j].attempt_count + 1
             row == [job[j] EXCEPT !.status = "leased", !.token = n,
                                   !.attempt_count = n, !.lease = claiming[w].lease]
  <2>2. /\ n \in 0..MaxAttempts /\ claiming[w].lease \in Nat
        /\ job[j].attempt_count < MaxAttempts /\ job[j] \in Row
    BY <1>1, <2>1, BoundAssumption DEF IInv, AttemptLedger, Verdicts, TypeOK, Row
  <2>3. "leased" \in Status
    BY DEF Status
  <2>4. row \in Row /\ row.status = "leased" /\ row.attempt_count = n
    <3> DEFINE r == job[j]
               l == claiming[w].lease
    <3>1. r \in Row /\ l \in Nat
      BY <2>2
    <3> HIDE DEF r, l, n
    <3>2. LET x == [r EXCEPT !.status = "leased", !.token = n, !.attempt_count = n, !.lease = l]
          IN x \in Row /\ x.status = "leased" /\ x.attempt_count = n
      BY <2>2, <2>3, <3>1 DEF Row
    <3> QED BY <3>2 DEF r, l
  <2>5. job' = [job EXCEPT ![j] = row]
    BY <1>6, <2>1 DEF ClaimCommit
  <2> HIDE DEF row
  <2>6. Contract!Start(j)
    BY <1>1, <1>2, <2>1, <2>2, <2>4, <2>5 DEF Contract!Start, Phase, P, R
  <2> QED BY <2>6 DEF Contract!Next
<1>7. ASSUME NEW w \in Worker, NEW j \in Job, NEW n \in Attempt, Complete(w, j, n)
      PROVE  [Contract!Next]_(Contract!vars)
  <2> DEFINE row == [job[j] EXCEPT !.status = "succeeded"]
  <2>1. /\ row \in Row /\ row.status = "succeeded" /\ row.attempt_count = job[j].attempt_count
        /\ job' = [job EXCEPT ![j] = row] /\ job[j].status = "leased"
    BY <1>1, <1>7 DEF Complete, Holds, Row, Status
  <2> HIDE DEF row
  <2>2. Contract!Finish(j)
    BY <1>1, <1>2, <2>1, ZenonT(60) DEF Contract!Finish, Phase, P, R
  <2> QED BY <2>2 DEF Contract!Next
<1>8. ASSUME NEW w \in Worker, NEW j \in Job, NEW n \in Attempt, NEW retryable \in BOOLEAN,
             Fail(w, j, n, retryable)
      PROVE  [Contract!Next]_(Contract!vars)
  <2> DEFINE status == IF retryable /\ job[j].attempt_count < MaxAttempts
                       THEN "pending" ELSE "dead_lettered"
  <2>1. PICK row \in Row : /\ job' = [job EXCEPT ![j] = row]
                           /\ row.attempt_count = job[j].attempt_count
                           /\ row.status = status
    BY <1>8, FailRow DEF IInv
  <2>2. job[j].status = "leased"
    BY <1>8 DEF Fail, Requeued, Holds
  <2>3. CASE status = "pending"
    <3>1. job[j].attempt_count < MaxAttempts
      BY <2>3
    <3>2. Contract!Retry(j)
      BY <1>1, <1>2, <2>1, <2>2, <2>3, <3>1 DEF Contract!Retry, Phase, P, R
    <3> QED BY <3>2 DEF Contract!Next
  <2>4. CASE status = "dead_lettered"
    <3>1. Contract!Bury(j)
      BY <1>1, <1>2, <2>1, <2>2, <2>4 DEF Contract!Bury, Phase, P, R
    <3> QED BY <3>1 DEF Contract!Next
  <2> QED BY <2>3, <2>4
<1>9. ASSUME NEW w \in Worker, NEW j \in Job, NEW n \in Attempt, Renew(w, j, n)
      PROVE  UNCHANGED Contract!vars
  BY <1>1, <1>3, <1>4, <1>9 DEF Renew, Row
<1>10. ASSUME Tick PROVE UNCHANGED Contract!vars
  BY <1>1, <1>3, <1>4, <1>10 DEF Tick, Row
<1>11. ASSUME UNCHANGED job PROVE UNCHANGED Contract!vars
  BY <1>3, <1>4, <1>11
<1> QED BY <1>5, <1>6, <1>7, <1>8, <1>9, <1>10, <1>11
        DEF Next, Verdict, ClaimSelect, ClaimAbort, vars

(* The store implements the queue's contract: bounded runs, one verdict a run, nothing *)
(* after the last, for any number of jobs and workers.                                 *)
THEOREM StoreImplementsContract == Spec => ImplementsContract
  BY InitContract, StepContract, SpecIInv, PTL DEF Spec, ImplementsContract, Contract!Spec
=============================================================================
