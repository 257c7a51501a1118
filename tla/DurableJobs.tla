----------------------------- MODULE DurableJobs -----------------------------
(***************************************************************************)
(* The durable job queue: DurableJobStore over the tables durable_jobs and *)
(* durable_job_attempts, used by concurrent workers.                       *)
(*                                                                         *)
(* A job is named by (tenant, job_type, idempotency_key), the unique key   *)
(* of its row.  A claim is two steps, because its row lock is held until   *)
(* the caller's transaction ends: ClaimSelect runs the statement under     *)
(* FOR UPDATE SKIP LOCKED, then ClaimCommit makes the lease and the        *)
(* attempt row visible, or ClaimAbort rolls both back.  The other calls    *)
(* are one conditional UPDATE each.                                        *)
(*                                                                         *)
(* Time is a set of countdowns: "lease" is what is left of                 *)
(* lease_expires_at - now, "wait" of available_at - now.  The random token *)
(* of a claim is fresh, so it is named by the attempt it opened.           *)
(***************************************************************************)
EXTENDS Integers

CONSTANTS Job, Worker,
          None,          \* no worker, no job
          Priority,      \* Priority[j]: lower is served first
          MaxAttempts,   \* durable_jobs.max_attempts, 8 in enqueue
          LeaseTicks,    \* 60 seconds in claim and renew
          BaseDelay,     \* base of retry_delay_seconds
          MaxDelay       \* maximum of retry_delay_seconds

ASSUME JobAssumption == /\ None \notin Job /\ None \notin Worker
                        /\ Priority \in [Job -> Nat]

ASSUME BoundAssumption == /\ MaxAttempts \in Nat \ {0}
                          /\ LeaseTicks \in Nat \ {0}
                          /\ BaseDelay \in Nat \ {0}
                          /\ MaxDelay \in Nat

VARIABLES job,       \* the row of each job
          attempts,  \* attempts[j][n]: the row of attempt n of job j
          claiming   \* claiming[w]: the claim w has made but not committed

vars == <<job, attempts, claiming>>

Attempt == 1..MaxAttempts
Status  == {"absent", "pending", "leased", "succeeded", "dead_lettered"}
Outcome == {"none", "open", "succeeded", "retry", "dead_lettered"}

NoAttempt == [worker |-> None, outcome |-> "none"]
NoClaim   == [job |-> None, lease |-> 0]

TypeOK ==
  /\ job \in [Job -> [status : Status, token : 0..MaxAttempts,
                      attempt_count : 0..MaxAttempts, lease : Nat, wait : Nat]]
  /\ attempts \in [Job -> [Attempt -> [worker : Worker \cup {None}, outcome : Outcome]]]
  /\ claiming \in [Worker -> [job : Job \cup {None}, lease : Nat]]

Init ==
  /\ job = [j \in Job |-> [status |-> "absent", token |-> 0,
                           attempt_count |-> 0, lease |-> 0, wait |-> 0]]
  /\ attempts = [j \in Job |-> [n \in Attempt |-> NoAttempt]]
  /\ claiming = [w \in Worker |-> NoClaim]
-----------------------------------------------------------------------------
\* Mutant: the conflict clause of enqueue resets the row.
EnqueueResets(j) ==
  /\ job' = [job EXCEPT ![j].status = "pending", ![j].attempt_count = 0]
  /\ UNCHANGED <<attempts, claiming>>

\* enqueue: the row is inserted once; a second enqueue of the same key finds the
\* conflict, rewrites the key with itself and returns the id of the first.
Enqueue(j) ==
  /\ job' = IF job[j].status = "absent"
            THEN [job EXCEPT ![j].status = "pending"] ELSE job
  /\ UNCHANGED <<attempts, claiming>>

Locked(j) == \E w \in Worker : claiming[w].job = j

\* Mutant: the claim without SKIP LOCKED.
CandidatesIgnoringLocks == {j \in Job : job[j].status = "pending" /\ job[j].wait = 0}

\* Mutant: a claim that takes untried jobs only.
CandidatesUntried == {j \in Job : /\ job[j].status = "pending" /\ job[j].wait = 0
                                  /\ job[j].attempt_count = 0 /\ ~Locked(j)}

\* The candidates of a claim: due, pending, and not locked by another claim.
Candidates == {j \in Job : /\ job[j].status = "pending"
                           /\ job[j].wait = 0
                           /\ ~Locked(j)}

ClaimSelect(w) ==
  /\ claiming[w] = NoClaim
  /\ \E j \in Candidates :
       /\ \A k \in Candidates : Priority[j] <= Priority[k]
       /\ claiming' = [claiming EXCEPT ![w] = [job |-> j, lease |-> LeaseTicks]]
  /\ UNCHANGED <<job, attempts>>

ClaimCommit(w) ==
  LET j == claiming[w].job
      n == job[j].attempt_count + 1
  IN /\ j # None
     /\ job' = [job EXCEPT ![j] = [@ EXCEPT !.status = "leased", !.token = n,
                                            !.attempt_count = n,
                                            !.lease = claiming[w].lease]]
     /\ attempts' = [attempts EXCEPT ![j][n] = [worker |-> w, outcome |-> "open"]]
     /\ claiming' = [claiming EXCEPT ![w] = NoClaim]

\* The transaction of a claim fails or its worker dies before the commit.
ClaimAbort(w) ==
  /\ claiming[w].job # None
  /\ claiming' = [claiming EXCEPT ![w] = NoClaim]
  /\ UNCHANGED <<job, attempts>>
-----------------------------------------------------------------------------
\* A worker may call with any token it was ever given: late, twice, or after the
\* job went to another worker.
Given(w, j, n) == attempts[j][n].worker = w

\* Mutant: complete, renew and fail that trust the token and not the clock.
HoldsByToken(j, n) == job[j].status = "leased" /\ job[j].token = n

\* The WHERE clause shared by complete, renew and fail.
Holds(j, n) == /\ job[j].status = "leased"
               /\ job[j].token = n
               /\ job[j].lease > 0

\* Mutant: every attempt of the job is given the outcome.
FinishEvery(j, outcome) ==
  [attempts EXCEPT ![j] = [n \in Attempt |->
     IF attempts[j][n].outcome = "none"
     THEN attempts[j][n] ELSE [attempts[j][n] EXCEPT !.outcome = outcome]]]

\* Mutant: the attempt is left open.
FinishNone(j, outcome) == attempts

\* _finish_attempt closes every attempt of the job that has no finished_at.
FinishAttempt(j, outcome) ==
  [attempts EXCEPT ![j] = [n \in Attempt |->
     IF attempts[j][n].outcome = "open"
     THEN [attempts[j][n] EXCEPT !.outcome = outcome] ELSE attempts[j][n]]]

Complete(w, j, n) ==
  /\ Given(w, j, n)
  /\ Holds(j, n)
  /\ job' = [job EXCEPT ![j].status = "succeeded"]
  /\ attempts' = FinishAttempt(j, "succeeded")
  /\ UNCHANGED claiming

Renew(w, j, n) ==
  /\ Given(w, j, n)
  /\ Holds(j, n)
  /\ job' = [job EXCEPT ![j].lease = LeaseTicks]
  /\ UNCHANGED <<attempts, claiming>>

\* retry_delay_seconds: full jitter below an exponential ceiling.
RetryCeiling(attempt) == LET c == BaseDelay * 2^(attempt - 1)
                         IN IF c < MaxDelay THEN c ELSE MaxDelay

\* A failed job goes back to the queue while it has attempts left.
Requeued(j, retryable) == retryable /\ job[j].attempt_count < MaxAttempts

\* fail: only the error code decides "retryable"; the status also looks at the
\* attempts left, the outcome written to the history does not.
Fail(w, j, n, retryable) ==
  /\ Given(w, j, n)
  /\ Holds(j, n)
  /\ \E delay \in 0..RetryCeiling(n) :
       job' = [job EXCEPT ![j] = [@ EXCEPT
                 !.status = IF Requeued(j, retryable)
                            THEN "pending" ELSE "dead_lettered",
                 !.token = 0, !.lease = 0, !.wait = delay]]
  /\ attempts' = FinishAttempt(j, IF retryable THEN "retry" ELSE "dead_lettered")
  /\ UNCHANGED claiming
-----------------------------------------------------------------------------
Less(t) == IF t > 0 THEN t - 1 ELSE 0

\* One unit of time passes for every lease and every retry delay.
Tick ==
  /\ job' = [j \in Job |-> [job[j] EXCEPT !.lease = Less(job[j].lease),
                                         !.wait  = Less(job[j].wait)]]
  /\ claiming' = [w \in Worker |-> [claiming[w] EXCEPT !.lease = Less(claiming[w].lease)]]
  /\ UNCHANGED attempts

Verdict(j) == \E w \in Worker, n \in Attempt :
                \/ Complete(w, j, n)
                \/ \E retryable \in BOOLEAN : Fail(w, j, n, retryable)

Next ==
  \/ \E j \in Job : Enqueue(j)
  \/ \E w \in Worker : ClaimSelect(w) \/ ClaimCommit(w) \/ ClaimAbort(w)
  \/ \E w \in Worker, j \in Job, n \in Attempt : Renew(w, j, n)
  \/ \E j \in Job : Verdict(j)
  \/ Tick

Spec == Init /\ [][Next]_vars

(***************************************************************************)
(* Time passes, a worker that can claim does, a claim that is tried again  *)
(* and again commits once, and a handler whose lease is kept alive         *)
(* eventually returns and its verdict is reported.                         *)
(***************************************************************************)
Fairness == /\ WF_vars(Tick)
            /\ \A w \in Worker : WF_vars(ClaimSelect(w)) /\ SF_vars(ClaimCommit(w))
            /\ \A j \in Job : WF_vars(Verdict(j))

FairSpec == Spec /\ Fairness
-----------------------------------------------------------------------------
\* At most one claim in flight covers a job, and a covered job is still pending:
\* two workers polling at once are never handed the same job (SKIP LOCKED).
ClaimExclusive ==
  /\ \A w \in Worker : claiming[w].job # None => job[claiming[w].job].status = "pending"
  /\ \A v, w \in Worker :
       claiming[v].job = claiming[w].job /\ claiming[v].job # None => v = w

\* The attempt rows of a job are numbered 1..attempt_count without gaps, and all
\* but the last were retried.
Numbered(j) ==
  \A n \in Attempt :
    /\ attempts[j][n].outcome = "none" <=> n > job[j].attempt_count
    /\ n < job[j].attempt_count => attempts[j][n].outcome = "retry"

\* The verdict of the attempt a job is at.
Last(j) == attempts[j][job[j].attempt_count].outcome

\* What the last attempt says of the job, by the status of the job.
Verdicts(j) ==
  LET count == job[j].attempt_count
  IN /\ job[j].status = "absent" => count = 0
     /\ job[j].status = "pending" => count < MaxAttempts /\ (count > 0 => Last(j) = "retry")
     /\ job[j].status = "leased" => count > 0 /\ job[j].token = count /\ Last(j) = "open"
     /\ job[j].status = "succeeded" => count > 0 /\ Last(j) = "succeeded"
     /\ job[j].status = "dead_lettered" =>
          /\ count > 0
          /\ Last(j) = "dead_lettered" \/ (Last(j) = "retry" /\ count = MaxAttempts)

\* The attempt history tells the same story as the job's row: no attempt is missing
\* or counted twice, one is undecided exactly while the job is leased under its
\* token, none is opened past max_attempts, and the last tells the final status,
\* except that a job buried for want of attempts ends in a "retry".
AttemptLedger == \A j \in Job : Numbered(j) /\ Verdicts(j)

\* "Attempt history is immutable": a decided attempt never changes again, and an
\* undecided one keeps its worker.
HistoryImmutable ==
  [][\A j \in Job, n \in Attempt :
       LET a == attempts[j][n]
       IN a.outcome # "none" =>
            /\ attempts'[j][n].worker = a.worker
            /\ a.outcome # "open" => attempts'[j][n] = a]_vars

\* A call that takes effect comes from the worker of the attempt that is open, and
\* in time: a late, repeated or superseded complete, renew or fail does nothing.
OnlyLeaseHolderActs ==
  [][\A w \in Worker, j \in Job, n \in Attempt :
       (\/ Complete(w, j, n)
        \/ Renew(w, j, n)
        \/ \E retryable \in BOOLEAN : Fail(w, j, n, retryable))
       => attempts[j][n] = [worker |-> w, outcome |-> "open"] /\ job[j].lease > 0]_vars

Phase(status) == CASE status = "absent"        -> "absent"
                   [] status = "pending"       -> "waiting"
                   [] status = "leased"        -> "running"
                   [] status = "succeeded"     -> "done"
                   [] status = "dead_lettered" -> "dead"

Contract == INSTANCE JobContract
              WITH phase <- [j \in Job |-> Phase(job[j].status)],
                   runs  <- [j \in Job |-> job[j].attempt_count]

\* The store keeps the queue's contract: bounded runs, one verdict a run, and
\* nothing after the last.
ImplementsContract == Contract!Spec

\* The lease of a job ran out before its worker reported.
LeaseLost(j) == job[j].status = "leased" /\ job[j].lease = 0

Settled(j) == job[j].status \in {"succeeded", "dead_lettered"}

\* Every job that is waiting is settled, or the lease of one of its attempts is lost:
\* retries, jitter, competing jobs and aborted claims do not delay it for ever.
EventuallySettled ==
  \A j \in Job : job[j].status = "pending" ~> (Settled(j) \/ LeaseLost(j))

\* "Delivery is at least once": a job whose worker lost its lease is delivered again.
AtLeastOnce == \A j \in Job : LeaseLost(j) ~> (job[j].status = "pending" \/ Settled(j))
=============================================================================
