---------------------------- MODULE NodeResilience ----------------------------
(***************************************************************************)
(* execute_node: attempts with a retry policy, a circuit breaker, and one  *)
(* compensation when an attempt reported a change and all of them failed.  *)
(*                                                                         *)
(* What an attempt changed and what its exception says of it are two       *)
(* things: a NodeFailure carries partial_mutation, the TimeoutError of     *)
(* wait_for and most other exceptions carry nothing, whatever was changed. *)
(*                                                                         *)
(* The circuit is a value.  The caller, who is not in the repository, is   *)
(* assumed to keep one per dependency: it hands the value it holds to an   *)
(* execution and keeps the one that comes back.  Executions of a node      *)
(* overlap, since each attempt, each backoff and the compensation await.   *)
(***************************************************************************)
EXTENDS Integers

CONSTANTS Execution,
          MaxAttempts,        \* MAX_ATTEMPTS
          FailureThreshold,   \* FAILURE_THRESHOLD
          OpenTicks,          \* OPEN_SECONDS
          HalfOpenProbes,     \* HALF_OPEN_PROBES
          MaxClock            \* bound: the clock stops here

ASSUME NodeAssumption ==
  {MaxAttempts, FailureThreshold, OpenTicks, HalfOpenProbes, MaxClock} \subseteq Nat \ {0}

VARIABLES clock,
          circuit,      \* the value the caller keeps
          execution,    \* the local variables of each execution, and what it returned
          residue       \* history: what the failed attempts of each execution left changed,
                    \* whether one of them said so, and how often it was compensated

nodeVars == <<clock, circuit, execution, residue>>

Breaker == [status : {"closed", "open", "half_open"}, consecutive_failures : Nat,
            opened_at : Nat, half_open_probes : Nat]

Closed == [status |-> "closed", consecutive_failures |-> 0, opened_at |-> 0,
           half_open_probes |-> 0]

\* What failed attempts leave: nothing, a change none of them reported, one that was.
Left == {"nothing", "unreported", "reported"}

Both(a, b) == IF "reported" \in {a, b} THEN "reported"
              ELSE IF "unreported" \in {a, b} THEN "unreported" ELSE "nothing"

NodeTypeOK ==
  /\ clock \in 0 .. MaxClock
  /\ circuit \in Breaker
  /\ execution \in
       [Execution -> [at : {"idle", "attempt", "backoff", "recover", "succeeded", "failed",
                            "compensated", "escalated", "cancelled"},
                      current : Breaker, attempt : 0 .. MaxAttempts, partial : BOOLEAN]]
  /\ residue \in [Execution -> [left : Left, compensations : Nat]]

NodeInit ==
  /\ clock = 0
  /\ circuit = Closed
  /\ execution = [e \in Execution |->
       [at |-> "idle", current |-> Closed, attempt |-> 0, partial |-> FALSE]]
  /\ residue = [e \in Execution |-> [left |-> "nothing", compensations |-> 0]]
-----------------------------------------------------------------------------
circuit_before(c) ==
  IF c.status = "open" /\ clock - c.opened_at >= OpenTicks
  THEN [c EXCEPT !.status = "half_open", !.half_open_probes = 0] ELSE c

circuit_failure(c) ==
  LET count == c.consecutive_failures + 1
      trips == c.status = "half_open" \/ count >= FailureThreshold
  IN [status |-> IF trips THEN "open" ELSE "closed", consecutive_failures |-> count,
      opened_at |-> IF trips THEN clock ELSE 0, half_open_probes |-> 0]

\* half_open_probes is compared here and counted nowhere.
Refuses(c) ==
  \/ c.status = "open"
  \/ c.status = "half_open" /\ c.half_open_probes >= HalfOpenProbes

\* execute_node up to the first await.
Begin(e) ==
  /\ execution[e].at = "idle"
  /\ LET c == circuit_before(circuit)
     IN IF Refuses(c)
        THEN /\ execution' = [execution EXCEPT ![e].at = "escalated", ![e].current = c]
             /\ circuit' = c
        ELSE /\ execution' = [execution EXCEPT ![e].at = "attempt", ![e].current = c,
                                               ![e].attempt = 1]
             /\ UNCHANGED circuit
  /\ UNCHANGED <<clock, residue>>

\* The operation returns in time: the breaker is closed, whatever was changed before.
Succeed(e) ==
  /\ execution[e].at = "attempt"
  /\ execution' = [execution EXCEPT ![e].at = "succeeded", ![e].current = Closed]
  /\ circuit' = Closed
  /\ UNCHANGED <<clock, residue>>

\* Mutant: partial is that of the last attempt.
LastPartial(e, reported) == reported

\* partial=partial or ...: what any attempt reported is remembered.
AnyPartial(e, reported) == execution[e].partial \/ reported

\* Mutant: one attempt more than the policy allows, whatever the breaker says.
GivesUpLate(e, retryable, c) == ~retryable \/ execution[e].attempt > MaxAttempts

GivesUp(e, retryable, c) ==
  ~retryable \/ execution[e].attempt >= MaxAttempts \/ c.status = "open"

\* The operation raises or its deadline passes, and leaves something changed or not; only
\* what the exception says of it counts.
Fail(e) ==
  /\ execution[e].at = "attempt"
  /\ \E retryable \in BOOLEAN, left \in Left :
       LET c       == circuit_failure(execution[e].current)
           partial == AnyPartial(e, left = "reported")
           next    == IF ~GivesUp(e, retryable, c) THEN "backoff"
                      ELSE IF partial THEN "recover" ELSE "failed"
       IN /\ execution' = [execution EXCEPT ![e].at = next, ![e].current = c,
                                            ![e].partial = partial]
          /\ circuit' = IF next = "failed" THEN c ELSE circuit
          /\ residue' = [residue EXCEPT ![e].left = Both(@, left)]
  /\ UNCHANGED clock

\* The backoff has slept.
Retry(e) ==
  /\ execution[e].at = "backoff"
  /\ execution' = [execution EXCEPT ![e].at = "attempt", ![e].attempt = @ + 1]
  /\ UNCHANGED <<clock, circuit, residue>>

\* The one compensation, if there is one with an idempotency key, done or failed.
Recover(e) ==
  /\ execution[e].at = "recover"
  /\ \/ /\ execution' = [execution EXCEPT ![e].at = "escalated"]
        /\ \E tried \in {0, 1} : residue' = [residue EXCEPT ![e].compensations = @ + tried]
     \/ /\ execution' = [execution EXCEPT ![e].at = "compensated"]
        /\ residue' = [residue EXCEPT ![e].compensations = @ + 1]
  /\ circuit' = execution[e].current
  /\ UNCHANGED clock

\* CancelledError leaves execute_node: nothing is returned, the failures counted so far
\* and a change made are forgotten, that of the attempt cut off with them.  (In the
\* compensation it counts as a failure of it.)
Cancel(e) ==
  /\ execution[e].at \in {"attempt", "backoff"}
  /\ execution' = [execution EXCEPT ![e].at = "cancelled"]
  /\ \E left \in {"nothing", "unreported"} :
       /\ execution[e].at = "backoff" => left = "nothing"
       /\ residue' = [residue EXCEPT ![e].left = Both(@, left)]
  /\ UNCHANGED <<clock, circuit>>

Passes ==
  /\ clock < MaxClock
  /\ clock' = clock + 1
  /\ UNCHANGED <<circuit, execution, residue>>

NodeNext ==
  \/ Passes
  \/ \E e \in Execution : \/ Begin(e) \/ Succeed(e) \/ Fail(e) \/ Retry(e)
                          \/ Recover(e) \/ Cancel(e)

NodeSpec == NodeInit /\ [][NodeNext]_nodeVars
-----------------------------------------------------------------------------
\* "If an operation reports a partial mutation, recovery requires one idempotent compensation
\* attempt": a change that one attempt reported is not lost in those after it, whether they
\* time out, raise something else or trip the breaker.  An execution that ends as failed had
\* no change reported, in no attempt; one that ends as compensated had, and was compensated
\* once; nothing else is compensated, and nothing that succeeded, was cancelled or reported
\* nothing.  (What an attempt changed without saying so, by timing out for one, does end as
\* failed and is compensated by nobody.)
FailuresAccountForChanges ==
  \A e \in Execution :
    /\ execution[e].at = "failed" => residue[e].left # "reported"
    /\ execution[e].at = "compensated" =>
         residue[e].left = "reported" /\ residue[e].compensations = 1
    /\ residue[e].compensations > 0 =>
         /\ residue[e].left = "reported" /\ residue[e].compensations = 1
         /\ execution[e].at \in {"compensated", "escalated"}
===============================================================================
