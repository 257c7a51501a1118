----------------------------- MODULE JobContract -----------------------------
(***************************************************************************)
(* What the durable job queue promises to the code that enqueues a job,    *)
(* with leases, tokens, clocks and workers left out: a job is run a        *)
(* bounded number of times, each run is judged at most once, and a job     *)
(* that is done or dead stays so.  DurableJobs implements it.              *)
(***************************************************************************)
EXTENDS Naturals

CONSTANTS Job,          \* identities: (tenant, job type, idempotency key)
          MaxAttempts   \* durable_jobs.max_attempts

VARIABLES phase,        \* where each job stands
          runs          \* how many times each job was handed to a worker

vars == <<phase, runs>>

Init == /\ phase = [j \in Job |-> "absent"]
        /\ runs  = [j \in Job |-> 0]

Submit(j) == /\ phase[j] = "absent"
             /\ phase' = [phase EXCEPT ![j] = "waiting"]
             /\ UNCHANGED runs

Start(j) == /\ phase[j] = "waiting"
            /\ runs[j] < MaxAttempts
            /\ phase' = [phase EXCEPT ![j] = "running"]
            /\ runs'  = [runs EXCEPT ![j] = @ + 1]

Finish(j) == /\ phase[j] = "running"
             /\ phase' = [phase EXCEPT ![j] = "done"]
             /\ UNCHANGED runs

Retry(j) == /\ phase[j] = "running"
            /\ runs[j] < MaxAttempts
            /\ phase' = [phase EXCEPT ![j] = "waiting"]
            /\ UNCHANGED runs

Bury(j) == /\ phase[j] = "running"
           /\ phase' = [phase EXCEPT ![j] = "dead"]
           /\ UNCHANGED runs

Next == \E j \in Job : Submit(j) \/ Start(j) \/ Finish(j) \/ Retry(j) \/ Bury(j)

Spec == Init /\ [][Next]_vars
=============================================================================
