# Verification of DeskPilot AI ServiceOps

TLA+ specifications of the parts of DeskPilot that keep shared state, the TLC
configurations that check them, and TLAPS proofs of every safety property they check. Every
definition was written from the code under `src/`; `PROJECT.json` gives, for each,
the lines it stands for, and lists the components, runs, mutants, findings, hazards
and theorems.

```
cd tla
tlc -workers 2 -config Database.cfg MCDatabase           # check one run
tlapm DurableJobsProofs.tla                              # check the proofs
```

## 1. Inventory

DeskPilot takes an employee's report about Outlook, printing, scanning or the
network to a verified repair: it asks, diagnoses, proposes, has people approve, runs
typed actions on a Windows endpoint, verifies and closes. The repository holds a
FastAPI service over PostgreSQL and Redis, an AI service of LangGraph nodes, a
worker package, an identity package, two front ends, and a large body of synthetic
data, contracts, certification scripts and documents.

| component | state | operations | talks to |
|---|---|---|---|
| **Durable jobs** `services/api/.../jobs/store.py`, `services/worker/.../retry.py` | `durable_jobs`, `durable_job_attempts` | enqueue, claim, complete, renew, fail | producers in the API, workers |
| **Idempotency** `idempotency.py` | `idempotency_records` | reserve, complete | every incident mutation, in its transaction |
| **Incidents** `incidents/{service,lifecycle,state_machine,events}.py`, `database/repositories.py` | `incidents`, events, outbox | create, update, transition | idempotency, audit, event stream |
| **Event stream** `incidents/streaming.py` | a cursor per connection | authorize, stream | event history, browsers |
| **Audit chain** migration `0006`, `audit/service.py` | `audit_events`, an advisory lock per tenant | append | every transition |
| **Human interrupts** `human_interrupts.py` | records, accepted decisions, an event cursor | create, list, decide | the runtime, consoles |
| **Agent runtime** `agent_runtime.py` | one execution per thread: checkpoint, processed commands, timeline | start, resume, cancel, stream | interrupts, consoles |
| **Remediation review** `remediation_review.py` | reviews | create, decide, execution_route | coordinator |
| **Execution coordinator** `ai-service/.../execution_coordinator.py` | none: pure functions | mint_capability_token, authorize_dispatch | review, execution store |
| **Execution verification** `execution_verification.py` | runs, used tokens | start, record, rollback, verify | endpoints, employee |
| **Closure, handoff** `incident_closure.py`, `human_handoff.py` | cases, closures, custody and audit events | create, acknowledge, record_change, return; close, reopen | incidents |
| **Other API stores** `conversation_stream.py`, `synthetic/digital_twin.py`, `ai_release_management.py`, `evaluation_release_gate.py`, `knowledge_publishing.py` | dictionaries in memory, one record per tenant, environment or release | commands as of a cursor, activations as of a version, approvals, rollbacks | front end |
| **Remote support, governed actions, operations, evidence** | dictionaries in memory | one or two guarded updates each | front end |
| **Rate limits, locks, sessions** `rate_limiting.py`, `distributed_state/` | Redis keys | consume, acquire/release, put/get | middleware |
| **Identity** `backend/src/deskpilot_identity` | sessions, refresh families, step-up grants, seen logout tokens | login, rotate, authorize, log out | API |
| **AI control** supervisor, interrupts, handoffs, node resilience, reducers of the state | the graph state, interrupt requests, circuits | route, interrupt and resume, execute_node, merge | specialists, people |
| **Execution pipeline** `deskpilot_ai_pipeline` | grants of the approval gate, outcomes | prepare, approve_and_execute | tools |
| **Service level** `sla/{engine,calendar}.py` | none | due time of a target | incidents |
| **AI persistence** persistence, replay, migrations | checkpoints, threads | put, resume, migrate | PostgreSQL |
| **AI content** specialists, planning, evidence, routing, firewall | none | one input to one output | supervisor |
| **Front end transport** `frontend/src/lib/{streaming,reliability,session}` | sockets, timers, in-flight requests | start, stop, reconnect, retry | API |
| **Certification** the other `backend/src` packages, `scripts/` | reports | score fixed data | none |

### Where it is hard

* **Concurrency in PostgreSQL.** Requests are coroutines in one or several processes,
  each a transaction under READ COMMITTED. What excludes them from each other is the
  unique index of the idempotency record, the row's version in an `UPDATE ... WHERE`,
  the advisory lock of the audit chain, and `SKIP LOCKED` for jobs.
* **State read before it is used.** A transition's guards are counted in a session of
  their own, before the transaction that depends on them.
* **Leases.** A job and an idempotency record each belong to their holder for 60
  seconds; a holder that takes longer does not know.
* **Retries.** Clients send a request, a decision or a command again when the answer is
  lost, and a second person may answer the same question.
* **Late answers.** Endpoints answer after their deadline, and after the run has been
  routed on a timeout.
* **Partial failure.** A worker dies between claim and complete; some actions of a run
  fail and some of those cannot be undone.
* **Stale authority.** A plan is replaced while the approval, the token and the resume
  envelope of an earlier one are still around; a session is rotated while a step-up for it
  waits at the provider; a release is evaluated again between an approver's look and
  their approval.
* **Callbacks that come late.** Browser sockets, event sources, timers and requests go on
  after `stop()`, after a newer request, or twice over.
* **Time that goes back**, keys that expire, commands to Redis that run after their caller
  gave up on them.
* **Bounded memories**: a hundred conversation events, two thousand event ids, lists of
  the graph state cut to a length.
* **Stores in memory** (interrupts, runtime, reviews, runs) change only in synchronous
  methods called from one event loop, so each call is atomic: what is hard there is the
  *order* of calls, not their interleaving. They lose everything at a restart, which
  they make no promise about, so restarts are not modelled for them.

### What makes each part correct

* Jobs: no job is handed to two workers at once; only the holder of the current lease
  may report; the attempt history agrees with the row and never changes; a job is run a
  bounded number of times and judged once.
* Requests: one effect per key, whatever is retried; no lost update; the event history
  is a path of the state machine and explains the status; a guarded transition commits
  in the version its guards were read in; the audit chain neither forks nor skips; a
  stream skips nothing; no request waits for ever.
* Interrupts and runtime: one verdict per interrupt; every command of an execution acted at
  the point its console saw, and one of those written at one point; a timeline without holes.
* Remediation: one run per approval, of what still stands approved; a report once taken
  stands; `rolled_back` and `verified` tell the truth about the device; every run of distinct
  actions ends.
* Identity: never more usable sessions than the limit, and never the newest taken for it;
  a session and its replacement are not usable together; a reused refresh token ends its
  session; an answered logout ends its sessions and takes their tokens.
* Support graph: no change goes out over a no or an open question, and each under the last
  approval given; what is called resolved was verified after its last change and then
  confirmed; merging the updates of parallel nodes does not depend on their order.
* Node resilience: what any attempt reported as changed is accounted for in what is returned.
* Custody: one custodian, who returns only what they changed; events from which the row can
  be told; every closure audited.
* Grants: an approval pays for one execution of its plan in its session, a step-up for one
  action in its session, soon after the user authenticated.
* Limits and locks: no more than a bucket's capacity beyond its refill; a lock belongs to
  whose grant stands and to nobody else.
* Browser transport: one line of connections, and one more at most for each start that does
  not wait until the last is silent; none after a stop; every event
  once and in order as far as the ids are remembered; a mutation once per call; no older
  answer after a newer one.
* Stores with a history: cursors, journals, events, gates and generations tell what
  happened.

## 2. Modules

| module | models | lines it grew from |
|---|---|---|
| `JobContract` | what the queue promises a producer: an abstract specification | none, it is what `DurableJobs` is shown to implement |
| `DurableJobs` | the store, its workers and its clock | `jobs/store.py`, `retry.py`, migration `0010` |
| `IncidentContract` | what the incident API promises its clients: an abstract specification | none, it is what `IncidentRequests` is shown to implement |
| `IncidentRequests` | composition: incidents, idempotency, audit and stream under concurrent requests | `incidents/`, `idempotency.py`, `repositories.py`, migrations `0006`, `0011` |
| `AgentRuntime` | composition: interrupt inbox, runtime, consoles | `human_interrupts.py`, `agent_runtime.py` |
| `RemediationRun` | composition: review, token, dispatch, execution store, endpoint | `remediation_review.py`, `execution_coordinator.py`, `execution_verification.py` |
| `IdentitySessions` | composition: session manager, token vault, the HTTP handlers that await | `deskpilot_identity/{sessions,token_vault,service,logout,fastapi_adapter,oidc}.py` |
| `StepUp` | step-up authentication around those sessions | `deskpilot_identity/{step_up,enforcement,policy,fastapi_adapter}.py` |
| `SupportGraph` | composition: supervisor, handoffs of all nodes, the three interrupts, mint and dispatch | `deskpilot_ai/` supervisor, interrupts, planner, critic, coordinator, verification, intake, clarification, routing |
| `StateChannels` | the reducers of the graph state | `deskpilot_ai/state.py` |
| `NodeResilience` | attempts, breaker and compensation of a node | `deskpilot_ai/node_resilience.py` |
| `ExecutionPipeline` | approval gate and tool dispatcher | `deskpilot_ai_pipeline/{orchestration,approval,tools,loop_guard}.py` |
| `HumanCustody` | composition: handoff cases and closures | `human_handoff.py`, `incident_closure.py` |
| `RateLimits` | composition: Redis script and in-process limiter over one clock | `rate_limiting.py`, `deskpilot_api_security/rate_limit.py` |
| `SharedLock` | the lock in Redis | `distributed_state/locks.py` |
| `ServiceLevel` | due times | `sla/engine.py`, `sla/calendar.py` |
| `SocketClient` | the reconnecting WebSocket client | `streaming/websocket-client.ts` |
| `EventSourceClient` | the reconnecting event-source client | `streaming/sse-client.ts` |
| `BrowserRequests` | composition: request manager, `apiRequest`, retries, the API behind them | `reliability/{request-manager,api-client,retry}.ts` |
| `ConversationStream` | the conversation and the windows that read it | `conversation_stream.py` |
| `DigitalTwin` | the synthetic environment | `synthetic/digital_twin.py` |
| `Releases`, `EvaluationGate` | bundles and deployments; the gate of a release | `ai_release_management.py`, `evaluation_release_gate.py` |
| `KnowledgeVersions` | articles and their index generations | `knowledge_publishing.py` |
| `SupportServices` | composition: the seventeen components that share no state, side by side | the modules from `StepUp` on |
| `*Proofs` | the theorems of section 5: of the module they are named after, and in `TransportProofs` those of the browser's clients, node resilience, rate limits and the lock, in `SupportServicesProofs` those of the other components and of all together | |
| `MC*` | constants and symmetry for TLC; `MCDatabase` sets the job queue and the incident requests side by side, each a behaviour of its own | |

Definitions whose comment begins with *Mutant* are what a plausible bug would make of
the definition that follows them. No specification uses them; they show that each
property can fail.

### DurableJobs

`job[j]` is the row of the job with that unique key, `attempts[j][n]` the row of its
n-th attempt, `claiming[w]` what worker `w` has selected and not yet committed. A claim
is *two* actions: `ClaimSelect` runs the statement that picks the most urgent due row
not locked by another, `ClaimCommit` makes lease and attempt visible, `ClaimAbort` rolls
back. `Complete`, `Renew` and `Fail` are one conditional `UPDATE` each, and may be called
with any token the worker was *ever* given, so late, repeated and superseded reports all
occur. Wall-clock time is two countdowns per row (`lease`, `wait`) that `Tick` decreases;
the random lease token is the number of the attempt it opened. A call whose `WHERE`
matches nothing changes nothing and is a stuttering step.

### IncidentRequests

`call[s]` is where execution `s` of a request is. Its actions follow the code's
statements: `ReadGuards` (transition only, before the transaction), `Reserve`, `Decide`,
`Change` or `Insert`, `AppendAudit`, `Commit`, and `Abort` at any point for a lock
timeout, a failed statement or a lost process. `keyLock`, `rowLock` and `auditLock` are
what PostgreSQL holds for an uncommitted transaction; the committed tables change in
`Commit` alone. A reservation's 60 seconds may have passed by then (`late` in `Commit`):
`IdempotencyStore.complete` matches no row, its result is ignored, and the mutation
commits without its record. `effects` and `replies` are history variables. `Open`, `Poll`
and `Reconnect` are the reader of the stream, by pages of `Batch`.

If-Match is a version the server gave out, at most the current one: a client that makes
one up can name a version yet to come, which the model leaves out because no view shows
it. `GuardsReadInVersion` rests on it.

### AgentRuntime

One thread. Decisions and commands, once written, stay in `decisions` and `commands` and
any of them may arrive at any time and any number of times: that is loss, duplication and
reordering at once. A checkpoint is the start command and the decisions that led to it,
which is what the code's chained digest stands for. `Start` over a terminal execution
replaces it, with its processed commands and timeline, as the code does. The two stores
are not wired together in the repository; the model takes an interrupt's
`checkpoint_id` to be the runtime's checkpoint when it was raised. A resume may carry any
fingerprint (`Compose`): of a decision on this interrupt or another, accepted, refused, used
before, or not made at all, since `RuntimeStore.apply` looks at its length only. So what the
runtime does promise is about checkpoints (`CommandsActWhereSeen`), and the documented promise
about decisions is violated (`ResumesAreValidated`).

### RemediationRun

`Submit`, `Decide` are the review's; `Mint` is `mint_capability_token`, which can be asked
again; `Start`, `Record`, `Rollback`, `Verify` are the execution store's, each with every
status it can lead to. `Dispatch`, `TimeOut`, `GiveUp` and `Undo` are the endpoint and
whoever drives the run, which the repository leaves to a deployment: an action succeeds,
fails, applies in part, or is answered for by a timeout, and a report may arrive in any
order, again, or after a different one. `device` is what is really in place. An endpoint
does not apply an action after its dispatch was answered or given up. A run's actions are
held as a set, with `repeated` for a list that names an `action_id` twice, which `start` accepts:
results are kept by `action_id`, so the counts it waits for are never reached (`Complete`) and
such a run goes on for ever.

### IdentitySessions

The sessions of one subject in one tenant. The managers never await, so each of their calls
is one action; the handlers do, and a slot of `request` holds what one read before: a login
callback its time (`LoginArrives`, then `LoginCompletes` issues *as of that time*), a
`/logout` its session (`LogoutArrives`, then `LogoutOne` or `LogoutAll`). The cookie of a
request may be any token handed out so far. `Victims` is the set of outcomes of the loop of
`_enforce_concurrency`: it orders by last use and age and breaks ties by random ids. A
family is the refresh token in use and those used before; a provider may hand the same
token back, which the next refresh reports as reuse. A revoked record keeps its lineage
only, since nothing else of it is read. `Rotate`, `Refresh` and `Drift` have no caller in
the repository and may happen at any time. A family may outlive its session after a
rotation, an eviction or a back-channel logout, and after `logout_all` in one case: the session
that asked is rotated, evicted or expired while its body is read, and is then not among the
active ones whose vault entries `logout_all` empties. `loggedOut` holds every session an answered
logout was to end, that one included, and `late` those it found over.

### SupportGraph

`state` holds the fields of `DeskPilotState` that routes and handoffs read, `node` the node
that runs next. Each node is one action: it returns the update its module's handoff
computes, the reducer merges it, and `Route` (`route_supervisor`, after `Valid`) picks the
next node or raises. Scores and texts decide *which* update a node returns; here any it can
return is taken. `Decide` is `validate_resume`, `Expire` the deadline of a request; the three
`...Resumed` actions are the interrupt nodes given an envelope, which may be an old one.
`change`, `built` and `checked` are history. The caller of the graph is not in the repository:
it is taken to attach the requests, to be free to send an envelope again, and, while the status
says that an approval stands, to mint a token of *any* plan (`TokenFor`): `mint_capability_token`
is handed the status and a plan and compares the two with nothing, and the approval in the state
names no plan. So a plan built after the approval can be executed under it.

### NodeResilience, StateChannels

Executions of a node overlap at their attempts, backoffs and compensation, each with the
circuit value it read (`current`); `execute_node` returns a circuit and the caller is taken
to keep the last one returned. What an attempt changed and what its exception says of it are
two things: only a `NodeFailure` carries `partial_mutation`, a timeout says nothing. `residue` is
what failed attempts left, reported or not, and how often compensation ran. Every reader of a half-open circuit probes, since the count of probes is
read and never written. `StateChannels` merges updates in any order and again, over records
with an id, a place to be ordered by and a canonical form that breaks ties.

### ExecutionPipeline, StepUp

Both issue grants. In the pipeline a prepared outcome is a value that may be executed again,
with the same grant, another, or one the engine issues itself, while tools take time and
raise before or after they changed the device. Outcome, context and incident are arguments of
their own (`ExecuteApproved(r, c, i, g)`): the gate compares plan and session with the grant, the
incident only has to be of the tenant. In `StepUp` the two handlers that await hold
what they read (`/step-up` its session, `/callback` its time), sessions end and expire
meanwhile, and a browser may present any state and any grant it was given.

### HumanCustody and the other stores of the API

A call is atomic. What is modelled is which calls are made, by whom and in which order, each
as of what the caller read: a cursor of the conversation, a version of the twin, a run that
an approver looked at. `HumanCustody` keeps custody events and audit trail; `Releases` and
`EvaluationGate` are kept apart because the code does not connect them (a bundle's evaluation
run is only looked at for its length).

### RateLimits, SharedLock, ServiceLevel

Time is in ticks and the clock may be set back (`SetBack`). `excess[b]` is the most that any
stretch of time took from bucket `b` beyond its refills. A step of `Consume` is one evaluation
of the script, over all the buckets it is given or none; a lost reply makes one more. In
`SharedLock` a command is sent, runs at some later moment, and its answer arrives or is lost;
`given` is the moment until which an object may believe to have the lock. `ServiceLevel` counts
in half minutes, so that a report can come between two minutes; a round of
`add_minutes` is one step.

### SocketClient, EventSourceClient, BrowserRequests

Every socket, source and timer ever made stays in the model until its last callback, and the
client keeps the handles the code keeps: a timer whose handle is overwritten is still set.
The server of the event source begins after the id it is told or at the first event, because
the incident API reads the `Last-Event-ID` header only. `lines` counts the starts of the
socket client since everything was last silent. In `BrowserRequests` an attempt that
timed out or was aborted may still be performed; the API performs a keyed mutation once, which
is what `OneEffectPerKey` shows of it.

## 3. Runs

| run | checks | instance |
|---|---|---|
| `database` | `ClaimExclusive`, `AttemptLedger`, `HistoryImmutable`, `OnlyLeaseHolderActs`, `ImplementsContract`, `EventuallySettled`; `AuditChain`, `EveryCallEnds` | jobs: 2 of different priority, 2 workers, 3 attempts, lease of 2 ticks, delays up to 2; or requests: 2 executions on 2 incidents of one tenant, one of them changed under 2 keys, and 2 keys to create under |
| `jobs_at_least_once` | `AtLeastOnce`, **violated** | jobs alone, with 2 attempts |
| `incident_requests` | `OneEffectPerKey`, `HistoryExplainsStatus`, `StreamSkipsNothing`, `GuardsReadInVersion`, `ImplementsContract` | 2 executions, 1 incident, a reader with pages of 1 |
| `completion_with_mutation` | `CompletionCommitsWithMutation`, **violated** | 1 execution |
| `agent_runtime` | `OneVerdict`, `CommandsActWhereSeen`, `TimelineHasNoHoles` | an approval and a consent, 2 decisions, 3 commands, 1 console |
| `start_once` | `StartOnce`, **violated** | 4 commands |
| `resumes_are_validated` | `ResumesAreValidated`, **violated** | 1 decision, 2 commands |
| `remediation_run` | `RunsStandApproved`, `EndsAsItSays`, `ReportsStand`, `EveryRunEnds` | 1 plan of 3 actions (2 reversible), 2 runs, with or without a repeated action, 2 mints |
| `identity_sessions` | `LimitHolds`, `NewSessionIsKept`, `OneHeir`, `ReuseEndsSession`, `LogoutTakesTokens` | 3 sessions, limit 2, lifetime 2 ticks of 3, 2 handlers, 1 provider session, 1 logout token, 1 refresh token |
| `every_check` | `ResolutionNeedsEveryCheck`, **violated** | 1 plan of 2 actions, 1 run |
| `support_services` | see below | seventeen components, each alone |
| `declined_consent` | `DeclinedConsentCancels`, **violated** | 1 plan, 1 clarification round, 3 requests |

The initial state of `database` chooses the job queue or the incident requests. Two sessions
there contend for three locks at once: both may want one key, one row and the tenant's chain, so
an order other than key, row, chain would show as a cycle. The initial state of
`support_services` chooses one component and only that one moves: the
states of the run are those of its parts added up. `PartsTypeOK` is the types of all.

| part | property | instance |
|---|---|---|
| `SupportGraph` | `ChangesStandApproved`, `ResolvedIsVerified` | 2 plans, 3 rounds, 6 requests |
| `NodeResilience` | `FailuresAccountForChanges` | 2 executions of 3 attempts, threshold 3, 4 ticks |
| `SocketClient` | `LinesAccountedFor` | 5 sockets, 3 starts between silences, 2 reconnects |
| `EventSourceClient` | `EventsOnceInOrder` | 4 events of which one breaks the schema, 4 sources, 2 starts, 2 ids remembered |
| `HumanCustody` | `CustodyIsTraceable` | 1 case, 2 resolvers; 2 closures, 5 audit events |
| `ExecutionPipeline`, `StepUp` | `GrantsPayOnce` | 2 outcomes, contexts and incidents (2 plans, 2 sessions) in every pairing, 2 grants, 2 changes; 2 sessions, 2 scopes, 2 transactions, 2 grants, 2 handlers |
| `BrowserRequests` | `CallsInTurn` | 3 calls of one key (with idempotency key, without, a read), 2 attempts |
| `RateLimits` | `BurstIsBounded` | a tenant's and two users' buckets, one of a process, 4 ticks, 1 step back |
| `SharedLock` | `GrantIsKept` | 2 objects with different times to live |
| `ServiceLevel` | `DueWhenWorked` | days of 8 half minutes, weeks of 3 days with 2 holidays |
| `StateChannels` | `MergesAreOrderFree` | 7 versions of 3 records, room for 2; 3 nodes, counts for 2 |
| `ConversationStream`, `DigitalTwin`, `Releases`, `EvaluationGate`, `KnowledgeVersions` | `HistoriesTell` | 2 windows over the last 2 events; 2 operators, 3 faults; 2 bundles, 1 environment; 2 evaluators, 2 policies, 2 runs; 2 candidates, 4 versions |

The type invariants `TypeOK` of `DurableJobs`, `IncidentRequests`, `AgentRuntime`,
`RemediationRun` and `IdentitySessions` are proved (section 5) and no run repeats them.

**Why the bounds are enough.** Two workers, executions or approvers are what a race
needs: the properties speak of pairs. Two jobs of different priority are enough for one
to be preferred over, and to hold up, the other. Three attempts give a first, a middle
and a last one, which are the cases `fail` tells apart; a lease of two ticks can be
renewed with time left and can run out. In the incident runs a first and a second
transition, an edit between them and a retry of either all fit; pages of one event make
every poll stop in the middle. Three commands are a start, a resume and its repetition or
a cancel. Two mints let a second token of one approval meet the first's run; three
actions of which one has no rollback give every route. Three sessions are one over the
limit, with a callback that is older than both others; one refresh token is one that the
provider hands back, and so the one that is used twice. In the graph two plans are one to be
approved and one to come after it, and six requests allow a consent, an approval of each, and
two confirmations. Three attempts and a threshold of three let one execution open the circuit
alone, two executions open it together. Three starts of a client are two that overlap and one
more, and stops and restarts go on from silence; five sockets let each of two lines reconnect. A level of capacity 2 or 3 refills and
runs dry within four ticks, one of them made twice. A window over two events loses one at the
third. Symmetry is used only where
identities are interchangeable and only in runs without liveness.

**Deadlock** is checked in `database` and `incident_requests`. It is off in the runs of
`AgentRuntime`, `RemediationRun`, `IdentitySessions` and of the seventeen components: when all
interrupts are decided, all commands applied, all runs and graphs ended, all sessions over and
all clients stopped there is nothing left to do, and the system may stop.

**What the violated runs show.** Each quotes a sentence of the documentation that the code
does not keep; `PROJECT.json` gives the lines.
1. A job whose worker dies stays leased: delivery is *at most* once per attempt.
2. A mutation outlives its idempotency lease and commits without its completion record.
3. A retried `start` begins a second execution, once the thread has been restarted.
4. A run of part of a plan is `verified` without the rest of the plan's checks.
5. A resume under the fingerprint of a decision nobody made, or that was not accepted, resumes
   the execution; so does one that was used before.
6. A declined consent leaves a terminal phase without its final status: the validator finds it
   and the graph raises, where it should end as cancelled.

## 4. Fairness

* `DurableJobs`: time passes, a worker that can claim does so, a claim tried again and
  again commits once, a handler whose lease is kept alive returns and reports. The
  polling loop is not in the repository; this is what it has to do, and nothing more:
  renewal and enqueueing need not happen.
* `IncidentRequests`: the event loop runs every request, and PostgreSQL queues for a lock
  in turn: strong fairness of each execution's next statement. `Abort` is not assumed to
  happen, so `EveryCallEnds` shows that the locks are taken in one order, not that a
  timeout breaks a deadlock.
* `RemediationRun`: the coordinator goes on until each action is answered, each failed one
  was tried to be undone and the employee was asked, and reports arrive. Approvals, mints
  and starts need not happen.
* The other modules state no liveness: nothing obliges a person to decide or to log out, a
  server to answer, or a browser to stay open. Of `add_minutes` it is only shown, as a safety
  property, where the loop makes no progress: `NeverDue` tells from opening time and minutes the
  targets that never get a due time, and for no other does a round leave everything as it was.
  That the loop then comes to an end is not stated.
* `EveryRunEnds` speaks of runs of distinct actions. One with a repeated action is not
  promised an end, and has none.

## 5. Proofs

Each holds for every value of the constants that the assumptions of its module allow.

| module | theorem | statement |
|---|---|---|
| `DurableJobsProofs` | `TypeCorrect` | `Spec => []TypeOK` |
| | `ClaimsAreExclusive` | `Spec => []ClaimExclusive` |
| | `LedgerHolds` | `Spec => []AttemptLedger` |
| | `HistoryIsImmutable` | `Spec => HistoryImmutable` |
| | `LeaseFencesCalls` | `Spec => OnlyLeaseHolderActs` |
| | `StoreImplementsContract` | `Spec => ImplementsContract` |
| `IncidentRequestsProofs` | `TypeCorrect` | `Spec => []TypeOK` |
| | `KeysAreSpentOnce` | `Spec => []OneEffectPerKey` |
| | `NoLostUpdate` | `Spec => []EditsBuildOnWhatWasSeen` |
| | `HistoryTells` | `Spec => []HistoryExplainsStatus` |
| | `StreamsAreWhole` | `Spec => []StreamSkipsNothing` |
| | `ChainIsWhole` | `Spec => []AuditChain` |
| | `GuardsAreFresh` | `Spec => GuardsReadInVersion` |
| | `RequestsAreAtomic` | `Spec => ImplementsContract` |
| `AgentRuntimeProofs` | `TypeCorrect` | `Spec => []TypeOK` |
| | `SettledOnce` | `Spec => []OneVerdict` |
| | `ActsWhereSeen` | `Spec => []CommandsActWhereSeen` |
| | `TimelineIsWhole` | `Spec => []TimelineHasNoHoles` |
| `RemediationRunProofs` | `TypeCorrect` | `Spec => []TypeOK` |
| | `RunsAreApproved` | `Spec => []RunsStandApproved` |
| | `EndsHold` | `Spec => []EndsAsItSays` |
| | `ResultsStand` | `Spec => ReportsStand` |
| `IdentitySessionsProofs` | `TypeCorrect` | `Spec => []TypeOK` |
| | `LimitIsHeld` | `Spec => []LimitHolds` |
| | `NewestIsKept` | `Spec => NewSessionIsKept` |
| | `RotatedOnce` | `Spec => []OneHeir` |
| | `ReuseIsTheEnd` | `Spec => []ReuseEndsSession` |
| | `LogoutIsTheEnd` | `Spec => []LogoutTakesTokens` |
| `SupportGraphProofs` | `TypeCorrect` | `SupportSpec => []SupportTypeOK` |
| | `NoChangeOverANo` | `SupportSpec => []ChangesStandApproved` |
| | `ResolvedWasVerified` | `SupportSpec => []ResolvedIsVerified` |
| `TransportProofs` | `ChangesAccountedFor` | `NodeSpec => [](NodeTypeOK /\ FailuresAccountForChanges)` |
| | `SocketLinesAccountedFor` | `SocketSpec => [](SocketTypeOK /\ LinesAccountedFor)` |
| | `EventsHandedInOrder` | `LineSpec => [](LineTypeOK /\ EventsOnceInOrder)` |
| | `CallsTakeTheirTurn` | `RequestsSpec => [](RequestsTypeOK /\ OnceForEachCall /\ AnswersInOrder)` |
| | `BurstsAreBounded` | `RatesSpec => [](RatesTypeOK /\ BurstIsBounded)` |
| | `LockIsKept` | `LockSpec => [](LockTypeOK /\ GrantIsKept)` |
| `SupportServicesProofs` | `GatesOpenForTheirRun` | `GateSpec => [](GateTypeOK /\ OpenedForItsRun)` |
| | `ChangesArePaidFor` | `PipelineSpec => [](PipelineTypeOK /\ EachChangeItsGrant)` |
| | `GenerationsKeepOrder` | `KnowledgeSpec => [](KnowledgeTypeOK /\ GenerationsTell)` |
| | `StepUpsPayOnce` | `StepUpSpec => [](StepUpTypeOK /\ OneActionPerStepUp)` |
| | `CustodyIsKept` | `CustodySpec => [](CustodyTypeOK /\ CustodyIsTraceable)` |
| | `ConversationIsTold` | `ConversationSpec => [](ConversationTypeOK /\ ConversationTells)` |
| | `DeploymentsExplained` | `ReleaseSpec => [](ReleaseTypeOK /\ EventsExplainDeployment)` |
| | `TwinIsExplained` | `TwinSpec => [](TwinTypeOK /\ JournalExplainsTwin)` |
| | `MergesCommute` | `ChannelSpec => [](ChannelTypeOK /\ MergesAreOrderFree)` |
| | `DueTimesAreWorked` | `SlaSpec => [](SlaTypeOK /\ DueWhenWorked)` |
| | `PartsStayTyped` | `Spec => []PartsTypeOK` |
| | `GrantsArePaidOutOnce` | `Spec => []GrantsPayOnce` |
| | `CallsStayInTurn` | `Spec => []CallsInTurn` |
| | `HistoriesAreTrue` | `Spec => []HistoriesTell` |

**DurableJobs.** The inductive invariant is `IInv == TypeOK /\ ClaimExclusive /\
AttemptLedger`. None of the three is inductive alone. That a commit opens attempt
`attempt_count + 1` *within* `max_attempts` needs to know that the covered row is still
pending (`ClaimExclusive`), because a pending row has attempts left (`AttemptLedger`); that
a covered row stays pending needs that no other claim covers it, and that `Complete` and
`Fail` touch only leased rows. The fencing of late calls follows from the ledger: a leased
row's token is its attempt count and only that attempt is open. Immutability follows
since closing "all open attempts of the job" closes exactly one. The refinement maps a
row's status to a phase and `attempt_count` to `runs`; `ClaimCommit` is `Start`, `Fail` is
`Retry` or `Bury`, and the bound on `runs` that `Start` and `Retry` need is again the
ledger's.

**IncidentRequests.** `IInv` says, besides the properties, what an execution relies on while it
is under way (`Fit`): from `Reserve` on its key's lock is its own and the record of the key is
free; from `Change` on the row's lock is its own and the row is still as it was read; from
`AppendAudit` on the tenant's lock is its own and the sequence it took is one beyond the
chain. Each of these survives the steps of others because they need the same lock. `Commit` is
then the only step that matters: the free record gives `OneEffectPerKey`, the unchanged row
gives `EditsBuildOnWhatWasSeen` and, with the version the guards were read in lying between
the client's and the row's, `GuardsReadInVersion`; the sequence gives the chain. For
`HistoryExplainsStatus` the invariant also has that any prefix of a history has a last event,
so that the `CHOOSE` of the property names it. `StreamSkipsNothing` follows because no event
of a version at or below the row's is ever added.

The contract has a table of incidents on which a request acts in one step, if its key was not
spent and the version it names is the current one, and a log of the transitions. The rows are the
table, and the log's entries are the rows of the audit chain by number, each with the status of
the event of its version. Only `Commit` changes any of these: it finds the row and the free record
as it left them under its locks, its number is one beyond the chain, and no older row or event has
that number or version, so the entries before it stay what they were (`LoggedAtCommit`). No lost
update (`EditsBuildOnWhatWasSeen`) is part of the invariant and of the contract, and no run repeats
it.

**AgentRuntime.** The inbox part ties record, log and accepted decisions of an interrupt; the
path part (`Follows`) says that the events of the timeline are the steps of the path to the
checkpoint, each by a command written at the path before it. Two commands written at one point
name the same path, and the path is longer once the first has acted. For the consoles: what a console read first is an incarnation, a start command with its
count, and counts only grow, so an incarnation it does not follow never comes back.

**RemediationRun.** A token's identity is its plan and its approver; an approved review has left
`pending`, so it never changes, and all tokens of a plan have one identity, of which the
store takes one run. `Reported` relates reports in flight to the device: a success reported
and not contradicted by what was recorded is in place, an undone action is not, and
nothing is undone before the run left `running`.

**IdentitySessions.** A session issued as of an older time counts no fewer active sessions than
now, so the excess taken then suffices; revoking and the clock only make fewer. Lineage says
that a parent is over and has one heir. A family is empty for a session not issued and for one
logged out, unless that was over before `logout_all` came to it; only issuing could refill it.

**SupportGraph.** A request stands only while the graph waits at the node that answers it, for
the plan in the state, and what is on record about it is about that plan (`AskOK`). While the graph
goes on, every other request raised so far was answered with a yes (`AnswersOK`): a no ends the
run, and an unanswered one is waited for. The approval in the state is on record under its
request, none was given after it, and it is of the plan in the state as long as no other was
built (`GrantOK`). A change copies what these say at that moment, and requests, answers and
approvals that come later are beyond the ones it counts. Nothing is assumed of tokens, which the
caller may mint for any plan. The conversation of the other nodes changes neither approval nor
grant (`PassesOn`).

**NodeResilience.** `ChangesKnown`: an execution knows in `partial` whether one of its attempts
reported a change, recovers only then, and is compensated no earlier. Unreported changes it does
not know, and ends as failed over them. Nothing rests on the circuit
value an execution read, which may be any that there was.

**SocketClient.** A line is a socket that may still call back, or a reconnect waiting. Each line
has its own last socket, so a step makes a line into one other at most, and only `start` adds
one: there are never more than starts since the last silence, at which there are none. With one
start since then, what the client's handles hold is the only line (`OneLine`), so `stop` ends it.

**EventSourceClient.** The same of sources and timers (`AliveInv`); and of the events
(`HandedInv`), that those a source has passed, those up to the client's last id and those it
remembers were handed to the page unless they broke the schema, and that what was handed over
and is not remembered was forgotten. A source that goes on after the last id, or from the
beginning, then leaves none out and repeats only what the memory of ids has lost.

**BrowserRequests.** `SentFor` counts, for each call, what was performed and what is on the wire
against the attempts made: a call with an idempotency key is performed once however many there
are, one that is not safe to retry is sent once. `HoldsKey` says that the call under way is the
one begun last, and that it holds the controller of the key: a newer call has aborted the older
one.

**RateLimits.** `excess[b] + Level(b) <= Capacity[b]`: what was taken beyond the refills is not
in the bucket. A key expires only when its bucket has filled by the script's own account, also
after the clock was set back.

**SharedLock.** Beside the property, that the key lasts exactly as long as the grant of the
object whose token it holds.

**ExecutionPipeline, StepUp.** A call of the pipeline that is remediating has consumed a grant of
its plan and session with which no change was paid; one that is verifying has changed the device of
its incident. A transaction of a step-up, once consumed, is with one callback that
waits for the provider or in one grant, and a grant in one use (`EachOnce`); the callback read the
time before it waited, which is why a grant can outlast its authentication by two lifetimes.

**HumanCustody.** `Traced` gives each event its place (`ByPlace`): the first queues the case, the
second acknowledges it, the third records a change and the rest are returns, all by one person, who
is the owner from the second on. Both properties can be read from the places. `Audited`: closures and
reopenings alternate in the trail, and a row is closed after an odd number of them.

**ConversationStream.** The kept events are the last ones (`KeptTail`), so a window whose cursor
is before the first of them is given a full list. The stop is the last thing said because nothing
is accepted after it.

**Releases, DigitalTwin, KnowledgeVersions, EvaluationGate.** What the properties say of a whole
history is carried field by field and place by place (`Tells`, `Replay`, `PointsAt`): one more
event, or one entry less, changes the last only. The greatest index that the properties
choose exists because the indexes are a finite set. A gate that is open, or may be opened, holds a
run that its policy does not block.

**StateChannels.** `First(S, order, n)` is the `n` first of a finite ordered set, and the first of
what was first and of something more are the first of all (`FirstOfFirst`): a record left out had
`n` before it, and still has. With the greatest version of each id taken first (`MergedAgain`), the
channel is always what all updates together give, in whatever order they came; where the versions
of a record disagree on its place, only the number of ids is carried. This is proved from the
order itself, without induction over the sequence of updates.

**ServiceLevel.** `Worked` counts open half minutes as a cardinality; that of two adjoining spans
is the sum (`WorkedOn`), that of an open span its length (`AllWorked`). A round of `add_minutes`
either passes over time that is closed or works off what it passes (`RoundWorks`), so the account
`Worked(opened, cursor) = 2 * (minutes - remaining)` is kept, and a found time ends an open half
minute. A round neither leads into `NeverDue` nor out of it, since it takes as much from the
minutes as from the rest of the day, and only there can it leave everything as it was.

**SupportServices.** Every step of the whole is, for each component, one of its own steps or none
(`PartsStep`), and the initial states are initial for each, so its specification implies all
seventeen (`PartsBehave`). What was proved of a component alone then holds of it among the
others.

The assumptions are those the modules name and TLC evaluates: mostly that bounds are natural
numbers and that the value for "none" is none of the others; `PlanAssumption`, that every plan
has an action; `BucketAssumption`, that capacities and rates are positive and the
shared and the local buckets different ones; `IdentityAssumption`, that sessions are finitely
many, as a cardinality is compared with the limit.

**Only model-checked:** the liveness properties `EventuallySettled`, `EveryCallEnds` and
`EveryRunEnds`, which under fairness are out of this prover's reach. The properties of the
violated runs are false of the code, so there is nothing to prove. Every invariant and every
action property of a passing run is stated by a theorem.

## 6. Plan

1. *(done)* the job queue, its contract and its proofs;
2. *(done)* incident requests; interrupts and runtime; remediation; their proofs;
3. *(done)* identity sessions and their proofs; step-up;
4. *(done)* the support graph, its proofs, its reducers, node resilience, the execution pipeline;
5. *(done)* custody, the stores with a history, limits, the lock, due times;
6. *(done)* the browser's sockets, event sources and requests;
7. *(done)* the proofs of all other components, and of all side by side;
8. *(done)* the abstract specification of `IncidentRequests`, a table of incidents on which each
   key acts at most once and atomically, and the proof that the requests implement it;
9. left: abstract specifications of what a lock, an approval and a session promise, and that
   `SharedLock`, `RemediationRun` and `IdentitySessions` implement them; remote support, whose
   decisions can be repeated; the frontend's `ResourceScope` and optimistic
   updates; checkpoint heads and replay, once the graph calls them.

## 7. Not modelled, and why

* **Pure functions of small input** (priority, domain routing scores, evidence
  fusion, prompt firewall, planners): no state; the repository's unit tests reach them.
* **Row-level security and tenant scopes**: every model fixes one tenant.
* **Digests, hashes, schemas, formatting**: injective names.
* **Certification packages, scripts, synthetic data**: they observe fixed data.
* **The ORM's in-session objects**: `lifecycle.py` reads the old status after a bulk
  `UPDATE` to write it into an event; whether it is still the old one is the library's
  choice, so the event's `from` field is left out of the model.
* **The outbox's dispatcher, the worker's loop, the endpoint**: not in the repository; each
  is modelled from how the code here uses it.
* **Most of the AI content, certification and validation code** (scorecards, simulations,
  ranking, redaction, contract validators, page components): one input to one output. It is
  the larger part of the repository by lines, and a state machine of it would say what the code
  says. Of each specialist only the outcomes it can hand on are in `SupportGraph`.
* **Code without a caller**: the graph's step budget and `guard_transition`, the `cancel` node
  and the "rejected" route, `persistence.advance_head`, `replay.plan_execution`, the session
  store of `distributed_state`, `approval_validation`, the governance validators. What it would
  mean depends on a caller that is not written.
* **Remote support and governed actions**: one guarded update per call. A decision of remote
  support can be repeated: revoking one session leaves another that was allowed, and two within
  a second share an id.
* **Frontend session recovery, resource scopes, optimistic updates**: a disposer that disposes
  again runs twice and one that throws leaves the rest; overlapping optimistic updates restore
  an older value. Small and sequential but for callbacks of the page, which are not written.

## 8. What the code does besides

Behaviour that is in the models, as the code has it, and that a property therefore describes
and does not forbid. Where a document says otherwise it is quoted.

* `start` of the execution store accepts a list that repeats an `action_id`, and that run waits for
  ever (`execution_verification.py:22-44`), though "Execution must report every action"
  (`remediation-plan-review.md:7`): `EveryRunEnds` excepts it.
* `logout_all` leaves the refresh family of the session that asked, if that one was rotated, evicted
  or expired while the body was read (`service.py:74-77`): `LogoutTakesTokens` excepts it, and
  nothing else.
* A plan built while an approval stands is executed under it (`supervisor.py:33-35`,
  `execution_coordinator.py:92-94`), though "An approved decision advances only the exact plan
  fingerprint to governed execution" (`human-approval-decision-validation.md:7`):
  `ChangesStandApproved` ties a change to the approved plan only if none was built since.
* An attempt of `execute_node` that changed something and timed out ends as failed, and nobody
  compensates it (`node_resilience.py:43-46`). The document promises compensation "If an operation
  reports a partial mutation" (`node-resilience.md:7`).
* `approve_and_execute` changes the device of the incident it is handed, which need not be the one
  the approved plan names (`orchestration.py:108-136`). The approval gate binds a grant to the
  plan's resource (`test_ai_core.py:85-91`); the pipeline does not compare it with the incident's.
* A WebSocket client that is started before the close event of the stopped socket has two
  connections (`websocket-client.ts:61`): `LinesAccountedFor` counts them.
* A case given back to the agent keeps its owner, and can be given back again
  (`human_handoff.py:43-46`): `CustodyIsTraceable` says that nothing else happens to it.
* `add_minutes` goes round for ever for an incident opened within a minute, in working hours, with a
  target beyond the rest of the day (`calendar.py:32-35`): `DueWhenWorked` names these targets.

In no property: the SSE client listens to unnamed messages
only while the API names its events, and sends the last id as a query parameter while the API
reads the header; a lock object that acquires while it holds the lock cannot release it before
its time is over; a half-open circuit admits every execution that reads it together; a bundle's
evaluation run is looked at for its length only, and need not be one that a gate was opened for;
retiring an article does not advance the tenant's index generation, so a later publication can
have the generation of the retirement; retry counts beyond the first 64 nodes by name are dropped.
