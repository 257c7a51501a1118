--------------------------- MODULE IncidentRequests ---------------------------
(***************************************************************************)
(* The incident API: IncidentService.create and update, and                *)
(* IncidentLifecycleService.transition, each one PostgreSQL transaction    *)
(* over the incident row, its idempotency record, its event history with   *)
(* the outbox, and the tenant's audit chain; and the readers of the event  *)
(* stream.                                                                 *)
(*                                                                         *)
(* Several requests run at once, and a client may send a request again     *)
(* with the key it used before.  What a transaction wrote shows at its     *)
(* commit; until then it holds the unique-index entry of its idempotency   *)
(* record (keyLock), the row lock of its incident (rowLock) and the        *)
(* advisory lock of the audit chain (auditLock), and others that need them *)
(* wait.  Fingerprints are taken to be injective.                          *)
(***************************************************************************)
EXTENDS Integers, FiniteSets

CONSTANTS Session,    \* request executions in the API process
          Incident, Reader, None,
          Slot,       \* the idempotency scopes in use: <<operation, incident, key>>
          Target,     \* the statuses clients ask for
          Batch       \* limit of list_events_after

ASSUME BatchAssumption == Batch \in Nat \ {0}

ASSUME SlotAssumption ==
  /\ None \notin Session /\ None \notin Incident
  /\ \A x \in Slot : \/ x[1] = "create" /\ x[2] = None
                     \/ x[1] \in {"update", "transition"} /\ x[2] \in Incident

VARIABLES incident,   \* committed rows: status and version
          record,     \* committed idempotency records
          events,     \* committed events (and outbox rows) of each incident
          audit,      \* committed rows of the tenant's audit chain
          keyLock, rowLock, auditLock,
          call,       \* what each session is doing
          effects,    \* history: the mutations committed, with their request
          replies,    \* history: the successful responses sent
          stream      \* each reader's cursor and what it was sent

vars == <<incident, record, events, audit, keyLock, rowLock, auditLock,
          call, effects, replies, stream>>

Status == {"new", "triaging", "awaiting_consent", "investigating",
           "awaiting_approval", "remediating", "verifying", "resolved",
           "escalated", "cancelled"}

TRANSITIONS ==
  [s \in Status |->
     CASE s = "new"               -> {"triaging", "cancelled"}
       [] s = "triaging"          -> {"awaiting_consent", "investigating", "escalated", "cancelled"}
       [] s = "awaiting_consent"  -> {"investigating", "escalated", "cancelled"}
       [] s = "investigating"     -> {"awaiting_approval", "verifying", "escalated", "cancelled"}
       [] s = "awaiting_approval" -> {"remediating", "escalated", "cancelled"}
       [] s = "remediating"       -> {"verifying", "escalated"}
       [] s = "verifying"         -> {"resolved", "investigating", "remediating", "escalated"}
       [] s = "escalated"         -> {"investigating", "cancelled"}
       [] s \in {"resolved", "cancelled"} -> {}]

\* The edges with guards; each target is entered by one such edge, so a request's
\* satisfied guards come down to whether those of the edge into its target hold.
GUARDS == {<<"awaiting_consent", "investigating">>, <<"awaiting_approval", "remediating">>,
           <<"remediating", "verifying">>, <<"verifying", "resolved">>}

Guarded(from, to) == <<from, to>> \in GUARDS \/ to = "escalated"

\* decide_transition
Allowed(from, to, granted) == /\ to \in TRANSITIONS[from]
                              /\ Guarded(from, to) => granted

Absent == [status |-> "absent", version |-> 0]
Free   == [state |-> "free", print |-> None, result |-> None]
Idle   == [pc |-> "idle", slot |-> None, target |-> None, expected |-> 0, granted |-> FALSE,
           seen |-> 0, status |-> None, row |-> None, seq |-> 0]

Fingerprint(c)  == <<c.target, c.expected>>
Kind(c)   == c.slot[1]
On(c)     == c.slot[2]

TypeOK ==
  /\ \A i \in Incident : incident[i] = Absent \/ incident[i] \in [status : Status, version : Nat \ {0}]
  /\ \A x \in Slot : /\ record[x].state \in {"free", "in_progress", "completed"}
                     /\ record[x].state = "free" <=> record[x] = Free
  /\ \A i \in Incident : events[i] \subseteq [version : Nat, to : Status]
  /\ audit \subseteq [seq : Nat, prev : Nat, incident : Incident, version : Nat]
  /\ keyLock \in [Slot -> Session \cup {None}]
  /\ rowLock \in [Incident -> Session \cup {None}]
  /\ auditLock \in Session \cup {None}
  /\ \A s \in Session : call[s].pc \in {"idle", "called", "ready", "reserved", "decided",
                                       "changed", "audited"}

Init ==
  /\ incident = [i \in Incident |-> Absent]
  /\ record = [x \in Slot |-> Free]
  /\ events = [i \in Incident |-> {}]
  /\ audit = {}
  /\ keyLock = [x \in Slot |-> None]
  /\ rowLock = [i \in Incident |-> None]
  /\ auditLock = None
  /\ call = [s \in Session |-> Idle]
  /\ effects = {} /\ replies = {}
  /\ stream = [r \in Reader |-> [on |-> None, cursor |-> 0, sent |-> {}]]
-----------------------------------------------------------------------------
\* A request arrives.  If-Match is the version of a view the client was given.
Call(s) ==
  /\ call[s].pc = "idle"
  /\ \E x \in Slot, target \in Target \cup {None} :
       /\ x[1] = "transition" <=> target # None
       /\ \E expected \in 0..(IF x[2] = None THEN 0 ELSE incident[x[2]].version) :
            /\ x[1] = "create" <=> expected = 0
            /\ call' = [call EXCEPT ![s] =
                 [Idle EXCEPT !.pc = IF x[1] = "transition" THEN "called" ELSE "ready",
                              !.slot = x, !.target = target, !.expected = expected]]
  /\ UNCHANGED <<incident, record, events, audit, keyLock, rowLock, auditLock,
                 effects, replies, stream>>

\* satisfied_guards is asked before the transaction begins.
ReadGuards(s) ==
  /\ call[s].pc = "called"
  /\ \E granted \in IF \E from \in Status : Guarded(from, call[s].target)
                    THEN BOOLEAN ELSE {FALSE} :
       call' = [call EXCEPT ![s].pc = "ready", ![s].granted = granted,
                            ![s].seen = incident[On(call[s])].version]
  /\ UNCHANGED <<incident, record, events, audit, keyLock, rowLock, auditLock,
                 effects, replies, stream>>

\* The transaction of s ends, committed or not, and its locks are released.
Release(s) ==
  /\ call' = [call EXCEPT ![s] = Idle]
  /\ keyLock' = [x \in Slot |-> IF keyLock[x] = s THEN None ELSE keyLock[x]]
  /\ rowLock' = [i \in Incident |-> IF rowLock[i] = s THEN None ELSE rowLock[i]]
  /\ auditLock' = IF auditLock = s THEN None ELSE auditLock

Rollback(s) == /\ Release(s)
               /\ UNCHANGED <<incident, record, events, audit, effects, replies, stream>>

\* Mutant: a record whose owner never completed it is up for taking again.
FreshAfterLease(r) == r.state # "completed"

\* No committed record stands in the way of the insert.
Fresh(r) == r.state = "free"

\* reserve: the insert waits for another transaction on the same key to end, then
\* inserts, or finds the committed record and answers from it.
Reserve(s) ==
  LET c == call[s]
      r == record[c.slot]
  IN /\ c.pc = "ready"
     /\ keyLock[c.slot] = None
     /\ \/ /\ Fresh(r)
           /\ keyLock' = [keyLock EXCEPT ![c.slot] = s]
           /\ call' = [call EXCEPT ![s].pc = "reserved"]
           /\ UNCHANGED <<incident, record, events, audit, rowLock, auditLock,
                          effects, replies, stream>>
        \/ /\ r.state = "completed" /\ r.print = Fingerprint(c)
           /\ replies' = replies \cup {[slot |-> c.slot, print |-> Fingerprint(c), result |-> r.result]}
           /\ Release(s)
           /\ UNCHANGED <<incident, record, events, audit, effects, stream>>
        \/ /\ ~Fresh(r)
           /\ r.print # Fingerprint(c) \/ r.state = "in_progress"
           /\ Rollback(s)

\* transition reads the incident and decides on what it read.
Decide(s) ==
  LET c == call[s]
      i == On(c)
  IN /\ c.pc = "reserved" /\ Kind(c) = "transition"
     /\ \/ /\ incident[i] # Absent /\ Allowed(incident[i].status, c.target, c.granted)
           /\ call' = [call EXCEPT ![s].pc = "decided", ![s].status = incident[i].status]
           /\ UNCHANGED <<incident, record, events, audit, keyLock, rowLock, auditLock,
                          effects, replies, stream>>
        \/ /\ ~(incident[i] # Absent /\ Allowed(incident[i].status, c.target, c.granted))
           /\ Rollback(s)

\* Mutants: an UPDATE by id alone; and one that trusts the status and forgets the version.
MatchesAnything(c) == c.pc # "idle"

MatchesStatus(c) == Kind(c) = "transition" => incident[On(c)].status = c.status

\* The predicate of the UPDATE: update_details matches the version, transition_status
\* the status read as well.
Matches(c) ==
  /\ incident[On(c)].version = c.expected
  /\ Kind(c) = "transition" => incident[On(c)].status = c.status

\* The UPDATE waits for the row lock and evaluates its predicate on the row it then finds.
Change(s) ==
  LET c == call[s]
      i == On(c)
  IN /\ \/ c.pc = "decided"
        \/ c.pc = "reserved" /\ Kind(c) = "update"
     /\ rowLock[i] = None
     /\ \/ /\ Matches(c)
           /\ rowLock' = [rowLock EXCEPT ![i] = s]
           /\ call' = [call EXCEPT ![s].pc = "changed", ![s].row = i]
           /\ UNCHANGED <<incident, record, events, audit, keyLock, auditLock,
                          effects, replies, stream>>
        \/ /\ ~Matches(c)
           /\ Rollback(s)

\* create inserts a row under a fresh id.
Insert(s) ==
  /\ call[s].pc = "reserved" /\ Kind(call[s]) = "create"
  /\ \E i \in Incident :
       /\ incident[i] = Absent /\ rowLock[i] = None
       /\ rowLock' = [rowLock EXCEPT ![i] = s]
       /\ call' = [call EXCEPT ![s].pc = "changed", ![s].row = i]
  /\ UNCHANGED <<incident, record, events, audit, keyLock, auditLock, effects, replies, stream>>

LastSeq == CHOOSE n \in 0..Cardinality(audit) :
             /\ n = 0 \/ \E a \in audit : a.seq = n
             /\ \A a \in audit : a.seq <= n

\* Mutant: append_audit_event without its lock.
AuditOpen(s) == TRUE

AuditFree(s) == auditLock = None

\* Mutant: a transition that on some paths is audited before its UPDATE.
AppendAuditEarly(s) ==
  /\ call[s].pc # "idle" /\ Kind(call[s]) = "transition" /\ auditLock \in {None, s}
  /\ \/ call[s].pc = "decided" /\ auditLock = None /\ UNCHANGED call
     \/ call[s].pc = "changed" /\ call' = [call EXCEPT ![s].pc = "audited", ![s].seq = LastSeq + 1]
  /\ auditLock' = s
  /\ UNCHANGED <<incident, record, events, audit, keyLock, rowLock, effects, replies, stream>>

\* append_audit_event: the tenant's advisory lock, then the next number after the last row.
AppendAudit(s) ==
  /\ call[s].pc = "changed" /\ Kind(call[s]) = "transition"
  /\ AuditFree(s)
  /\ auditLock' = s
  /\ call' = [call EXCEPT ![s].pc = "audited", ![s].seq = LastSeq + 1]
  /\ UNCHANGED <<incident, record, events, audit, keyLock, rowLock, effects, replies, stream>>

NewStatus(c) == CASE Kind(c) = "create"     -> "new"
                  [] Kind(c) = "update"     -> incident[On(c)].status
                  [] Kind(c) = "transition" -> c.target

\* complete: the record with its response, unless the 60 seconds of the reservation have
\* passed and its UPDATE matches no row.
Taken(c, result, late) ==
  [state  |-> IF late THEN "in_progress" ELSE "completed", print |-> Fingerprint(c),
   result |-> IF late THEN None ELSE result]

\* complete and commit, early or late.  The result of complete is not looked at: the
\* mutation commits and the client is told of success.
Commit(s) ==
  LET c == call[s]
      i == c.row
      v == incident[i].version + 1
      result == [incident |-> i, version |-> v]
      effect == [slot |-> c.slot, print |-> Fingerprint(c), result |-> result]
  IN /\ c.pc # "idle"
     /\ c.pc = IF Kind(c) = "transition" THEN "audited" ELSE "changed"
     /\ incident' = [incident EXCEPT ![i] = [status |-> NewStatus(c), version |-> v]]
     /\ \E late \in BOOLEAN : record' = [record EXCEPT ![c.slot] = Taken(c, result, late)]
     /\ IF Kind(c) = "transition"
        THEN /\ events' = [events EXCEPT ![i] = @ \cup {[version |-> v, to |-> c.target]}]
             /\ audit' = audit \cup {[seq |-> c.seq, prev |-> c.seq - 1, incident |-> i, version |-> v]}
        ELSE UNCHANGED <<events, audit>>
     /\ effects' = effects \cup {effect}
     /\ replies' = replies \cup {effect}
     /\ Release(s)
     /\ UNCHANGED stream

\* A lock wait times out, a statement fails, the connection or the process is lost.
Abort(s) ==
  /\ call[s].pc # "idle"
  /\ Rollback(s)
-----------------------------------------------------------------------------
Open(r, i) ==
  /\ stream[r].on = None
  /\ incident[i] # Absent
  /\ stream' = [stream EXCEPT ![r].on = i]
  /\ UNCHANGED <<incident, record, events, audit, keyLock, rowLock, auditLock,
                 call, effects, replies>>

\* Mutant: the page of a poll in no order.
PageInAnyOrder(page, after) ==
  page # {} /\ Cardinality(page) <= Batch /\ page \subseteq after

\* What ORDER BY and LIMIT make of the events after the cursor.
IsPage(page, after) ==
  /\ page # {} /\ page \subseteq after /\ Cardinality(page) <= Batch
  /\ Cardinality(page) = Batch \/ page = after
  /\ \A e \in page, f \in after \ page : e.version < f.version

\* One poll: at most Batch of the events after the cursor, in order of sequence number.
Poll(r) ==
  LET i == stream[r].on
      after == {e \in events[i] : e.version > stream[r].cursor}
  IN /\ i # None /\ after # {}
     /\ \E page \in SUBSET after :
          /\ IsPage(page, after)
          /\ \E last \in page :
               /\ \A e \in page : e.version <= last.version
               /\ stream' = [stream EXCEPT ![r].cursor = last.version, ![r].sent = @ \cup page]
     /\ UNCHANGED <<incident, record, events, audit, keyLock, rowLock, auditLock,
                    call, effects, replies>>

\* The connection drops; the reader comes back with the last id that reached it.
Reconnect(r) ==
  /\ stream[r].on # None
  /\ \E e \in stream[r].sent :
       stream' = [stream EXCEPT ![r].cursor = e.version,
                                ![r].sent = {f \in @ : f.version <= e.version}]
  /\ UNCHANGED <<incident, record, events, audit, keyLock, rowLock, auditLock,
                 call, effects, replies>>
-----------------------------------------------------------------------------
Serve(s) == \/ ReadGuards(s) \/ Reserve(s) \/ Decide(s) \/ Change(s)
            \/ Insert(s) \/ AppendAudit(s) \/ Commit(s)

Next ==
  \/ \E s \in Session : Call(s) \/ Serve(s) \/ Abort(s)
  \/ \E r \in Reader, i \in Incident : Open(r, i)
  \/ \E r \in Reader : Poll(r) \/ Reconnect(r)

Spec == Init /\ [][Next]_vars

\* The event loop runs every request, and PostgreSQL grants a lock in turn.
FairSpec == Spec /\ \A s \in Session : SF_vars(Serve(s))
-----------------------------------------------------------------------------
\* A key is spent at most once: however often a request is sent, and whatever is sent
\* under its key, one mutation is committed for it, and every success a client is told
\* of is that mutation under the body it asked with.
OneEffectPerKey ==
  /\ \A e, f \in effects : e.slot = f.slot => e = f
  /\ replies \subseteq effects

\* No lost update: a mutation is made on the version its client had seen, so no two
\* mutations of an incident start from the same version.
EditsBuildOnWhatWasSeen ==
  \A e \in effects : e.result.version = e.print[2] + 1

\* The history tells the state: the events of an incident have its versions in order,
\* each is a lawful step from the one before, and the last one is the status.
HistoryExplainsStatus ==
  \A i \in Incident :
    LET at(v) == IF \E e \in events[i] : e.version <= v
                 THEN (CHOOSE e \in events[i] :
                         /\ e.version <= v
                         /\ \A f \in events[i] : f.version <= v => f.version <= e.version).to
                 ELSE "new"
    IN /\ incident[i] # Absent => incident[i].status = at(incident[i].version)
       /\ \A e \in events[i] : /\ e.version \in 2..incident[i].version
                               /\ e.to \in TRANSITIONS[at(e.version - 1)]
       /\ \A e, f \in events[i] : e.version = f.version => e = f

\* The audit chain has no gap and no fork, has one row for each event, and orders the
\* rows of an incident as its versions are.
AuditChain ==
  /\ {a.seq : a \in audit} = 1..Cardinality(audit)
  /\ \A a \in audit : a.prev = a.seq - 1
  /\ \A i \in Incident :
       {a.version : a \in {b \in audit : b.incident = i}} = {e.version : e \in events[i]}
  /\ \A a, b \in audit : a.incident = b.incident /\ a.seq < b.seq => a.version < b.version

\* A guarded transition is committed in the version of the incident its guards were read
\* in: no other change slips in between, although they are read outside the transaction.
GuardsReadInVersion ==
  [][\A s \in Session :
       Commit(s) /\ Kind(call[s]) = "transition" =>
         /\ call[s].seen = incident[call[s].row].version
         /\ Guarded(incident[call[s].row].status, call[s].target) => call[s].granted]_vars

\* A stream never steps over an event: what lies at or before the cursor was sent.
StreamSkipsNothing ==
  \A r \in Reader : stream[r].on # None =>
    \A e \in events[stream[r].on] : e.version <= stream[r].cursor => e \in stream[r].sent

\* The requests are as if each happened at one moment, its commit: on the version its client
\* named, once for its key whatever is sent again, lost or refused, and the audit chain is
\* the log of the transitions in the order in which they happened.
Entries(n) == {a \in audit : a.seq = n}
EventOf(a) == {e \in events[a.incident] : e.version = a.version}

Logged(n) ==
  LET a == CHOOSE b \in Entries(n) : TRUE
      e == CHOOSE f \in EventOf(a) : TRUE
  IN [incident |-> a.incident, version |-> a.version, to |-> e.to]

Contract == INSTANCE IncidentContract
              WITH table <- incident, log <- [n \in 1..Cardinality(audit) |-> Logged(n)]

ImplementsContract == Contract!Spec

\* No request waits for ever, though others hold the key, the row and the audit lock it
\* wants: the locks are taken in one order by every operation, so no lock timeout (Abort,
\* to which nothing is owed) is needed to end a wait.
EveryCallEnds == \A s \in Session : call[s].pc # "idle" ~> call[s].pc = "idle"

\* "The mutation and idempotency completion record commit together."
CompletionCommitsWithMutation == \A e \in effects : record[e.slot].state = "completed"
===============================================================================
