------------------------ MODULE IncidentRequestsProofs ------------------------
(***************************************************************************)
(* Theorems about IncidentRequests for any sessions, incidents, readers,   *)
(* keys and batch size.                                                    *)
(***************************************************************************)
EXTENDS IncidentRequests, Sequences, FiniteSetTheorems, TLAPS

PC == {"idle", "called", "ready", "reserved", "decided", "changed", "audited"}

CallRow == [pc : PC, slot : Slot \cup {None}, target : Target \cup {None}, expected : Nat,
            granted : BOOLEAN, seen : Nat, status : Status \cup {None},
            row : Incident \cup {None}, seq : Nat]

Events == SUBSET [version : Nat, to : Status]

Place == [on : Incident \cup {None}, cursor : Nat, sent : Events]

(* What session s relies on while its call is c: the locks it took are its own, and what  *)
(* it read of rows and records it has locked is still so.  n is the length of the chain.  *)
Fit(s, c, inc, rec, kl, rl, al, n) ==
  c.pc # "idle" =>
    /\ c.slot \in Slot
    /\ Kind(c) = "transition" <=> c.target # None
    /\ Kind(c) = "create" <=> c.expected = 0
    /\ c.pc = "called" => Kind(c) = "transition"
    /\ Kind(c) # "create" => c.expected <= inc[On(c)].version
    /\ Kind(c) = "transition" /\ c.pc # "called" =>
         c.expected <= c.seen /\ c.seen <= inc[On(c)].version
    /\ c.pc \in {"reserved", "decided", "changed", "audited"} =>
         kl[c.slot] = s /\ rec[c.slot].state = "free"
    /\ c.pc = "decided" => Kind(c) = "transition"
    /\ c.pc \in {"decided", "changed", "audited"} /\ Kind(c) = "transition" =>
         c.status \in Status /\ Allowed(c.status, c.target, c.granted)
    /\ c.pc \in {"changed", "audited"} =>
         /\ c.row \in Incident /\ rl[c.row] = s /\ inc[c.row].version = c.expected
         /\ Kind(c) # "create" => c.row = On(c)
         /\ Kind(c) = "transition" => inc[c.row].status = c.status
    /\ c.pc = "audited" => Kind(c) = "transition" /\ al = s /\ c.seq = n + 1

CallsOK ==
  /\ call \in [Session -> CallRow]
  /\ \A s \in Session : Fit(s, call[s], incident, record, keyLock, rowLock, auditLock,
                            Cardinality(audit))

LocksOK ==
  /\ keyLock \in [Slot -> Session \cup {None}]
  /\ rowLock \in [Incident -> Session \cup {None}]
  /\ auditLock \in Session \cup {None}

RowsOK ==
  /\ incident \in [Incident -> [status : Status \cup {"absent"}, version : Nat]]
  /\ \A i \in Incident : incident[i].status = "absent" <=> incident[i].version = 0

(* A key has an effect only once its record is taken, and a completed record is an effect. *)
RecordsOK ==
  /\ record = [x \in Slot |-> record[x]]
  /\ \A x \in Slot :
       /\ record[x].state \in {"free", "in_progress", "completed"}
       /\ record[x].state = "free" <=> record[x] = Free
       /\ record[x].state = "completed" =>
            [slot |-> x, print |-> record[x].print, result |-> record[x].result] \in effects
  /\ \A e \in effects : e.slot \in Slot /\ record[e.slot].state # "free"
  /\ OneEffectPerKey
  /\ EditsBuildOnWhatWasSeen

HistoryOK ==
  /\ events \in [Incident -> Events]
  /\ \A i \in Incident : \A e \in events[i] : 1 <= e.version /\ e.version <= incident[i].version

(* The status that a history tells at a version, as HistoryExplainsStatus computes it. *)
StatusAt(es, v) ==
  IF \E e \in es : e.version <= v
  THEN (CHOOSE e \in es : /\ e.version <= v
                          /\ \A f \in es : f.version <= v => f.version <= e.version).to
  ELSE "new"

LastBy(es, v, e) ==
  /\ e \in es /\ e.version <= v
  /\ \A f \in es : f.version <= v => f.version <= e.version

(* Up to any version a history has no event, or one that is the last. *)
Ordered(es) ==
  /\ \A e, f \in es : e.version = f.version => e = f
  /\ \A v \in Nat : (\A e \in es : ~(e.version <= v)) \/ \E e \in es : LastBy(es, v, e)

TellsOK ==
  \A i \in Incident :
    /\ incident[i].status # "absent" => incident[i].status = StatusAt(events[i], incident[i].version)
    /\ \A e \in events[i] : /\ 2 <= e.version
                            /\ e.to \in TRANSITIONS[StatusAt(events[i], e.version - 1)]
    /\ Ordered(events[i])

AuditOK ==
  /\ IsFiniteSet(audit)
  /\ audit \subseteq [seq : Nat, prev : Nat, incident : Incident, version : Nat]
  /\ AuditChain

(* A reader was sent events up to its cursor only, and its cursor is not ahead of the row. *)
StreamsOK ==
  /\ stream \in [Reader -> Place]
  /\ \A r \in Reader :
       /\ stream[r].on = None => stream[r].cursor = 0 /\ stream[r].sent = {}
       /\ stream[r].on # None => /\ stream[r].sent \subseteq events[stream[r].on]
                                 /\ stream[r].cursor <= incident[stream[r].on].version
       /\ \A e \in stream[r].sent : e.version <= stream[r].cursor
  /\ StreamSkipsNothing

IInv == CallsOK /\ LocksOK /\ RowsOK /\ RecordsOK /\ HistoryOK /\ TellsOK /\ AuditOK /\ StreamsOK

LEMMA InitIInv == Init => IInv
<1> SUFFICES ASSUME Init PROVE IInv
  OBVIOUS
<1> USE SlotAssumption DEF Init
<1>1. Idle \in CallRow /\ Idle.pc = "idle"
  BY DEF Idle, CallRow, PC
<1>2. CallsOK
  BY <1>1 DEF CallsOK, Fit
<1>3. LocksOK
  BY DEF LocksOK
<1>4. RowsOK
  BY DEF RowsOK, Absent, Status
<1>5. RecordsOK
  BY DEF RecordsOK, Free, OneEffectPerKey, EditsBuildOnWhatWasSeen
<1>6. HistoryOK
  BY DEF HistoryOK, Events
<1>7. AuditOK
  <2>1. IsFiniteSet(audit) /\ Cardinality(audit) = 0
    BY FS_EmptySet
  <2>2. {a.seq : a \in audit} = 1..0
    OBVIOUS
  <2>3. \A i \in Incident : {a.version : a \in {b \in audit : b.incident = i}}
                            = {e.version : e \in events[i]}
    OBVIOUS
  <2> QED BY <2>1, <2>2, <2>3 DEF AuditOK, AuditChain
<1>8. StreamsOK
  BY DEF StreamsOK, Events, Place, StreamSkipsNothing
<1>9. TellsOK
  BY DEF TellsOK, Ordered, Absent
<1> QED BY <1>2, <1>3, <1>4, <1>5, <1>6, <1>7, <1>8, <1>9 DEF IInv

(* Locks that another session takes or releases are none of those t has. *)
LEMMA FitKept ==
  ASSUME NEW s \in Session, NEW t \in Session, s # t, NEW c \in CallRow, NEW inc, NEW rec, NEW n,
         NEW kl, NEW rl, NEW al, NEW kl2, NEW rl2, NEW al2,
         Fit(t, c, inc, rec, kl, rl, al, n),
         \A x \in Slot : kl2[x] = kl[x] \/ kl[x] \in {None, s},
         \A i \in Incident : rl2[i] = rl[i] \/ rl[i] \in {None, s},
         al2 = al \/ al \in {None, s}
  PROVE  Fit(t, c, inc, rec, kl2, rl2, al2, n)
<1>1. t \notin {None, s}
  BY SlotAssumption
<1> QED BY <1>1 DEF Fit

(* A step of s that commits nothing. *)
LEMMA QuietStep ==
  ASSUME IInv, NEW s \in Session, NEW c \in CallRow, call' = [call EXCEPT ![s] = c],
         UNCHANGED <<incident, record, events, audit, effects, stream>>,
         LocksOK',
         \A x \in Slot : keyLock'[x] = keyLock[x] \/ keyLock[x] \in {None, s},
         \A i \in Incident : rowLock'[i] = rowLock[i] \/ rowLock[i] \in {None, s},
         auditLock' = auditLock \/ auditLock \in {None, s},
         replies' \subseteq effects,
         Fit(s, c, incident, record, keyLock', rowLock', auditLock', Cardinality(audit))
  PROVE  IInv'
<1>1. call' \in [Session -> CallRow] /\ call'[s] = c /\ \A t \in Session \ {s} : call'[t] = call[t]
  BY DEF IInv, CallsOK
<1>2. ASSUME NEW t \in Session
      PROVE  Fit(t, call'[t], incident, record, keyLock', rowLock', auditLock', Cardinality(audit))
  <2>1. CASE t = s
    BY <1>1, <2>1
  <2>2. CASE t # s
    <3>1. Fit(t, call[t], incident, record, keyLock, rowLock, auditLock, Cardinality(audit))
          /\ call[t] \in CallRow /\ call'[t] = call[t]
      BY <1>1, <2>2 DEF IInv, CallsOK
    <3> QED BY <2>2, <3>1, FitKept
  <2> QED BY <2>1, <2>2
<1>3. CallsOK'
  BY <1>1, <1>2 DEF CallsOK
<1>4. RowsOK' /\ RecordsOK' /\ HistoryOK' /\ TellsOK' /\ AuditOK' /\ StreamsOK'
  BY DEF IInv, RowsOK, RecordsOK, HistoryOK, TellsOK, AuditOK, StreamsOK, OneEffectPerKey,
         EditsBuildOnWhatWasSeen, AuditChain, StreamSkipsNothing
<1> QED BY <1>3, <1>4 DEF IInv

LEMMA IdleRow == Idle \in CallRow /\ Idle.pc = "idle"
BY SlotAssumption DEF Idle, CallRow, PC

(* The end of a transaction frees what its session had locked, and no more. *)
LEMMA ReleaseLocks ==
  ASSUME LocksOK, NEW s \in Session, Release(s)
  PROVE  /\ LocksOK'
         /\ \A x \in Slot : keyLock'[x] = keyLock[x] \/ keyLock[x] \in {None, s}
         /\ \A i \in Incident : rowLock'[i] = rowLock[i] \/ rowLock[i] \in {None, s}
         /\ auditLock' = auditLock \/ auditLock \in {None, s}
         /\ call' = [call EXCEPT ![s] = Idle]
BY DEF LocksOK, Release

LEMMA QuietRelease ==
  ASSUME IInv, NEW s \in Session, Release(s), replies' \subseteq effects,
         UNCHANGED <<incident, record, events, audit, effects, stream>>
  PROVE  IInv'
<1>1. Fit(s, Idle, incident, record, keyLock', rowLock', auditLock', Cardinality(audit))
  BY IdleRow DEF Fit
<1>2. LocksOK
  BY DEF IInv
<1> QED BY <1>1, <1>2, ReleaseLocks, IdleRow, QuietStep

LEMMA RollbackIInv == ASSUME IInv, NEW s \in Session, Rollback(s) PROVE IInv'
<1>1. replies' \subseteq effects
  BY DEF IInv, RecordsOK, OneEffectPerKey, Rollback
<1> QED BY <1>1, QuietRelease DEF Rollback

LEMMA CallIInv == ASSUME IInv, NEW s \in Session, Call(s) PROVE IInv'
<1>1. PICK x \in Slot, target \in Target \cup {None} :
        /\ x[1] = "transition" <=> target # None
        /\ \E expected \in 0..(IF x[2] = None THEN 0 ELSE incident[x[2]].version) :
             /\ x[1] = "create" <=> expected = 0
             /\ call' = [call EXCEPT ![s] =
                 [Idle EXCEPT !.pc = IF x[1] = "transition" THEN "called" ELSE "ready",
                              !.slot = x, !.target = target, !.expected = expected]]
  BY DEF Call
<1>2. PICK expected \in 0..(IF x[2] = None THEN 0 ELSE incident[x[2]].version) :
        /\ x[1] = "create" <=> expected = 0
        /\ call' = [call EXCEPT ![s] =
             [Idle EXCEPT !.pc = IF x[1] = "transition" THEN "called" ELSE "ready",
                          !.slot = x, !.target = target, !.expected = expected]]
  BY <1>1
<1> DEFINE c == [Idle EXCEPT !.pc = IF x[1] = "transition" THEN "called" ELSE "ready",
                             !.slot = x, !.target = target, !.expected = expected]
<1>3. \A i \in Incident : incident[i].version \in Nat
  BY DEF IInv, RowsOK
<1>4. /\ expected \in Nat
      /\ x[1] # "create" => x[2] \in Incident /\ expected <= incident[x[2]].version
  BY <1>2, <1>3, SlotAssumption
<1>5. /\ c \in CallRow /\ c.slot = x /\ c.target = target /\ c.expected = expected
      /\ c.pc = IF x[1] = "transition" THEN "called" ELSE "ready"
  BY <1>4, SlotAssumption DEF Idle, CallRow, PC
<1> HIDE DEF c
<1>6. Fit(s, c, incident, record, keyLock, rowLock, auditLock, Cardinality(audit))
  BY <1>1, <1>2, <1>4, <1>5 DEF Fit, Kind, On
<1>7. call' = [call EXCEPT ![s] = c]
  BY <1>2 DEF c
<1>8. /\ UNCHANGED <<incident, record, events, audit, effects, stream>>
      /\ keyLock' = keyLock /\ rowLock' = rowLock /\ auditLock' = auditLock
      /\ replies' \subseteq effects /\ LocksOK'
  BY DEF Call, IInv, RecordsOK, OneEffectPerKey, LocksOK
<1> QED BY <1>5, <1>6, <1>7, <1>8, QuietStep

LEMMA ReadGuardsIInv == ASSUME IInv, NEW s \in Session, ReadGuards(s) PROVE IInv'
<1>1. PICK granted \in BOOLEAN :
        call' = [call EXCEPT ![s].pc = "ready", ![s].granted = granted,
                             ![s].seen = incident[On(call[s])].version]
  BY DEF ReadGuards
<1> DEFINE c == [call[s] EXCEPT !.pc = "ready", !.granted = granted,
                                !.seen = incident[On(call[s])].version]
<1>2. /\ call[s] \in CallRow /\ call[s].pc = "called"
      /\ Fit(s, call[s], incident, record, keyLock, rowLock, auditLock, Cardinality(audit))
  BY DEF IInv, CallsOK, ReadGuards
<1>3. /\ call[s].slot \in Slot /\ Kind(call[s]) = "transition" /\ On(call[s]) \in Incident
      /\ call[s].expected # 0 /\ incident[On(call[s])].version \in Nat
      /\ call[s].expected <= incident[On(call[s])].version
  BY <1>2, SlotAssumption DEF Fit, Kind, On, IInv, RowsOK
<1>4. /\ c \in CallRow /\ c.slot = call[s].slot /\ c.expected = call[s].expected /\ c.pc = "ready"
      /\ c.seen = incident[On(call[s])].version /\ c.target = call[s].target
  BY <1>2, <1>3 DEF CallRow, PC
<1>5. call' = [call EXCEPT ![s] = c]
  BY <1>1
<1> HIDE DEF c
<1>6. Fit(s, c, incident, record, keyLock, rowLock, auditLock, Cardinality(audit))
  BY <1>2, <1>3, <1>4 DEF Fit, Kind, On
<1>8. /\ UNCHANGED <<incident, record, events, audit, effects, stream>>
      /\ keyLock' = keyLock /\ rowLock' = rowLock /\ auditLock' = auditLock
      /\ replies' \subseteq effects /\ LocksOK'
  BY DEF ReadGuards, IInv, RecordsOK, OneEffectPerKey, LocksOK
<1> QED BY <1>4, <1>5, <1>6, <1>8, QuietStep

LEMMA ReserveIInv == ASSUME IInv, NEW s \in Session, Reserve(s) PROVE IInv'
<1> DEFINE r == record[call[s].slot]
<1>1. /\ call[s] \in CallRow /\ call[s].pc = "ready" /\ call[s].slot \in Slot
      /\ Fit(s, call[s], incident, record, keyLock, rowLock, auditLock, Cardinality(audit))
  BY DEF IInv, CallsOK, Reserve, Fit
<1>2. CASE /\ Fresh(r)
           /\ keyLock' = [keyLock EXCEPT ![call[s].slot] = s]
           /\ call' = [call EXCEPT ![s].pc = "reserved"]
           /\ UNCHANGED <<incident, record, events, audit, rowLock, auditLock,
                          effects, replies, stream>>
  <2> DEFINE c == [call[s] EXCEPT !.pc = "reserved"]
  <2>1. /\ c \in CallRow /\ c.pc = "reserved" /\ c.slot = call[s].slot /\ c.seen = call[s].seen
        /\ c.expected = call[s].expected /\ c.target = call[s].target
    BY <1>1 DEF CallRow, PC
  <2>2. call' = [call EXCEPT ![s] = c]
    BY <1>2
  <2> HIDE DEF c
  <2>3. /\ LocksOK' /\ keyLock[call[s].slot] = None /\ keyLock'[call[s].slot] = s
        /\ \A x \in Slot : keyLock'[x] = keyLock[x] \/ keyLock[x] \in {None, s}
    BY <1>1, <1>2 DEF IInv, LocksOK, Reserve
  <2>4. Fit(s, c, incident, record, keyLock', rowLock', auditLock', Cardinality(audit))
    BY <1>1, <1>2, <2>1, <2>3 DEF Fit, Kind, On, Fresh
  <2>5. replies' \subseteq effects
    BY <1>2 DEF IInv, RecordsOK, OneEffectPerKey
  <2> QED BY <1>2, <2>1, <2>2, <2>3, <2>4, <2>5, QuietStep
<1>3. CASE /\ r.state = "completed" /\ r.print = Fingerprint(call[s])
           /\ replies' = replies \cup {[slot |-> call[s].slot, print |-> Fingerprint(call[s]),
                                        result |-> r.result]}
           /\ Release(s)
           /\ UNCHANGED <<incident, record, events, audit, effects, stream>>
  <2>1. replies' \subseteq effects
    BY <1>1, <1>3 DEF IInv, RecordsOK, OneEffectPerKey
  <2> QED BY <1>3, <2>1, QuietRelease
<1>4. CASE Rollback(s)
  BY <1>4, RollbackIInv
<1> QED BY <1>2, <1>3, <1>4 DEF Reserve

LEMMA DecideIInv == ASSUME IInv, NEW s \in Session, Decide(s) PROVE IInv'
<1> DEFINE i == On(call[s])
           c == [call[s] EXCEPT !.pc = "decided", !.status = incident[i].status]
<1>1. CASE Rollback(s)
  BY <1>1, RollbackIInv
<1>2. CASE /\ incident[i] # Absent /\ Allowed(incident[i].status, call[s].target, call[s].granted)
           /\ call' = [call EXCEPT ![s].pc = "decided", ![s].status = incident[i].status]
           /\ UNCHANGED <<incident, record, events, audit, keyLock, rowLock, auditLock,
                          effects, replies, stream>>
  <2>1. /\ call[s] \in CallRow /\ call[s].pc = "reserved" /\ Kind(call[s]) = "transition"
        /\ Fit(s, call[s], incident, record, keyLock, rowLock, auditLock, Cardinality(audit))
    BY DEF IInv, CallsOK, Decide
  <2>2. call[s].slot \in Slot /\ i \in Incident
    BY <2>1, SlotAssumption DEF Fit, Kind, On
  <2>3. incident[i].status \in Status
    <3>1. incident[i] \in [status : Status \cup {"absent"}, version : Nat]
          /\ (incident[i].status = "absent" => incident[i].version = 0)
      BY <2>2 DEF IInv, RowsOK
    <3> QED BY <1>2, <3>1 DEF Absent
  <2>4. /\ c \in CallRow /\ c.pc = "decided" /\ c.slot = call[s].slot /\ c.seen = call[s].seen
        /\ c.expected = call[s].expected /\ c.status = incident[i].status
        /\ c.target = call[s].target /\ c.granted = call[s].granted
    BY <2>1, <2>3 DEF CallRow, PC
  <2>5. call' = [call EXCEPT ![s] = c]
    BY <1>2
  <2>6. Allowed(incident[i].status, call[s].target, call[s].granted)
    BY <1>2
  <2> HIDE DEF c
  <2>7. Allowed(c.status, c.target, c.granted)
    BY <2>4, <2>6
  <2>8. Fit(s, c, incident, record, keyLock, rowLock, auditLock, Cardinality(audit))
    BY <2>1, <2>2, <2>3, <2>4, <2>7 DEF Fit, Kind, On
  <2>9. /\ keyLock' = keyLock /\ rowLock' = rowLock /\ auditLock' = auditLock
        /\ replies' \subseteq effects /\ LocksOK'
    BY <1>2 DEF IInv, RecordsOK, OneEffectPerKey, LocksOK
  <2> QED BY <1>2, <2>4, <2>5, <2>8, <2>9, QuietStep
<1> QED BY <1>1, <1>2 DEF Decide

LEMMA ChangeIInv == ASSUME IInv, NEW s \in Session, Change(s) PROVE IInv'
<1> DEFINE i == On(call[s])
           c == [call[s] EXCEPT !.pc = "changed", !.row = i]
<1>1. CASE Rollback(s)
  BY <1>1, RollbackIInv
<1>2. CASE /\ Matches(call[s])
           /\ rowLock' = [rowLock EXCEPT ![i] = s]
           /\ call' = [call EXCEPT ![s].pc = "changed", ![s].row = i]
           /\ UNCHANGED <<incident, record, events, audit, keyLock, auditLock,
                          effects, replies, stream>>
  <2>1. /\ call[s] \in CallRow
        /\ \/ call[s].pc = "decided"
           \/ call[s].pc = "reserved" /\ Kind(call[s]) = "update"
        /\ Fit(s, call[s], incident, record, keyLock, rowLock, auditLock, Cardinality(audit))
    BY DEF IInv, CallsOK, Change
  <2>2. call[s].slot \in Slot /\ i \in Incident /\ Kind(call[s]) # "create"
    BY <2>1, SlotAssumption DEF Fit, Kind, On
  <2>3. /\ c \in CallRow /\ c.pc = "changed" /\ c.slot = call[s].slot /\ c.seen = call[s].seen
        /\ c.expected = call[s].expected /\ c.status = call[s].status
        /\ c.target = call[s].target /\ c.granted = call[s].granted /\ c.row = i
    BY <2>1, <2>2 DEF CallRow, PC
  <2>4. call' = [call EXCEPT ![s] = c]
    BY <1>2
  <2>5. /\ incident[i].version = call[s].expected
        /\ Kind(call[s]) = "transition" => incident[i].status = call[s].status
    BY <1>2 DEF Matches
  <2>6. /\ LocksOK' /\ rowLock[i] = None /\ rowLock'[i] = s
        /\ \A k \in Incident : rowLock'[k] = rowLock[k] \/ rowLock[k] \in {None, s}
    BY <1>2, <2>2 DEF IInv, LocksOK, Change
  <2>7. Kind(call[s]) = "transition" => call[s].pc = "decided"
    BY <2>1
  <2> HIDE DEF c
  <2>8. Kind(c) = "transition" => c.status \in Status /\ Allowed(c.status, c.target, c.granted)
    BY <2>1, <2>3, <2>7 DEF Fit, Kind
  <2>9. Fit(s, c, incident, record, keyLock, rowLock', auditLock, Cardinality(audit))
    BY <2>1, <2>2, <2>3, <2>5, <2>6, <2>8 DEF Fit, Kind, On
  <2>10. replies' \subseteq effects
    BY <1>2 DEF IInv, RecordsOK, OneEffectPerKey
  <2> QED BY <1>2, <2>3, <2>4, <2>6, <2>9, <2>10, QuietStep
<1> QED BY <1>1, <1>2 DEF Change

LEMMA InsertIInv == ASSUME IInv, NEW s \in Session, Insert(s) PROVE IInv'
<1>1. PICK i \in Incident :
        /\ incident[i] = Absent /\ rowLock[i] = None
        /\ rowLock' = [rowLock EXCEPT ![i] = s]
        /\ call' = [call EXCEPT ![s].pc = "changed", ![s].row = i]
  BY DEF Insert
<1> DEFINE c == [call[s] EXCEPT !.pc = "changed", !.row = i]
<1>2. /\ call[s] \in CallRow /\ call[s].pc = "reserved" /\ Kind(call[s]) = "create"
      /\ Fit(s, call[s], incident, record, keyLock, rowLock, auditLock, Cardinality(audit))
  BY DEF IInv, CallsOK, Insert
<1>3. /\ c \in CallRow /\ c.pc = "changed" /\ c.slot = call[s].slot
      /\ c.expected = call[s].expected /\ c.row = i /\ c.target = call[s].target
  BY <1>2 DEF CallRow, PC
<1>4. call' = [call EXCEPT ![s] = c]
  BY <1>1
<1>5. /\ LocksOK' /\ rowLock'[i] = s
      /\ \A k \in Incident : rowLock'[k] = rowLock[k] \/ rowLock[k] \in {None, s}
      /\ UNCHANGED <<incident, record, events, audit, keyLock, auditLock, effects, stream>>
      /\ replies' \subseteq effects /\ keyLock' = keyLock /\ auditLock' = auditLock
  BY <1>1 DEF IInv, LocksOK, Insert, RecordsOK, OneEffectPerKey
<1>6. incident[i].version = 0
  BY <1>1 DEF Absent
<1> HIDE DEF c
<1>7. Fit(s, c, incident, record, keyLock, rowLock', auditLock, Cardinality(audit))
  BY <1>2, <1>3, <1>5, <1>6 DEF Fit, Kind, On
<1> QED BY <1>3, <1>4, <1>5, <1>7, QuietStep

(* The numbers of the chain run from 1 to its length, so the last one is its length. *)
LEMMA LastIsLength == ASSUME AuditOK PROVE LastSeq = Cardinality(audit) /\ LastSeq \in Nat
<1> DEFINE n == Cardinality(audit)
           Is(k) == /\ k = 0 \/ \E a \in audit : a.seq = k
                    /\ \A a \in audit : a.seq <= k
<1>1. n \in Nat /\ {a.seq : a \in audit} = 1..n
  BY FS_CardinalityType DEF AuditOK, AuditChain
<1> HIDE DEF n
<1>2. \A a \in audit : a.seq \in 1..n
  BY <1>1
<1>3. n \in 0..n /\ Is(n)
  <2>1. n = 0 \/ n \in {a.seq : a \in audit}
    BY <1>1
  <2> QED BY <1>1, <1>2, <2>1
<1>4. ASSUME NEW k \in 0..n, Is(k) PROVE k = n
  <2>1. n = 0 \/ n \in {a.seq : a \in audit}
    BY <1>1
  <2> QED BY <1>1, <1>4, <2>1
<1>5. LastSeq = CHOOSE k \in 0..n : Is(k)
  BY DEF LastSeq, n
<1> HIDE DEF Is
<1>6. LastSeq = n
  BY <1>3, <1>4, <1>5
<1> QED BY <1>1, <1>6 DEF n

LEMMA AppendAuditIInv == ASSUME IInv, NEW s \in Session, AppendAudit(s) PROVE IInv'
<1> DEFINE next == LastSeq + 1
           c    == [call[s] EXCEPT !.pc = "audited", !.seq = next]
<1>1. /\ call[s] \in CallRow /\ call[s].pc = "changed" /\ Kind(call[s]) = "transition"
      /\ Fit(s, call[s], incident, record, keyLock, rowLock, auditLock, Cardinality(audit))
  BY DEF IInv, CallsOK, AppendAudit
<1>2. next = Cardinality(audit) + 1 /\ next \in Nat
  BY LastIsLength DEF IInv
<1>3. /\ c \in CallRow /\ c.pc = "audited" /\ c.slot = call[s].slot /\ c.seen = call[s].seen
      /\ c.expected = call[s].expected /\ c.status = call[s].status /\ c.row = call[s].row
      /\ c.target = call[s].target /\ c.granted = call[s].granted /\ c.seq = next
  <2> HIDE DEF next
  <2> QED BY <1>2, <1>1 DEF CallRow, PC
<1>4. call' = [call EXCEPT ![s] = c]
  BY DEF AppendAudit
<1> HIDE DEF next
<1>5. /\ LocksOK' /\ auditLock = None /\ auditLock' = s
      /\ UNCHANGED <<incident, record, events, audit, keyLock, rowLock, effects, stream>>
      /\ replies' \subseteq effects /\ keyLock' = keyLock /\ rowLock' = rowLock
  BY DEF IInv, LocksOK, AppendAudit, AuditFree, RecordsOK, OneEffectPerKey
<1> HIDE DEF c
<1>6. c.status \in Status /\ Allowed(c.status, c.target, c.granted)
  BY <1>1, <1>3 DEF Fit
<1>7. Fit(s, c, incident, record, keyLock, rowLock, auditLock', Cardinality(audit))
  BY <1>1, <1>2, <1>3, <1>5, <1>6 DEF Fit, Kind, On
<1> QED BY <1>3, <1>4, <1>5, <1>7, QuietStep

(* The readers move only their own place in the stream. *)
LEMMA ReadersApart ==
  ASSUME IInv, UNCHANGED <<incident, record, events, audit, keyLock, rowLock, auditLock,
                           call, effects, replies>>,
         StreamsOK'
  PROVE  IInv'
BY DEF IInv, CallsOK, LocksOK, RowsOK, RecordsOK, HistoryOK, TellsOK, AuditOK, OneEffectPerKey,
       EditsBuildOnWhatWasSeen, AuditChain

(* One reader's place, and the others where they were. *)
LEMMA OneReader ==
  ASSUME StreamsOK, NEW r \in Reader, NEW place \in Place,
         stream' = [stream EXCEPT ![r] = place], incident' = incident, events' = events,
         place.on \in Incident, place.sent \subseteq events[place.on],
         place.cursor <= incident[place.on].version,
         \A e \in place.sent : e.version <= place.cursor,
         \A e \in events[place.on] : e.version <= place.cursor => e \in place.sent
  PROVE  StreamsOK'
<1>1. /\ stream' \in [Reader -> Place]
      /\ \A k \in Reader : stream'[k] = IF k = r THEN place ELSE stream[k]
  BY DEF StreamsOK
<1>2. place.on # None
  BY SlotAssumption
<1> QED BY <1>1, <1>2 DEF StreamsOK, StreamSkipsNothing

LEMMA OpenIInv == ASSUME IInv, NEW r \in Reader, NEW i \in Incident, Open(r, i) PROVE IInv'
<1> DEFINE place == [stream[r] EXCEPT !.on = i]
<1>1. /\ place \in Place /\ place.on = i /\ place.cursor = 0 /\ place.sent = {}
      /\ stream' = [stream EXCEPT ![r] = place]
  BY DEF Open, IInv, StreamsOK, Place
<1>2. \A e \in events[i] : e.version \in Nat /\ 1 <= e.version
  BY DEF IInv, HistoryOK, Events
<1>3. StreamsOK /\ incident' = incident /\ events' = events /\ 0 <= incident[i].version
  BY DEF IInv, RowsOK, Open
<1> HIDE DEF place
<1>4. \A e \in events[i] : ~(e.version <= 0)
  BY <1>2
<1>5. StreamsOK'
  BY <1>1, <1>3, <1>4, OneReader
<1> QED BY <1>5, ReadersApart DEF Open

(* A page is the first events after the cursor, so nothing lies before its last unseen. *)
LEMMA PollIInv == ASSUME IInv, NEW r \in Reader, Poll(r) PROVE IInv'
<1> DEFINE i     == stream[r].on
           after == {e \in events[i] : e.version > stream[r].cursor}
<1>0. PICK page \in SUBSET after :
        /\ IsPage(page, after)
        /\ \E last \in page :
             /\ \A e \in page : e.version <= last.version
             /\ stream' = [stream EXCEPT ![r].cursor = last.version, ![r].sent = @ \cup page]
  BY DEF Poll
<1>1. PICK last \in page :
        /\ \A e \in page : e.version <= last.version
        /\ stream' = [stream EXCEPT ![r].cursor = last.version, ![r].sent = @ \cup page]
  BY <1>0
<1> DEFINE cursor == last.version
           sent   == stream[r].sent \cup page
<1>2. /\ stream[r] \in Place
      /\ i \in Incident /\ stream[r].sent \subseteq events[i]
      /\ \A e \in stream[r].sent : e.version <= stream[r].cursor
      /\ \A e \in events[i] : e.version <= stream[r].cursor => e \in stream[r].sent
  BY DEF Poll, IInv, StreamsOK, StreamSkipsNothing, Place
<1>3. events[i] \in Events /\ \A e \in events[i] : e.version \in Nat /\ e.version <= incident[i].version
  BY <1>2 DEF IInv, HistoryOK, Events
<1>5. page \subseteq events[i] /\ last \in events[i] /\ last.version > stream[r].cursor
  OBVIOUS
<1>6. /\ cursor \in Nat /\ sent \in Events /\ sent \subseteq events[i]
      /\ cursor <= incident[i].version
      /\ \A e \in sent : e.version <= cursor
  BY <1>1, <1>2, <1>3, <1>5 DEF Events, Place
<1>7. ASSUME NEW e \in events[i], e.version <= cursor PROVE e \in sent
  <2>1. CASE e.version <= stream[r].cursor
    BY <1>2, <2>1
  <2>2. CASE ~(e.version <= stream[r].cursor)
    <3>1. e \in after
      BY <1>2, <1>3, <2>2 DEF Place
    <3>2. e \in page
      <4>1. e \notin page => last.version < e.version
        BY <1>0, <3>1 DEF IsPage
      <4> QED BY <1>3, <1>5, <1>7, <4>1
    <3> QED BY <3>2
  <2> QED BY <2>1, <2>2
<1> DEFINE place == [stream[r] EXCEPT !.cursor = cursor, !.sent = sent]
<1>8. stream' = [stream EXCEPT ![r] = place]
  BY <1>1
<1> HIDE DEF cursor, sent
<1>9. place \in Place /\ place.on = i /\ place.cursor = cursor /\ place.sent = sent
  BY <1>2, <1>6 DEF Place
<1> HIDE DEF place
<1>10. StreamsOK /\ incident' = incident /\ events' = events
  BY DEF IInv, Poll
<1>11. StreamsOK'
  BY <1>2, <1>6, <1>7, <1>8, <1>9, <1>10, OneReader
<1> QED BY <1>11, ReadersApart DEF Poll

LEMMA ReconnectIInv == ASSUME IInv, NEW r \in Reader, Reconnect(r) PROVE IInv'
<1> DEFINE i == stream[r].on
<1>1. PICK e \in stream[r].sent :
        stream' = [stream EXCEPT ![r].cursor = e.version,
                                 ![r].sent = {f \in @ : f.version <= e.version}]
  BY DEF Reconnect
<1> DEFINE cursor == e.version
           sent   == {f \in stream[r].sent : f.version <= e.version}
<1>2. /\ stream[r] \in Place
      /\ i \in Incident /\ stream[r].sent \subseteq events[i]
      /\ stream[r].cursor <= incident[i].version
      /\ \A f \in stream[r].sent : f.version <= stream[r].cursor
      /\ \A f \in events[i] : f.version <= stream[r].cursor => f \in stream[r].sent
  BY DEF Reconnect, IInv, StreamsOK, StreamSkipsNothing, Place
<1>3. events[i] \in Events /\ \A f \in events[i] : f.version \in Nat /\ f.version <= incident[i].version
  BY <1>2 DEF IInv, HistoryOK, Events
<1>5. /\ cursor \in Nat /\ sent \in Events /\ sent \subseteq events[i]
      /\ cursor <= incident[i].version
      /\ \A f \in sent : f.version <= cursor
  BY <1>2, <1>3 DEF Events
<1>6. \A f \in events[i] : f.version <= cursor => f \in sent
  BY <1>2, <1>3 DEF Place
<1> DEFINE place == [stream[r] EXCEPT !.cursor = cursor, !.sent = sent]
<1>7. stream' = [stream EXCEPT ![r] = place]
  BY <1>1
<1> HIDE DEF cursor, sent
<1>8. place \in Place /\ place.on = i /\ place.cursor = cursor /\ place.sent = sent
  BY <1>2, <1>5 DEF Place
<1> HIDE DEF place
<1>9. StreamsOK /\ incident' = incident /\ events' = events
  BY DEF IInv, Reconnect
<1>10. StreamsOK'
  BY <1>2, <1>5, <1>6, <1>7, <1>8, <1>9, OneReader
<1> QED BY <1>10, ReadersApart DEF Reconnect

(* A commit of s changes the row, the record and the chain that s has locked, and no other *)
(* call relies on those; the version of a row only grows.                                  *)
LEMMA FitOverCommit ==
  ASSUME NEW s \in Session, NEW t \in Session, s # t, NEW c \in CallRow, NEW inc, NEW inc2,
         NEW rec, NEW rec2, NEW n, NEW n2, NEW kl, NEW rl, NEW al, NEW x \in Slot, NEW i \in Incident,
         Fit(t, c, inc, rec, kl, rl, al, n),
         kl[x] = s, rl[i] = s, n2 = n \/ al = s,
         \A k \in Incident : inc[k].version \in Nat /\ inc2[k].version \in Nat,
         \A k \in Incident : k # i => inc2[k] = inc[k],
         inc[i].version <= inc2[i].version,
         \A y \in Slot : y # x => rec2[y] = rec[y]
  PROVE  Fit(t, c, inc2, rec2, kl, rl, al, n2)
<1> SUFFICES ASSUME c.pc # "idle" PROVE Fit(t, c, inc2, rec2, kl, rl, al, n2)
  BY DEF Fit
<1>1. c.expected \in Nat /\ c.seen \in Nat /\ c.slot \in Slot
  BY DEF Fit, CallRow
<1>2. Kind(c) # "create" => On(c) \in Incident
  BY <1>1, SlotAssumption DEF Kind, On
<1>3. Kind(c) # "create" => c.expected <= inc2[On(c)].version
  BY <1>1, <1>2 DEF Fit
<1>4. Kind(c) = "transition" /\ c.pc # "called" =>
         c.expected <= c.seen /\ c.seen <= inc2[On(c)].version
  BY <1>1, <1>2 DEF Fit
<1>5. c.pc \in {"reserved", "decided", "changed", "audited"} =>
         kl[c.slot] = t /\ rec2[c.slot].state = "free"
  BY <1>1 DEF Fit
<1>6. c.pc \in {"changed", "audited"} =>
        /\ c.row \in Incident /\ rl[c.row] = t /\ inc2[c.row].version = c.expected
        /\ Kind(c) # "create" => c.row = On(c)
        /\ Kind(c) = "transition" => inc2[c.row].status = c.status
  BY DEF Fit
<1>7. c.pc = "audited" => Kind(c) = "transition" /\ al = t /\ c.seq = n2 + 1
  BY DEF Fit
<1> QED BY <1>1, <1>3, <1>4, <1>5, <1>6, <1>7 DEF Fit

(* What s has in hand when it commits. *)
LEMMA AtCommit ==
  ASSUME IInv, NEW s \in Session, Commit(s)
  PROVE  LET c == call[s]
             i == c.row
         IN /\ c \in CallRow /\ c.slot \in Slot /\ i \in Incident
            /\ Kind(c) \in {"create", "update", "transition"}
            /\ keyLock[c.slot] = s /\ record[c.slot].state = "free" /\ rowLock[i] = s
            /\ incident[i].version = c.expected /\ incident[i].version \in Nat
            /\ NewStatus(c) \in Status
            /\ Kind(c) = "transition" =>
                 /\ auditLock = s /\ c.seq = Cardinality(audit) + 1
                 /\ Allowed(incident[i].status, c.target, c.granted)
                 /\ c.expected <= c.seen /\ c.seen <= incident[i].version
                 /\ incident[i].status \in Status /\ c.target \in TRANSITIONS[incident[i].status]
            /\ Kind(c) = "create"  => incident[i].version = 0
            /\ Kind(c) = "update"  => incident[i].status \in Status /\ i = On(c)
            /\ Kind(c) = "transition" => c.target \in Target /\ i = On(c)
            /\ Kind(c) # "transition" => c.target = None
<1> DEFINE c == call[s]
           i == c.row
<1>1. /\ c \in CallRow
      /\ Fit(s, c, incident, record, keyLock, rowLock, auditLock, Cardinality(audit))
      /\ c.pc = IF Kind(c) = "transition" THEN "audited" ELSE "changed"
  BY DEF IInv, CallsOK, Commit
<1> HIDE DEF c
<1>2. /\ c.pc # "idle" /\ c.pc \in {"reserved", "decided", "changed", "audited"}
      /\ c.pc \in {"changed", "audited"}
      /\ Kind(c) = "transition" => c.pc = "audited"
  BY <1>1
<1>3. /\ c.slot \in Slot /\ i \in Incident /\ keyLock[c.slot] = s /\ record[c.slot].state = "free"
      /\ rowLock[i] = s /\ incident[i].version = c.expected
      /\ Kind(c) = "create" <=> c.expected = 0
      /\ Kind(c) # "create" => i = On(c)
      /\ Kind(c) = "transition" =>
           /\ auditLock = s /\ c.seq = Cardinality(audit) + 1
           /\ c.expected <= c.seen /\ c.seen <= incident[i].version
           /\ c.status \in Status /\ Allowed(c.status, c.target, c.granted)
           /\ incident[i].status = c.status
  BY <1>1, <1>2 DEF Fit
<1>4. Kind(c) \in {"create", "update", "transition"}
  BY <1>3, SlotAssumption DEF Kind
<1>5. /\ incident[i].version \in Nat /\ incident[i].status \in Status \cup {"absent"}
      /\ incident[i].version # 0 => incident[i].status \in Status
  BY <1>3 DEF IInv, RowsOK
<1>6. Kind(c) = "transition" =>
        /\ Allowed(incident[i].status, c.target, c.granted)
        /\ incident[i].status \in Status
        /\ c.target \in TRANSITIONS[incident[i].status]
  <2>1. Kind(c) = "transition" => Allowed(incident[i].status, c.target, c.granted)
    BY <1>3
  <2> QED BY <1>3, <2>1 DEF Allowed
<1>9. Kind(c) = "update" => incident[i].status \in Status /\ i = On(c)
  <2>1. Kind(c) = "update" => Kind(c) # "create"
    OBVIOUS
  <2>2. Kind(c) = "update" => incident[i].version # 0 /\ i = On(c)
    BY <1>3, <2>1
  <2> QED BY <1>5, <2>2
<1>10. Kind(c) = "create" => incident[i].version = 0
  BY <1>3
<1>11. /\ Kind(c) = "transition" => c.target \in Target /\ i = On(c)
       /\ Kind(c) # "transition" => c.target = None
  <2>1. (Kind(c) = "transition" <=> c.target # None) /\ c.target \in Target \cup {None}
    BY <1>1, <1>2 DEF Fit, CallRow
  <2> QED BY <1>3, <2>1
<1>7. \A from \in Status : TRANSITIONS[from] \subseteq Status
  BY DEF TRANSITIONS, Status
<1>8. NewStatus(c) \in Status
  <2>1. CASE Kind(c) = "create"
    BY <2>1 DEF NewStatus, Status
  <2>2. CASE Kind(c) = "update"
    BY <1>9, <2>2 DEF NewStatus
  <2>3. CASE Kind(c) = "transition"
    BY <1>3, <1>5, <1>6, <1>7, <2>3 DEF NewStatus
  <2> QED BY <1>4, <2>1, <2>2, <2>3
<1> QED BY <1>1, <1>3, <1>4, <1>5, <1>6, <1>8, <1>9, <1>10, <1>11 DEF c

(* The row that a commit writes, one version on. *)
LEMMA RowAtCommit ==
  ASSUME IInv, NEW s \in Session, Commit(s)
  PROVE  LET i == call[s].row
         IN /\ RowsOK'
            /\ incident'[i].status = NewStatus(call[s])
            /\ incident'[i].version = incident[i].version + 1
            /\ \A k \in Incident \ {i} : incident'[k] = incident[k]
<1> DEFINE i   == call[s].row
           new == [status |-> NewStatus(call[s]), version |-> incident[i].version + 1]
<1>1. i \in Incident /\ NewStatus(call[s]) \in Status /\ incident[i].version \in Nat
  BY AtCommit
<1>2. /\ new \in [status : Status \cup {"absent"}, version : Nat]
      /\ new.status = NewStatus(call[s]) /\ new.version = incident[i].version + 1
      /\ new.status # "absent" /\ new.version # 0
  BY <1>1 DEF Status
<1>3. incident' = [incident EXCEPT ![i] = new]
  BY DEF Commit
<1> HIDE DEF new
<1>4. \A k \in Incident : incident'[k] = IF k = i THEN new ELSE incident[k]
  BY <1>1, <1>3 DEF IInv, RowsOK
<1>5. RowsOK'
  BY <1>1, <1>2, <1>3, <1>4 DEF IInv, RowsOK
<1> QED BY <1>1, <1>2, <1>4, <1>5

(* A key's record is taken with its first and only effect. *)
LEMMA RecordAtCommit ==
  ASSUME IInv, NEW s \in Session, Commit(s)
  PROVE  RecordsOK' /\ \A x \in Slot \ {call[s].slot} : record'[x] = record[x]
<1> DEFINE c      == call[s]
           i      == c.row
           result == [incident |-> i, version |-> incident[i].version + 1]
           effect == [slot |-> c.slot, print |-> Fingerprint(c), result |-> result]
<1>1. /\ c.slot \in Slot /\ record[c.slot].state = "free" /\ c.expected \in Nat
      /\ incident[i].version = c.expected /\ record = [x \in Slot |-> record[x]]
  BY AtCommit DEF CallRow, IInv, RecordsOK
<1>2. /\ \E late \in BOOLEAN : record' = [record EXCEPT ![c.slot] = Taken(c, result, late)]
      /\ effects' = effects \cup {effect} /\ replies' = replies \cup {effect}
  BY DEF Commit
<1>2a. PICK late \in BOOLEAN : record' = [record EXCEPT ![c.slot] = Taken(c, result, late)]
  BY <1>2
<1> DEFINE taken == Taken(c, result, late)
<1>2b. record' = [record EXCEPT ![c.slot] = taken]
  BY <1>2a
<1>3. /\ effect.slot = c.slot /\ effect.print[2] = c.expected
      /\ effect.result.version = c.expected + 1
  BY <1>1 DEF Fingerprint
<1>4. /\ taken.state \in {"in_progress", "completed"}
      /\ taken.state = "completed" =>
           [slot |-> c.slot, print |-> taken.print, result |-> taken.result] = effect
  BY DEF Taken
<1> HIDE DEF effect, taken, result
<1>5. /\ record' = [x \in Slot |-> record'[x]]
      /\ \A x \in Slot : record'[x] = IF x = c.slot THEN taken ELSE record[x]
  BY <1>1, <1>2b
<1>6. \A e \in effects : e.slot # c.slot
  BY <1>1 DEF IInv, RecordsOK
<1>7. OneEffectPerKey' /\ EditsBuildOnWhatWasSeen'
  BY <1>2, <1>3, <1>6 DEF IInv, RecordsOK, OneEffectPerKey, EditsBuildOnWhatWasSeen
<1>8. \A x \in Slot :
        /\ record'[x].state \in {"free", "in_progress", "completed"}
        /\ record'[x].state = "free" <=> record'[x] = Free
  <2>1. taken # Free /\ taken.state # "free" /\ Free.state = "free"
    BY <1>4 DEF Free
  <2>2. \A x \in Slot :
          /\ record[x].state \in {"free", "in_progress", "completed"}
          /\ record[x].state = "free" <=> record[x] = Free
    BY DEF IInv, RecordsOK
  <2>3. TAKE x \in Slot
  <2>4. CASE x = c.slot
    BY <1>4, <1>5, <2>1, <2>4
  <2>5. CASE x # c.slot
    BY <1>5, <2>2, <2>5
  <2> QED BY <2>4, <2>5
<1>9. \A x \in Slot : record'[x].state = "completed" =>
        [slot |-> x, print |-> record'[x].print, result |-> record'[x].result] \in effects'
  BY <1>2, <1>4, <1>5 DEF IInv, RecordsOK
<1>10. \A e \in effects' : e.slot \in Slot /\ record'[e.slot].state # "free"
  BY <1>1, <1>2, <1>3, <1>4, <1>5 DEF IInv, RecordsOK
<1>11. RecordsOK'
  BY <1>5, <1>7, <1>8, <1>9, <1>10 DEF RecordsOK, Free
<1> QED BY <1>5, <1>11

(* A transition leaves one event, of a version no event has. *)
LEMMA EventAtCommit ==
  ASSUME IInv, NEW s \in Session, Commit(s)
  PROVE  LET i == call[s].row
             e == [version |-> incident[i].version + 1, to |-> call[s].target]
         IN /\ HistoryOK'
            /\ \A k \in Incident \ {i} : events'[k] = events[k]
            /\ events'[i] = IF Kind(call[s]) = "transition" THEN events[i] \cup {e} ELSE events[i]
            /\ Kind(call[s]) = "transition" => e \in [version : Nat, to : Status]
<1> DEFINE i == call[s].row
           e == [version |-> incident[i].version + 1, to |-> call[s].target]
<1>1. /\ i \in Incident /\ incident[i].version \in Nat /\ RowsOK'
      /\ incident'[i].version = incident[i].version + 1
      /\ \A k \in Incident \ {i} : incident'[k] = incident[k]
  BY AtCommit, RowAtCommit
<1>2. Kind(call[s]) = "transition" => e \in [version : Nat, to : Status]
  <2>1. Kind(call[s]) = "transition" => call[s].target \in Status
    BY AtCommit DEF TRANSITIONS, Status
  <2> QED BY <1>1, <2>1
<1>3. e.version = incident[i].version + 1
  OBVIOUS
<1> HIDE DEF e
<1>4. events' = IF Kind(call[s]) = "transition" THEN [events EXCEPT ![i] = @ \cup {e}] ELSE events
  BY DEF Commit, e
<1>5. /\ \A k \in Incident \ {i} : events'[k] = events[k]
      /\ events'[i] = IF Kind(call[s]) = "transition" THEN events[i] \cup {e} ELSE events[i]
  BY <1>1, <1>4 DEF IInv, HistoryOK
<1>6. events' \in [Incident -> Events]
  BY <1>1, <1>2, <1>4 DEF IInv, HistoryOK, Events
<1>7. \A k \in Incident : \A f \in events'[k] : 1 <= f.version /\ f.version <= incident'[k].version
  <2>1. \A k \in Incident : \A f \in events[k] :
          f.version \in Nat /\ 1 <= f.version /\ f.version <= incident[k].version
    BY DEF IInv, HistoryOK, Events
  <2> QED BY <1>1, <1>3, <1>5, <2>1
<1>8. HistoryOK'
  BY <1>6, <1>7 DEF HistoryOK
<1> QED BY <1>2, <1>5, <1>8 DEF e

(* The one session with the chain's lock appends the number after the last. *)
LEMMA AuditAtCommit ==
  ASSUME IInv, NEW s \in Session, Commit(s)
  PROVE  AuditOK' /\ (Cardinality(audit') = Cardinality(audit) \/ auditLock = s)
<1> DEFINE c == call[s]
           i == c.row
           n == Cardinality(audit)
           a == [seq |-> c.seq, prev |-> c.seq - 1, incident |-> i,
                 version |-> incident[i].version + 1]
           e == [version |-> incident[i].version + 1, to |-> c.target]
<1>1. /\ IsFiniteSet(audit) /\ n \in Nat /\ {b.seq : b \in audit} = 1..n
      /\ audit \subseteq [seq : Nat, prev : Nat, incident : Incident, version : Nat]
      /\ \A b \in audit : b.prev = b.seq - 1
      /\ \A k \in Incident : {b.version : b \in {d \in audit : d.incident = k}}
                             = {f.version : f \in events[k]}
      /\ \A b, d \in audit : b.incident = d.incident /\ b.seq < d.seq => b.version < d.version
  BY FS_CardinalityType DEF IInv, AuditOK, AuditChain
<1>2. /\ i \in Incident /\ incident[i].version \in Nat
      /\ \A k \in Incident \ {i} : events'[k] = events[k]
      /\ events'[i] = IF Kind(c) = "transition" THEN events[i] \cup {e} ELSE events[i]
  BY AtCommit, EventAtCommit
<1>3. CASE Kind(c) # "transition"
  <2>1. audit' = audit /\ \A k \in Incident : events'[k] = events[k]
    BY <1>2, <1>3 DEF Commit
  <2> QED BY <1>1, <2>1 DEF AuditOK, AuditChain
<1>4. CASE Kind(c) = "transition"
  <2>1. audit' = audit \cup {a} /\ auditLock = s /\ c.seq = n + 1
    BY <1>4, AtCommit DEF Commit
  <2>2. /\ a.seq = n + 1 /\ a.prev = n /\ a.incident = i /\ a.version = incident[i].version + 1
        /\ a \in [seq : Nat, prev : Nat, incident : Incident, version : Nat]
    BY <1>1, <1>2, <2>1
  <2>3. e.version = incident[i].version + 1
    OBVIOUS
  <2> HIDE DEF a, n, e
  <2>4. \A b \in audit : b.seq \in 1..n
    BY <1>1
  <2>5. a \notin audit
    BY <1>1, <2>2, <2>4
  <2>6. IsFiniteSet(audit') /\ Cardinality(audit') = n + 1
    BY <1>1, <2>1, <2>5, FS_AddElement DEF n
  <2>7. {b.seq : b \in audit'} = 1..(n + 1)
    <3>1. {b.seq : b \in audit'} = {b.seq : b \in audit} \cup {a.seq}
      BY <2>1
    <3> QED BY <1>1, <2>2, <3>1
  <2>8. \A b \in audit' : b.prev = b.seq - 1
    BY <1>1, <2>1, <2>2
  <2>9. \A k \in Incident : {b.version : b \in {d \in audit' : d.incident = k}}
                            = {f.version : f \in events'[k]}
    <3> TAKE k \in Incident
    <3>1. CASE k # i
      <4>1. {d \in audit' : d.incident = k} = {d \in audit : d.incident = k}
        BY <2>1, <2>2, <3>1
      <4> QED BY <1>1, <1>2, <3>1, <4>1
    <3>2. CASE k = i
      <4>1. {d \in audit' : d.incident = k} = {d \in audit : d.incident = k} \cup {a}
        BY <2>1, <2>2, <3>2
      <4>2. {b.version : b \in {d \in audit' : d.incident = k}}
            = {b.version : b \in {d \in audit : d.incident = k}} \cup {a.version}
        BY <4>1
      <4>3. {f.version : f \in events'[k]} = {f.version : f \in events[k]} \cup {e.version}
        BY <1>2, <1>4, <3>2
      <4>4. {b.version : b \in {d \in audit : d.incident = k}} = {f.version : f \in events[k]}
        BY <1>1
      <4> HIDE DEF i
      <4> QED BY ONLY <2>2, <2>3, <4>2, <4>3, <4>4
    <3> QED BY <3>1, <3>2
  <2>10. \A b \in audit : b.incident = i => b.version < a.version
    <3> TAKE b \in audit
    <3>1. b.incident = i => b.version \in {f.version : f \in events[i]}
      BY <1>1, <1>2
    <3>2. \A f \in events[i] : f.version \in Nat /\ f.version <= incident[i].version
      BY <1>2 DEF IInv, HistoryOK, Events
    <3> QED BY <1>2, <2>2, <3>1, <3>2
  <2>11. \A b, d \in audit' : b.incident = d.incident /\ b.seq < d.seq => b.version < d.version
    <3> TAKE b \in audit', d \in audit'
    <3>1. CASE b = a
      BY <1>1, <2>1, <2>2, <2>4, <3>1
    <3>2. CASE b # a /\ d = a
      BY <2>1, <2>2, <2>10, <3>2
    <3>3. CASE b # a /\ d # a
      BY <1>1, <2>1, <3>3
    <3> QED BY <3>1, <3>2, <3>3
  <2>12. audit' \subseteq [seq : Nat, prev : Nat, incident : Incident, version : Nat]
    BY <1>1, <2>1, <2>2
  <2>13. AuditOK'
    BY <2>6, <2>7, <2>8, <2>9, <2>11, <2>12 DEF AuditOK, AuditChain
  <2> QED BY <2>1, <2>13
<1> QED BY <1>3, <1>4

(* The event of a commit is of a later version than any reader has reached. *)
LEMMA StreamsAtCommit == ASSUME IInv, NEW s \in Session, Commit(s) PROVE StreamsOK'
<1> DEFINE i == call[s].row
           e == [version |-> incident[i].version + 1, to |-> call[s].target]
<1>1. /\ i \in Incident /\ incident[i].version \in Nat
      /\ incident'[i].version = incident[i].version + 1
      /\ \A k \in Incident \ {i} : incident'[k] = incident[k] /\ events'[k] = events[k]
      /\ events'[i] = IF Kind(call[s]) = "transition" THEN events[i] \cup {e} ELSE events[i]
      /\ stream' = stream
  BY AtCommit, RowAtCommit, EventAtCommit, ZenonT(60) DEF Commit
<1>2. e.version = incident[i].version + 1
  OBVIOUS
<1> HIDE DEF e, i
<1>3. \A r \in Reader : stream[r].on \in Incident \cup {None} /\ stream[r].cursor \in Nat
  BY DEF IInv, StreamsOK, Place
<1>4. \A k \in Incident : incident[k].version \in Nat
  BY DEF IInv, RowsOK
<1>5. \A k \in Incident :
        /\ events[k] \subseteq events'[k]
        /\ incident[k].version <= incident'[k].version
        /\ \A f \in events'[k] : f \in events[k] \/ f.version > incident[k].version
  <2> TAKE k \in Incident
  <2>1. CASE k = i
    BY <1>1, <1>2, <2>1
  <2>2. CASE k # i
    BY <1>1, <1>4, <2>2
  <2> QED BY <2>1, <2>2
<1>6. \A k \in Incident : incident'[k].version \in Nat
  BY <1>1, <1>4
<1>7. ASSUME NEW r \in Reader, stream[r].on # None
      PROVE  /\ stream[r].sent \subseteq events'[stream[r].on]
             /\ stream[r].cursor <= incident'[stream[r].on].version
             /\ \A f \in events'[stream[r].on] :
                  f.version <= stream[r].cursor => f \in stream[r].sent
  <2> DEFINE k == stream[r].on
  <2>1. /\ k \in Incident /\ stream[r].sent \subseteq events[k] /\ stream[r].cursor \in Nat
        /\ stream[r].cursor <= incident[k].version
        /\ \A f \in events[k] : f.version <= stream[r].cursor => f \in stream[r].sent
    BY <1>3, <1>7 DEF IInv, StreamsOK, StreamSkipsNothing
  <2>2. \A f \in events'[k] : f.version \in Nat
    <3>1. HistoryOK'
      BY EventAtCommit
    <3> QED BY <2>1, <3>1 DEF HistoryOK, Events
  <2> HIDE DEF k
  <2>3. /\ stream[r].sent \subseteq events'[k] /\ stream[r].cursor <= incident'[k].version
        /\ \A f \in events'[k] : f.version <= stream[r].cursor => f \in stream[r].sent
    BY <1>4, <1>5, <1>6, <2>1, <2>2
  <2> QED BY <2>3 DEF k
<1> QED BY <1>1, <1>7 DEF IInv, StreamsOK, StreamSkipsNothing

LEMMA ToldByLast ==
  ASSUME NEW es, Ordered(es), \A e \in es : e.version \in Nat, NEW v \in Nat, NEW e, LastBy(es, v, e)
  PROVE  StatusAt(es, v) = e.to
<1> DEFINE Is(f) == /\ f.version <= v
                    /\ \A g \in es : g.version <= v => g.version <= f.version
<1>1. e \in es /\ Is(e) /\ \E f \in es : f.version <= v
  BY DEF LastBy
<1>2. ASSUME NEW f \in es, Is(f) PROVE f = e
  <2>1. f.version <= e.version /\ e.version <= f.version
    BY <1>1, <1>2
  <2>2. f.version = e.version
    BY <1>1, <2>1
  <2> QED BY <1>1, <2>2 DEF Ordered
<1>3. StatusAt(es, v) = (CHOOSE f \in es : Is(f)).to
  BY <1>1 DEF StatusAt
<1> HIDE DEF Is
<1>4. (CHOOSE f \in es : Is(f)) = e
  BY <1>1, <1>2
<1> QED BY <1>3, <1>4

(* A later event changes nothing of what was told before it, and tells its own status. *)
LEMMA ToldLater ==
  ASSUME NEW es, Ordered(es), \A e \in es : e.version \in Nat, NEW new, new.version \in Nat,
         \A e \in es : e.version < new.version
  PROVE  /\ Ordered(es \cup {new})
         /\ \A v \in Nat : v < new.version => StatusAt(es \cup {new}, v) = StatusAt(es, v)
         /\ StatusAt(es \cup {new}, new.version) = new.to
<1> DEFINE es2 == es \cup {new}
<1>1. /\ \A e \in es2 : e.version \in Nat /\ (e \in es \/ e = new)
      /\ \A e \in es : e \in es2 /\ e.version < new.version
      /\ new \in es2
  OBVIOUS
<1> HIDE DEF es2
<1>2. \A e, f \in es2 : e.version = f.version => e = f
  BY <1>1 DEF Ordered
<1>3. \A v \in Nat : v >= new.version => LastBy(es2, v, new)
  BY <1>1 DEF LastBy
<1>4. \A v \in Nat : v < new.version =>
        /\ \A e \in es : LastBy(es, v, e) => LastBy(es2, v, e)
        /\ (\A e \in es : ~(e.version <= v)) => (\A e \in es2 : ~(e.version <= v))
  BY <1>1 DEF LastBy
<1>5. \A v \in Nat : (\A e \in es2 : ~(e.version <= v)) \/ \E e \in es2 : LastBy(es2, v, e)
  <2> TAKE v \in Nat
  <2>1. CASE v >= new.version
    BY <1>1, <1>3, <2>1
  <2>2. CASE v < new.version
    BY <1>1, <1>4, <2>2 DEF Ordered
  <2> QED BY <2>1, <2>2
<1>6. Ordered(es2)
  BY <1>2, <1>5 DEF Ordered
<1>7. ASSUME NEW v \in Nat, v < new.version PROVE StatusAt(es2, v) = StatusAt(es, v)
  <2>1. CASE \A e \in es : ~(e.version <= v)
    BY <1>4, <1>7, <2>1 DEF StatusAt
  <2>2. CASE ~(\A e \in es : ~(e.version <= v))
    <3>1. PICK e \in es : LastBy(es, v, e)
      BY <2>2 DEF Ordered
    <3>2. LastBy(es2, v, e)
      BY <1>4, <1>7, <3>1
    <3>3. StatusAt(es, v) = e.to
      BY <3>1, ToldByLast
    <3>4. StatusAt(es2, v) = e.to
      BY <1>1, <1>6, <3>2, ToldByLast
    <3> QED BY <3>3, <3>4
  <2> QED BY <2>1, <2>2
<1>8. StatusAt(es2, new.version) = new.to
  BY <1>1, <1>3, <1>6, ToldByLast
<1> QED BY <1>6, <1>7, <1>8 DEF es2

(* A version without an event tells what the one before it did. *)
LEMMA ToldBetween ==
  ASSUME NEW es, Ordered(es), NEW v \in Nat, \A e \in es : e.version \in Nat /\ e.version <= v
  PROVE  StatusAt(es, v + 1) = StatusAt(es, v)
<1>1. \A e \in es : e.version <= v /\ e.version <= v + 1
  OBVIOUS
<1>2. CASE es = {}
  BY <1>2 DEF StatusAt
<1>3. CASE es # {}
  <2>1. PICK e \in es : LastBy(es, v, e)
    BY <1>3 DEF Ordered
  <2>2. LastBy(es, v + 1, e)
    BY <1>1, <2>1 DEF LastBy
  <2>3. v + 1 \in Nat
    OBVIOUS
  <2> QED BY <2>1, <2>2, <2>3, ToldByLast
<1> QED BY <1>2, <1>3

(* The history tells the status that a commit writes: the new one of a creation, the old *)
(* one of an update, its own of a transition.                                            *)
LEMMA TellsAtCommit == ASSUME IInv, NEW s \in Session, Commit(s) PROVE TellsOK'
<1> DEFINE c == call[s]
           i == c.row
           v == incident[i].version
           e == [version |-> v + 1, to |-> c.target]
<1>1. /\ i \in Incident /\ v \in Nat /\ Kind(c) \in {"create", "update", "transition"}
      /\ incident'[i].status = NewStatus(c) /\ incident'[i].version = v + 1
      /\ \A k \in Incident \ {i} : incident'[k] = incident[k] /\ events'[k] = events[k]
      /\ events'[i] = IF Kind(c) = "transition" THEN events[i] \cup {e} ELSE events[i]
  BY AtCommit, RowAtCommit, EventAtCommit, ZenonT(60)
<1>2. /\ Kind(c) = "create"     => NewStatus(c) = "new" /\ v = 0
      /\ Kind(c) = "update"     => NewStatus(c) = incident[i].status /\ incident[i].status \in Status
      /\ Kind(c) = "transition" => /\ NewStatus(c) = c.target /\ incident[i].status \in Status
                                   /\ c.target \in TRANSITIONS[incident[i].status]
  BY AtCommit DEF NewStatus
<1>3. \A f \in events[i] : f.version \in Nat /\ 1 <= f.version /\ f.version <= v
  BY <1>1 DEF IInv, HistoryOK, Events
<1>4. /\ Ordered(events[i])
      /\ incident[i].status # "absent" => incident[i].status = StatusAt(events[i], v)
      /\ incident[i].status # "absent" => v # 0
      /\ \A f \in events[i] : /\ 2 <= f.version
                              /\ f.to \in TRANSITIONS[StatusAt(events[i], f.version - 1)]
  BY <1>1 DEF IInv, TellsOK, RowsOK
<1>5. e.version = v + 1 /\ e.to = c.target /\ "absent" \notin Status
  BY DEF Status
<1> HIDE DEF c, i, v, e
<1>6. /\ Ordered(events'[i])
      /\ incident'[i].status = StatusAt(events'[i], v + 1)
      /\ \A f \in events'[i] : /\ 2 <= f.version
                               /\ f.to \in TRANSITIONS[StatusAt(events'[i], f.version - 1)]
  <2>1. CASE Kind(c) = "create"
    <3>1. events'[i] = {} /\ events[i] = {}
      BY <1>1, <1>2, <1>3, <2>1
    <3>2. StatusAt(events'[i], v + 1) = "new"
      BY <3>1 DEF StatusAt
    <3> QED BY <1>1, <1>2, <1>4, <2>1, <3>1, <3>2
  <2>2. CASE Kind(c) = "update"
    <3>1. events'[i] = events[i] /\ incident'[i].status = StatusAt(events[i], v)
      BY <1>1, <1>2, <1>4, <1>5, <2>2
    <3>2. StatusAt(events[i], v + 1) = StatusAt(events[i], v)
      BY <1>1, <1>3, <1>4, ToldBetween
    <3> QED BY <1>4, <3>1, <3>2
  <2>3. CASE Kind(c) = "transition"
    <3>1. events'[i] = events[i] \cup {e} /\ v # 0 /\ incident[i].status = StatusAt(events[i], v)
          /\ incident'[i].status = e.to
      BY <1>1, <1>2, <1>4, <1>5, <2>3
    <3>2. e.version \in Nat /\ \A f \in events[i] : f.version \in Nat /\ f.version < e.version
      BY <1>1, <1>3, <1>5
    <3>3. /\ Ordered(events'[i])
          /\ \A w \in Nat : w < e.version => StatusAt(events'[i], w) = StatusAt(events[i], w)
          /\ StatusAt(events'[i], e.version) = e.to
      <4> DEFINE es == events[i]
      <4>1. /\ Ordered(es) /\ e.version \in Nat /\ events'[i] = es \cup {e}
            /\ \A f \in es : f.version \in Nat
            /\ \A f \in es : f.version < e.version
        BY <1>4, <3>1, <3>2
      <4> HIDE DEF es
      <4>2. /\ Ordered(es \cup {e})
            /\ \A w \in Nat : w < e.version => StatusAt(es \cup {e}, w) = StatusAt(es, w)
            /\ StatusAt(es \cup {e}, e.version) = e.to
        BY ONLY <4>1, ToldLater
      <4> QED BY <4>1, <4>2 DEF es
    <3>4. ASSUME NEW f \in events[i]
          PROVE  2 <= f.version /\ f.to \in TRANSITIONS[StatusAt(events'[i], f.version - 1)]
      <4>1. f.version - 1 \in Nat /\ f.version - 1 < e.version
        BY <1>3, <3>2
      <4> QED BY <1>4, <3>3, <4>1
    <3>5. 2 <= e.version /\ e.to \in TRANSITIONS[StatusAt(events'[i], e.version - 1)]
      <4>1. e.version - 1 = v /\ v < e.version /\ 2 <= e.version
        BY <1>1, <1>5, <3>1
      <4> QED BY <1>1, <1>2, <1>5, <2>3, <3>1, <3>3, <4>1
    <3> QED BY <1>5, <3>1, <3>3, <3>4, <3>5
  <2> QED BY <1>1, <2>1, <2>2, <2>3
<1>7. ASSUME NEW k \in Incident
      PROVE  /\ incident'[k].status # "absent" =>
                  incident'[k].status = StatusAt(events'[k], incident'[k].version)
             /\ \A f \in events'[k] : /\ 2 <= f.version
                                      /\ f.to \in TRANSITIONS[StatusAt(events'[k], f.version - 1)]
             /\ Ordered(events'[k])
  <2>1. CASE k = i
    BY <1>1, <1>6, <2>1
  <2>2. CASE k # i
    BY <1>1, <2>2 DEF IInv, TellsOK
  <2> QED BY <2>1, <2>2
<1> QED BY <1>7 DEF TellsOK

LEMMA CommitIInv == ASSUME IInv, NEW s \in Session, Commit(s) PROVE IInv'
<1> DEFINE i == call[s].row
           x == call[s].slot
           n == Cardinality(audit)
<1>1. /\ i \in Incident /\ x \in Slot /\ keyLock[x] = s /\ rowLock[i] = s
      /\ incident[i].version \in Nat /\ incident'[i].version = incident[i].version + 1
      /\ \A k \in Incident \ {i} : incident'[k] = incident[k]
      /\ \A y \in Slot \ {x} : record'[y] = record[y]
      /\ Cardinality(audit') = n \/ auditLock = s
  BY AtCommit, RowAtCommit, RecordAtCommit, AuditAtCommit
<1>2. \A k \in Incident : incident[k].version \in Nat /\ incident'[k].version \in Nat
  BY <1>1 DEF IInv, RowsOK
<1>3. LocksOK /\ Release(s)
  BY DEF IInv, Commit
<1>4. /\ LocksOK'
      /\ \A y \in Slot : keyLock'[y] = keyLock[y] \/ keyLock[y] \in {None, s}
      /\ \A k \in Incident : rowLock'[k] = rowLock[k] \/ rowLock[k] \in {None, s}
      /\ auditLock' = auditLock \/ auditLock \in {None, s}
      /\ call' = [call EXCEPT ![s] = Idle]
  BY <1>3, ReleaseLocks
<1>5. /\ call' \in [Session -> CallRow] /\ call'[s] = Idle
      /\ \A t \in Session \ {s} : call'[t] = call[t]
  BY <1>4, IdleRow DEF IInv, CallsOK
<1>6. ASSUME NEW t \in Session
      PROVE  Fit(t, call'[t], incident', record', keyLock', rowLock', auditLock', Cardinality(audit'))
  <2>1. CASE t = s
    BY <1>5, <2>1, IdleRow DEF Fit
  <2>2. CASE t # s
    <3>1. /\ call[t] \in CallRow /\ call'[t] = call[t]
          /\ Fit(t, call[t], incident, record, keyLock, rowLock, auditLock, n)
      BY <1>5, <2>2 DEF IInv, CallsOK
    <3>2. incident[i].version <= incident'[i].version
      BY <1>1
    <3> HIDE DEF i, x, n
    <3>3. Fit(t, call[t], incident', record', keyLock, rowLock, auditLock, Cardinality(audit'))
      BY <1>1, <1>2, <2>2, <3>1, <3>2, FitOverCommit
    <3>4. Fit(t, call[t], incident', record', keyLock', rowLock', auditLock', Cardinality(audit'))
      BY <1>4, <2>2, <3>1, <3>3, FitKept
    <3> QED BY <3>1, <3>4
  <2> QED BY <2>1, <2>2
<1>7. CallsOK'
  BY <1>5, <1>6 DEF CallsOK
<1>8. RowsOK' /\ RecordsOK' /\ HistoryOK' /\ TellsOK' /\ AuditOK' /\ StreamsOK'
  BY RowAtCommit, RecordAtCommit, EventAtCommit, TellsAtCommit, AuditAtCommit, StreamsAtCommit
<1> QED BY <1>4, <1>7, <1>8 DEF IInv

LEMMA StepIInv == IInv /\ [Next]_vars => IInv'
<1> SUFFICES ASSUME IInv, [Next]_vars PROVE IInv'
  OBVIOUS
<1>1. ASSUME NEW s \in Session, Call(s) PROVE IInv'
  BY <1>1, CallIInv
<1>2. ASSUME NEW s \in Session, Serve(s) PROVE IInv'
  BY <1>2, ReadGuardsIInv, ReserveIInv, DecideIInv, ChangeIInv, InsertIInv, AppendAuditIInv,
     CommitIInv DEF Serve
<1>4. ASSUME NEW s \in Session, Abort(s) PROVE IInv'
  BY <1>4, RollbackIInv DEF Abort
<1>5. ASSUME NEW r \in Reader, NEW i \in Incident, Open(r, i) PROVE IInv'
  BY <1>5, OpenIInv
<1>6. ASSUME NEW r \in Reader, Poll(r) PROVE IInv'
  BY <1>6, PollIInv
<1>7. ASSUME NEW r \in Reader, Reconnect(r) PROVE IInv'
  BY <1>7, ReconnectIInv
<1>8. CASE UNCHANGED vars
  <2>1. StreamsOK'
    BY <1>8 DEF vars, IInv, StreamsOK, StreamSkipsNothing
  <2> QED BY <1>8, <2>1, ReadersApart DEF vars
<1> QED BY <1>1, <1>2, <1>4, <1>5, <1>6, <1>7, <1>8 DEF Next

LEMMA Invariant == Spec => []IInv
<1> QED BY InitIInv, StepIInv, PTL DEF Spec

(* Rows, records, events, the chain, the locks and the calls stay of their types.          *)
THEOREM TypeCorrect == Spec => []TypeOK
<1>1. IInv => TypeOK
  <2> SUFFICES ASSUME IInv PROVE TypeOK
    OBVIOUS
  <2>1. ASSUME NEW i \in Incident
        PROVE  incident[i] = Absent \/ incident[i] \in [status : Status, version : Nat \ {0}]
    <3>1. /\ incident[i] \in [status : Status \cup {"absent"}, version : Nat]
          /\ incident[i].status = "absent" <=> incident[i].version = 0
      BY DEF IInv, RowsOK
    <3>2. CASE incident[i].version = 0
      BY <3>1, <3>2 DEF Absent
    <3>3. CASE incident[i].version # 0
      BY <3>1, <3>3
    <3> QED BY <3>2, <3>3
  <2>2. \A s \in Session : call[s].pc \in PC
    BY DEF IInv, CallsOK, CallRow
  <2>3. \A x \in Slot : /\ record[x].state \in {"free", "in_progress", "completed"}
                        /\ record[x].state = "free" <=> record[x] = Free
    BY DEF IInv, RecordsOK
  <2>4. /\ \A i \in Incident : events[i] \subseteq [version : Nat, to : Status]
        /\ audit \subseteq [seq : Nat, prev : Nat, incident : Incident, version : Nat]
    BY DEF IInv, HistoryOK, Events, AuditOK
  <2> QED BY <2>1, <2>2, <2>3, <2>4 DEF IInv, LocksOK, TypeOK, PC
<1> QED BY <1>1, Invariant, PTL

(* An idempotency key is spent at most once and every success told is its effect          *)
(* (IdempotencyService.reserve, complete): the lock on a key's entry is held from the      *)
(* reservation to the commit, and no record goes back to free.                             *)
THEOREM KeysAreSpentOnce == Spec => []OneEffectPerKey
<1> QED BY Invariant, PTL DEF IInv, RecordsOK

(* No lost update (update_details, transition_status): the version a request expects is    *)
(* that of the row from the moment it has the row's lock.                                  *)
THEOREM NoLostUpdate == Spec => []EditsBuildOnWhatWasSeen
<1> QED BY Invariant, PTL DEF IInv, RecordsOK

(* The events of an incident account for its status, each a lawful step.                   *)
THEOREM HistoryTells == Spec => []HistoryExplainsStatus
<1>1. IInv => HistoryExplainsStatus
  <2> SUFFICES ASSUME IInv PROVE HistoryExplainsStatus
    OBVIOUS
  <2>1. \A i \in Incident : incident[i] # Absent => incident[i].status # "absent"
    BY DEF IInv, RowsOK, Absent
  <2>2. \A i \in Incident : \A e \in events[i] : e.version \in 2..incident[i].version
    BY DEF IInv, HistoryOK, TellsOK, RowsOK, Events
  <2> QED BY <2>1, <2>2 DEF IInv, TellsOK, Ordered, StatusAt, HistoryExplainsStatus
<1> QED BY <1>1, Invariant, PTL

(* A stream never steps over an event (list_events_after, with its cursor and limit).      *)
THEOREM StreamsAreWhole == Spec => []StreamSkipsNothing
<1> QED BY Invariant, PTL DEF IInv, StreamsOK

(* The audit chain has no gap and no fork (append_audit_event under its advisory lock).    *)
THEOREM ChainIsWhole == Spec => []AuditChain
<1> QED BY Invariant, PTL DEF IInv, AuditOK

(* Guards read outside the transaction are those of the version it changes: the version    *)
(* expected was there before they were read and is still there at the commit.              *)
THEOREM GuardsAreFresh == Spec => GuardsReadInVersion
<1>1. ASSUME IInv, NEW s \in Session, Commit(s), Kind(call[s]) = "transition"
      PROVE  /\ call[s].seen = incident[call[s].row].version
             /\ Guarded(incident[call[s].row].status, call[s].target) => call[s].granted
  <2>1. /\ call[s].expected \in Nat /\ call[s].seen \in Nat
        /\ incident[call[s].row].version = call[s].expected
        /\ call[s].expected <= call[s].seen /\ call[s].seen <= incident[call[s].row].version
        /\ Allowed(incident[call[s].row].status, call[s].target, call[s].granted)
    BY <1>1, AtCommit DEF CallRow
  <2>2. call[s].seen = incident[call[s].row].version
    BY <2>1
  <2>3. Guarded(incident[call[s].row].status, call[s].target) => call[s].granted
    BY <2>1 DEF Allowed
  <2> QED BY <2>2, <2>3
<1>2. IInv /\ [Next]_vars =>
        [\A s \in Session :
           Commit(s) /\ Kind(call[s]) = "transition" =>
             /\ call[s].seen = incident[call[s].row].version
             /\ Guarded(incident[call[s].row].status, call[s].target) => call[s].granted]_vars
  BY <1>1
<1> QED BY <1>2, Invariant, PTL DEF Spec, GuardsReadInVersion

(* Of the rows of the chain and the events behind them, the log keeps those it had, and a  *)
(* transition's commit is one more at its end.                                             *)
LEMMA LoggedAtCommit ==
  ASSUME IInv, NEW s \in Session, Commit(s)
  PROVE  LET i == call[s].row
             n == Cardinality(audit)
         IN /\ Kind(call[s]) # "transition" =>
                 Cardinality(audit') = n /\ \A m \in 1..n : Logged(m)' = Logged(m)
            /\ Kind(call[s]) = "transition" =>
                 /\ n \in Nat /\ Cardinality(audit') = n + 1
                 /\ \A m \in 1..n : Logged(m)' = Logged(m)
                 /\ \A m \in Nat : m = n + 1 =>
                      Logged(m)' = [incident |-> i, version |-> incident[i].version + 1,
                                    to |-> call[s].target]
<1> DEFINE i == call[s].row
           n == Cardinality(audit)
           v == incident[i].version + 1
           a == [seq |-> call[s].seq, prev |-> call[s].seq - 1, incident |-> i, version |-> v]
           e == [version |-> v, to |-> call[s].target]
<1>1. /\ IsFiniteSet(audit) /\ n \in Nat /\ {b.seq : b \in audit} = 1..n
      /\ \A b \in audit : b.incident \in Incident
      /\ \A k \in Incident : {b.version : b \in {d \in audit : d.incident = k}}
                             = {f.version : f \in events[k]}
  BY FS_CardinalityType DEF IInv, AuditOK, AuditChain
<1>2. /\ i \in Incident /\ incident[i].version \in Nat
      /\ \A k \in Incident \ {i} : events'[k] = events[k]
      /\ events'[i] = IF Kind(call[s]) = "transition" THEN events[i] \cup {e} ELSE events[i]
  BY AtCommit, EventAtCommit
<1>3. CASE Kind(call[s]) # "transition"
  <2>1. audit' = audit /\ events' = events
    BY <1>3 DEF Commit
  <2> QED BY <1>3, <2>1 DEF Logged, Entries, EventOf
<1>4. CASE Kind(call[s]) = "transition"
  <2>1. audit' = audit \cup {a} /\ call[s].seq = n + 1
    BY <1>4, AtCommit DEF Commit
  <2>2. a.seq = n + 1 /\ a.incident = i /\ a.version = v
    BY <2>1
  <2>3. e.version = v /\ e.to = call[s].target
    OBVIOUS
  <2>4. v \in Nat /\ \A f \in events[i] : f.version # v
    BY <1>2 DEF IInv, HistoryOK, Events
  <2>5. \A b \in audit : b.seq \in 1..n /\ b.seq # n + 1
    BY <1>1, SMTT(30)
  <2>6. \A b \in audit : b.incident = i => b.version # v
    <3> TAKE b \in audit
    <3>1. b.incident = i => b.version \in {f.version : f \in events[i]}
      BY <1>1, <1>2
    <3> QED BY <2>4, <3>1
  <2> HIDE DEF a, e, v
  <2>7. n \in Nat /\ Cardinality(audit') = n + 1
    <3>1. a \notin audit
      BY <2>2, <2>5
    <3> QED BY <1>1, <2>1, <3>1, FS_AddElement
  <2> HIDE DEF n
  <2>8. ASSUME NEW m \in 1..n PROVE Logged(m)' = Logged(m)
    <3>1. Entries(m)' = Entries(m) /\ m # n + 1
      BY <1>1, <2>1, <2>2 DEF Entries
    <3>2. Entries(m) # {}
      BY <1>1 DEF Entries
    <3>3. PICK b \in audit : b = CHOOSE d \in Entries(m) : TRUE
      BY <3>2 DEF Entries
    <3>4. EventOf(b)' = EventOf(b)
      <4>1. CASE b.incident = i
        BY <1>2, <1>4, <2>3, <2>6, <4>1 DEF EventOf
      <4>2. CASE b.incident # i
        BY <1>1, <1>2, <4>2 DEF EventOf
      <4> QED BY <4>1, <4>2
    <3> QED BY <3>1, <3>3, <3>4 DEF Logged
  <2>9. ASSUME NEW m \in Nat, m = n + 1
        PROVE  Logged(m)' = [incident |-> i, version |-> v, to |-> call[s].target]
    <3>1. PICK last, edge : last = a /\ edge = e
      OBVIOUS
    <3>2. Entries(m)' = {last}
      BY <2>1, <2>2, <2>5, <2>9, <3>1 DEF Entries
    <3>3. EventOf(last)' = {edge}
      BY <1>2, <1>4, <2>2, <2>3, <2>4, <3>1 DEF EventOf
    <3>4. (CHOOSE d \in {last} : TRUE) = last /\ (CHOOSE f \in {edge} : TRUE) = edge
      OBVIOUS
    <3>5. Logged(m)' = [incident |-> last.incident, version |-> last.version,
                        to |-> (CHOOSE f \in EventOf(last)' : TRUE).to]
      BY <3>2, <3>4 DEF Logged, EventOf
    <3> QED BY <2>2, <2>3, <3>1, <3>3, <3>4, <3>5
  <2> QED BY <1>4, <2>7, <2>8, <2>9 DEF n, v
<1> QED BY <1>3, <1>4

LEMMA InitContract == Init => Contract!Init
<1> SUFFICES ASSUME Init PROVE Contract!Init
  OBVIOUS
<1>1. Cardinality(audit) = 0
  BY FS_EmptySet DEF Init
<1>2. [n \in 1..Cardinality(audit) |-> Logged(n)] = <<>>
  BY <1>1
<1> QED BY <1>2 DEF Init, Contract!Init, Contract!Missing, Absent

(* What Append makes of a sequence given as a function. *)
LEMMA OneMoreAtEnd ==
  ASSUME NEW n \in Nat, NEW S, NEW seen \in [1..n -> S], NEW last
  PROVE  Append(seen, last) = [m \in 1..(n + 1) |-> IF m \in 1..n THEN seen[m] ELSE last]
<1> DEFINE T == S \cup {last}
           grown == Append(seen, last)
<1>1. seen \in [1..n -> T] /\ last \in T
  OBVIOUS
<1> HIDE DEF T
<1>2. seen \in Seq(T) /\ Len(seen) = n
  BY <1>1
<1>3. /\ grown \in Seq(T) /\ Len(grown) = n + 1 /\ grown[n + 1] = last
      /\ \A m \in 1..n : grown[m] = seen[m]
  BY <1>1, <1>2
<1> HIDE DEF grown
<1>4. grown = [m \in 1..(n + 1) |-> grown[m]]
  BY <1>3
<1>5. \A m \in 1..(n + 1) : grown[m] = IF m \in 1..n THEN seen[m] ELSE last
  BY <1>3
<1> QED BY <1>4, <1>5 DEF grown

(* A commit is the one step of the contract: before it nothing of the request is there. *)
LEMMA CommitContract == ASSUME IInv, NEW s \in Session, Commit(s) PROVE Contract!Next
<1> DEFINE x == call[s].slot
           i == call[s].row
           target == call[s].target
           v == incident[i].version
           L == [n \in 1..Cardinality(audit) |-> Logged(n)]
           effect == [slot |-> x, print |-> <<target, v>>,
                      result |-> [incident |-> i, version |-> v + 1]]
<1>1. /\ x \in Slot /\ i \in Incident /\ v \in Nat /\ v = call[s].expected
      /\ record[x].state = "free"
      /\ Kind(call[s]) \in {"create", "update", "transition"}
  BY AtCommit
<1>2. \A e \in effects : e.slot # x
  BY <1>1 DEF IInv, RecordsOK
<1>3. /\ incident' = [incident EXCEPT ![i] = [status |-> NewStatus(call[s]), version |-> v + 1]]
      /\ effects' = effects \cup {effect}
  BY <1>1 DEF Commit, Fingerprint
<1>4. x[1] = Kind(call[s])
  BY DEF Kind
<1>5. v # 0 => incident[i] # Contract!Missing
  BY DEF Contract!Missing
<1>6. v = 0 => incident[i] = Contract!Missing
  BY <1>1 DEF IInv, RowsOK, Contract!Missing
<1>7. incident[i].status \in Status => v # 0 /\ incident[i] # Contract!Missing
  <2>1. incident[i].status \in Status => incident[i].status # "absent"
    BY DEF Status
  <2> QED BY <1>1, <1>5, <2>1 DEF IInv, RowsOK
<1> HIDE DEF L
<1>8. CASE Kind(call[s]) = "create"
  <2>1. L' = L
    BY <1>8, LoggedAtCommit DEF L
  <2>2. v = 0 /\ target = None /\ NewStatus(call[s]) = "new"
    BY <1>8, AtCommit DEF NewStatus
  <2>3. Contract!Create(x, i)
    BY <1>2, <1>3, <1>4, <1>6, <1>8, <2>1, <2>2 DEF Contract!Create, Contract!Act, L
  <2> QED BY <1>1, <2>3 DEF Contract!Next
<1>9. CASE Kind(call[s]) = "update"
  <2>1. L' = L
    BY <1>9, LoggedAtCommit DEF L
  <2>2. /\ incident[i].status \in Status /\ i = x[2] /\ target = None
        /\ NewStatus(call[s]) = incident[i].status
    BY <1>9, AtCommit DEF NewStatus, On
  <2>3. Contract!Update(x, i)
    BY <1>2, <1>3, <1>4, <1>7, <1>9, <2>1, <2>2 DEF Contract!Update, Contract!Act, L
  <2> QED BY <1>1, <2>3 DEF Contract!Next
<1>10. CASE Kind(call[s]) = "transition"
  <2>1. /\ incident[i].status \in Status /\ i = x[2] /\ target \in Target
        /\ target \in TRANSITIONS[incident[i].status] /\ NewStatus(call[s]) = target
    BY <1>10, AtCommit DEF NewStatus, On
  <2> DEFINE entry == [incident |-> i, version |-> v + 1, to |-> target]
  <2>2. PICK n, told : /\ n \in Nat /\ n = Cardinality(audit) /\ Cardinality(audit') = n + 1
                       /\ told = entry
    BY <1>10, LoggedAtCommit
  <2>3. /\ \A m \in 1..n : Logged(m)' = Logged(m)
        /\ \A m \in Nat : m = n + 1 => Logged(m)' = told
    BY <1>10, <2>2, LoggedAtCommit
  <2>4. L' = Append(L, told)
    <3>1. L = [m \in 1..n |-> Logged(m)] /\ L' = [m \in 1..(n + 1) |-> Logged(m)']
      BY <2>2 DEF L
    <3>2. PICK seen : seen = L /\ seen \in [1..n -> {Logged(m) : m \in 1..n}]
      BY <3>1
    <3>3. Append(seen, told) = [m \in 1..(n + 1) |-> IF m \in 1..n THEN seen[m] ELSE told]
      BY <2>2, <3>1, <3>2, OneMoreAtEnd
    <3>4. L' = [m \in 1..(n + 1) |-> IF m \in 1..n THEN seen[m] ELSE told]
      BY <2>2, <2>3, <3>1, <3>2
    <3> QED BY <3>2, <3>3, <3>4
  <2> HIDE DEF entry
  <2>5. L' = Append(L, entry)
    BY <2>2, <2>4
  <2>6. Contract!Transition(x, i, target)
    BY <1>2, <1>3, <1>4, <1>7, <1>10, <2>1, <2>5 DEF Contract!Transition, Contract!Act, L, entry
  <2> QED BY <1>1, <2>1, <2>6 DEF Contract!Next
<1> QED BY <1>1, <1>8, <1>9, <1>10

LEMMA StepContract == IInv /\ [Next]_vars => [Contract!Next]_(Contract!vars)
<1> SUFFICES ASSUME IInv, [Next]_vars PROVE [Contract!Next]_(Contract!vars)
  OBVIOUS
<1>1. CASE UNCHANGED <<incident, effects, events, audit>>
  BY <1>1 DEF Contract!vars, Logged, Entries, EventOf
<1>2. ASSUME NEW s \in Session, Call(s) \/ Abort(s)
      PROVE  UNCHANGED <<incident, effects, events, audit>>
  BY <1>2 DEF Call, Abort, Rollback
<1>3. ASSUME NEW s \in Session, Serve(s), ~Commit(s)
      PROVE  UNCHANGED <<incident, effects, events, audit>>
  BY <1>3 DEF Serve, ReadGuards, Reserve, Decide, Change, Insert, AppendAudit, Rollback
<1>4. ASSUME NEW r \in Reader, (\E i \in Incident : Open(r, i)) \/ Poll(r) \/ Reconnect(r)
      PROVE  UNCHANGED <<incident, effects, events, audit>>
  BY <1>4 DEF Open, Poll, Reconnect
<1>5. CASE UNCHANGED vars
  BY <1>1, <1>5 DEF vars
<1> QED BY <1>1, <1>2, <1>3, <1>4, <1>5, CommitContract DEF Next

(* The concurrent requests, with their transactions, locks, leases, retries and aborts, are   *)
(* as if each happened at its commit: on the version its client named, once for its key, the *)
(* audit chain being the log of the transitions in their order.                              *)
THEOREM RequestsAreAtomic == Spec => ImplementsContract
BY InitContract, StepContract, Invariant, PTL DEF Spec, ImplementsContract, Contract!Spec
===============================================================================
