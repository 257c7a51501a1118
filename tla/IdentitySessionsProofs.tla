------------------------- MODULE IdentitySessionsProofs -------------------------
(***************************************************************************)
(* Theorems about IdentitySessions for any sessions, handlers, provider    *)
(* sessions, limit and time to live.                                       *)
(***************************************************************************)
EXTENDS IdentitySessions, FiniteSetTheorems, TLAPS

Row == [status : {"absent", "active", "revoked"}, sid : Sid \cup {None},
        issued_at : Nat, last_seen_at : Nat, parent : Session \cup {None}]

Vault == [Session -> [current : 0 .. MaxToken, used : SUBSET (1 .. MaxToken),
                      compromised : BOOLEAN]]

(* A session is the parent of one other, and over by then. *)
Lineage ==
  \A s, t \in Session : session[t].parent = s =>
    /\ session[s].status = "revoked"
    /\ \A u \in Session : session[u].parent = s => u = t

(* What holds of the records of the sessions and the clock. *)
SessionsOK ==
  /\ now \in Time
  /\ session \in [Session -> Row]
  /\ \A s \in Session : /\ session[s].issued_at <= session[s].last_seen_at
                        /\ session[s].last_seen_at <= now
                        /\ session[s].status = "absent" => session[s] = NoSession
  /\ Lineage
  /\ LimitHolds

(* What the handlers read before they awaited: a session that had been issued by then. *)
RequestsOK ==
  /\ request \in [Request -> [kind : {"none", "login", "logout"},
                              session : Session \cup {None}, ts : Nat]]
  /\ \A r \in Request :
       /\ request[r].ts <= now
       /\ request[r].kind = "logout" =>
            request[r].session \in Session /\ session[request[r].session].status # "absent"

(* The families of sessions not issued or logged out are empty, marked ones are over. *)
VaultOK ==
  /\ family \in Vault
  /\ seen \subseteq LogoutToken
  /\ late \subseteq loggedOut /\ loggedOut \subseteq Session
  /\ \A s \in Session : session[s].status = "absent" => family[s] = NoFamily
  /\ ReuseEndsSession
  /\ LogoutTakesTokens

IInv == SessionsOK /\ RequestsOK /\ VaultOK

(* Revoking changes the status of active records only, and keeps their lineage. *)
LEMMA RevokedOf ==
  ASSUME NEW store \in [Session -> Row], NEW which
  PROVE  /\ Revoked(store, which) \in [Session -> Row]
         /\ \A s \in Session :
              /\ Revoked(store, which)[s].parent = store[s].parent
              /\ IF s \in which /\ store[s].status = "active"
                 THEN /\ Revoked(store, which)[s].status = "revoked"
                      /\ Revoked(store, which)[s].issued_at = 0
                      /\ Revoked(store, which)[s].last_seen_at = 0
                 ELSE Revoked(store, which)[s] = store[s]
<1> DEFINE gone(s) == [NoSession EXCEPT !.status = "revoked", !.parent = store[s].parent]
<1>1. \A s \in Session : /\ gone(s) \in Row /\ gone(s).parent = store[s].parent
                         /\ gone(s).status = "revoked" /\ gone(s).issued_at = 0
                         /\ gone(s).last_seen_at = 0
  BY DEF NoSession, Row
<1> HIDE DEF gone
<1>2. Revoked(store, which) = [s \in Session |-> IF s \in which /\ store[s].status = "active"
                                                 THEN gone(s) ELSE store[s]]
  BY DEF Revoked, gone
<1> QED BY <1>1, <1>2

(* An older time finds no fewer active sessions, and revoking leaves those not revoked. *)
LEMMA ActiveOf ==
  ASSUME NEW store \in [Session -> Row], NEW which, NEW ts \in Nat, NEW later \in Nat, ts <= later
  PROVE  /\ ActiveAt(store, later) \subseteq ActiveAt(store, ts)
         /\ ActiveAt(Revoked(store, which), ts) = ActiveAt(store, ts) \ which
         /\ IsFiniteSet(ActiveAt(store, ts)) /\ Cardinality(ActiveAt(store, ts)) \in Nat
<1>1. ActiveAt(store, later) \subseteq ActiveAt(store, ts)
  BY IdentityAssumption DEF ActiveAt, Row
<1>2. ActiveAt(Revoked(store, which), ts) = ActiveAt(store, ts) \ which
  BY RevokedOf DEF ActiveAt
<1>3. IsFiniteSet(ActiveAt(store, ts)) /\ Cardinality(ActiveAt(store, ts)) \in Nat
  BY IdentityAssumption, FS_Subset, FS_CardinalityType DEF ActiveAt
<1> QED BY <1>1, <1>2, <1>3

(* Fewer active sessions are within the limit. *)
LEMMA FewerWithinLimit ==
  ASSUME NEW S, NEW T, IsFiniteSet(S), Cardinality(S) <= Limit, T \subseteq S
  PROVE  Cardinality(T) <= Limit
<1>1. Cardinality(T) <= Cardinality(S) /\ Cardinality(T) \in Nat /\ Cardinality(S) \in Nat
  BY FS_Subset, FS_CardinalityType
<1> QED BY <1>1, IdentityAssumption

(* A clock that goes on, or sessions that end, leave the records in order. *)
LEMMA RevokeStep ==
  ASSUME SessionsOK, NEW which, session' = Revoked(session, which), now' = now
  PROVE  /\ SessionsOK'
         /\ \A s \in Session : session'[s].status =
              IF s \in which /\ session[s].status = "active" THEN "revoked" ELSE session[s].status
<1> USE DEF SessionsOK
<1>1. /\ session' \in [Session -> Row]
      /\ \A s \in Session :
           /\ session'[s].parent = session[s].parent
           /\ IF s \in which /\ session[s].status = "active"
              THEN session'[s].status = "revoked" /\ session'[s].issued_at = 0
                   /\ session'[s].last_seen_at = 0
              ELSE session'[s] = session[s]
  BY RevokedOf
<1>2. Lineage'
  BY <1>1 DEF Lineage
<1>3. LimitHolds'
  <2>1. now \in Nat /\ now <= now
    BY DEF Time
  <2>2. ActiveAt(session', now) \subseteq ActiveAt(session, now)
    BY <2>1, ActiveOf
  <2>3. IsFiniteSet(ActiveAt(session, now))
    BY <2>1, ActiveOf
  <2>4. Cardinality(ActiveAt(session', now)) <= Limit
    BY <2>2, <2>3, FewerWithinLimit DEF LimitHolds
  <2> QED BY <2>4 DEF LimitHolds, ActiveAt
<1>4. \A s \in Session : /\ session'[s].issued_at <= session'[s].last_seen_at
                         /\ session'[s].last_seen_at <= now'
                         /\ session'[s].status = "absent" => session'[s] = NoSession
  BY <1>1 DEF Time
<1> QED BY <1>1, <1>2, <1>3, <1>4 DEF NoSession

(* A request that authenticates moves the time its session was last seen. *)
LEMMA TouchStep ==
  ASSUME SessionsOK, NEW s \in Session, Authentic(s, now), session' = Touched(s, now), now' = now
  PROVE  SessionsOK' /\ \A t \in Session : session'[t].status = session[t].status
<1> USE DEF SessionsOK
<1>1. /\ session' \in [Session -> Row]
      /\ \A t \in Session : /\ session'[t].parent = session[t].parent
                            /\ session'[t].status = session[t].status
                            /\ session'[t].issued_at = session[t].issued_at
                            /\ t # s => session'[t] = session[t]
      /\ session'[s].last_seen_at = now /\ session'[s].status = "active"
  BY DEF Touched, Row, Time, Authentic, ActiveAt
<1>2. Lineage'
  BY <1>1 DEF Lineage
<1>3. LimitHolds'
  BY <1>1 DEF LimitHolds, ActiveAt
<1>4. \A t \in Session : /\ session'[t].issued_at <= session'[t].last_seen_at
                         /\ session'[t].last_seen_at <= now'
                         /\ session'[t].status = "absent" => session'[t] = NoSession
  BY <1>1 DEF Row, Time
<1> QED BY <1>1, <1>2, <1>3, <1>4 DEF NoSession

(* issue: of the sessions active with the new one, as many end as are too many, and the   *)
(* new one is not among them; at a time already past no fewer were active than are now.   *)
LEMMA IssueStep ==
  ASSUME SessionsOK, now' = now, NEW s \in Session, NEW gone \in SUBSET Session,
         NEW sid \in Sid \cup {None}, NEW parent \in gone \cup {None}, NEW ts \in Nat, ts <= now,
         \A p \in gone : session[p].status = "active",
         Issue(Revoked(session, gone), s, sid, parent, ts)
  PROVE  /\ SessionsOK'
         /\ session[s].status = "absent" /\ session'[s].status = "active"
         /\ \A t \in Session \ {s} :
              \/ session'[t].status = session[t].status
              \/ session[t].status = "active" /\ session'[t].status = "revoked"
<1> USE DEF SessionsOK
<1> DEFINE store == Revoked(session, gone)
           put   == Put(store, s, sid, parent, ts)
           new   == [status |-> "active", sid |-> sid, issued_at |-> ts, last_seen_at |-> ts,
                     parent |-> parent]
<1>1. PICK v \in Victims(put, s, ts) : session' = Revoked(put, v)
  BY DEF Issue
<1>2. /\ store \in [Session -> Row]
      /\ \A t \in Session :
           /\ store[t].parent = session[t].parent
           /\ IF t \in gone THEN /\ store[t].status = "revoked" /\ store[t].issued_at = 0
                               /\ store[t].last_seen_at = 0
              ELSE store[t] = session[t]
  BY RevokedOf
<1>3. session[s].status = "absent" /\ s \notin gone /\ s # parent
  BY IdentityAssumption DEF Issue
<1> HIDE DEF store
<1>4. /\ new \in Row /\ new.status = "active" /\ new.issued_at = ts /\ new.last_seen_at = ts
      /\ new.parent = parent
  BY DEF Row
<1>5. put \in [Session -> Row] /\ \A t \in Session : put[t] = IF t = s THEN new ELSE store[t]
  BY <1>2, <1>4 DEF Put
<1> HIDE DEF put, new
<1>6. v \subseteq ActiveAt(put, ts) \ {s} /\ Cardinality(v) = Excess(ActiveAt(put, ts))
  BY DEF Victims
<1>7. /\ session' \in [Session -> Row]
      /\ \A t \in Session :
           /\ session'[t].parent = put[t].parent
           /\ IF t \in v THEN /\ session'[t].status = "revoked" /\ session'[t].issued_at = 0
                             /\ session'[t].last_seen_at = 0
              ELSE session'[t] = put[t]
  BY <1>1, <1>5, <1>6, RevokedOf DEF ActiveAt
<1>8. session'[s] = new
  BY <1>5, <1>6, <1>7
<1>9. \A t \in Session \ {s} :
        /\ session'[t].parent = session[t].parent
        /\ IF t \in v \cup gone
           THEN /\ session[t].status = "active" /\ session'[t].status = "revoked"
                /\ session'[t].issued_at = 0 /\ session'[t].last_seen_at = 0
           ELSE session'[t] = session[t]
  BY <1>2, <1>5, <1>6, <1>7 DEF ActiveAt
<1>10. Lineage'
  <2>1. \A t \in Session : session[t].parent # s
    BY <1>3 DEF Lineage
  <2>2. \A p \in gone, t \in Session : session[t].parent # p
    BY DEF Lineage
  <2>3. session'[s].parent = parent
    BY <1>4, <1>8
  <2>4. ASSUME NEW a \in Session, NEW b \in Session, session'[b].parent = a
        PROVE  session'[a].status = "revoked" /\ \A u \in Session : session'[u].parent = a => u = b
    <3>1. CASE b = s
      <4>1. a = parent /\ a \in gone /\ a # s
        BY <1>3, <2>3, <2>4, <3>1, IdentityAssumption
      <4> QED BY <1>9, <2>2, <3>1, <4>1
    <3>2. CASE b # s
      <4>1. session[b].parent = a /\ a # s /\ a \notin gone
        BY <1>9, <2>1, <2>2, <2>4, <3>2
      <4>2. session[a].status = "revoked" /\ session'[a].status = "revoked"
        BY <1>9, <4>1 DEF Lineage
      <4>3. a # parent
        BY <4>1, IdentityAssumption
      <4> QED BY <1>9, <2>3, <4>1, <4>2, <4>3 DEF Lineage
    <3> QED BY <3>1, <3>2
  <2> QED BY <2>4 DEF Lineage
<1>11. LimitHolds'
  <2> DEFINE active == ActiveAt(put, ts)
  <2>1. now \in Nat
    BY DEF Time
  <2>2. /\ ActiveAt(session', now) \subseteq ActiveAt(session', ts)
        /\ ActiveAt(session', ts) = active \ v
        /\ IsFiniteSet(active) /\ Cardinality(active) \in Nat
    BY <1>1, <1>5, <1>7, <2>1, ActiveOf
  <2> HIDE DEF active
  <2>3. Cardinality(active \ v) = Cardinality(active) - Cardinality(v) /\ IsFiniteSet(active \ v)
    <3>1. v \subseteq active /\ IsFiniteSet(v)
      BY <1>6, <2>2, FS_Subset DEF active
    <3>2. active \cap v = v
      BY <3>1
    <3> QED BY <2>2, <3>1, <3>2, FS_Difference
  <2>4. Cardinality(v) = Excess(active)
    BY <1>6 DEF active
  <2>5. Cardinality(active \ v) <= Limit
    BY <2>2, <2>3, <2>4, IdentityAssumption DEF Excess
  <2>6. Cardinality(ActiveAt(session', now)) <= Limit
    BY <2>2, <2>3, <2>5, FewerWithinLimit
  <2> QED BY <2>6 DEF LimitHolds, ActiveAt
<1>12. \A t \in Session : /\ session'[t].issued_at <= session'[t].last_seen_at
                          /\ session'[t].last_seen_at <= now'
                          /\ session'[t].status = "absent" => session'[t] = NoSession
  BY <1>4, <1>8, <1>9 DEF Time
<1>13. SessionsOK'
  BY <1>7, <1>10, <1>11, <1>12 DEF NoSession
<1> QED BY <1>3, <1>4, <1>8, <1>9, <1>13

LEMMA InitIInv == Init => IInv
<1> SUFFICES ASSUME Init PROVE IInv
  OBVIOUS
<1>1. NoSession \in Row /\ NoSession.status = "absent" /\ NoSession.parent = None
      /\ NoSession.issued_at = 0 /\ NoSession.last_seen_at = 0
  BY DEF NoSession, Row
<1>2. now = 0 /\ 0 \in Time /\ \A s \in Session : session[s] = NoSession
  BY IdentityAssumption DEF Init, Time
<1>3. LimitHolds
  <2>1. ActiveAt(session, now) = {}
    BY <1>1, <1>2 DEF ActiveAt
  <2> QED BY <2>1, FS_EmptySet, IdentityAssumption DEF LimitHolds
<1>4. Lineage
  BY <1>1, <1>2, IdentityAssumption DEF Lineage
<1>5. session \in [Session -> Row]
  BY <1>1 DEF Init
<1>6. SessionsOK
  BY <1>1, <1>2, <1>3, <1>4, <1>5 DEF SessionsOK
<1>7. RequestsOK
  BY <1>2 DEF Init, RequestsOK, NoRequest
<1>8. VaultOK
  BY <1>1, <1>2, IdentityAssumption
     DEF Init, VaultOK, Vault, NoFamily, ReuseEndsSession, LogoutTakesTokens
<1> QED BY <1>6, <1>7, <1>8 DEF IInv

(* A handler that answers leaves its slot empty. *)
LEMMA LeaveOK ==
  ASSUME RequestsOK, NEW r \in Request, Leave(r), now \in Nat, now' = now,
         \A s \in Session : session[s].status # "absent" => session'[s].status # "absent"
  PROVE  RequestsOK'
<1>1. NoRequest \in [kind : {"none", "login", "logout"}, session : Session \cup {None}, ts : Nat]
      /\ NoRequest.kind = "none" /\ NoRequest.ts = 0
  BY DEF NoRequest
<1>2. \A k \in Request : request'[k] = IF k = r THEN NoRequest ELSE request[k]
  BY DEF Leave, RequestsOK
<1>3. request' \in [Request -> [kind : {"none", "login", "logout"},
                                session : Session \cup {None}, ts : Nat]]
  BY <1>1 DEF Leave, RequestsOK
<1> QED BY <1>1, <1>2, <1>3 DEF RequestsOK

LEMMA TickIInv == ASSUME IInv, Tick PROVE IInv'
<1> USE DEF IInv, Tick
<1>1. now \in Nat /\ now' \in Nat /\ now <= now' /\ now' \in Time
  BY IdentityAssumption DEF SessionsOK, Time
<1>2. LimitHolds'
  <2>1. /\ ActiveAt(session, now') \subseteq ActiveAt(session, now)
        /\ IsFiniteSet(ActiveAt(session, now))
    BY <1>1, ActiveOf DEF SessionsOK
  <2>2. Cardinality(ActiveAt(session, now')) <= Limit
    BY <2>1, FewerWithinLimit DEF SessionsOK, LimitHolds
  <2> QED BY <2>2 DEF LimitHolds, ActiveAt
<1>3. SessionsOK'
  BY <1>1, <1>2 DEF SessionsOK, Lineage, Row, NoSession
<1>4. RequestsOK'
  BY <1>1 DEF RequestsOK
<1>5. VaultOK'
  BY DEF VaultOK, ReuseEndsSession, LogoutTakesTokens, NoFamily
<1> QED BY <1>3, <1>4, <1>5

LEMMA ProjectIInv == ASSUME IInv, NEW s \in Session, Project(s) PROVE IInv'
<1>1. SessionsOK' /\ \A t \in Session : session'[t].status = session[t].status
  BY TouchStep DEF IInv, Project
<1>2. now' = now /\ family' = family /\ seen' = seen /\ loggedOut' = loggedOut /\ late' = late /\ request' = request
  BY DEF Project
<1>3. VaultOK' /\ RequestsOK'
  BY <1>1, <1>2
     DEF IInv, RequestsOK, VaultOK, Vault, ReuseEndsSession, LogoutTakesTokens, NoFamily
<1> QED BY <1>1, <1>3 DEF IInv

(* A rotation issues one session, and ends the one it replaces and those over the limit. *)
LEMMA RotateStep ==
  ASSUME IInv, NEW s \in Session, Rotate(s)
  PROVE  /\ SessionsOK'
         /\ \E heir \in Session :
              /\ session[heir].status = "absent" /\ session'[heir].status = "active"
              /\ \A t \in Session \ {heir} :
                   \/ session'[t].status = session[t].status
                   \/ session[t].status = "active" /\ session'[t].status = "revoked"
<1>1. PICK heir \in Session : Issue(Replaced(s), heir, session[s].sid, s, now)
  BY DEF Rotate
<1>2. /\ session[s].status = "active" /\ session[s].sid \in Sid \cup {None} /\ now \in Nat /\ now <= now
      /\ now' = now /\ SessionsOK
  BY DEF IInv, SessionsOK, Row, Rotate, Authentic, ActiveAt, Time
<1> DEFINE gone == {s}
           sid  == session[s].sid
<1>3. gone \in SUBSET Session /\ s \in gone \cup {None} /\ \A p \in gone : session[p].status = "active"
  BY <1>2
<1>4. Issue(Revoked(session, gone), heir, sid, s, now) /\ sid \in Sid \cup {None}
  BY <1>1, <1>2 DEF Replaced
<1> HIDE DEF gone, sid
<1> QED BY <1>2, <1>3, <1>4, IssueStep

LEMMA RotateIInv == ASSUME IInv, NEW s \in Session, Rotate(s) PROVE IInv'
<1>1. VaultOK' /\ RequestsOK'
  BY RotateStep
     DEF IInv, Rotate, RequestsOK, VaultOK, Vault, ReuseEndsSession, LogoutTakesTokens, NoFamily
<1> QED BY <1>1, RotateStep DEF IInv

LEMMA LoginArrivesIInv == ASSUME IInv, NEW r \in Request, LoginArrives(r) PROVE IInv'
<1> USE DEF IInv, LoginArrives, Arrive
<1>1. SessionsOK'
  BY DEF SessionsOK, Lineage, LimitHolds, ActiveAt, NoSession
<1>2. RequestsOK'
  BY DEF RequestsOK, SessionsOK, Time
<1>3. VaultOK'
  BY DEF VaultOK, ReuseEndsSession, LogoutTakesTokens, NoFamily
<1> QED BY <1>1, <1>2, <1>3

(* A login issues one session and ends those over the limit. *)
LEMMA LoginStep ==
  ASSUME IInv, NEW r \in Request, LoginCompletes(r),
         NEW s \in Session, NEW sid \in Sid \cup {None}, Issue(session, s, sid, None, request[r].ts)
  PROVE  /\ SessionsOK'
         /\ session[s].status = "absent" /\ session'[s].status = "active"
         /\ \A t \in Session \ {s} :
              \/ session'[t].status = session[t].status
              \/ session[t].status = "active" /\ session'[t].status = "revoked"
<1> DEFINE none == {}
           ts   == request[r].ts
<1>1. none \in SUBSET Session /\ None \in none \cup {None}
      /\ \A p \in none : session[p].status = "active"
  OBVIOUS
<1>2. Revoked(session, none) = session
  BY DEF Revoked, IInv, SessionsOK
<1>3. /\ SessionsOK /\ ts \in Nat /\ ts <= now /\ now' = now
      /\ Issue(Revoked(session, none), s, sid, None, ts)
  BY <1>2 DEF IInv, RequestsOK, LoginCompletes
<1> HIDE DEF none, ts
<1> QED BY <1>1, <1>3, IssueStep

(* The token of a login goes into the family of the session it issued. *)
LEMMA LoginCompletesIInv == ASSUME IInv, NEW r \in Request, LoginCompletes(r) PROVE IInv'
<1>1. PICK s \in Session, sid \in Sid \cup {None} :
        /\ Issue(session, s, sid, None, request[r].ts)
        /\ family' = [family EXCEPT ![s] = [NoFamily EXCEPT !.current = 1]]
  BY DEF LoginCompletes
<1>2. now' = now /\ seen' = seen /\ loggedOut' = loggedOut /\ late' = late
  BY DEF LoginCompletes
<1>3. /\ SessionsOK'
      /\ session[s].status = "absent" /\ session'[s].status = "active"
      /\ \A t \in Session \ {s} :
           \/ session'[t].status = session[t].status
           \/ session[t].status = "active" /\ session'[t].status = "revoked"
  BY <1>1, LoginStep
<1>4. RequestsOK'
  <2>1. now \in Nat
    BY DEF IInv, SessionsOK, Time
  <2> QED BY <1>2, <1>3, <2>1, LeaveOK DEF IInv, LoginCompletes
<1>5. VaultOK'
  <2> DEFINE first == [NoFamily EXCEPT !.current = 1]
  <2>1. first \in [current : 0 .. MaxToken, used : SUBSET (1 .. MaxToken), compromised : BOOLEAN]
        /\ ~first.compromised
    <3>1. NoFamily \in [current : 0 .. MaxToken, used : SUBSET (1 .. MaxToken), compromised : BOOLEAN]
          /\ ~NoFamily.compromised
      BY IdentityAssumption DEF NoFamily
    <3>2. 1 \in 0 .. MaxToken
      BY IdentityAssumption
    <3> QED BY <3>1, <3>2
  <2>2. family' = [family EXCEPT ![s] = first]
    BY <1>1
  <2> HIDE DEF first
  <2>3. family' \in Vault /\ \A t \in Session : family'[t] = IF t = s THEN first ELSE family[t]
    BY <2>1, <2>2 DEF IInv, VaultOK, Vault
  <2>4. s \notin loggedOut
    BY <1>3 DEF IInv, VaultOK, LogoutTakesTokens
  <2> QED BY <1>2, <1>3, <2>1, <2>3, <2>4
          DEF IInv, VaultOK, ReuseEndsSession, LogoutTakesTokens, NoFamily
<1> QED BY <1>3, <1>4, <1>5 DEF IInv

LEMMA FailsIInv == ASSUME IInv, NEW r \in Request, Fails(r) PROVE IInv'
<1> USE DEF IInv, Fails
<1>1. SessionsOK'
  BY DEF SessionsOK, Lineage, LimitHolds, ActiveAt, NoSession
<1>2. RequestsOK'
  <2>1. now \in Nat
    BY DEF SessionsOK, Time
  <2> QED BY <2>1, LeaveOK
<1>3. VaultOK'
  BY DEF VaultOK, ReuseEndsSession, LogoutTakesTokens, NoFamily
<1> QED BY <1>1, <1>2, <1>3

LEMMA LogoutArrivesIInv ==
  ASSUME IInv, NEW r \in Request, NEW s \in Session, LogoutArrives(r, s) PROVE IInv'
<1>1. SessionsOK' /\ \A t \in Session : session'[t].status = session[t].status
  BY TouchStep DEF IInv, LogoutArrives
<1>2. RequestsOK'
  <2>1. session[s].status = "active" /\ now \in Nat /\ now' = now
    BY DEF LogoutArrives, Authentic, ActiveAt, IInv, SessionsOK, Time
  <2>2. \A k \in Request :
          request'[k] = IF k = r THEN [kind |-> "logout", session |-> s, ts |-> 0] ELSE request[k]
    BY DEF LogoutArrives, Arrive, IInv, RequestsOK
  <2>3. request' \in [Request -> [kind : {"none", "login", "logout"},
                                  session : Session \cup {None}, ts : Nat]]
    BY DEF LogoutArrives, Arrive, IInv, RequestsOK
  <2> QED BY <1>1, <2>1, <2>2, <2>3 DEF IInv, RequestsOK
<1>3. VaultOK'
  <2>1. now' = now /\ family' = family /\ seen' = seen /\ loggedOut' = loggedOut /\ late' = late
    BY DEF LogoutArrives
  <2> QED BY <1>1, <2>1
     DEF IInv, RequestsOK, VaultOK, Vault, ReuseEndsSession, LogoutTakesTokens, NoFamily
<1> QED BY <1>1, <1>2, <1>3 DEF IInv

(* Families that are emptied with the sessions that end. *)
LEMMA EmptiedOK ==
  ASSUME IInv, NEW which \in SUBSET Session, NEW over, session' = Revoked(session, over), now' = now,
         family' = Without(which), loggedOut' \in SUBSET Session,
         late \subseteq late', late' \subseteq loggedOut',
         \A s \in loggedOut' :
           s \in loggedOut \/ (s \in which \cup late' /\ session'[s].status = "revoked"),
         seen' = seen
  PROVE  SessionsOK' /\ VaultOK'
         /\ \A s \in Session : session[s].status # "absent" => session'[s].status # "absent"
<1>1. /\ SessionsOK'
      /\ \A s \in Session : session'[s].status =
           IF s \in over /\ session[s].status = "active" THEN "revoked" ELSE session[s].status
  BY RevokeStep DEF IInv
<1>2. NoFamily \in [current : 0 .. MaxToken, used : SUBSET (1 .. MaxToken), compromised : BOOLEAN]
      /\ ~NoFamily.compromised
  BY IdentityAssumption DEF NoFamily
<1>3. family' \in Vault /\ \A s \in Session : family'[s] = IF s \in which THEN NoFamily ELSE family[s]
  BY <1>2 DEF Without, IInv, VaultOK, Vault
<1>4. VaultOK'
  <2>1. ReuseEndsSession'
    BY <1>1, <1>2, <1>3 DEF IInv, VaultOK, ReuseEndsSession
  <2>2. LogoutTakesTokens'
    <3>1. \A s \in loggedOut' : session'[s].status = "revoked"
                                /\ (family'[s] # NoFamily => s \in late')
      BY <1>1, <1>3 DEF IInv, VaultOK, LogoutTakesTokens
    <3> QED BY <3>1 DEF LogoutTakesTokens, NoFamily
  <2>3. \A s \in Session : session'[s].status = "absent" => family'[s] = NoFamily
    BY <1>1, <1>3 DEF IInv, VaultOK
  <2> QED BY <1>3, <2>1, <2>2, <2>3 DEF IInv, VaultOK, NoFamily
<1> QED BY <1>1, <1>4

LEMMA LogoutOneIInv == ASSUME IInv, NEW r \in Request, LogoutOne(r) PROVE IInv'
<1> DEFINE which == {request[r].session}
<1>1. /\ which \in SUBSET Session /\ which # {}
      /\ \A s \in which : session[s].status # "absent"
      /\ loggedOut \subseteq Session /\ now \in Nat
  BY DEF IInv, RequestsOK, VaultOK, SessionsOK, Time, LogoutOne
<1>2. /\ session' = Revoked(session, which) /\ family' = Without(which)
      /\ loggedOut' = loggedOut \cup which /\ now' = now /\ seen' = seen
      /\ late' = late /\ late \subseteq loggedOut
  BY DEF LogoutOne, Emptied, IInv, VaultOK
<1> HIDE DEF which
<1>3. \A s \in which : session'[s].status = "revoked"
  <2>1. \A s \in Session : session[s].status \in {"absent", "active", "revoked"}
    BY DEF IInv, SessionsOK, Row
  <2> QED BY <1>1, <1>2, <2>1, RevokeStep DEF IInv
<1>4. SessionsOK' /\ VaultOK'
      /\ \A s \in Session : session[s].status # "absent" => session'[s].status # "absent"
  <2>1. /\ loggedOut' \in SUBSET Session /\ late \subseteq late' /\ late' \subseteq loggedOut'
        /\ \A s \in loggedOut' :
             s \in loggedOut \/ (s \in which \cup late' /\ session'[s].status = "revoked")
    BY <1>1, <1>2, <1>3
  <2> QED BY <1>1, <1>2, <2>1, EmptiedOK
<1> QED BY <1>1, <1>2, <1>4, LeaveOK DEF IInv, LogoutOne

(* The session that asked is among those revoked, if none of its own tokens are. *)
LEMMA LogoutAllIInv == ASSUME IInv, NEW r \in Request, LogoutAll(r) PROVE IInv'
<1> DEFINE which == ActiveAt(session, now)
           asker == request[r].session
<1>1. /\ which \in SUBSET Session /\ \A s \in which : session[s].status = "active"
      /\ asker \in Session /\ session[asker].status # "absent"
      /\ loggedOut \subseteq Session /\ late \subseteq loggedOut /\ now \in Nat
  BY DEF IInv, RequestsOK, LogoutAll, VaultOK, SessionsOK, Time, ActiveAt
<1>2. /\ session' = Revoked(session, Session) /\ family' = Without(which)
      /\ loggedOut' = loggedOut \cup which \cup {asker} /\ late' = late \cup ({asker} \ which)
      /\ now' = now /\ seen' = seen
  BY DEF LogoutAll
<1> HIDE DEF which, asker
<1>3. \A s \in which \cup {asker} : session'[s].status = "revoked"
  <2>1. \A s \in Session : session[s].status \in {"absent", "active", "revoked"}
    BY DEF IInv, SessionsOK, Row
  <2> QED BY <1>1, <1>2, <2>1, RevokeStep DEF IInv
<1>4. SessionsOK' /\ VaultOK'
      /\ \A s \in Session : session[s].status # "absent" => session'[s].status # "absent"
  <2>1. /\ loggedOut' \in SUBSET Session /\ late \subseteq late' /\ late' \subseteq loggedOut'
        /\ \A s \in loggedOut' :
             s \in loggedOut \/ (s \in which \cup late' /\ session'[s].status = "revoked")
    BY <1>1, <1>2, <1>3
  <2> QED BY <1>1, <1>2, <2>1, EmptiedOK
<1> QED BY <1>1, <1>2, <1>4, LeaveOK DEF IInv, LogoutAll

LEMMA DriftIInv == ASSUME IInv, NEW s \in Session, Drift(s) PROVE IInv'
<1> DEFINE which == {s}
<1>1. /\ session' = Revoked(session, which) /\ family' = Without(which) /\ now' = now
      /\ seen' = seen /\ request' = request /\ loggedOut' = loggedOut /\ late' = late
      /\ which \in SUBSET Session /\ loggedOut \in SUBSET Session /\ late \subseteq loggedOut
  BY DEF Drift, IInv, VaultOK
<1> HIDE DEF which
<1>2. SessionsOK' /\ VaultOK'
      /\ \A t \in Session : session[t].status # "absent" => session'[t].status # "absent"
  BY <1>1, EmptiedOK
<1> QED BY <1>1, <1>2 DEF IInv, RequestsOK

(* A token of the provider that was not seen before only moves statuses forward. *)
LEMMA BackChannelIInv == ASSUME IInv, NEW t \in LogoutToken, BackChannel(t) PROVE IInv'
<1>1. /\ now' = now /\ UNCHANGED <<family, request, loggedOut, late>> /\ seen' \subseteq LogoutToken
      /\ session \in [Session -> Row]
  BY DEF BackChannel, IInv, VaultOK, SessionsOK
<1>2. /\ SessionsOK'
      /\ \A s \in Session : \/ session'[s].status = session[s].status
                            \/ session[s].status = "active" /\ session'[s].status = "revoked"
  <2>1. CASE UNCHANGED session
    BY <1>1, <2>1 DEF IInv, SessionsOK, Lineage, LimitHolds, ActiveAt, NoSession
  <2>2. CASE ~ UNCHANGED session
    <3>1. PICK sid \in Sid :
            session' = Revoked(session, {s \in Session : session[s].sid = sid})
      BY <2>2 DEF BackChannel
    <3> DEFINE over == {s \in Session : session[s].sid = sid}
    <3>2. session' = Revoked(session, over)
      BY <3>1
    <3> HIDE DEF over
    <3> QED BY <1>1, <3>2, RevokeStep DEF IInv
  <2> QED BY <2>1, <2>2
<1> QED BY <1>1, <1>2 DEF IInv, RequestsOK, VaultOK, Vault, ReuseEndsSession, LogoutTakesTokens,
                        NoFamily

(* A used token ends the session with its family; a fresh one stays within the vault, *)
(* and of a session logged out only if it was over before logout_all got to it.       *)
LEMMA RefreshIInv ==
  ASSUME IInv, NEW s \in Session, NEW p \in 1 .. MaxToken, NEW t \in 1 .. MaxToken,
         Refresh(s, p, t)
  PROVE  IInv'
<1>1. /\ now' = now /\ UNCHANGED <<seen, request, loggedOut, late>>
      /\ session \in [Session -> Row] /\ family \in Vault
      /\ family[s].current # 0
  BY DEF Refresh, IInv, VaultOK, SessionsOK
<1>2. /\ session[s].status # "absent"
      /\ s \in loggedOut => s \in late /\ session[s].status = "revoked"
  BY <1>1 DEF IInv, VaultOK, LogoutTakesTokens, NoFamily
<1>3. CASE p \in family[s].used
  <2> DEFINE which == {s}
  <2>1. session' = Revoked(session, which) /\ s \in which
        /\ family' = [family EXCEPT ![s].compromised = TRUE]
    BY <1>3 DEF Refresh, ReuseEnds
  <2> HIDE DEF which
  <2>2. /\ SessionsOK'
        /\ \A u \in Session : session'[u].status =
             IF u \in which /\ session[u].status = "active" THEN "revoked" ELSE session[u].status
    BY <1>1, <2>1, RevokeStep DEF IInv
  <2>3. session'[s].status = "revoked"
    BY <1>1, <1>2, <2>1, <2>2 DEF Row
  <2>4. family' \in Vault /\ \A u \in Session \ {s} : family'[u] = family[u]
    BY <1>1, <2>1 DEF Vault
  <2>5. VaultOK'
    BY <1>1, <1>2, <2>2, <2>3, <2>4
       DEF IInv, VaultOK, ReuseEndsSession, LogoutTakesTokens, NoFamily
  <2> QED BY <1>1, <2>2, <2>5 DEF IInv, RequestsOK
<1>4. CASE p \notin family[s].used
  <2>1. UNCHANGED session
        /\ family' = [family EXCEPT ![s] = [current |-> t, used |-> @.used \cup {p},
                                            compromised |-> FALSE]]
    BY <1>4 DEF Refresh
  <2>2. family' \in Vault /\ \A u \in Session : family'[u].compromised => family[u].compromised
        /\ (u # s => family'[u] = family[u])
    <3> DEFINE kept == [current |-> t, used |-> family[s].used \cup {p}, compromised |-> FALSE]
    <3>1. /\ kept \in [current : 0 .. MaxToken, used : SUBSET (1 .. MaxToken), compromised : BOOLEAN]
          /\ ~kept.compromised
      BY <1>1 DEF Vault, Refresh
    <3>2. family' = [family EXCEPT ![s] = kept]
      BY <2>1
    <3> HIDE DEF kept
    <3>3. \A u \in Session : family'[u] = IF u = s THEN kept ELSE family[u]
      BY <1>1, <3>2 DEF Vault
    <3> QED BY <1>1, <3>1, <3>2, <3>3 DEF Vault
  <2>3. SessionsOK'
    BY <1>1, <2>1 DEF IInv, SessionsOK, Lineage, LimitHolds, ActiveAt, NoSession
  <2>4. VaultOK'
    BY <1>1, <1>2, <2>1, <2>2 DEF IInv, VaultOK, ReuseEndsSession, LogoutTakesTokens, NoFamily
  <2> QED BY <1>1, <2>1, <2>3, <2>4 DEF IInv, RequestsOK
<1> QED BY <1>3, <1>4

LEMMA StepIInv == IInv /\ [Next]_vars => IInv'
<1> SUFFICES ASSUME IInv, [Next]_vars PROVE IInv'
  OBVIOUS
<1>1. CASE Tick
  BY <1>1, TickIInv
<1>2. ASSUME NEW s \in Session, Project(s) PROVE IInv'
  BY <1>2, ProjectIInv
<1>3. ASSUME NEW s \in Session, Rotate(s) PROVE IInv'
  BY <1>3, RotateIInv
<1>4. ASSUME NEW s \in Session, Drift(s) PROVE IInv'
  BY <1>4, DriftIInv
<1>5. ASSUME NEW s \in Session, NEW p \in 1 .. MaxToken, NEW t \in 1 .. MaxToken,
             Refresh(s, p, t)
      PROVE  IInv'
  BY <1>5, RefreshIInv
<1>6. ASSUME NEW r \in Request, LoginArrives(r) PROVE IInv'
  BY <1>6, LoginArrivesIInv
<1>7. ASSUME NEW r \in Request, LoginCompletes(r) PROVE IInv'
  BY <1>7, LoginCompletesIInv
<1>8. ASSUME NEW r \in Request, Fails(r) PROVE IInv'
  BY <1>8, FailsIInv
<1>9. ASSUME NEW r \in Request, LogoutOne(r) PROVE IInv'
  BY <1>9, LogoutOneIInv
<1>10. ASSUME NEW r \in Request, LogoutAll(r) PROVE IInv'
  BY <1>10, LogoutAllIInv
<1>11. ASSUME NEW r \in Request, NEW s \in Session, LogoutArrives(r, s) PROVE IInv'
  BY <1>11, LogoutArrivesIInv
<1>12. ASSUME NEW t \in LogoutToken, BackChannel(t) PROVE IInv'
  BY <1>12, BackChannelIInv
<1>13. CASE UNCHANGED vars
  BY <1>13 DEF vars, IInv, SessionsOK, RequestsOK, VaultOK, Vault, Lineage, LimitHolds, ActiveAt,
               NoSession, NoFamily, ReuseEndsSession, LogoutTakesTokens
<1> QED BY <1>1, <1>2, <1>3, <1>4, <1>5, <1>6, <1>7, <1>8, <1>9, <1>10, <1>11, <1>12, <1>13
        DEF Next

LEMMA Invariant == Spec => []IInv
<1> QED BY InitIInv, StepIInv, PTL DEF Spec

(* The clock, the records, the families and the handlers' slots stay of their types, no  *)
(* record is from the future, and an unissued session has neither record nor family.      *)
THEOREM TypeCorrect == Spec => []TypeOK
<1>1. IInv => TypeOK
  BY DEF IInv, SessionsOK, RequestsOK, VaultOK, Row, Vault, TypeOK, Time
<1> QED BY <1>1, Invariant, PTL

(* The limit on usable sessions (_enforce_concurrency), whatever the limit, the time to   *)
(* live and the callbacks that complete late: revoking and the clock only take sessions   *)
(* away, and one that is issued takes the excess with it.                                 *)
THEOREM LimitIsHeld == Spec => []LimitHolds
<1> QED BY Invariant, PTL DEF IInv, SessionsOK

(* A session has at most one heir and is over once it has one (rotate).                   *)
THEOREM RotatedOnce == Spec => []OneHeir
<1>1. ASSUME Lineage, NEW s \in Session
      PROVE  LET heirs == {t \in Session : session[t].parent = s}
             IN /\ Cardinality(heirs) <= 1
                /\ heirs # {} => session[s].status = "revoked"
  <2> DEFINE heirs == {t \in Session : session[t].parent = s}
  <2>1. CASE heirs = {}
    BY <2>1, FS_EmptySet
  <2>2. CASE heirs # {}
    <3>1. PICK t \in Session : session[t].parent = s
      BY <2>2
    <3>2. heirs = {t} /\ session[s].status = "revoked"
      BY <1>1, <3>1 DEF Lineage
    <3>3. Cardinality(heirs) = 1
      BY <3>2, FS_Singleton
    <3> QED BY <3>2, <3>3
  <2> QED BY <2>1, <2>2
<1>2. IInv => OneHeir
  BY <1>1 DEF IInv, SessionsOK, OneHeir
<1> QED BY <1>2, Invariant, PTL

(* A family marked as reused belongs to a session that is over (rotate_provider_tokens).  *)
THEOREM ReuseIsTheEnd == Spec => []ReuseEndsSession
<1> QED BY Invariant, PTL DEF IInv, VaultOK

(* An answered logout leaves neither the sessions it was to end nor their refresh tokens, *)
(* but for a session over before logout_all, which it asked for, got to it.               *)
THEOREM LogoutIsTheEnd == Spec => []LogoutTakesTokens
<1> QED BY Invariant, PTL DEF IInv, VaultOK

(* A session that a login or a rotation has just issued is active: those that end to keep *)
(* the limit are others, as of whatever time the limit is enforced (keep_session_id).     *)
THEOREM NewestIsKept == Spec => NewSessionIsKept
<1> DEFINE Kept == \A s \in Session : session[s].status = "absent" =>
                     session'[s].status \in {"absent", "active"}
<1>1. ASSUME IInv, NEW which, session' = Revoked(session, which) PROVE Kept
  BY <1>1, RevokedOf DEF IInv, SessionsOK
<1>2. ASSUME IInv, NEW r \in Request, LoginCompletes(r) PROVE Kept
  <2>1. PICK s \in Session, sid \in Sid \cup {None} : Issue(session, s, sid, None, request[r].ts)
    BY <1>2 DEF LoginCompletes
  <2> QED BY <1>2, <2>1, LoginStep
<1>3. ASSUME IInv, NEW s \in Session, Rotate(s) PROVE Kept
  BY <1>3, RotateStep
<1>4. ASSUME IInv, NEW s \in Session, Authentic(s, now), session' = Touched(s, now) PROVE Kept
  BY <1>4 DEF IInv, SessionsOK, Row, Touched
<1>5. ASSUME IInv, NEW r \in Request, LogoutOne(r) \/ LogoutAll(r) PROVE Kept
  BY <1>1, <1>5 DEF LogoutOne, LogoutAll
<1>6. ASSUME IInv, NEW s \in Session, Drift(s) PROVE Kept
  BY <1>1, <1>6 DEF Drift
<1>7. ASSUME IInv, NEW t \in LogoutToken, BackChannel(t) PROVE Kept
  BY <1>1, <1>7 DEF BackChannel
<1>8. ASSUME IInv, NEW s \in Session, NEW p \in 1 .. MaxToken, NEW t \in 1 .. MaxToken, Refresh(s, p, t)
      PROVE  Kept
  BY <1>1, <1>8 DEF Refresh, ReuseEnds
<1>9. ASSUME IInv, UNCHANGED session PROVE Kept
  BY <1>9
<1>10. IInv /\ [Next]_vars => Kept
  <2> HIDE DEF Kept
  <2> SUFFICES ASSUME IInv, [Next]_vars PROVE Kept
    OBVIOUS
  <2> QED BY <1>2, <1>3, <1>4, <1>5, <1>6, <1>7, <1>8, <1>9
          DEF Next, vars, Tick, Project, LoginArrives, Fails, LogoutArrives
<1>11. IInv /\ [Next]_vars => [Kept]_vars
  BY <1>10
<1> QED BY <1>11, Invariant, PTL DEF Spec, NewSessionIsKept
===============================================================================
