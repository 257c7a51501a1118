--------------------------- MODULE IdentitySessions ---------------------------
(***************************************************************************)
(* The server's sessions of one person in one tenant: SessionManager, the  *)
(* vault of provider tokens, and the ways a session ends                   *)
(* (logout of one or all, back-channel logout, permission drift, rotation, *)
(* the concurrency limit, reuse of a refresh token).                       *)
(*                                                                         *)
(* A manager's call is atomic: the process runs one event loop and the     *)
(* managers never await.  The HTTP handlers do: a callback awaits the      *)
(* provider with the time it read before, and /logout and /step-up await   *)
(* the body of the request after they authenticated its session.           *)
(* A cookie may be any session token handed out so far, an old one too.    *)
(***************************************************************************)
EXTENDS Integers, FiniteSets

CONSTANTS Session, LogoutToken, Request,   \* identities
          Sid,          \* sessions of the provider
          None,
          Limit,        \* max_concurrent_sessions
          TTL,          \* ttl_seconds of a session
          MaxNow,       \* bound: the clock stops here
          MaxToken      \* bound: refresh tokens the provider gives out

ASSUME IdentityAssumption ==
  /\ {Limit, TTL, MaxNow, MaxToken} \subseteq Nat \ {0}
  /\ None \notin Session \cup Sid
  /\ IsFiniteSet(Session)

VARIABLES now,
          session,    \* SessionStore: the record of each session
          family,     \* InMemoryTokenVault: the refresh tokens kept for a session
          seen,       \* the logout tokens marked as seen
          request,    \* the handlers that await
          loggedOut,  \* history: sessions that an answered logout was to end
          late        \* history: of those, the ones over when logout_all got to them

vars == <<now, session, family, seen, request, loggedOut, late>>

Time == 0 .. MaxNow

NoSession == [status |-> "absent", sid |-> None, issued_at |-> 0, last_seen_at |-> 0,
              parent |-> None]
NoFamily  == [current |-> 0, used |-> {}, compromised |-> FALSE]
NoRequest == [kind |-> "none", session |-> None, ts |-> 0]

TypeOK ==
  /\ now \in Time
  /\ \A s \in Session :
       /\ session[s].status \in {"absent", "active", "revoked"}
       /\ session[s].sid \in Sid \cup {None}
       /\ session[s].parent \in Session \cup {None}
       /\ 0 <= session[s].issued_at
       /\ session[s].issued_at <= session[s].last_seen_at
       /\ session[s].last_seen_at <= now
       /\ session[s].status = "absent" => session[s] = NoSession /\ family[s] = NoFamily
       /\ family[s].current \in 0 .. MaxToken /\ family[s].used \subseteq 1 .. MaxToken
  /\ \A r \in Request : /\ request[r].kind \in {"none", "login", "logout"}
                        /\ request[r].session \in Session \cup {None}
                        /\ request[r].ts \in 0 .. now
  /\ seen \subseteq LogoutToken
  /\ late \subseteq loggedOut /\ loggedOut \subseteq Session

Init ==
  /\ now = 0
  /\ session = [s \in Session |-> NoSession]
  /\ family = [s \in Session |-> NoFamily]
  /\ seen = {}
  /\ request = [r \in Request |-> NoRequest]
  /\ loggedOut = {} /\ late = {}

Tick ==
  /\ now < MaxNow
  /\ now' = now + 1
  /\ UNCHANGED <<session, family, seen, request, loggedOut, late>>
-----------------------------------------------------------------------------
\* SessionManager.  "store" is a value of the variable session.

ActiveAt(store, ts) == {s \in Session : /\ store[s].status = "active"
                                        /\ ts < store[s].issued_at + TTL}

\* authenticate: the token of s is found and its record is active.
Authentic(s, ts) == s \in ActiveAt(session, ts)

Touched(s, ts) == [session EXCEPT ![s].last_seen_at = ts]

\* revoke_by_id for each of some sessions: only active ones change.  Of a revoked record
\* nothing is read any more but its lineage, so nothing else is kept here.
Revoked(store, which) ==
  [s \in Session |-> IF s \in which /\ store[s].status = "active"
                     THEN [NoSession EXCEPT !.status = "revoked", !.parent = store[s].parent]
                     ELSE store[s]]

Put(store, s, sid, parent, ts) ==
  [store EXCEPT ![s] = [status |-> "active", sid |-> sid, issued_at |-> ts,
                        last_seen_at |-> ts, parent |-> parent]]

\* The order of active_for_subject.  Ties are broken by random session ids: any way.
NotAfter(store, a, b) ==
  \/ store[a].last_seen_at < store[b].last_seen_at
  \/ /\ store[a].last_seen_at = store[b].last_seen_at
     /\ store[a].issued_at <= store[b].issued_at

\* Mutant: a limit that lets one more in.
ExcessOverMore(active) ==
  IF Cardinality(active) > Limit + 1 THEN Cardinality(active) - Limit ELSE 0

Excess(active) == IF Cardinality(active) > Limit THEN Cardinality(active) - Limit ELSE 0

\* Mutant: the victims are the first in order, the new session not spared.
VictimsAny(store, keep, ts) ==
  LET active == ActiveAt(store, ts)
  IN {v \in SUBSET active : /\ Cardinality(v) = Excess(active)
                            /\ \A a \in v, b \in active \ v : NotAfter(store, a, b)}

\* _enforce_concurrency: the sets of sessions its loop may revoke.
Victims(store, keep, ts) ==
  LET active == ActiveAt(store, ts)
      others == active \ {keep}
  IN {v \in SUBSET others : /\ Cardinality(v) = Excess(active)
                            /\ \A a \in v, b \in others \ v : NotAfter(store, a, b)}

\* issue: a new record is put, then the limit is enforced.
Issue(store, s, sid, parent, ts) ==
  /\ session[s].status = "absent"
  /\ LET put == Put(store, s, sid, parent, ts)
     IN \E v \in Victims(put, s, ts) : session' = Revoked(put, v)

\* GET /session, and every other request that only authenticates.
Project(s) ==
  /\ Authentic(s, now)
  /\ session' = Touched(s, now)
  /\ UNCHANGED <<now, family, seen, request, loggedOut, late>>

\* Mutant: rotation that leaves the old session be.
RotatedAway(s) == session

\* What rotate issues the new session into: the old one is revoked first.
Replaced(s) == Revoked(session, {s})

\* rotate: authenticates without touching; the vault keeps the family of the old session.
Rotate(s) ==
  /\ Authentic(s, now)
  /\ \E heir \in Session : Issue(Replaced(s), heir, session[s].sid, s, now)
  /\ UNCHANGED <<now, family, seen, request, loggedOut, late>>
-----------------------------------------------------------------------------
\* The HTTP handlers.  A slot of "request" holds what a handler read before it awaits.

Arrive(r, kind, s, ts) ==
  /\ request[r] = NoRequest
  /\ request' = [request EXCEPT ![r] = [kind |-> kind, session |-> s, ts |-> ts]]

Leave(r) == request' = [request EXCEPT ![r] = NoRequest]

\* GET /callback of a login: the transaction is consumed, then the provider is awaited.
LoginArrives(r) ==
  /\ Arrive(r, "login", None, now)
  /\ UNCHANGED <<now, session, family, seen, loggedOut, late>>

\* complete_login, at the time read on arrival.  The provider gives a refresh token.
LoginCompletes(r) ==
  /\ request[r].kind = "login"
  /\ \E s \in Session, sid \in Sid \cup {None} :
       /\ Issue(session, s, sid, None, request[r].ts)
       /\ family' = [family EXCEPT ![s] = [NoFamily EXCEPT !.current = 1]]
  /\ Leave(r)
  /\ UNCHANGED <<now, seen, loggedOut, late>>

\* The provider, the claims or the body of the request raise: nothing was changed.
Fails(r) ==
  /\ request[r] # NoRequest
  /\ Leave(r)
  /\ UNCHANGED <<now, session, family, seen, loggedOut, late>>

\* POST /logout: authenticated, then the body is awaited.
LogoutArrives(r, s) ==
  /\ Authentic(s, now)
  /\ Arrive(r, "logout", s, 0)
  /\ session' = Touched(s, now)
  /\ UNCHANGED <<now, family, seen, loggedOut, late>>

\* Mutant: logout_session that empties the vault only if it revoked the session.
EmptiedIfRevoked(s) == IF session[s].status = "active" THEN {s} ELSE {}

\* logout_session: the vault is emptied whatever revoke_by_id found.
Emptied(s) == {s}

Without(which) == [s \in Session |-> IF s \in which THEN NoFamily ELSE family[s]]

LogoutOne(r) ==
  /\ request[r].kind = "logout"
  /\ session' = Revoked(session, {request[r].session})
  /\ family' = Without(Emptied(request[r].session))
  /\ loggedOut' = loggedOut \cup {request[r].session}
  /\ Leave(r)
  /\ UNCHANGED <<now, seen, late>>

\* logout_all: the families of unexpired sessions go, though expired ones are revoked too,
\* and the family of the session that asked stays if that one is over by now.
LogoutAll(r) ==
  /\ request[r].kind = "logout"
  /\ session' = Revoked(session, Session)
  /\ family' = Without(ActiveAt(session, now))
  /\ loggedOut' = loggedOut \cup ActiveAt(session, now) \cup {request[r].session}
  /\ late' = late \cup ({request[r].session} \ ActiveAt(session, now))
  /\ Leave(r)
  /\ UNCHANGED <<now, seen>>

\* POST /backchannel-logout of a token not seen before: one that names a provider session
\* ends its sessions; one that names the subject only is marked and then refused, since
\* the route hands no tenant on.
BackChannel(t) ==
  /\ t \notin seen
  /\ seen' = seen \cup {t}
  /\ \/ UNCHANGED session
     \/ \E sid \in Sid :
          session' = Revoked(session, {s \in Session : session[s].sid = sid})
  /\ UNCHANGED <<now, family, request, loggedOut, late>>
-----------------------------------------------------------------------------
\* apply_permission_snapshot of a snapshot that differs from the session's principal.
Drift(s) ==
  /\ session[s].status # "absent"
  /\ session' = Revoked(session, {s})
  /\ family' = Without({s})
  /\ UNCHANGED <<now, seen, request, loggedOut, late>>

\* Mutant: reuse is reported but the session goes on.
ReuseReported(s) == session

ReuseEnds(s) == Revoked(session, {s})

\* rotate_provider_tokens: p is presented, t is what the provider gave for it, which may
\* be the same token again.  A token used before marks the family and ends the session.
Refresh(s, p, t) ==
  /\ family[s].current # 0 /\ ~family[s].compromised
  /\ IF p \in family[s].used
     THEN /\ family' = [family EXCEPT ![s].compromised = TRUE]
          /\ session' = ReuseEnds(s)
     ELSE /\ p = family[s].current
          /\ family' = [family EXCEPT ![s] = [current |-> t, used |-> @.used \cup {p},
                                                  compromised |-> FALSE]]
          /\ UNCHANGED session
  /\ UNCHANGED <<now, seen, request, loggedOut, late>>

Next ==
  \/ Tick
  \/ \E s \in Session : \/ Project(s) \/ Rotate(s) \/ Drift(s)
                        \/ \E p, t \in 1 .. MaxToken : Refresh(s, p, t)
  \/ \E r \in Request : \/ LoginArrives(r) \/ LoginCompletes(r) \/ Fails(r)
                        \/ LogoutOne(r) \/ LogoutAll(r)
                        \/ \E s \in Session : LogoutArrives(r, s)
  \/ \E t \in LogoutToken : BackChannel(t)

Spec == Init /\ [][Next]_vars
-----------------------------------------------------------------------------
\* However logins, rotations and late callbacks interleave, and although a callback
\* enforces the limit as of a time already past, no more than max_concurrent_sessions
\* sessions are usable (_enforce_concurrency).
LimitHolds == Cardinality(ActiveAt(session, now)) <= Limit

\* The session a login or a rotation hands out is active: the limit never takes the new
\* one back, even when its callback is the oldest of those in flight (keep_session_id).
NewSessionIsKept ==
  [][\A s \in Session : session[s].status = "absent" =>
       session'[s].status \in {"absent", "active"}]_vars

\* A session is replaced at most once, and one that was replaced is not usable beside its
\* heir (rotate: the old session is revoked before the new one is issued).
OneHeir ==
  \A s \in Session :
    LET heirs == {t \in Session : session[t].parent = s}
    IN /\ Cardinality(heirs) <= 1
       /\ heirs # {} => session[s].status = "revoked"

\* The family of a session and the session itself fall together: once a used refresh
\* token came back, the session is over (rotate_provider_tokens).
ReuseEndsSession == \A s \in Session : family[s].compromised => session[s].status = "revoked"

\* A session that an answered logout was to end, the one that asked or, for logout_all, any
\* other in use, is over for good and has no refresh tokens left in the vault, whatever else
\* ended it while the handler waited for the body.  A session that asks to log out of all
\* and was rotated, evicted or expired in the meantime is the exception: it is over, but its
\* family is not among those logout_all revokes.
LogoutTakesTokens ==
  \A s \in loggedOut : /\ session[s].status = "revoked"
                       /\ family[s] # NoFamily => s \in late

=============================================================================
