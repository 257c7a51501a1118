-------------------------------- MODULE StepUp --------------------------------
(***************************************************************************)
(* Step-up authentication: a session asks to act on something its policy   *)
(* guards, the user authenticates again at the provider, the callback      *)
(* issues a grant, and IdentityEnforcer.authorize consumes it for that one *)
(* action.  Between the request and the use sessions end, callbacks wait   *)
(* for the provider and time passes.                                       *)
(*                                                                         *)
(* The managers never await; the two handlers do, and each keeps what it   *)
(* read before.  A browser may present any session token, state and grant  *)
(* it was ever given.  A scope is an action with the resource it is for.   *)
(***************************************************************************)
EXTENDS Integers, FiniteSets

CONSTANTS Login,            \* session records
          Scope,            \* <<action, resource_id>>
          Transaction,      \* authorization transactions, numbered as they begin
          StepUpGrant,      \* grants, numbered as they are issued
          StepUpHandler,    \* requests of the two handlers in progress, numbered
          Nothing,
          EndsAt,           \* when each session expires
          GrantTtl,         \* StepUpManager.ttl_seconds
          TransactionTtl,   \* OidcConfig.transaction_ttl_seconds
          MaxUses,          \* bound: actions authorised
          LastInstant       \* bound: time stops here

ASSUME StepUpAssumption ==
  /\ {GrantTtl, TransactionTtl, MaxUses, LastInstant} \subseteq Nat \ {0}
  /\ EndsAt \in [Login -> Nat]
  /\ Transaction \cup StepUpGrant \cup StepUpHandler \subseteq Nat
  /\ Nothing \notin Login \cup Scope \cup Transaction

VARIABLES instant,
          login,            \* session records: never issued, active, or rotated or revoked
          transactions,     \* TransactionStore: popped by the callback that uses one
          handler,          \* where a handler is, and what it read
          granted,          \* StepUpManager._grants, each with its transaction (history)
          consumed,         \* StepUpManager._consumed
          uses              \* history: what was authorised with a grant, when, in order

stepUpVars == <<instant, login, transactions, handler, granted, consumed, uses>>

NoTransaction == [status |-> "none", session |-> Nothing, scope |-> Nothing, created_at |-> 0]
NoGrantYet == [session |-> Nothing, scope |-> Nothing, expires_at |-> 0, auth_time |-> 0,
               transaction |-> Nothing]
NoHandler  == [at |-> "idle", session |-> Nothing, transaction |-> Nothing, now |-> 0]

StepUpTypeOK ==
  /\ instant \in 0 .. LastInstant
  /\ login \in [Login -> {"none", "active", "revoked"}]
  /\ transactions \in
       [Transaction -> [status : {"none", "open", "consumed"}, session : Login \cup {Nothing},
                        scope : Scope \cup {Nothing}, created_at : 0 .. LastInstant]]
  /\ handler \in [StepUpHandler -> [at : {"idle", "body", "provider"},
                                    session : Login \cup {Nothing},
                                    transaction : Transaction \cup {Nothing},
                                    now : 0 .. LastInstant]]
  /\ granted \in [StepUpGrant -> [session : Login \cup {Nothing},
                                  scope : Scope \cup {Nothing},
                                  expires_at : 0 .. LastInstant + GrantTtl,
                                  auth_time : 0 .. LastInstant,
                                  transaction : Transaction \cup {Nothing}]]
  /\ consumed \subseteq StepUpGrant
  /\ uses \subseteq [number : 1 .. MaxUses, grant : StepUpGrant, session : Login,
                     scope : Scope, at : 0 .. LastInstant]

StepUpInit ==
  /\ instant = 0
  /\ login = [s \in Login |-> "none"]
  /\ transactions = [t \in Transaction |-> NoTransaction]
  /\ handler = [h \in StepUpHandler |-> NoHandler]
  /\ granted = [g \in StepUpGrant |-> NoGrantYet]
  /\ consumed = {}
  /\ uses = {}
-----------------------------------------------------------------------------
\* A new request is put where the first is idle: it matters to none which one that is.
Free(h) == /\ handler[h] = NoHandler
           /\ \A i \in StepUpHandler : i < h => handler[i] # NoHandler

Elapses ==
  /\ instant < LastInstant
  /\ instant' = instant + 1
  /\ UNCHANGED <<login, transactions, handler, granted, consumed, uses>>

\* SessionManager.authenticate, as of some time.
Authentic(s, now) == login[s] = "active" /\ now < EndsAt[s]

\* A session is issued, by a login or in the place of another; it is rotated or revoked.
\* (IdentitySessions says when.)
SessionChanges(s) ==
  /\ \/ login[s] = "none" /\ login' = [login EXCEPT ![s] = "active"]
     \/ login[s] = "active" /\ login' = [login EXCEPT ![s] = "revoked"]
  /\ UNCHANGED <<instant, transactions, handler, granted, consumed, uses>>

\* /step-up authenticates and awaits the body.
AskArrives(h, s) ==
  /\ Free(h) /\ Authentic(s, instant)
  /\ handler' = [handler EXCEPT ![h] = [NoHandler EXCEPT !.at = "body", !.session = s]]
  /\ UNCHANGED <<instant, login, transactions, granted, consumed, uses>>

\* OidcFlow.begin, for the session read before the await.
AskBegins(h, scope, t) ==
  /\ handler[h].at = "body"
  /\ transactions[t] = NoTransaction
  /\ \A u \in Transaction : u < t => transactions[u] # NoTransaction
  /\ transactions' = [transactions EXCEPT ![t] =
       [status |-> "open", session |-> handler[h].session, scope |-> scope,
        created_at |-> instant]]
  /\ handler' = [handler EXCEPT ![h] = NoHandler]
  /\ UNCHANGED <<instant, login, granted, consumed, uses>>

\* Mutant: the transaction is looked up, and dropped when the flow has ended.
StaysOpen(t) == transactions[t]

\* TransactionStore.consume: pop.
Popped(t) == [transactions[t] EXCEPT !.status = "consumed"]

\* /callback reads the time and pops the transaction; too old, it is popped all the same.
CallbackArrives(h, t) ==
  /\ Free(h) /\ transactions[t].status = "open"
  /\ transactions' = [transactions EXCEPT ![t] = Popped(t)]
  /\ IF transactions[t].created_at + TransactionTtl < instant THEN UNCHANGED handler
     ELSE handler' = [handler EXCEPT ![h] =
            [at |-> "provider", session |-> Nothing, transaction |-> t, now |-> instant]]
  /\ UNCHANGED <<instant, login, granted, consumed, uses>>

\* The provider has answered.  StepUpManager.issue, as of the time read before: the user
\* authenticated no longer than the ttl before it, at the level asked for (clocks agree: the
\* 60 seconds of tolerance are left out), and the session that asked is the browser's and
\* was valid then.
CallbackIssues(h, g) ==
  /\ handler[h].at = "provider"
  /\ granted[g] = NoGrantYet
  /\ \A f \in StepUpGrant : f < g => granted[f] # NoGrantYet
  /\ LET t == handler[h].transaction
         s == transactions[t].session
     IN /\ Authentic(s, handler[h].now)
        /\ \E a \in 0 .. handler[h].now :
             /\ a >= handler[h].now - GrantTtl
             /\ granted' = [granted EXCEPT ![g] =
                  [session |-> s, scope |-> transactions[t].scope,
                   expires_at |-> handler[h].now + GrantTtl, auth_time |-> a,
                   transaction |-> t]]
  /\ handler' = [handler EXCEPT ![h] = NoHandler]
  /\ UNCHANGED <<instant, login, transactions, consumed, uses>>

\* The body or the provider's answer is refused, or the session is not the one that asked.
HandlerFails(h) ==
  /\ handler[h] # NoHandler
  /\ handler' = [handler EXCEPT ![h] = NoHandler]
  /\ UNCHANGED <<instant, login, transactions, granted, consumed, uses>>

\* Mutant: consume that leaves used grants to their expiry.
ConsumableUsed(g, s, scope) ==
  granted[g].expires_at > instant /\ granted[g].session = s /\ granted[g].scope = scope

\* The checks of StepUpManager.consume.
ConsumableGrant(g, s, scope) ==
  /\ granted[g] # NoGrantYet /\ g \notin consumed
  /\ granted[g].expires_at > instant /\ granted[g].session = s /\ granted[g].scope = scope

\* authorize, of an action the policy allows with step-up: consume, and evaluate again.
\* What the policy denies, and what it allows as it is, consumes nothing.
Authorize(s, scope, g) ==
  /\ Authentic(s, instant)
  /\ ConsumableGrant(g, s, scope)
  /\ consumed' = consumed \cup {g}
  /\ Cardinality(uses) < MaxUses
  /\ uses' = uses \cup {[number |-> Cardinality(uses) + 1, grant |-> g, session |-> s,
                         scope |-> scope, at |-> instant]}
  /\ UNCHANGED <<instant, login, transactions, handler, granted>>

StepUpNext ==
  \/ Elapses
  \/ \E s \in Login : SessionChanges(s)
  \/ \E h \in StepUpHandler :
       \/ HandlerFails(h)
       \/ \E s \in Login : AskArrives(h, s)
       \/ \E t \in Transaction : CallbackArrives(h, t) \/ \E c \in Scope : AskBegins(h, c, t)
       \/ \E g \in StepUpGrant : CallbackIssues(h, g)
  \/ \E s \in Login, c \in Scope, g \in StepUpGrant : Authorize(s, c, g)

StepUpSpec == StepUpInit /\ [][StepUpNext]_stepUpVars
-----------------------------------------------------------------------------
\* One authentication pays for one action: of two authorised actions no grant and no
\* transaction is the same, whatever callbacks were repeated meanwhile; each was done in
\* the session and for the action and resource that asked, after it asked, and less than
\* two lifetimes of a grant after the user authenticated.
OneActionPerStepUp ==
  /\ \A u, v \in uses :
       granted[u.grant].transaction = granted[v.grant].transaction => u = v
  /\ \A u \in uses :
       LET g == granted[u.grant]
           t == transactions[g.transaction]
       IN /\ u.session = t.session /\ u.scope = t.scope
          /\ t.created_at <= u.at /\ u.at < g.auth_time + 2 * GrantTtl
===============================================================================
