---------------------------- MODULE BrowserRequests ----------------------------
(***************************************************************************)
(* Requests of a page: apiRequest with its timeout, retries and backoff,   *)
(* under the RequestManager, which lets a newer request for the same key   *)
(* supersede an older one.  The calls here share one key.                  *)
(*                                                                         *)
(* A request that timed out or was aborted may still reach the API and be  *)
(* performed.  The API performs a mutation with an Idempotency-Key once    *)
(* and replays its answer (see IncidentRequests).                          *)
(***************************************************************************)
EXTENDS Integers, Sequences

CONSTANTS Call,          \* calls of apiRequest
          KindOf,        \* of each: "read", "keyed" (mutation with a key) or "unkeyed"
          NoHolder,
          SendLimit      \* RetryPolicy.maxAttempts

ASSUME RequestAssumption ==
  /\ KindOf \in [Call -> {"read", "keyed", "unkeyed"}]
  /\ SendLimit \in Nat \ {0}
  /\ NoHolder \notin Call

VARIABLES requests,      \* where each call is, and its attempt
          wire,          \* attempts sent that have not reached the API
          replies,       \* the reply that waits for a call
          controllers,   \* RequestManager.controllers, at this key
          performed,     \* how often the API did what the call asks
          begun, shown   \* history: calls in the order they began, and were answered

requestVars == <<requests, wire, replies, controllers, performed, begun, shown>>

RequestsTypeOK ==
  /\ requests \in [Call -> [at : {"new", "sent", "sleeping", "answered", "failed", "aborted"},
                            attempt : 0 .. SendLimit]]
  /\ wire \subseteq Call \X (1 .. SendLimit)
  /\ replies \in [Call -> {"none", "ok", "busy", "refused"}]
  /\ controllers \in Call \cup {NoHolder}
  /\ performed \in [Call -> 0 .. SendLimit]
  /\ begun \in Seq(Call) /\ shown \in Seq(Call)

RequestsInit ==
  /\ requests = [c \in Call |-> [at |-> "new", attempt |-> 0]]
  /\ wire = {}
  /\ replies = [c \in Call |-> "none"]
  /\ controllers = NoHolder
  /\ performed = [c \in Call |-> 0]
  /\ begun = <<>> /\ shown = <<>>
-----------------------------------------------------------------------------
\* Mutant: the guard against unsafe retries is left out.
AnyMethod(c) == TRUE

isMethodRetrySafe(c) == KindOf[c] # "unkeyed"

\* Mutant: finish deletes whatever is under the key.
FinishedAny(holder, c) == NoHolder

\* RequestManager.finish: nothing if another request has taken the key.
Finished(holder, c) == IF holder = c THEN NoHolder ELSE holder

\* begin aborts the request under the key; its apiRequest rejects, whether it waits for the
\* API or for its backoff, and its caller finishes it, after the new one took the key.
BeginRequest(c) ==
  /\ requests[c].at = "new"
  /\ requests' = [d \in Call |->
       IF d = c THEN [at |-> "sent", attempt |-> 1]
       ELSE IF d = controllers THEN [requests[d] EXCEPT !.at = "aborted"]
       ELSE requests[d]]
  /\ controllers' = IF controllers = NoHolder THEN c ELSE Finished(c, controllers)
  /\ wire' = wire \cup {<<c, 1>>}
  /\ begun' = Append(begun, c)
  /\ UNCHANGED <<replies, performed, shown>>

\* cancel, or cancelAll when the page is left.
CancelRequest ==
  /\ controllers # NoHolder
  /\ requests' = [requests EXCEPT ![controllers].at = "aborted"]
  /\ controllers' = NoHolder
  /\ UNCHANGED <<wire, replies, performed, begun, shown>>

\* An attempt reaches the API, and is performed or not.  It may be performed and answered
\* with an error all the same, by a gateway.  Only the attempt waited for has a reply.
Reaches(c, n) ==
  /\ <<c, n>> \in wire
  /\ wire' = wire \ {<<c, n>>}
  /\ \E done \in BOOLEAN, reply \in {"ok", "busy", "refused"} :
       /\ reply = "ok" => done
       /\ reply = "refused" => ~done
       /\ performed' = [performed EXCEPT ![c] =
            @ + IF done /\ ~(KindOf[c] = "keyed" /\ @ > 0) THEN 1 ELSE 0]
       /\ replies' = [replies EXCEPT ![c] =
            IF requests[c] = [at |-> "sent", attempt |-> n] THEN reply ELSE @]
  /\ UNCHANGED <<requests, controllers, begun, shown>>

Settle(c, how) ==
  /\ requests' = [requests EXCEPT ![c].at = how]
  /\ controllers' = Finished(controllers, c)

\* The catch clause: sleep and go round again, or throw.
RetryOrFail(c) ==
  IF isMethodRetrySafe(c) /\ requests[c].attempt < SendLimit
  THEN requests' = [requests EXCEPT ![c].at = "sleeping"] /\ UNCHANGED controllers
  ELSE Settle(c, "failed")

\* A reply: answered, unless the body is broken (retried) or not what the schema wants
\* (thrown); an error status is retried or thrown.
Receives(c) ==
  /\ requests[c].at = "sent" /\ replies[c] # "none"
  /\ \/ replies[c] = "ok" /\ Settle(c, "answered") /\ shown' = Append(shown, c)
     \/ replies[c] \in {"ok", "busy"} /\ RetryOrFail(c) /\ UNCHANGED shown
     \/ replies[c] \in {"ok", "refused"} /\ Settle(c, "failed") /\ UNCHANGED shown
  /\ replies' = [replies EXCEPT ![c] = "none"]
  /\ UNCHANGED <<wire, performed, begun>>

\* The timeout fires, or the network fails.
TimesOut(c) ==
  /\ requests[c].at = "sent"
  /\ RetryOrFail(c)
  /\ replies' = [replies EXCEPT ![c] = "none"]
  /\ UNCHANGED <<wire, performed, begun, shown>>

\* The backoff is over: the next attempt.
Wakes(c) ==
  /\ requests[c].at = "sleeping"
  /\ requests' = [requests EXCEPT ![c] = [at |-> "sent", attempt |-> @.attempt + 1]]
  /\ wire' = wire \cup {<<c, requests[c].attempt + 1>>}
  /\ UNCHANGED <<replies, controllers, performed, begun, shown>>

RequestsNext ==
  \/ CancelRequest
  \/ \E c \in Call : \/ BeginRequest(c) \/ Receives(c) \/ TimesOut(c) \/ Wakes(c)
                     \/ \E n \in 1 .. SendLimit : Reaches(c, n)

RequestsSpec == RequestsInit /\ [][RequestsNext]_requestVars
-----------------------------------------------------------------------------
\* A mutation is performed at most once for each call, however often its attempts timed out
\* or were answered by a gateway and reach the API late, and a call that was answered was
\* performed.
OnceForEachCall ==
  \A c \in Call :
    /\ KindOf[c] # "read" => performed[c] <= 1
    /\ requests[c].at = "answered" => performed[c] >= 1

\* An older request never answers after a newer one for the same key, though its attempts,
\* backoffs and aborts go on while the newer ones run: what the page shows only gets newer.
AnswersInOrder ==
  LET place(c) == CHOOSE i \in DOMAIN begun : begun[i] = c
  IN \A i, j \in DOMAIN shown : i < j => place(shown[i]) < place(shown[j])
===============================================================================
