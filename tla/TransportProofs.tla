---------------------------- MODULE TransportProofs ----------------------------
(***************************************************************************)
(* Theorems about what stands between the parts that decide: the circuits  *)
(* around graph nodes, the live connections and the requests of the web    *)
(* application, the buckets of the rate limits and the lock in Redis.      *)
(***************************************************************************)
EXTENDS NodeResilience, SocketClient, EventSourceClient, BrowserRequests, RateLimits,
        SharedLock, FiniteSetTheorems, TLAPS

-----------------------------------------------------------------------------
(***************************************************************************)
(* NodeResilience, for any executions and thresholds.  Of an execution the *)
(* invariant says whether a change was reported (ChangesKnown).            *)
(***************************************************************************)

(* What is known of changes is what the attempts reported; recovery begins with a report, a  *)
(* failure is returned without one, and before recovery nothing is compensated.              *)
ChangesKnown ==
  \A e \in Execution :
    /\ execution[e].partial = (residue[e].left = "reported")
    /\ execution[e].at = "backoff" => execution[e].attempt < MaxAttempts
    /\ execution[e].at = "recover" => residue[e].left = "reported"
    /\ execution[e].at \notin {"compensated", "escalated"} => residue[e].compensations = 0

NodeInv == NodeTypeOK /\ ChangesKnown /\ FailuresAccountForChanges

NodeLocals == [at : {"idle", "attempt", "backoff", "recover", "succeeded", "failed",
                     "compensated", "escalated", "cancelled"},
               current : Breaker, attempt : 0 .. MaxAttempts, partial : BOOLEAN]

LEMMA PositiveNode ==
  /\ MaxAttempts \in Nat /\ MaxAttempts > 0
  /\ MaxClock \in Nat
  BY NodeAssumption

LEMMA FailureIsBreaker ==
  ASSUME NEW c \in Breaker, clock \in Nat
  PROVE  circuit_failure(c) \in Breaker
  BY DEF circuit_failure, Breaker

LEMMA BeforeIsBreaker ==
  ASSUME NEW c \in Breaker
  PROVE  circuit_before(c) \in Breaker
  BY DEF circuit_before, Breaker

LEMMA ClosedIsBreaker == Closed \in Breaker
  BY DEF Closed, Breaker

NodeLeft == [left : Left, compensations : Nat]

LEMMA BothOf ==
  ASSUME NEW a \in Left, NEW b \in Left
  PROVE  /\ Both(a, b) \in Left
         /\ Both(a, b) = "reported" <=> (a = "reported" \/ b = "reported")
  BY DEF Both, Left

(* What an execution returns goes with what it left. *)
GoesWith(x, r) ==
  /\ x.partial = (r.left = "reported")
  /\ x.at = "backoff" => x.attempt < MaxAttempts
  /\ x.at = "recover" => r.left = "reported"
  /\ x.at \notin {"compensated", "escalated"} => r.compensations = 0
  /\ x.at = "failed" => r.left # "reported"
  /\ x.at = "compensated" => r.left = "reported" /\ r.compensations = 1
  /\ r.compensations > 0 => r.left = "reported" /\ r.compensations = 1

(* An execution is left where it was, except one. *)
LEMMA NodeStepOf ==
  ASSUME NodeInv, NEW e \in Execution, NEW x \in NodeLocals, NEW r \in NodeLeft,
         clock' \in 0 .. MaxClock, circuit' \in Breaker,
         execution' = [execution EXCEPT ![e] = x],
         residue' = [residue EXCEPT ![e] = r],
         GoesWith(x, r)
  PROVE  NodeInv'
<1>1. execution \in [Execution -> NodeLocals] /\ residue \in [Execution -> NodeLeft]
  BY DEF NodeInv, NodeTypeOK, NodeLocals, NodeLeft
<1>2. execution' \in [Execution -> NodeLocals] /\ residue' \in [Execution -> NodeLeft]
  BY <1>1
<1>3. NodeTypeOK'
  BY <1>2 DEF NodeTypeOK, NodeLocals, NodeLeft, Breaker
<1>4. \A f \in Execution : /\ execution'[f] = IF f = e THEN x ELSE execution[f]
                           /\ residue'[f] = IF f = e THEN r ELSE residue[f]
  BY <1>1
<1>5. ChangesKnown'
  BY <1>4 DEF ChangesKnown, NodeInv, GoesWith
<1>6. FailuresAccountForChanges'
  BY <1>4 DEF FailuresAccountForChanges, NodeInv, NodeLocals, GoesWith
<1> QED BY <1>3, <1>5, <1>6 DEF NodeInv

(* What is left of an execution stays. *)
LEMMA NodeSameLeft ==
  ASSUME NodeInv, NEW e \in Execution, NEW x \in NodeLocals,
         clock' \in 0 .. MaxClock, circuit' \in Breaker,
         execution' = [execution EXCEPT ![e] = x],
         residue' = residue,
         execution[e].at \notin {"compensated", "escalated"},
         x.partial = execution[e].partial,
         x.at \notin {"backoff", "recover", "failed", "compensated"}
  PROVE  NodeInv'
<1>1. residue \in [Execution -> NodeLeft]
  BY DEF NodeInv, NodeTypeOK, NodeLeft
<1>2. residue' = [residue EXCEPT ![e] = residue[e]] /\ residue[e] \in NodeLeft
  BY <1>1
<1>3. residue[e].compensations = 0 /\ execution[e].partial = (residue[e].left = "reported")
  BY DEF NodeInv, ChangesKnown
<1>4. x.partial = (residue[e].left = "reported")
  BY <1>3
<1>5. GoesWith(x, residue[e])
  BY <1>3, <1>4 DEF GoesWith
<1> QED BY <1>2, <1>5, NodeStepOf

LEMMA NodeInitInv == NodeInit => NodeInv
<1> SUFFICES ASSUME NodeInit PROVE NodeInv
  OBVIOUS
<1>1. NodeTypeOK
  BY ClosedIsBreaker, PositiveNode DEF NodeInit, NodeTypeOK, Left
<1>2. \A e \in Execution :
        /\ execution[e].at = "idle" /\ ~execution[e].partial
        /\ residue[e].left = "nothing" /\ residue[e].compensations = 0
  BY DEF NodeInit
<1>3. \A e \in Execution : execution[e].partial = (residue[e].left = "reported")
  <2> TAKE e \in Execution
  <2>1. execution[e].partial = FALSE
    BY DEF NodeInit
  <2>2. (residue[e].left = "reported") = FALSE
    BY <1>2
  <2> QED BY <2>1, <2>2, Zenon
<1> QED BY <1>1, <1>2, <1>3 DEF NodeInv, ChangesKnown, FailuresAccountForChanges

LEMMA NodeStepInv == NodeInv /\ [NodeNext]_nodeVars => NodeInv'
<1> SUFFICES ASSUME NodeInv, [NodeNext]_nodeVars PROVE NodeInv'
  OBVIOUS
<1> USE PositiveNode
<1>0. /\ execution \in [Execution -> NodeLocals] /\ clock \in 0 .. MaxClock
      /\ residue \in [Execution -> NodeLeft]
      /\ circuit \in Breaker
  BY DEF NodeInv, NodeTypeOK, NodeLocals, NodeLeft
<1>x. \A e \in Execution :
        /\ execution[e] \in NodeLocals
        /\ execution[e].current \in Breaker /\ execution[e].attempt \in 0 .. MaxAttempts
        /\ execution[e].partial \in BOOLEAN
        /\ execution[e].partial = (residue[e].left = "reported")
        /\ execution[e].at \notin {"compensated", "escalated"} => residue[e].compensations = 0
  BY <1>0 DEF NodeLocals, NodeInv, ChangesKnown
<1>1. CASE UNCHANGED nodeVars
  BY <1>1 DEF NodeInv, NodeTypeOK, ChangesKnown, FailuresAccountForChanges, nodeVars
<1>2. CASE Passes
  BY <1>2 DEF Passes, NodeInv, NodeTypeOK, ChangesKnown, FailuresAccountForChanges
<1>3. ASSUME NEW e \in Execution, Begin(e) PROVE NodeInv'
  <2> DEFINE c == circuit_before(circuit)
             x == [execution[e] EXCEPT !.at = "escalated", !.current = c]
             y == [execution[e] EXCEPT !.at = "attempt", !.current = c, !.attempt = 1]
  <2>1. c \in Breaker /\ 1 \in 0 .. MaxAttempts
    BY <1>0, BeforeIsBreaker
  <2>2. /\ execution[e].at = "idle" /\ clock' = clock /\ residue' = residue
        /\ IF Refuses(c)
           THEN execution' = [execution EXCEPT ![e].at = "escalated", ![e].current = c]
                /\ circuit' = c
           ELSE execution' = [execution EXCEPT ![e].at = "attempt", ![e].current = c,
                                              ![e].attempt = 1]
                /\ circuit' = circuit
    BY <1>3 DEF Begin
  <2> HIDE DEF c
  <2>3. x \in NodeLocals /\ x.partial = execution[e].partial /\ x.at = "escalated"
    BY <1>x, <2>1 DEF NodeLocals
  <2>4. y \in NodeLocals /\ y.partial = execution[e].partial /\ y.at = "attempt"
    BY <1>x, <2>1 DEF NodeLocals
  <2>5. execution' = [execution EXCEPT ![e] = x] \/ execution' = [execution EXCEPT ![e] = y]
    BY <1>0, <2>2
  <2>6. circuit' \in Breaker
    BY <1>0, <2>1, <2>2
  <2> HIDE DEF x, y
  <2> QED BY <1>0, <2>2, <2>3, <2>4, <2>5, <2>6, NodeSameLeft
<1>4. ASSUME NEW e \in Execution, Succeed(e) PROVE NodeInv'
  <2> DEFINE x == [execution[e] EXCEPT !.at = "succeeded", !.current = Closed]
  <2>2. /\ x \in NodeLocals /\ x.partial = execution[e].partial
        /\ x.at = "succeeded" /\ execution[e].at = "attempt"
    BY <1>4, <1>x, ClosedIsBreaker DEF NodeLocals, Succeed
  <2>3. /\ execution' = [execution EXCEPT ![e] = x]
        /\ circuit' \in Breaker /\ clock' = clock /\ residue' = residue
    BY <1>0, <1>4, ClosedIsBreaker DEF Succeed
  <2> HIDE DEF x
  <2> QED BY <1>0, <2>2, <2>3, NodeSameLeft
<1>5. ASSUME NEW e \in Execution, Fail(e) PROVE NodeInv'
  <2> DEFINE c == circuit_failure(execution[e].current)
             P(left) == AnyPartial(e, left = "reported")
             N(retryable, left) == IF ~GivesUp(e, retryable, c) THEN "backoff"
                                   ELSE IF P(left) THEN "recover" ELSE "failed"
  <2>1. PICK retryable \in BOOLEAN, left \in Left :
          /\ execution' = [execution EXCEPT ![e].at = N(retryable, left), ![e].current = c,
                                            ![e].partial = P(left)]
          /\ circuit' = IF N(retryable, left) = "failed" THEN c ELSE circuit
          /\ residue' = [residue EXCEPT ![e].left = Both(@, left)]
    BY <1>5 DEF Fail
  <2>2. c \in Breaker
    BY <1>0, <1>x, FailureIsBreaker
  <2>3. execution[e].at = "attempt" /\ clock' = clock
    BY <1>5 DEF Fail
  <2>4. ~GivesUp(e, retryable, c) => execution[e].attempt < MaxAttempts
    BY <1>x DEF GivesUp
  <2> DEFINE p == P(left)
             at == N(retryable, left)
             both == Both(residue[e].left, left)
             x == [execution[e] EXCEPT !.at = at, !.current = c, !.partial = p]
  <2>5. p \in BOOLEAN /\ both \in Left /\ (p <=> both = "reported")
    <3>1. residue[e].left \in Left
      BY <1>0 DEF NodeLeft
    <3>2. both \in Left /\ (both = "reported" <=> (residue[e].left = "reported" \/ left = "reported"))
      BY <2>1, <3>1, BothOf, Zenon
    <3>3. p \in BOOLEAN /\ (p <=> (residue[e].left = "reported" \/ left = "reported"))
      BY <1>x DEF AnyPartial
    <3> QED BY <3>2, <3>3
  <2>6. /\ at \in {"backoff", "recover", "failed"}
        /\ at = "recover" => p
        /\ at = "failed" => ~p
        /\ at = "backoff" => execution[e].attempt < MaxAttempts
    BY <2>4
  <2>7. execution' = [execution EXCEPT ![e] = x]
    BY <1>0, <2>1
  <2> DEFINE r == [residue[e] EXCEPT !.left = both]
  <2>8. /\ residue' = [residue EXCEPT ![e] = r]
        /\ r \in NodeLeft /\ r.left = both /\ r.compensations = 0
    <3>1. residue[e] \in NodeLeft
      BY <1>0
    <3>2. residue' = [residue EXCEPT ![e] = r]
      BY <1>0, <2>1
    <3> HIDE DEF both
    <3>3. r \in NodeLeft /\ r.compensations = residue[e].compensations /\ r.left = both
      BY <2>5, <3>1 DEF NodeLeft
    <3> QED BY <1>x, <2>3, <3>2, <3>3
  <2>9. circuit' \in Breaker
    BY <1>0, <2>1, <2>2
  <2> HIDE DEF p, at, c, r, both
  <2>10. /\ x \in NodeLocals /\ x.at = at /\ x.partial = p /\ x.attempt = execution[e].attempt
    <3>1. at \in {"backoff", "recover", "failed"}
      BY <2>6
    <3> HIDE DEF P, N
    <3>2. x \in NodeLocals
      BY <1>x, <2>2, <2>5, <3>1 DEF NodeLocals
    <3>3. x.at = at /\ x.attempt = execution[e].attempt
      BY <1>x DEF NodeLocals
    <3>4. x.partial = p
      BY <1>x DEF NodeLocals
    <3> QED BY <3>2, <3>3, <3>4
  <2> HIDE DEF x
  <2>11. GoesWith(x, r)
    <3>1. x.partial = (r.left = "reported")
      BY <2>5, <2>8, <2>10
    <3>2. (r.left = "reported" <=> p) /\ r.compensations = 0 /\ x.at = at
      BY <2>5, <2>8, <2>10
    <3>3. x.at = "backoff" => x.attempt < MaxAttempts
      BY <2>6, <2>10
    <3> QED BY <2>6, <3>1, <3>2, <3>3 DEF GoesWith
  <2> QED BY <1>0, <2>3, <2>7, <2>8, <2>9, <2>10, <2>11, NodeStepOf
<1>6. ASSUME NEW e \in Execution, Retry(e) PROVE NodeInv'
  <2> DEFINE x == [execution[e] EXCEPT !.at = "attempt", !.attempt = @ + 1]
  <2>1. execution[e].at = "backoff" /\ execution[e].attempt < MaxAttempts
    BY <1>6 DEF Retry, NodeInv, ChangesKnown
  <2>2. /\ x \in NodeLocals /\ x.partial = execution[e].partial /\ x.at = "attempt"
    <3>1. execution[e].attempt + 1 \in 0 .. MaxAttempts
      BY <1>x, <2>1
    <3> QED BY <1>x, <3>1 DEF NodeLocals
  <2>3. /\ execution' = [execution EXCEPT ![e] = x]
        /\ circuit' \in Breaker /\ clock' = clock /\ residue' = residue
    BY <1>0, <1>6 DEF Retry
  <2> HIDE DEF x
  <2> QED BY <1>0, <2>1, <2>2, <2>3, NodeSameLeft
<1>7. ASSUME NEW e \in Execution, Recover(e) PROVE NodeInv'
  <2>1. /\ execution[e].at = "recover" /\ residue[e].left = "reported"
        /\ residue[e].compensations = 0
    BY <1>7, <1>x DEF Recover, NodeInv, ChangesKnown
  <2>2. PICK at \in {"escalated", "compensated"}, n \in {0, 1} :
          /\ at = "compensated" => n = 1
          /\ execution' = [execution EXCEPT ![e].at = at]
          /\ residue' = [residue EXCEPT ![e].compensations = @ + n]
    <3>1. CASE /\ execution' = [execution EXCEPT ![e].at = "escalated"]
               /\ \E tried \in {0, 1} : residue' = [residue EXCEPT ![e].compensations = @ + tried]
      BY <3>1
    <3>2. CASE /\ execution' = [execution EXCEPT ![e].at = "compensated"]
               /\ residue' = [residue EXCEPT ![e].compensations = @ + 1]
      BY <3>2
    <3> QED BY <1>7, <3>1, <3>2 DEF Recover
  <2> DEFINE x == [execution[e] EXCEPT !.at = at]
  <2>3. x \in NodeLocals /\ x.partial = execution[e].partial /\ x.at = at
    BY <1>x DEF NodeLocals
  <2>4. execution' = [execution EXCEPT ![e] = x]
    BY <1>0, <2>2
  <2> DEFINE r == [residue[e] EXCEPT !.compensations = n]
  <2>5. /\ residue' = [residue EXCEPT ![e] = r]
        /\ r \in NodeLeft /\ r.left = residue[e].left /\ r.compensations = n
    <3>1. residue[e] \in NodeLeft /\ n \in Nat
      BY <1>0
    <3>2. residue' = [residue EXCEPT ![e] = r]
      <4>1. residue[e].compensations + n = n
        BY <2>1
      <4> QED BY <1>0, <2>2, <4>1
    <3>3. r \in NodeLeft
      BY <3>1 DEF NodeLeft
    <3>4. r.left = residue[e].left /\ r.compensations = n
      BY <3>1 DEF NodeLeft
    <3> QED BY <3>2, <3>3, <3>4
  <2>6. circuit' \in Breaker /\ clock' = clock
    BY <1>7, <1>x DEF Recover
  <2> HIDE DEF x, r
  <2>7. GoesWith(x, r)
    <3>1. x.partial = (r.left = "reported")
      BY <1>x, <2>3, <2>5, Zenon
    <3>2. r.left = "reported"
      BY <2>1, <2>5
    <3> QED BY <2>2, <2>3, <2>5, <3>1, <3>2 DEF GoesWith
  <2> QED BY <1>0, <2>3, <2>4, <2>5, <2>6, <2>7, NodeStepOf
<1>8. ASSUME NEW e \in Execution, Cancel(e) PROVE NodeInv'
  <2> DEFINE x == [execution[e] EXCEPT !.at = "cancelled"]
  <2>2. /\ x \in NodeLocals /\ x.partial = execution[e].partial /\ x.at = "cancelled"
        /\ execution[e].at \in {"attempt", "backoff"}
    BY <1>8, <1>x DEF NodeLocals, Cancel
  <2>3. PICK left \in {"nothing", "unreported"} :
          residue' = [residue EXCEPT ![e].left = Both(@, left)]
    BY <1>8 DEF Cancel
  <2> DEFINE both == Both(residue[e].left, left)
             r == [residue[e] EXCEPT !.left = both]
  <2>4. both \in Left /\ (both = "reported" <=> residue[e].left = "reported")
    BY <1>0, BothOf DEF NodeLeft, Left
  <2>5. /\ execution' = [execution EXCEPT ![e] = x]
        /\ circuit' \in Breaker /\ clock' = clock
    BY <1>0, <1>8 DEF Cancel
  <2>6. residue' = [residue EXCEPT ![e] = r]
    BY <1>0, <2>3
  <2> HIDE DEF both
  <2>7. r \in NodeLeft /\ r.left = both /\ r.compensations = 0
    BY <1>0, <1>x, <2>2, <2>4 DEF NodeLeft
  <2> HIDE DEF x, r
  <2>8. GoesWith(x, r)
    BY <1>x, <2>2, <2>4, <2>7 DEF GoesWith
  <2> QED BY <1>0, <2>2, <2>5, <2>6, <2>7, <2>8, NodeStepOf
<1> QED BY <1>1, <1>2, <1>3, <1>4, <1>5, <1>6, <1>7, <1>8 DEF NodeNext

(* execute_node: whatever executions overlap around one breaker, a change that an attempt    *)
(* reported is accounted for in what is returned.                                            *)
THEOREM ChangesAccountedFor == NodeSpec => [](NodeTypeOK /\ FailuresAccountForChanges)
<1>1. NodeInv => NodeTypeOK /\ FailuresAccountForChanges
  BY DEF NodeInv
<1> QED BY NodeInitInv, NodeStepInv, <1>1, PTL DEF NodeSpec

-----------------------------------------------------------------------------
(***************************************************************************)
(* SocketClient, for any number of sockets.  Its lines are the sockets that *)
(* may still call back; the invariant says there is one at most (OneLine). *)
(***************************************************************************)

(* A set that gains one element, or exchanges one, and one of at most one element. *)
LEMMA OneMore ==
  ASSUME NEW S, IsFiniteSet(S), NEW x, NEW T \in SUBSET (S \cup {x})
  PROVE  IsFiniteSet(T) /\ Cardinality(T) <= Cardinality(S) + 1
<1>0. Cardinality(S) \in Nat
  BY FS_CardinalityType
<1>1. IsFiniteSet(S \cup {x}) /\ Cardinality(S \cup {x}) <= Cardinality(S) + 1
  BY <1>0, FS_AddElement
<1>2. Cardinality(S \cup {x}) \in Nat
  BY <1>1, FS_CardinalityType
<1>3. IsFiniteSet(T) /\ Cardinality(T) <= Cardinality(S \cup {x}) /\ Cardinality(T) \in Nat
  BY <1>1, FS_Subset, FS_CardinalityType
<1> QED BY <1>0, <1>1, <1>2, <1>3

LEMMA OneForOne ==
  ASSUME NEW S, IsFiniteSet(S), NEW x \in S, NEW y, NEW T \in SUBSET ((S \ {x}) \cup {y})
  PROVE  IsFiniteSet(T) /\ Cardinality(T) <= Cardinality(S)
<1>1. IsFiniteSet(S \ {x}) /\ Cardinality(S \ {x}) = Cardinality(S) - 1
  BY FS_RemoveElement
<1>2. IsFiniteSet(T) /\ Cardinality(T) <= Cardinality(S) - 1 + 1
  BY <1>1, OneMore
<1> QED BY <1>2, FS_CardinalityType

LEMMA AtMostOne ==
  ASSUME NEW S, IsFiniteSet(S), Cardinality(S) <= 1
  PROVE  \A x, y \in S : x = y
<1>1. Cardinality(S) \in Nat
  BY FS_CardinalityType
<1>2. CASE Cardinality(S) = 0
  BY <1>2, FS_EmptySet
<1>3. CASE Cardinality(S) = 1
  BY <1>3, FS_Singleton
<1> QED BY <1>1, <1>2, <1>3

(* The lines of connections: sockets not closed yet, and timers that will open one. *)
SocketLines == {s \in Socket : sock[s] \in {"connecting", "open", "closing"}} \cup reconnecting

(* Unless starts overlapped, the fields name all there is. *)
OneLine ==
  lines <= 1 =>
    /\ \A s \in Socket : sock[s] \in {"connecting", "open"} => client.socket = s
    /\ \A s \in reconnecting : client.reconnectTimer = s
    /\ \A s \in beating : client.heartbeatTimer = s /\ sock[s] \in {"open", "closing"}
    /\ \A s \in Socket : sock[s] = "open" => s \in beating
    /\ client.stopped => Live = {} /\ reconnecting = {} /\ beating = {}

SocketInv ==
  /\ SocketTypeOK
  /\ \A s \in reconnecting : sock[s] = "closed"
  /\ IsFiniteSet(SocketLines) /\ Cardinality(SocketLines) <= lines
  /\ OneLine

LEMMA PositiveSocket ==
  MaxSockets \in Nat \ {0} /\ MaxReconnects \in Nat \ {0} /\ MaxStarts \in Nat \ {0}
  BY SocketAssumption

(* The sum of the three numbers is the number of lines. *)
LEMMA LinesAreThree ==
  ASSUME SocketInv
  PROVE  Cardinality(Live) + Cardinality(Dying) + Cardinality(reconnecting)
           = Cardinality(SocketLines)
<1>0. IsFiniteSet(SocketLines)
  BY DEF SocketInv
<1>1. /\ Live \in SUBSET SocketLines /\ Dying \in SUBSET SocketLines
      /\ reconnecting \in SUBSET SocketLines
  BY DEF Live, Dying, SocketLines
<1>2. IsFiniteSet(Live) /\ IsFiniteSet(Dying) /\ IsFiniteSet(reconnecting)
  BY <1>0, <1>1, FS_Subset
<1>3. Live \cap Dying = {} /\ (Live \cup Dying) \cap reconnecting = {}
  BY DEF Live, Dying, SocketInv
<1>4. SocketLines = (Live \cup Dying) \cup reconnecting
  BY DEF SocketLines, Live, Dying
<1>5. /\ IsFiniteSet(Live \cup Dying)
      /\ Cardinality(Live \cup Dying) = Cardinality(Live) + Cardinality(Dying) - Cardinality({})
  BY <1>2, <1>3, FS_Union
<1>6. Cardinality(SocketLines)
        = Cardinality(Live \cup Dying) + Cardinality(reconnecting) - Cardinality({})
  BY <1>2, <1>3, <1>4, <1>5, FS_Union
<1> QED BY <1>2, <1>5, <1>6, FS_EmptySet, FS_CardinalityType

LEMMA SocketInvAccounts == SocketInv => LinesAccountedFor
<1> SUFFICES ASSUME SocketInv PROVE LinesAccountedFor
  OBVIOUS
<1>1. OneLinePerStart
  BY LinesAreThree DEF OneLinePerStart, SocketInv
<1>2. StopIsFinal
  BY DEF StopIsFinal, SocketInv, OneLine
<1> QED BY <1>1, <1>2 DEF LinesAccountedFor

LEMMA SocketInitInv == SocketInit => SocketInv
<1> SUFFICES ASSUME SocketInit PROVE SocketInv
  OBVIOUS
<1>1. SocketTypeOK
  BY PositiveSocket DEF SocketInit, SocketTypeOK, Socket
<1>2. SocketLines = {} /\ lines = 0
  BY DEF SocketLines, SocketInit
<1>3. IsFiniteSet(SocketLines) /\ Cardinality(SocketLines) <= lines
  BY <1>2, FS_EmptySet
<1> QED BY <1>1, <1>3 DEF SocketInit, SocketInv, OneLine, Live

(* The fields of a client. *)
SocketFields == [socket : 0 .. MaxSockets, reconnects : 0 .. MaxReconnects,
                 heartbeatTimer : 0 .. MaxSockets, pongTimer : 0 .. MaxSockets,
                 reconnectTimer : 0 .. MaxSockets, stopped : BOOLEAN]

LEMMA SocketIsField ==
  /\ \A s \in Socket : s \in 0 .. MaxSockets
  /\ 0 \in 0 .. MaxSockets /\ 0 \in 0 .. MaxReconnects
  BY PositiveSocket DEF Socket

(* connect opens the next socket. *)
LEMMA ConnectOpens ==
  ASSUME SocketTypeOK, Connects(client)
  PROVE  \E s \in Socket :
           /\ sock[s] = "none"
           /\ sock' = [sock EXCEPT ![s] = "connecting"]
           /\ client' \in SocketFields /\ client'.socket = s /\ client'.stopped = FALSE
           /\ client'.reconnectTimer = client.reconnectTimer
           /\ client'.heartbeatTimer = client.heartbeatTimer
<1>1. PICK s \in Socket :
        /\ sock[s] = "none"
        /\ sock' = [sock EXCEPT ![s] = "connecting"]
        /\ client' = [client EXCEPT !.socket = s, !.stopped = FALSE]
  BY DEF Connects
<1>2. client \in SocketFields /\ s \in 0 .. MaxSockets
  BY SocketIsField DEF SocketTypeOK, SocketFields
<1>3. client' \in SocketFields
  BY <1>1, <1>2 DEF SocketFields
<1>4. /\ client'.socket = s
      /\ client'.reconnectTimer = client.reconnectTimer
      /\ client'.heartbeatTimer = client.heartbeatTimer
  BY <1>1, <1>2 DEF SocketFields
<1>5. client'.stopped = FALSE
  BY <1>1, <1>2 DEF SocketFields
<1> QED BY <1>1, <1>3, <1>4, <1>5

(* A step that adds no line keeps the bound. *)
LEMMA FewerLines ==
  ASSUME SocketInv, SocketLines' \in SUBSET SocketLines, lines' = lines
  PROVE  IsFiniteSet(SocketLines') /\ Cardinality(SocketLines') <= lines'
<1>1. IsFiniteSet(SocketLines) /\ Cardinality(SocketLines) <= lines /\ lines \in Nat
  BY PositiveSocket DEF SocketInv, SocketTypeOK
<1> QED BY <1>1, FS_Subset, FS_CardinalityType

LEMMA SocketStepInv == SocketInv /\ [SocketNext]_socketVars => SocketInv'
<1> SUFFICES ASSUME SocketInv, [SocketNext]_socketVars PROVE SocketInv'
  OBVIOUS
<1>0. /\ SocketTypeOK /\ client \in SocketFields /\ lines \in 0 .. MaxStarts
      /\ sock \in [Socket -> {"none", "connecting", "open", "closing", "closed"}]
      /\ IsFiniteSet(SocketLines) /\ Cardinality(SocketLines) <= lines
      /\ Cardinality(SocketLines) \in Nat
      /\ beating \subseteq Socket /\ reconnecting \subseteq Socket
  BY FS_CardinalityType DEF SocketInv, SocketTypeOK, SocketFields
<1>s. lines <= 1 => \A x, y \in SocketLines : x = y
  BY <1>0, PositiveSocket, AtMostOne
<1>z. lines = 0 => SocketLines = {}
  BY <1>0, FS_EmptySet
<1>1. CASE UNCHANGED socketVars
  BY <1>1 DEF SocketInv, SocketTypeOK, OneLine, Live, SocketLines, socketVars
<1>2. CASE Start
  <2>1. /\ \/ SocketLines = {} /\ beating = {} /\ lines' = 1
           \/ lines < MaxStarts /\ lines' = lines + 1
        /\ beating' = beating /\ reconnecting' = reconnecting
    <3>1. Silent => SocketLines = {} /\ beating = {}
      BY DEF Silent, SocketLines, Live, Dying
    <3> QED BY <1>2, <3>1 DEF Start
  <2>2. PICK s \in Socket :
           /\ sock[s] = "none"
           /\ sock' = [sock EXCEPT ![s] = "connecting"]
           /\ client' \in SocketFields /\ client'.socket = s /\ client'.stopped = FALSE
    BY <1>0, <1>2, ConnectOpens DEF Start
  <2>3. SocketTypeOK'
    BY <1>0, <2>1, <2>2, PositiveSocket DEF SocketTypeOK, SocketFields
  <2>4. SocketLines' \in SUBSET (SocketLines \cup {s})
    BY <1>0, <2>1, <2>2 DEF SocketLines
  <2>5. IsFiniteSet(SocketLines') /\ Cardinality(SocketLines') <= Cardinality(SocketLines) + 1
    BY <1>0, <2>4, OneMore
  <2>6. Cardinality(SocketLines') <= lines'
    BY <1>0, <2>1, <2>5, FS_CardinalityType, FS_EmptySet, PositiveSocket
  <2>7. \A t \in reconnecting' : sock'[t] = "closed"
    BY <1>0, <2>1, <2>2 DEF SocketInv
  <2>8. OneLine'
    <3> SUFFICES ASSUME lines' <= 1 PROVE OneLine'
      BY DEF OneLine
    <3>1. SocketLines = {} /\ (beating = {} \/ lines = 0)
      BY <1>0, <1>z, <2>1
    <3>2. reconnecting = {} /\ \A t \in Socket : sock[t] \notin {"connecting", "open", "closing"}
      BY <3>1 DEF SocketLines
    <3>3. beating = {}
      <4>1. lines = 0 => beating = {}
        BY <1>0, <3>2 DEF SocketInv, OneLine
      <4> QED BY <3>1, <4>1
    <3> QED BY <1>0, <2>1, <2>2, <3>2, <3>3 DEF OneLine
  <2> QED BY <2>3, <2>5, <2>6, <2>7, <2>8 DEF SocketInv
<1>3. ASSUME NEW s \in Socket, TimerFires(s) PROVE SocketInv'
  <2>1. s \in reconnecting /\ reconnecting' = reconnecting \ {s} /\ beating' = beating
        /\ lines' = lines
    BY <1>3 DEF TimerFires
  <2>a. CASE client.stopped
    <3>1. sock' = sock /\ client' = client
      BY <1>3, <2>a DEF TimerFires
    <3>2. SocketTypeOK'
      BY <1>0, <2>1, <3>1 DEF SocketTypeOK
    <3>3. SocketLines' \in SUBSET SocketLines
      BY <2>1, <3>1 DEF SocketLines
    <3>4. OneLine'
      BY <2>1, <3>1 DEF SocketInv, OneLine, Live
    <3> QED BY <2>1, <3>1, <3>2, <3>3, <3>4, FewerLines DEF SocketInv
  <2>b. CASE ~client.stopped
    <3>1. PICK t \in Socket :
             /\ sock[t] = "none"
             /\ sock' = [sock EXCEPT ![t] = "connecting"]
             /\ client' \in SocketFields /\ client'.socket = t /\ client'.stopped = FALSE
             /\ client'.reconnectTimer = client.reconnectTimer
             /\ client'.heartbeatTimer = client.heartbeatTimer
      BY <1>0, <1>3, <2>b, ConnectOpens DEF TimerFires
    <3>2. SocketTypeOK'
      BY <1>0, <2>1, <3>1 DEF SocketTypeOK, SocketFields
    <3>3. SocketLines' \in SUBSET ((SocketLines \ {s}) \cup {t}) /\ s \in SocketLines
      BY <1>0, <2>1, <3>1 DEF SocketLines, SocketInv
    <3>4. IsFiniteSet(SocketLines') /\ Cardinality(SocketLines') <= Cardinality(SocketLines)
      BY <1>0, <3>3, OneForOne
    <3>5. Cardinality(SocketLines') <= lines'
      BY <1>0, <2>1, <3>4, FS_CardinalityType, PositiveSocket
    <3>6. \A r \in reconnecting' : sock'[r] = "closed"
      BY <1>0, <2>1, <3>1 DEF SocketInv
    <3>7. OneLine'
      <4> SUFFICES ASSUME lines <= 1 PROVE OneLine'
        BY <2>1 DEF OneLine
      <4>1. \A x \in SocketLines : x = s
        BY <1>s, <3>3
      <4>2. sock[s] = "closed"
        BY <2>1 DEF SocketInv
      <4>3. /\ reconnecting = {s}
            /\ \A x \in Socket : sock[x] \notin {"connecting", "open", "closing"}
        BY <2>1, <4>1, <4>2 DEF SocketLines
      <4>4. beating = {}
        BY <1>0, <4>3 DEF SocketInv, OneLine
      <4> QED BY <1>0, <2>1, <3>1, <4>3, <4>4 DEF OneLine
    <3> QED BY <3>2, <3>4, <3>5, <3>6, <3>7 DEF SocketInv
  <2> QED BY <2>a, <2>b
<1>4. ASSUME NEW s \in Socket, Opens(s) PROVE SocketInv'
  <2>1. /\ sock[s] = "connecting" /\ sock' = [sock EXCEPT ![s] = "open"]
        /\ client' = [client EXCEPT !.reconnects = 0, !.heartbeatTimer = s]
        /\ beating' = beating \cup {s} /\ reconnecting' = reconnecting /\ lines' = lines
    BY <1>4 DEF Opens
  <2>2. client' \in SocketFields /\ client'.socket = client.socket /\ client'.heartbeatTimer = s
        /\ client'.reconnectTimer = client.reconnectTimer /\ (client'.stopped <=> client.stopped)
    <3>1. client' \in SocketFields
      BY <1>0, <2>1, SocketIsField DEF SocketFields
    <3>2. client'.socket = client.socket /\ client'.heartbeatTimer = s
          /\ client'.reconnectTimer = client.reconnectTimer
      BY <1>0, <2>1 DEF SocketFields
    <3>3. client'.stopped <=> client.stopped
      BY <1>0, <2>1 DEF SocketFields
    <3> QED BY <3>1, <3>2, <3>3
  <2>3. SocketTypeOK'
    BY <1>0, <2>1, <2>2 DEF SocketTypeOK, SocketFields
  <2>4. SocketLines' \in SUBSET SocketLines
    BY <1>0, <2>1 DEF SocketLines
  <2>5. \A r \in reconnecting' : sock'[r] = "closed"
    BY <1>0, <2>1 DEF SocketInv
  <2>6. OneLine'
    <3> SUFFICES ASSUME lines <= 1 PROVE OneLine'
      BY <2>1 DEF OneLine
    <3>1. s \in SocketLines /\ \A x \in SocketLines : x = s
      BY <1>s, <2>1 DEF SocketLines
    <3>2. beating = {}
      BY <1>0, <2>1, <3>1 DEF SocketInv, OneLine, SocketLines
    <3>3. ~client.stopped
      BY <2>1 DEF SocketInv, OneLine, Live
    <3> QED BY <1>0, <2>1, <2>2, <3>1, <3>2, <3>3 DEF OneLine, SocketInv
  <2> QED BY <2>1, <2>3, <2>4, <2>5, <2>6, FewerLines DEF SocketInv
<1>5. ASSUME NEW p \in 0 .. MaxSockets,
             client' = [client EXCEPT !.pongTimer = p], sock' = sock, beating' = beating,
             reconnecting' = reconnecting, lines' = lines
      PROVE  SocketInv'
  <2>2. client' \in SocketFields /\ client'.socket = client.socket
        /\ client'.heartbeatTimer = client.heartbeatTimer
        /\ client'.reconnectTimer = client.reconnectTimer /\ (client'.stopped <=> client.stopped)
    BY <1>0, <1>5 DEF SocketFields
  <2>3. SocketTypeOK'
    BY <1>0, <1>5, <2>2 DEF SocketTypeOK, SocketFields
  <2>4. SocketLines' = SocketLines
    BY <1>5 DEF SocketLines
  <2>6. OneLine'
    BY <1>5, <2>2 DEF OneLine, SocketInv, Live
  <2> QED BY <1>5, <2>3, <2>4, <2>6, FewerLines DEF SocketInv
<1>6. ASSUME NEW s \in Socket, Closing(s), client' \in SocketFields,
             client'.socket = client.socket, client'.heartbeatTimer = client.heartbeatTimer,
             client'.reconnectTimer = client.reconnectTimer,
             client'.stopped <=> client.stopped,
             beating' = beating, reconnecting' = reconnecting, lines' = lines
      PROVE  SocketInv'
  <2>1. sock[s] \in {"connecting", "open"} /\ sock' = [sock EXCEPT ![s] = "closing"]
    BY <1>6 DEF Closing
  <2>3. SocketTypeOK'
    BY <1>0, <1>6, <2>1 DEF SocketTypeOK, SocketFields
  <2>4. SocketLines' \in SUBSET SocketLines
    BY <1>0, <1>6, <2>1 DEF SocketLines
  <2>5. \A r \in reconnecting' : sock'[r] = "closed"
    BY <1>0, <1>6, <2>1 DEF SocketInv
  <2>6. OneLine'
    BY <1>0, <1>6, <2>1 DEF OneLine, SocketInv, Live
  <2> QED BY <1>6, <2>3, <2>4, <2>5, <2>6, FewerLines DEF SocketInv
<1>7. ASSUME NEW s \in Socket, Closes(s) PROVE SocketInv'
  <2> DEFINE cleared == [client EXCEPT !.heartbeatTimer = 0, !.pongTimer = 0]
             again   == [cleared EXCEPT !.reconnects = @ + 1, !.reconnectTimer = s]
  <2>1. /\ sock[s] \in {"connecting", "open", "closing"}
        /\ sock' = [sock EXCEPT ![s] = "closed"]
        /\ beating' = beating \ {client.heartbeatTimer} /\ lines' = lines
    BY <1>7 DEF Closes
  <2>2. /\ cleared \in SocketFields /\ cleared.socket = client.socket
        /\ cleared.reconnectTimer = client.reconnectTimer
        /\ cleared.reconnects = client.reconnects /\ (cleared.stopped <=> client.stopped)
    <3>1. cleared \in SocketFields
      BY <1>0, SocketIsField DEF SocketFields
    <3>2. cleared.socket = client.socket /\ cleared.reconnectTimer = client.reconnectTimer
          /\ cleared.reconnects = client.reconnects
      BY <1>0 DEF SocketFields
    <3>3. cleared.stopped <=> client.stopped
      BY <1>0 DEF SocketFields
    <3> QED BY <3>1, <3>2, <3>3
  <2>3. \/ client' = cleared /\ reconnecting' = reconnecting
        \/ /\ ~client.stopped /\ client.reconnects < MaxReconnects
           /\ client' = again /\ reconnecting' = reconnecting \cup {s}
    BY <1>0, <1>7, PositiveSocket DEF Closes, Scheduled, SocketFields
  <2> HIDE DEF cleared
  <2>4. client.reconnects < MaxReconnects =>
          /\ again \in SocketFields /\ again.socket = cleared.socket
          /\ again.reconnectTimer = s /\ (again.stopped <=> cleared.stopped)
    <3>1. client.reconnects \in 0 .. MaxReconnects
      BY <1>0 DEF SocketFields
    <3>2. client.reconnects < MaxReconnects => cleared.reconnects + 1 \in 0 .. MaxReconnects
      BY <2>2, <3>1, PositiveSocket
    <3> QED BY <2>2, <3>2, SocketIsField DEF SocketFields
  <2> HIDE DEF again
  <2>5. /\ client' \in SocketFields /\ client'.socket = client.socket
        /\ (client'.stopped <=> client.stopped)
        /\ \/ reconnecting' = reconnecting /\ client'.reconnectTimer = client.reconnectTimer
           \/ ~client.stopped /\ reconnecting' = reconnecting \cup {s}
              /\ client'.reconnectTimer = s
    BY <2>2, <2>3, <2>4
  <2>6. SocketTypeOK'
    BY <1>0, <2>1, <2>5 DEF SocketTypeOK, SocketFields
  <2>7. SocketLines' \in SUBSET SocketLines
    BY <1>0, <2>1, <2>5 DEF SocketLines
  <2>8. \A r \in reconnecting' : sock'[r] = "closed"
    BY <1>0, <2>1, <2>5 DEF SocketInv
  <2>9. OneLine'
    <3> SUFFICES ASSUME lines <= 1 PROVE OneLine'
      BY <2>1 DEF OneLine
    <3>1. s \in SocketLines /\ \A x \in SocketLines : x = s
      BY <1>s, <2>1 DEF SocketLines
    <3>2. \A x \in Socket : sock'[x] \notin {"connecting", "open", "closing"}
      BY <1>0, <2>1, <3>1 DEF SocketLines
    <3>3. beating' = {}
      BY <2>1 DEF SocketInv, OneLine
    <3>4. reconnecting \subseteq {s}
      BY <3>1 DEF SocketLines
    <3>5. reconnecting = {}
      BY <2>1, <3>4 DEF SocketInv
    <3> QED BY <1>0, <2>1, <2>5, <3>2, <3>3, <3>5 DEF OneLine, Live
  <2> QED BY <2>1, <2>6, <2>7, <2>8, <2>9, FewerLines DEF SocketInv
<1>8. CASE Stop
  <2>1. /\ client' = [client EXCEPT !.stopped = TRUE, !.socket = 0, !.heartbeatTimer = 0,
                                    !.pongTimer = 0, !.reconnectTimer = 0]
        /\ beating' = beating \ {client.heartbeatTimer}
        /\ reconnecting' = reconnecting \ {client.reconnectTimer}
        /\ sock' = [s \in Socket |-> IF s = client.socket /\ sock[s] \in {"connecting", "open"}
                                     THEN "closing" ELSE sock[s]]
        /\ lines' = lines
    BY <1>8 DEF Stop
  <2>2. client' \in SocketFields
    BY <1>0, <2>1, SocketIsField DEF SocketFields
  <2>3. SocketTypeOK'
    BY <1>0, <2>1, <2>2 DEF SocketTypeOK, SocketFields
  <2>4. SocketLines' \in SUBSET SocketLines
    BY <1>0, <2>1 DEF SocketLines
  <2>5. \A r \in reconnecting' : sock'[r] = "closed"
    BY <1>0, <2>1 DEF SocketInv
  <2>6. OneLine'
    <3> SUFFICES ASSUME lines <= 1 PROVE OneLine'
      BY <2>1 DEF OneLine
    <3>1. reconnecting' = {} /\ beating' = {}
      BY <2>1 DEF SocketInv, OneLine
    <3>2. \A s \in Socket : sock'[s] \notin {"connecting", "open"}
      BY <1>0, <2>1 DEF SocketInv, OneLine
    <3> QED BY <3>1, <3>2 DEF OneLine, Live
  <2> QED BY <2>1, <2>3, <2>4, <2>5, <2>6, FewerLines DEF SocketInv
<1>9. CASE PongTimeout
  <2>1. client' = [client EXCEPT !.pongTimer = 0] /\ Closing(client.pongTimer)
        /\ client.pongTimer \in Socket
    BY <1>0, <1>9, PositiveSocket DEF PongTimeout, SocketFields, Socket
  <2>2. client' \in SocketFields /\ client'.socket = client.socket
        /\ client'.heartbeatTimer = client.heartbeatTimer
        /\ client'.reconnectTimer = client.reconnectTimer /\ (client'.stopped <=> client.stopped)
    BY <1>0, <2>1, PositiveSocket DEF SocketFields
  <2> QED BY <1>6, <1>9, <2>1, <2>2 DEF PongTimeout
<1>10. ASSUME NEW s \in Socket, Beats(s) \/ Pong(s) \/ Errs(s) PROVE SocketInv'
  <2>1. CASE Beats(s) \/ Pong(s)
    BY <1>5, <2>1, SocketIsField, PositiveSocket DEF Beats, Pong
  <2>2. CASE Errs(s)
    BY <1>0, <1>6, <2>2 DEF Errs
  <2> QED BY <1>10, <2>1, <2>2
<1> QED BY <1>1, <1>2, <1>3, <1>4, <1>7, <1>8, <1>9, <1>10 DEF SocketNext

(* ResilientWebSocketClient: there are never more lines of connections than starts since     *)
(* everything was last silent, and unless starts overlapped the client is silent once it is  *)
(* stopped, however late its callbacks come.                                                 *)
THEOREM SocketLinesAccountedFor == SocketSpec => [](SocketTypeOK /\ LinesAccountedFor)
<1>1. SocketInv => SocketTypeOK
  BY DEF SocketInv
<1> QED BY SocketInitInv, SocketStepInv, SocketInvAccounts, <1>1, PTL DEF SocketSpec

-----------------------------------------------------------------------------
(***************************************************************************)
(* EventSourceClient, for any events, bad ones among them, and any number  *)
(* of lines.                                                               *)
(***************************************************************************)

(* The lines of one event stream: sources not closed yet, and timers that will open one. *)
AliveLines == {l \in Line : line[l].ready \in {"connecting", "open"}} \cup waiting

OneAlive ==
  line_starts <= 1 =>
    /\ \A l \in Line : line[l].ready \in {"connecting", "open"} => sse.source = l
    /\ \A l \in waiting : sse.reconnectTimer = l
    /\ sse.stopped => AliveLines = {}

AliveInv ==
  /\ \A l \in waiting : line[l].ready = "closed"
  /\ IsFiniteSet(AliveLines) /\ Cardinality(AliveLines) <= line_starts
  /\ OneAlive

EventId == 1 .. LineEvents

(* Whether an event was handed to the page, and whether its id was forgotten since. *)
Handed(n) == \E j \in 1 .. Len(delivered) : delivered[j].id = n
Faded(n)  == \E j \in 1 .. Len(delivered) :
               delivered[j].cleared /\ \A k \in j + 1 .. Len(delivered) : delivered[k].id # n

(* What a source has passed, the client's last id and the ids it has seen were handed over;  *)
(* what was handed over and is not known any more was forgotten.                             *)
HandedInv ==
  /\ delivered \in Seq([id : EventId, cleared : BOOLEAN])
  /\ \A l \in Line, n \in EventId : n <= line[l].at /\ n \notin BadEvents => Handed(n)
  /\ \A n \in EventId : n <= sse.lastEventId /\ n \notin BadEvents => Handed(n)
  /\ \A n \in sse.seen : Handed(n)
  /\ \A n \in EventId : Handed(n) /\ n \notin sse.seen => Faded(n)
  /\ \A i \in 1 .. Len(delivered) : InTurn(i) /\ (Repeats(i) => Forgotten(i))

LineInv == LineTypeOK /\ AliveInv /\ HandedInv

LineState   == [ready : {"none", "connecting", "open", "closed"}, at : 0 .. LineEvents]
LineFields  == [source : 0 .. MaxLines, reconnects : 0 .. MaxLineReconnects,
                reconnectTimer : 0 .. MaxLines, stopped : BOOLEAN,
                seen : SUBSET EventId, lastEventId : 0 .. LineEvents]

LEMMA PositiveLine ==
  /\ MaxLines \in Nat \ {0} /\ MaxLineReconnects \in Nat \ {0} /\ MaxLineStarts \in Nat \ {0}
  /\ LineEvents \in Nat \ {0} /\ SeenLimit \in Nat \ {0}
  BY EventSourceAssumption

LEMMA LineBounds ==
  /\ \A l \in Line : l \in 0 .. MaxLines
  /\ 0 \in 0 .. MaxLines /\ 0 \in 0 .. MaxLineReconnects /\ 0 \in 0 .. LineEvents
  /\ \A n \in EventId : n \in 0 .. LineEvents
  BY PositiveLine DEF Line, EventId

LEMMA LineTypes ==
  ASSUME LineTypeOK
  PROVE  /\ line \in [Line -> LineState] /\ sse \in LineFields
         /\ waiting \subseteq Line /\ line_starts \in 0 .. MaxLineStarts
  BY DEF LineTypeOK, LineState, LineFields, EventId

LEMMA LineTypesBack ==
  ASSUME line' \in [Line -> LineState], sse' \in LineFields,
         waiting' \subseteq Line, line_starts' \in 0 .. MaxLineStarts
  PROVE  LineTypeOK'
  BY DEF LineTypeOK, LineState, LineFields, EventId

LEMMA LineInitInv == LineInit => LineInv
<1> SUFFICES ASSUME LineInit PROVE LineInv
  OBVIOUS
<1>1. LineTypeOK
  BY LineBounds, PositiveLine DEF LineInit, LineTypeOK, EventId
<1>2. AliveLines = {} /\ line_starts = 0 /\ waiting = {}
  BY DEF AliveLines, LineInit
<1>3. AliveInv
  BY <1>2, FS_EmptySet DEF AliveInv, OneAlive, LineInit
<1>4. /\ delivered = <<>> /\ sse.seen = {} /\ sse.lastEventId = 0
      /\ \A l \in Line : line[l].at = 0
  BY DEF LineInit
<1>5. \A n \in EventId : ~(n <= 0)
  BY PositiveLine DEF EventId
<1>6. HandedInv
  BY <1>4, <1>5 DEF HandedInv, Handed, Faded
<1> QED BY <1>1, <1>3, <1>6 DEF LineInv

(* A step that hands over no event, and begins sources only where events were handed over. *)
LEMMA HandedStays ==
  ASSUME HandedInv, delivered' = delivered, sse'.seen = sse.seen,
         sse'.lastEventId = sse.lastEventId,
         \A l \in Line : line'[l].at = line[l].at \/ line'[l].at \in {0, sse.lastEventId}
  PROVE  HandedInv'
<1>1. \A n : (Handed(n)' <=> Handed(n)) /\ (Faded(n)' <=> Faded(n))
  BY DEF Handed, Faded
<1>2. \A i : (InTurn(i)' <=> InTurn(i)) /\ (Repeats(i)' <=> Repeats(i))
             /\ (Forgotten(i)' <=> Forgotten(i))
  BY DEF InTurn, Repeats, Forgotten
<1>3. \A n \in EventId : ~(n <= 0)
  BY PositiveLine DEF EventId
<1>4. \A l \in Line, n \in EventId : n <= line'[l].at /\ n \notin BadEvents => Handed(n)
  BY <1>3 DEF HandedInv
<1> QED BY <1>1, <1>2, <1>4 DEF HandedInv

(* connect opens the next source, at the first event or after the last one handed over. *)
LEMMA LineConnectOpens ==
  ASSUME LineTypeOK, LineConnects
  PROVE  \E l \in Line, from \in {0, sse.lastEventId} :
           /\ line[l].ready = "none" /\ from \in 0 .. LineEvents
           /\ line' = [line EXCEPT ![l] = [ready |-> "connecting", at |-> from]]
           /\ line' \in [Line -> LineState]
           /\ sse' \in LineFields /\ sse'.source = l /\ ~sse'.stopped
           /\ sse'.reconnectTimer = sse.reconnectTimer /\ sse'.seen = sse.seen
           /\ sse'.lastEventId = sse.lastEventId
<1>1. PICK l \in Line, from \in {0, sse.lastEventId} :
        /\ line[l].ready = "none"
        /\ line' = [line EXCEPT ![l] = [ready |-> "connecting", at |-> from]]
        /\ sse' = [sse EXCEPT !.source = l, !.stopped = FALSE]
  BY DEF LineConnects
<1>2. sse \in LineFields /\ l \in 0 .. MaxLines /\ line \in [Line -> LineState]
  BY LineTypes, LineBounds
<1>3. from \in 0 .. LineEvents
  BY <1>2, LineBounds DEF LineFields
<1>4. sse' \in LineFields
  BY <1>1, <1>2 DEF LineFields
<1>5. /\ sse'.source = l /\ sse'.reconnectTimer = sse.reconnectTimer /\ sse'.seen = sse.seen
      /\ sse'.lastEventId = sse.lastEventId
  BY <1>1, <1>2 DEF LineFields
<1>6. ~sse'.stopped
  BY <1>1, <1>2 DEF LineFields
<1>7. line' \in [Line -> LineState]
  BY <1>1, <1>2, <1>3 DEF LineState
<1> QED BY <1>1, <1>3, <1>4, <1>5, <1>6, <1>7

LEMMA FewerAlive ==
  ASSUME LineInv, AliveLines' \in SUBSET AliveLines, line_starts' = line_starts
  PROVE  IsFiniteSet(AliveLines') /\ Cardinality(AliveLines') <= line_starts'
<1>1. IsFiniteSet(AliveLines) /\ Cardinality(AliveLines) <= line_starts /\ line_starts \in Nat
  BY PositiveLine DEF LineInv, AliveInv, LineTypeOK
<1> QED BY <1>1, FS_Subset, FS_CardinalityType

(* stop, called or reached by giving up: the source it has is closed, its timer cleared. *)
LEMMA StoppedIs ==
  ASSUME LineTypeOK
  PROVE  /\ StoppedLines \in [Line -> LineState]
         /\ \A k \in Line : /\ StoppedLines[k].at = line[k].at
                            /\ StoppedLines[k].ready =
                                 IF k = sse.source THEN "closed" ELSE line[k].ready
         /\ StoppedClient \in LineFields /\ StoppedClient.stopped
         /\ StoppedClient.seen = sse.seen /\ StoppedClient.lastEventId = sse.lastEventId
<1>1. sse \in LineFields /\ line \in [Line -> LineState]
  BY LineTypes
<1>2. \A k \in Line : /\ [line[k] EXCEPT !.ready = "closed"] \in LineState
                      /\ [line[k] EXCEPT !.ready = "closed"].at = line[k].at
                      /\ [line[k] EXCEPT !.ready = "closed"].ready = "closed"
                      /\ line[k] \in LineState
  BY <1>1 DEF LineState
<1>3. StoppedLines \in [Line -> LineState]
  BY <1>2 DEF StoppedLines
<1>4. \A k \in Line : /\ StoppedLines[k].at = line[k].at
                      /\ StoppedLines[k].ready =
                           IF k = sse.source THEN "closed" ELSE line[k].ready
  BY <1>2 DEF StoppedLines
<1>5. StoppedClient \in LineFields
  BY <1>1, LineBounds DEF StoppedClient, LineFields
<1>6. StoppedClient.seen = sse.seen /\ StoppedClient.lastEventId = sse.lastEventId
  BY <1>1 DEF StoppedClient, LineFields
<1>7. StoppedClient.stopped
  BY <1>1 DEF StoppedClient, LineFields
<1> QED BY <1>3, <1>4, <1>5, <1>6, <1>7

(* One more event is handed over, that keeps the schema and is not known. *)
LEMMA OneMoreHanded ==
  ASSUME LineTypeOK, HandedInv, NEW l \in Line, NEW n \in EventId, NEW cleared \in BOOLEAN,
         n = line[l].at + 1, n \notin BadEvents, n \notin sse.seen,
         line' = [line EXCEPT ![l].at = n],
         delivered' = Append(delivered, [id |-> n, cleared |-> cleared]),
         sse'.lastEventId = n,
         sse'.seen = IF cleared THEN {} ELSE sse.seen \cup {n}
  PROVE  HandedInv'
<1>l. PICK last \in Nat : last = Len(delivered) + 1
  BY DEF HandedInv
<1>0. /\ delivered \in Seq([id : EventId, cleared : BOOLEAN]) /\ Len(delivered) \in Nat
      /\ line \in [Line -> LineState]
  BY <1>l, LineTypes DEF HandedInv
<1>1. /\ delivered' \in Seq([id : EventId, cleared : BOOLEAN])
      /\ Len(delivered') = last
      /\ \A i \in 1 .. Len(delivered) : delivered'[i] = delivered[i]
      /\ delivered'[last] = [id |-> n, cleared |-> cleared]
  BY <1>0, <1>l
<1>2. delivered'[last].id = n /\ (delivered'[last].cleared <=> cleared)
  BY <1>1
<1>3. \A m : Handed(m)' <=> Handed(m) \/ m = n
  BY <1>0, <1>l, <1>1, <1>2 DEF Handed
<1>4. \A m : (Faded(m) /\ m # n) \/ cleared => Faded(m)'
  <2> SUFFICES ASSUME NEW m, (Faded(m) /\ m # n) \/ cleared PROVE Faded(m)'
    OBVIOUS
  <2>1. CASE cleared
    <3>1. last \in 1 .. Len(delivered') /\ \A k \in last + 1 .. Len(delivered') : FALSE
      BY <1>0, <1>l, <1>1
    <3> QED BY <2>1, <1>2, <3>1 DEF Faded
  <2>2. CASE Faded(m) /\ m # n
    <3>1. PICK j \in 1 .. Len(delivered) :
            delivered[j].cleared /\ \A k \in j + 1 .. Len(delivered) : delivered[k].id # m
      BY <2>2 DEF Faded
    <3>2. \A k \in j + 1 .. last : k \in j + 1 .. Len(delivered) \/ k = last
      BY <1>0, <1>l
    <3>3. \A k \in j + 1 .. Len(delivered) : k \in 1 .. Len(delivered)
      BY <1>0, <1>l
    <3>4. \A k \in j + 1 .. last : delivered'[k].id # m
      BY <1>1, <1>2, <2>2, <3>1, <3>2, <3>3
    <3>5. j \in 1 .. last /\ delivered'[j].cleared
      BY <1>0, <1>l, <1>1, <3>1
    <3> QED BY <1>1, <3>4, <3>5 DEF Faded
  <2> QED BY <2>1, <2>2
<1>5. \A m \in EventId : m <= n /\ m \notin BadEvents => Handed(m)'
  <2> SUFFICES ASSUME NEW m \in EventId, m <= n, m \notin BadEvents PROVE Handed(m)'
    OBVIOUS
  <2>1. line[l].at \in 0 .. LineEvents
    BY <1>0, <1>l DEF LineState
  <2>2. m = n \/ m <= line[l].at
    BY <2>1, PositiveLine DEF EventId
  <2> QED BY <1>3, <2>2 DEF HandedInv
<1>6. \A k \in Line, m \in EventId : m <= line'[k].at /\ m \notin BadEvents => Handed(m)'
  <2>1. \A k \in Line : line'[k].at = IF k = l THEN n ELSE line[k].at
    BY <1>0, <1>l DEF LineState
  <2> QED BY <1>3, <1>5, <2>1 DEF HandedInv
<1>7. \A m \in sse'.seen : Handed(m)'
  BY <1>3 DEF HandedInv
<1>8. \A m \in EventId : Handed(m)' /\ m \notin sse'.seen => Faded(m)'
  BY <1>3, <1>4 DEF HandedInv
<1>9. ASSUME NEW i \in 1 .. Len(delivered)
      PROVE  InTurn(i)' /\ (Repeats(i)' => Forgotten(i)')
  <2>1. \A j \in 1 .. i - 1 : j \in 1 .. Len(delivered)
    BY <1>0, <1>l
  <2>2. \A j \in 1 .. i - 1 : delivered'[j] = delivered[j]
    BY <1>1, <2>1
  <2>3. delivered'[i] = delivered[i]
    BY <1>1
  <2>4. InTurn(i)' <=> InTurn(i)
    BY <2>2, <2>3 DEF InTurn
  <2>5. Repeats(i)' <=> Repeats(i)
    BY <2>2, <2>3 DEF Repeats
  <2>6. \A j \in 1 .. i - 1 : \A k \in j + 1 .. i - 1 : k \in 1 .. i - 1
    BY <1>0, <1>l
  <2>7. Forgotten(i)' <=> Forgotten(i)
    BY <2>2, <2>3, <2>6 DEF Forgotten
  <2> QED BY <2>4, <2>5, <2>7 DEF HandedInv
<1>10. InTurn(last)'
  <2>1. delivered'[last].id \notin BadEvents
    BY <1>2
  <2>2. ASSUME NEW m \in 1 .. n - 1, m \notin BadEvents
        PROVE  \E j \in 1 .. last - 1 : delivered'[j].id = m
    <3>1. line[l].at \in 0 .. LineEvents
      BY <1>0, <1>l DEF LineState
    <3>2. m \in EventId /\ m <= line[l].at
      BY <3>1, PositiveLine DEF EventId
    <3>3. Handed(m)
      BY <2>2, <3>2 DEF HandedInv
    <3>4. last - 1 = Len(delivered)
      BY <1>0, <1>l
    <3> QED BY <1>1, <3>3, <3>4 DEF Handed
  <2> QED BY <1>2, <2>1, <2>2 DEF InTurn
<1>11. Repeats(last)' => Forgotten(last)'
  <2> SUFFICES ASSUME Repeats(last)' PROVE Forgotten(last)'
    OBVIOUS
  <2>0. last - 1 = Len(delivered)
    BY <1>0, <1>l
  <2>1. Handed(n)
    BY <1>1, <1>2, <2>0 DEF Repeats, Handed
  <2>2. Faded(n)
    BY <2>1 DEF HandedInv
  <2>3. PICK j \in 1 .. Len(delivered) :
          delivered[j].cleared /\ \A k \in j + 1 .. Len(delivered) : delivered[k].id # n
    BY <2>2 DEF Faded
  <2>4. \A k \in j + 1 .. Len(delivered) : k \in 1 .. Len(delivered)
    BY <1>0, <1>l
  <2>5. /\ delivered'[j].cleared
        /\ \A k \in j + 1 .. Len(delivered) : delivered'[k].id # n
    BY <1>1, <2>3, <2>4
  <2> QED BY <1>2, <2>0, <2>5 DEF Forgotten
<1>12. \A i \in 1 .. Len(delivered') : i \in 1 .. Len(delivered) \/ i = last
  BY <1>0, <1>l, <1>1
<1>13. \A i \in 1 .. Len(delivered') : InTurn(i)' /\ (Repeats(i)' => Forgotten(i)')
  BY <1>9, <1>10, <1>11, <1>12
<1> QED BY <1>1, <1>5, <1>6, <1>7, <1>8, <1>13 DEF HandedInv

LEMMA LineStepInv == LineInv /\ [LineNext]_lineVars => LineInv'
<1> SUFFICES ASSUME LineInv, [LineNext]_lineVars PROVE LineInv'
  OBVIOUS
<1>0. /\ LineTypeOK /\ AliveInv /\ HandedInv
      /\ sse \in LineFields /\ line_starts \in 0 .. MaxLineStarts
      /\ line \in [Line -> LineState] /\ waiting \subseteq Line
      /\ IsFiniteSet(AliveLines) /\ Cardinality(AliveLines) <= line_starts
      /\ Cardinality(AliveLines) \in Nat
  BY LineTypes, FS_CardinalityType DEF LineInv, AliveInv
<1>s. line_starts <= 1 => \A x, y \in AliveLines : x = y
  BY <1>0, PositiveLine, AtMostOne
<1>z. line_starts = 0 => AliveLines = {}
  BY <1>0, FS_EmptySet
<1>1. CASE UNCHANGED lineVars
  <2>1. LineTypeOK' /\ AliveInv'
    BY <1>0, <1>1 DEF LineTypeOK, AliveInv, OneAlive, AliveLines, lineVars
  <2> QED BY <1>0, <1>1, <2>1, HandedStays DEF LineInv, lineVars
<1>2. CASE StartLine
  <2>1. /\ line_starts < MaxLineStarts /\ line_starts' = line_starts + 1
        /\ waiting' = waiting /\ delivered' = delivered
    BY <1>2 DEF StartLine
  <2>2. PICK l \in Line, from \in {0, sse.lastEventId} :
           /\ line[l].ready = "none" /\ from \in 0 .. LineEvents
           /\ line' = [line EXCEPT ![l] = [ready |-> "connecting", at |-> from]]
           /\ line' \in [Line -> LineState]
           /\ sse' \in LineFields /\ sse'.source = l /\ ~sse'.stopped
           /\ sse'.seen = sse.seen /\ sse'.lastEventId = sse.lastEventId
    BY <1>0, <1>2, LineConnectOpens DEF StartLine
  <2>3. LineTypeOK'
    BY <1>0, <2>1, <2>2, PositiveLine, LineTypesBack
  <2>4. \A k \in Line : /\ k # l => line'[k] = line[k]
                        /\ line'[l].at = from /\ line'[l].ready = "connecting"
    BY <1>0, <2>2
  <2>5. HandedInv'
    BY <1>0, <2>1, <2>2, <2>4, HandedStays
  <2>6. AliveLines' \in SUBSET (AliveLines \cup {l})
    BY <1>0, <2>1, <2>2, <2>4 DEF AliveLines
  <2>7. IsFiniteSet(AliveLines') /\ Cardinality(AliveLines') <= Cardinality(AliveLines) + 1
    BY <1>0, <2>6, OneMore
  <2>8. Cardinality(AliveLines') <= line_starts'
    BY <1>0, <2>1, <2>7, FS_CardinalityType, PositiveLine
  <2>9. \A k \in waiting' : line'[k].ready = "closed"
    BY <1>0, <2>1, <2>2, <2>4 DEF AliveInv
  <2>10. OneAlive'
    <3> SUFFICES ASSUME line_starts' <= 1 PROVE OneAlive'
      BY DEF OneAlive
    <3>1. AliveLines = {}
      BY <1>0, <1>z, <2>1
    <3>2. waiting = {} /\ \A k \in Line : line[k].ready \notin {"connecting", "open"}
      BY <3>1 DEF AliveLines
    <3> QED BY <2>1, <2>2, <2>4, <3>2 DEF OneAlive
  <2> QED BY <2>3, <2>5, <2>7, <2>8, <2>9, <2>10 DEF LineInv, AliveInv
<1>3. ASSUME NEW s \in Line, RetryLine(s) PROVE LineInv'
  <2>1. /\ s \in waiting /\ waiting' = waiting \ {s}
        /\ line_starts' = line_starts /\ delivered' = delivered
    BY <1>3 DEF RetryLine
  <2>a. CASE sse.stopped
    <3>1. line' = line /\ sse' = sse
      BY <1>3, <2>a DEF RetryLine
    <3>2. LineTypeOK'
      BY <1>0, <2>1, <3>1 DEF LineTypeOK
    <3>3. AliveLines' \in SUBSET AliveLines
      BY <2>1, <3>1 DEF AliveLines
    <3>4. OneAlive'
      BY <1>0, <2>1, <3>1, <3>3 DEF AliveInv, OneAlive
    <3>5. HandedInv'
      BY <1>0, <2>1, <3>1, HandedStays
    <3> QED BY <1>0, <2>1, <3>1, <3>2, <3>3, <3>4, <3>5, FewerAlive DEF LineInv, AliveInv
  <2>b. CASE ~sse.stopped
    <3>1. PICK l \in Line, from \in {0, sse.lastEventId} :
           /\ line[l].ready = "none" /\ from \in 0 .. LineEvents
           /\ line' = [line EXCEPT ![l] = [ready |-> "connecting", at |-> from]]
           /\ line' \in [Line -> LineState]
           /\ sse' \in LineFields /\ sse'.source = l /\ ~sse'.stopped
           /\ sse'.seen = sse.seen /\ sse'.lastEventId = sse.lastEventId
      BY <1>0, <1>3, <2>b, LineConnectOpens DEF RetryLine
    <3>2. LineTypeOK'
      BY <1>0, <2>1, <3>1, LineTypesBack
    <3>3. \A k \in Line : /\ k # l => line'[k] = line[k]
                          /\ line'[l].at = from /\ line'[l].ready = "connecting"
      BY <1>0, <3>1
    <3>4. HandedInv'
      BY <1>0, <2>1, <3>1, <3>3, HandedStays
    <3>5. AliveLines' \in SUBSET ((AliveLines \ {s}) \cup {l}) /\ s \in AliveLines
      BY <1>0, <2>1, <3>1, <3>3 DEF AliveLines, AliveInv
    <3>6. IsFiniteSet(AliveLines') /\ Cardinality(AliveLines') <= Cardinality(AliveLines)
      BY <1>0, <3>5, OneForOne
    <3>7. Cardinality(AliveLines') <= line_starts'
      BY <1>0, <2>1, <3>6, FS_CardinalityType, PositiveLine
    <3>8. \A k \in waiting' : line'[k].ready = "closed"
      BY <1>0, <2>1, <3>1, <3>3 DEF AliveInv
    <3>9. OneAlive'
      <4> SUFFICES ASSUME line_starts <= 1 PROVE OneAlive'
        BY <2>1 DEF OneAlive
      <4>1. \A x \in AliveLines : x = s
        BY <1>s, <3>5
      <4>2. line[s].ready = "closed"
        BY <1>0, <2>1 DEF AliveInv
      <4>3. waiting = {s} /\ \A k \in Line : line[k].ready \notin {"connecting", "open"}
        BY <2>1, <4>1, <4>2 DEF AliveLines
      <4> QED BY <2>1, <3>1, <3>3, <4>3 DEF OneAlive
    <3> QED BY <3>2, <3>4, <3>6, <3>7, <3>8, <3>9 DEF LineInv, AliveInv
  <2> QED BY <2>a, <2>b
<1>4. ASSUME NEW l \in Line, LineOpens(l) PROVE LineInv'
  <2>1. /\ line[l].ready = "connecting" /\ line' = [line EXCEPT ![l].ready = "open"]
        /\ sse' = [sse EXCEPT !.reconnects = 0]
        /\ waiting' = waiting /\ line_starts' = line_starts /\ delivered' = delivered
    BY <1>4 DEF LineOpens
  <2>2. line' \in [Line -> LineState]
    BY <1>0, <2>1 DEF LineState
  <2>3. \A k \in Line : /\ line'[k].at = line[k].at
                        /\ line'[k].ready = IF k = l THEN "open" ELSE line[k].ready
    BY <1>0, <2>1 DEF LineState
  <2>4. sse' \in LineFields
    BY <1>0, <2>1, LineBounds DEF LineFields
  <2>5. /\ sse'.source = sse.source /\ sse'.reconnectTimer = sse.reconnectTimer
        /\ sse'.seen = sse.seen /\ sse'.lastEventId = sse.lastEventId
    BY <1>0, <2>1 DEF LineFields
  <2>6. sse'.stopped <=> sse.stopped
    BY <1>0, <2>1 DEF LineFields
  <2>7. LineTypeOK'
    BY <1>0, <2>1, <2>2, <2>4, LineTypesBack
  <2>8. AliveLines' = AliveLines
    BY <2>1, <2>3 DEF AliveLines
  <2>9. AliveInv'
    BY <1>0, <2>1, <2>3, <2>5, <2>6, <2>8 DEF AliveInv, OneAlive
  <2> QED BY <1>0, <2>1, <2>3, <2>5, <2>7, <2>9, HandedStays DEF LineInv
<1>5. ASSUME NEW l \in Line, LineDelivers(l) PROVE LineInv'
  <2> DEFINE n == line[l].at + 1
             seen == SeenAfter(sse.seen \cup {n})
  <2>1. /\ line[l].ready = "open" /\ n <= LineEvents
        /\ line' = [line EXCEPT ![l].at = n]
        /\ waiting' = waiting /\ line_starts' = line_starts
        /\ IF n \in BadEvents \/ n \in sse.seen THEN sse' = sse /\ delivered' = delivered
           ELSE /\ sse' = [sse EXCEPT !.seen = seen, !.lastEventId = n]
                /\ delivered' = Append(delivered, [id |-> n, cleared |-> seen = {}])
    BY <1>5 DEF LineDelivers, Seen
  <2>2. line[l].at \in 0 .. LineEvents
    BY <1>0 DEF LineState
  <2>3. n \in EventId /\ n \in 0 .. LineEvents
    BY <2>1, <2>2, PositiveLine DEF EventId
  <2>4. seen \in SUBSET EventId /\ (seen = {} \/ seen = sse.seen \cup {n})
    BY <1>0, <2>3 DEF SeenAfter, LineFields
  <2> HIDE DEF n, seen
  <2>5. line' \in [Line -> LineState]
    BY <1>0, <2>1, <2>3 DEF LineState
  <2>6. \A k \in Line : /\ line'[k].at = IF k = l THEN n ELSE line[k].at
                        /\ line'[k].ready = line[k].ready
    BY <1>0, <2>1 DEF LineState
  <2>7. /\ sse' \in LineFields /\ sse'.source = sse.source
        /\ sse'.reconnectTimer = sse.reconnectTimer
    BY <1>0, <2>1, <2>3, <2>4 DEF LineFields
  <2>8. sse'.stopped <=> sse.stopped
    BY <1>0, <2>1 DEF LineFields
  <2>9. LineTypeOK'
    BY <1>0, <2>1, <2>5, <2>7, LineTypesBack
  <2>10. AliveLines' = AliveLines
    BY <2>1, <2>6 DEF AliveLines
  <2>11. AliveInv'
    BY <1>0, <2>1, <2>6, <2>7, <2>8, <2>10 DEF AliveInv, OneAlive
  <2>12. HandedInv'
    <3>1. CASE n \in BadEvents \/ n \in sse.seen
      <4>1. sse' = sse /\ delivered' = delivered
        BY <2>1, <3>1
      <4>2. \A m : (Handed(m)' <=> Handed(m)) /\ (Faded(m)' <=> Faded(m))
        BY <4>1 DEF Handed, Faded
      <4>3. \A i : (InTurn(i)' <=> InTurn(i)) /\ (Repeats(i)' <=> Repeats(i))
                   /\ (Forgotten(i)' <=> Forgotten(i))
        BY <4>1 DEF InTurn, Repeats, Forgotten
      <4>4. ASSUME NEW k \in Line, NEW m \in EventId, m <= line'[k].at, m \notin BadEvents
            PROVE  Handed(m)
        <5>1. m = n \/ m <= line[k].at
          BY <2>2, <2>3, <2>6, <4>4, PositiveLine DEF EventId, n
        <5>2. m = n => m \in sse.seen
          BY <3>1, <4>4
        <5> QED BY <1>0, <4>4, <5>1, <5>2 DEF HandedInv
      <4> QED BY <1>0, <4>1, <4>2, <4>3, <4>4 DEF HandedInv
    <3>2. CASE n \notin BadEvents /\ n \notin sse.seen
      <4>1. /\ sse' = [sse EXCEPT !.seen = seen, !.lastEventId = n]
            /\ delivered' = Append(delivered, [id |-> n, cleared |-> seen = {}])
        BY <2>1, <3>2
      <4> DEFINE cleared == seen = {}
      <4>2. sse'.lastEventId = n /\ sse'.seen = seen
        BY <1>0, <4>1 DEF LineFields
      <4>3. sse'.seen = IF cleared THEN {} ELSE sse.seen \cup {n}
        BY <2>4, <4>2
      <4>4. cleared \in BOOLEAN /\ n = line[l].at + 1
            /\ delivered' = Append(delivered, [id |-> n, cleared |-> cleared])
        BY <4>1 DEF n
      <4> HIDE DEF cleared
      <4> QED BY <1>0, <2>1, <2>3, <3>2, <4>2, <4>3, <4>4, OneMoreHanded
    <3> QED BY <3>1, <3>2
  <2> QED BY <2>9, <2>11, <2>12 DEF LineInv
<1>6. ASSUME NEW closed \in SUBSET Line, line' \in [Line -> LineState],
             \A k \in Line : /\ line'[k].at = line[k].at
                             /\ line'[k].ready = IF k \in closed THEN "closed" ELSE line[k].ready,
             sse' = StoppedClient, waiting' = TimersAfterStop, line_starts' = line_starts,
             delivered' = delivered,
             sse.source \in Line => sse.source \in closed
      PROVE  LineInv'
  <2>1. /\ sse' \in LineFields /\ sse'.seen = sse.seen /\ sse'.lastEventId = sse.lastEventId
        /\ sse'.stopped
    BY <1>0, <1>6, StoppedIs
  <2>2. waiting' = waiting \ {sse.reconnectTimer} /\ waiting' \subseteq waiting
    BY <1>6 DEF TimersAfterStop
  <2>3. LineTypeOK'
    BY <1>0, <1>6, <2>1, <2>2, LineTypesBack
  <2>4. AliveLines' \in SUBSET AliveLines
    BY <1>6, <2>2 DEF AliveLines
  <2>5. \A k \in waiting' : line'[k].ready = "closed"
    BY <1>0, <1>6, <2>2 DEF AliveInv
  <2>6. OneAlive'
    <3> SUFFICES ASSUME line_starts <= 1 PROVE OneAlive'
      BY <1>6 DEF OneAlive
    <3>1. waiting' = {}
      BY <1>0, <2>2 DEF AliveInv, OneAlive
    <3>2. \A k \in Line : line'[k].ready \notin {"connecting", "open"}
      BY <1>0, <1>6 DEF AliveInv, OneAlive
    <3> QED BY <3>1, <3>2 DEF OneAlive, AliveLines
  <2>7. HandedInv'
    BY <1>0, <1>6, <2>1, HandedStays
  <2> QED BY <1>6, <2>3, <2>4, <2>5, <2>6, <2>7, FewerAlive DEF LineInv, AliveInv
<1>7. CASE StopLine
  <2>1. /\ line' = StoppedLines /\ sse' = StoppedClient /\ waiting' = TimersAfterStop
        /\ delivered' = delivered /\ line_starts' = line_starts
    BY <1>7 DEF StopLine
  <2>2. /\ {sse.source} \cap Line \in SUBSET Line
        /\ line' \in [Line -> LineState]
        /\ \A k \in Line :
             /\ line'[k].at = line[k].at
             /\ line'[k].ready = IF k \in {sse.source} \cap Line THEN "closed" ELSE line[k].ready
    BY <1>0, <2>1, StoppedIs
  <2> QED BY <1>6, <2>1, <2>2
<1>8. ASSUME NEW l \in Line, LineFails(l) PROVE LineInv'
  <2>1. /\ line[l].ready \in {"connecting", "open"}
        /\ delivered' = delivered /\ line_starts' = line_starts
    BY <1>8 DEF LineFails
  <2>2. /\ [line EXCEPT ![l].ready = "closed"] \in [Line -> LineState]
        /\ \A k \in Line :
             /\ [line EXCEPT ![l].ready = "closed"][k].at = line[k].at
             /\ [line EXCEPT ![l].ready = "closed"][k].ready =
                  IF k = l THEN "closed" ELSE line[k].ready
    BY <1>0 DEF LineState
  <2>a. CASE sse.stopped
    <3>1. line' = [line EXCEPT ![l].ready = "closed"] /\ sse' = sse /\ waiting' = waiting
      BY <1>8, <2>a DEF LineFails
    <3>2. LineTypeOK'
      BY <1>0, <2>1, <2>2, <3>1, LineTypesBack
    <3>3. AliveLines' \in SUBSET AliveLines
      BY <2>2, <3>1 DEF AliveLines
    <3>4. OneAlive'
      BY <1>0, <2>1, <2>2, <3>1, <3>3 DEF AliveInv, OneAlive
    <3>5. \A k \in waiting' : line'[k].ready = "closed"
      BY <1>0, <2>2, <3>1 DEF AliveInv
    <3>6. HandedInv'
      BY <1>0, <2>1, <2>2, <3>1, HandedStays
    <3> QED BY <2>1, <3>2, <3>3, <3>4, <3>5, <3>6, FewerAlive DEF LineInv, AliveInv
  <2>b. CASE ~sse.stopped /\ sse.reconnects >= MaxLineReconnects
    <3>1. /\ line' = [StoppedLines EXCEPT ![l].ready = "closed"]
          /\ sse' = StoppedClient /\ waiting' = TimersAfterStop
      BY <1>8, <2>b DEF LineFails
    <3> DEFINE closed == ({sse.source} \cap Line) \cup {l}
    <3>2. /\ closed \in SUBSET Line
          /\ line' \in [Line -> LineState]
          /\ \A k \in Line :
               /\ line'[k].at = line[k].at
               /\ line'[k].ready = IF k \in closed THEN "closed" ELSE line[k].ready
      <4>1. StoppedLines \in [Line -> LineState]
        BY <1>0, StoppedIs
      <4>2. /\ line' \in [Line -> LineState]
            /\ \A k \in Line : /\ line'[k].at = StoppedLines[k].at
                               /\ line'[k].ready = IF k = l THEN "closed" ELSE StoppedLines[k].ready
        BY <3>1, <4>1 DEF LineState
      <4> QED BY <1>0, <4>2, StoppedIs
    <3>3. sse.source \in Line => sse.source \in closed
      OBVIOUS
    <3> HIDE DEF closed
    <3> QED BY <1>6, <2>1, <3>1, <3>2, <3>3
  <2>c. CASE ~sse.stopped /\ ~(sse.reconnects >= MaxLineReconnects)
    <3>1. /\ line' = [line EXCEPT ![l].ready = "closed"]
          /\ sse' = [sse EXCEPT !.reconnects = @ + 1, !.reconnectTimer = l]
          /\ waiting' = waiting \cup {l}
      BY <1>8, <2>c DEF LineFails
    <3>2. sse.reconnects + 1 \in 0 .. MaxLineReconnects
      BY <1>0, <2>c, PositiveLine DEF LineFields
    <3>3. sse' \in LineFields
      BY <1>0, <3>1, <3>2, LineBounds DEF LineFields
    <3>4. /\ sse'.source = sse.source /\ sse'.reconnectTimer = l
          /\ sse'.seen = sse.seen /\ sse'.lastEventId = sse.lastEventId
      BY <1>0, <3>1 DEF LineFields
    <3>5. ~sse'.stopped
      BY <1>0, <2>c, <3>1 DEF LineFields
    <3>6. LineTypeOK'
      BY <1>0, <2>1, <2>2, <3>1, <3>3, LineTypesBack
    <3>7. AliveLines' \in SUBSET AliveLines
      BY <2>1, <2>2, <3>1 DEF AliveLines
    <3>8. \A k \in waiting' : line'[k].ready = "closed"
      BY <1>0, <2>2, <3>1 DEF AliveInv
    <3>9. OneAlive'
      <4> SUFFICES ASSUME line_starts <= 1 PROVE OneAlive'
        BY <2>1 DEF OneAlive
      <4>1. l \in AliveLines /\ \A x \in AliveLines : x = l
        BY <1>s, <2>1 DEF AliveLines
      <4>2. waiting' \subseteq {l}
        BY <3>1, <4>1 DEF AliveLines
      <4>3. \A k \in Line : line'[k].ready \notin {"connecting", "open"}
        BY <2>2, <3>1, <4>1 DEF AliveLines
      <4> QED BY <3>4, <3>5, <4>2, <4>3 DEF OneAlive
    <3>10. HandedInv'
      BY <1>0, <2>1, <2>2, <3>1, <3>4, HandedStays
    <3> QED BY <2>1, <3>6, <3>7, <3>8, <3>9, <3>10, FewerAlive DEF LineInv, AliveInv
  <2> QED BY <2>a, <2>b, <2>c
<1> QED BY <1>1, <1>2, <1>3, <1>4, <1>5, <1>7, <1>8 DEF LineNext

(* ResilientSseClient: for any numbers of events, sources and starts, the page is handed the *)
(* events in order and none left out, again only what was forgotten, and a stopped client    *)
(* that was started once is silent.                                                          *)
THEOREM EventsHandedInOrder == LineSpec => [](LineTypeOK /\ EventsOnceInOrder)
<1>1. LineInv => EventsOnceInOrder
  <2> SUFFICES ASSUME LineInv PROVE EventsOnceInOrder
    OBVIOUS
  <2>1. line_starts = 1 /\ sse.stopped => AliveLines = {}
    BY DEF LineInv, AliveInv, OneAlive
  <2> QED BY <2>1 DEF LineInv, AliveInv, HandedInv, EventsOnceInOrder, AliveLines
<1>2. LineInv => LineTypeOK
  BY DEF LineInv
<1> QED BY LineInitInv, LineStepInv, <1>1, <1>2, PTL DEF LineSpec

-----------------------------------------------------------------------------
(***************************************************************************)
(* BrowserRequests, for any calls of the page and any number of attempts.  *)
(***************************************************************************)

RequestRecord == [at : {"new", "sent", "sleeping", "answered", "failed", "aborted"},
                  attempt : 0 .. SendLimit]
ActiveAt      == {"sent", "sleeping"}
OnWire(c)     == {n \in 1 .. SendLimit : <<c, n>> \in wire}

RequestsTyped ==
  /\ requests \in [Call -> RequestRecord]
  /\ wire \subseteq Call \X (1 .. SendLimit)
  /\ replies \in [Call -> {"none", "ok", "busy", "refused"}]
  /\ controllers \in Call \cup {NoHolder}
  /\ performed \in [Call -> Nat]
  /\ begun \in Seq(Call) /\ shown \in Seq(Call)

\* What was performed for a call, and what still may be, was sent in one of its attempts;
\* there is a second attempt only where a retry is safe, and a keyed call is performed once
\* all the same.
SentFor(c) ==
  /\ \A n \in OnWire(c) : n <= requests[c].attempt
  /\ performed[c] + Cardinality(OnWire(c)) <= requests[c].attempt
  /\ requests[c].at = "new" <=> requests[c].attempt = 0
  /\ requests[c].attempt <= 1 \/ isMethodRetrySafe(c)
  /\ requests[c].at = "sleeping" => isMethodRetrySafe(c) /\ requests[c].attempt < SendLimit
  /\ KindOf[c] = "keyed" => performed[c] <= 1
  /\ replies[c] = "ok" \/ requests[c].at = "answered" => performed[c] >= 1

\* One call is under way, the one begun last, and it has the key.
HoldsKey(c) ==
  /\ requests[c].at \in ActiveAt <=> controllers = c
  /\ controllers = c => begun # <<>> /\ begun[Len(begun)] = c

\* Each call began once, and what is shown began in the order in which it is shown.
BegunOnce ==
  /\ \A i \in 1 .. Len(begun) : requests[begun[i]].at # "new"
  /\ \A i, j \in 1 .. Len(begun) : begun[i] = begun[j] => i = j

ShownInOrder ==
  /\ \A i \in 1 .. Len(shown) : requests[shown[i]].at = "answered"
  /\ \A i \in 1 .. Len(shown) : \E m \in 1 .. Len(begun) : begun[m] = shown[i]
  /\ \A i, j \in 1 .. Len(shown) : \A m, n \in 1 .. Len(begun) :
       i < j /\ begun[m] = shown[i] /\ begun[n] = shown[j] => m < n

RequestsInv ==
  /\ RequestsTyped
  /\ \A c \in Call : SentFor(c) /\ HoldsKey(c)
  /\ BegunOnce /\ ShownInOrder

LEMMA PositiveSends == SendLimit \in Nat /\ SendLimit >= 1 /\ NoHolder \notin Call
BY RequestAssumption

LEMMA OnWireFinite == \A c \in Call : IsFiniteSet(OnWire(c)) /\ Cardinality(OnWire(c)) \in Nat
<1> SUFFICES ASSUME NEW c \in Call
             PROVE  IsFiniteSet(OnWire(c)) /\ Cardinality(OnWire(c)) \in Nat
  OBVIOUS
<1>1. IsFiniteSet(1 .. SendLimit) /\ OnWire(c) \in SUBSET (1 .. SendLimit)
  BY FS_Interval, PositiveSends DEF OnWire
<1> QED BY <1>1, FS_Subset, FS_CardinalityType

LEMMA RequestsInitInv == RequestsInit => RequestsInv
<1> SUFFICES ASSUME RequestsInit PROVE RequestsInv
  OBVIOUS
<1>1. 0 \in 0 .. SendLimit
  BY PositiveSends
<1>2. RequestsTyped
  BY <1>1 DEF RequestsInit, RequestsTyped, RequestRecord
<1>3. \A c \in Call : OnWire(c) = {}
  BY DEF RequestsInit, OnWire
<1>4. ASSUME NEW c \in Call PROVE SentFor(c) /\ HoldsKey(c)
  <2>1. /\ requests[c].at = "new" /\ requests[c].attempt = 0 /\ performed[c] = 0
        /\ replies[c] = "none" /\ controllers # c
    BY PositiveSends DEF RequestsInit
  <2>2. Cardinality(OnWire(c)) = 0
    BY <1>3, FS_EmptySet
  <2> QED BY <1>3, <2>1, <2>2 DEF SentFor, HoldsKey, ActiveAt
<1> QED BY <1>2, <1>4 DEF RequestsInit, RequestsInv, BegunOnce, ShownInOrder

LEMMA RequestsInvOrders ==
  RequestsInv => RequestsTypeOK /\ OnceForEachCall /\ AnswersInOrder
<1> SUFFICES ASSUME RequestsInv PROVE RequestsTypeOK /\ OnceForEachCall /\ AnswersInOrder
  OBVIOUS
<1>1. \A c \in Call : performed[c] \in Nat /\ performed[c] <= requests[c].attempt
                        /\ requests[c].attempt \in 0 .. SendLimit
  <2> SUFFICES ASSUME NEW c \in Call
               PROVE  /\ performed[c] \in Nat /\ performed[c] <= requests[c].attempt
                      /\ requests[c].attempt \in 0 .. SendLimit
    OBVIOUS
  <2>1. PICK k \in Nat : k = Cardinality(OnWire(c))
    BY OnWireFinite
  <2>2. performed[c] \in Nat /\ requests[c].attempt \in 0 .. SendLimit
    BY DEF RequestsInv, RequestsTyped, RequestRecord
  <2>3. performed[c] + k <= requests[c].attempt
    BY <2>1 DEF RequestsInv, SentFor
  <2> QED BY <2>2, <2>3, PositiveSends
<1>2. performed \in [Call -> 0 .. SendLimit]
  BY <1>1, PositiveSends DEF RequestsInv, RequestsTyped
<1>3. RequestsTypeOK
  BY <1>2 DEF RequestsTypeOK, RequestsInv, RequestsTyped, RequestRecord
<1>4. ASSUME NEW c \in Call
      PROVE  /\ KindOf[c] # "read" => performed[c] <= 1
             /\ requests[c].at = "answered" => performed[c] >= 1
  <2>1. SentFor(c) /\ KindOf[c] \in {"read", "keyed", "unkeyed"}
    BY RequestAssumption DEF RequestsInv
  <2> QED BY <1>1, <2>1, PositiveSends DEF SentFor, isMethodRetrySafe
<1>5. AnswersInOrder
  <2> DEFINE place(c) == CHOOSE i \in DOMAIN begun : begun[i] = c
  <2>1. DOMAIN begun = 1 .. Len(begun) /\ DOMAIN shown = 1 .. Len(shown)
    BY DEF RequestsInv, RequestsTyped
  <2>2. ASSUME NEW i \in 1 .. Len(shown)
        PROVE  place(shown[i]) \in 1 .. Len(begun) /\ begun[place(shown[i])] = shown[i]
    BY <2>1 DEF RequestsInv, ShownInOrder
  <2> HIDE DEF place
  <2>3. ASSUME NEW i \in 1 .. Len(shown), NEW j \in 1 .. Len(shown), i < j
        PROVE  place(shown[i]) < place(shown[j])
    BY <2>2, <2>3 DEF RequestsInv, ShownInOrder
  <2> QED BY <2>1, <2>3 DEF AnswersInOrder, place
<1> QED BY <1>3, <1>4, <1>5 DEF OnceForEachCall

\* A step that begins and shows nothing: no answered call goes on, none begins again.
LEMMA OrderStays ==
  ASSUME RequestsInv, UNCHANGED <<begun, shown>>,
         \A c \in Call : requests[c].at # "new" => requests'[c].at # "new",
         \A c \in Call : requests[c].at = "answered" => requests'[c].at = "answered"
  PROVE  BegunOnce' /\ ShownInOrder'
<1>1. /\ \A i \in 1 .. Len(begun) : begun[i] \in Call
      /\ \A i \in 1 .. Len(shown) : shown[i] \in Call
  BY DEF RequestsInv, RequestsTyped
<1> QED BY <1>1 DEF RequestsInv, BegunOnce, ShownInOrder

LEMMA BeginRequestInv ==
  ASSUME RequestsInv, NEW c \in Call, BeginRequest(c) PROVE RequestsInv'
<1>1. /\ requests[c].at = "new" /\ wire' = wire \cup {<<c, 1>>} /\ begun' = Append(begun, c)
      /\ UNCHANGED <<replies, performed, shown>>
  BY DEF BeginRequest
<1>2. requests[c].at \notin ActiveAt /\ controllers # c
  BY <1>1 DEF RequestsInv, HoldsKey, ActiveAt
<1>3. controllers' = c
  BY <1>2 DEF BeginRequest, Finished
<1>4. 1 \in 1 .. SendLimit /\ 1 \in 0 .. SendLimit
  BY PositiveSends
<1>5. /\ requests' \in [Call -> RequestRecord]
      /\ requests'[c].at = "sent" /\ requests'[c].attempt = 1
      /\ \A d \in Call \ {c} : requests'[d].attempt = requests[d].attempt
      /\ \A d \in Call \ {c, controllers} : requests'[d] = requests[d]
      /\ controllers \in Call => requests'[controllers].at = "aborted"
  BY <1>2, <1>4 DEF BeginRequest, RequestsInv, RequestsTyped, RequestRecord
<1>6. RequestsTyped'
  BY <1>1, <1>3, <1>4, <1>5 DEF RequestsInv, RequestsTyped
<1>7. ASSUME NEW d \in Call PROVE SentFor(d)'
  <2>1. CASE d = c
    <3>1. requests[c].attempt = 0 /\ performed[c] + Cardinality(OnWire(c)) <= 0
          /\ \A n \in OnWire(c) : n <= 0
      BY <1>1 DEF RequestsInv, SentFor
    <3>2. OnWire(c) = {} /\ performed[c] = 0
      <4>1. OnWire(c) = {}
        BY <3>1, PositiveSends DEF OnWire
      <4>2. performed[c] \in Nat /\ Cardinality(OnWire(c)) \in Nat
        BY OnWireFinite DEF RequestsInv, RequestsTyped
      <4> QED BY <3>1, <4>1, <4>2
    <3>3. OnWire(c)' = {1}
      BY <1>1, <1>4, <3>2 DEF OnWire
    <3>4. Cardinality({1}) = 1
      BY FS_Singleton
    <3>5. replies[c] # "ok"
      BY <1>1, <3>2 DEF RequestsInv, SentFor
    <3> QED BY <1>1, <1>5, <2>1, <3>2, <3>3, <3>4, <3>5 DEF SentFor
  <2>2. CASE d # c
    <3>1. OnWire(d)' = OnWire(d)
      BY <1>1, <2>2 DEF OnWire
    <3>2. SentFor(d) /\ HoldsKey(d)
      BY DEF RequestsInv
    <3>3. CASE d = controllers
      <4>1. requests'[d].at = "aborted" /\ requests'[d].attempt = requests[d].attempt
        BY <1>5, <2>2, <3>3
      <4>2. requests[d].at # "new"
        BY <3>2, <3>3 DEF HoldsKey, ActiveAt
      <4> QED BY <1>1, <3>1, <3>2, <4>1, <4>2 DEF SentFor
    <3>4. CASE d # controllers
      BY <1>1, <1>5, <2>2, <3>1, <3>2, <3>4 DEF SentFor
    <3> QED BY <3>3, <3>4
  <2> QED BY <2>1, <2>2
<1>8. /\ begun' \in Seq(Call) /\ Len(begun') = Len(begun) + 1 /\ begun'[Len(begun) + 1] = c
      /\ \A i \in 1 .. Len(begun) : begun'[i] = begun[i] /\ begun[i] \in Call
      /\ Len(begun) \in Nat /\ begun' # <<>>
  <2>1. PICK old \in Seq(Call) : old = begun
    BY DEF RequestsInv, RequestsTyped
  <2>2. begun' = Append(old, c)
    BY <1>1, <2>1
  <2> QED BY <2>1, <2>2
<1>9. ASSUME NEW d \in Call PROVE HoldsKey(d)'
  <2>1. CASE d = c
    BY <1>3, <1>5, <1>8, <2>1 DEF HoldsKey, ActiveAt
  <2>2. CASE d # c /\ d = controllers
    BY <1>3, <1>5, <2>2 DEF HoldsKey, ActiveAt
  <2>3. CASE d # c /\ d # controllers
    BY <1>3, <1>5, <2>3 DEF RequestsInv, HoldsKey, ActiveAt
  <2> QED BY <2>1, <2>2, <2>3
<1>10. \A i \in 1 .. Len(begun) : begun[i] # c
  BY <1>1 DEF RequestsInv, BegunOnce
<1>11. \A d \in Call : requests[d].at # "new" => requests'[d].at # "new"
  BY <1>1, <1>5
<1>12. BegunOnce'
  BY <1>5, <1>8, <1>10, <1>11 DEF RequestsInv, BegunOnce
<1>13. \A i \in 1 .. Len(shown) : shown[i] \in Call \ {c, controllers}
  <2> SUFFICES ASSUME NEW i \in 1 .. Len(shown) PROVE shown[i] \in Call \ {c, controllers}
    OBVIOUS
  <2>1. shown[i] \in Call /\ requests[shown[i]].at = "answered"
    BY DEF RequestsInv, RequestsTyped, ShownInOrder
  <2>2. HoldsKey(shown[i])
    BY <2>1 DEF RequestsInv
  <2> QED BY <1>1, <2>1, <2>2 DEF HoldsKey, ActiveAt
<1>14. ShownInOrder'
  <2>1. \A i \in 1 .. Len(shown) : requests'[shown[i]].at = "answered"
    BY <1>5, <1>13 DEF RequestsInv, ShownInOrder
  <2>2. \A i \in 1 .. Len(shown) : \E m \in 1 .. Len(begun') : begun'[m] = shown[i]
    BY <1>8 DEF RequestsInv, ShownInOrder
  <2>3. ASSUME NEW i \in 1 .. Len(shown), NEW j \in 1 .. Len(shown),
               NEW m \in 1 .. Len(begun'), NEW n \in 1 .. Len(begun'),
               i < j, begun'[m] = shown[i], begun'[n] = shown[j]
        PROVE  m < n
    <3>1. m \in 1 .. Len(begun) /\ n \in 1 .. Len(begun)
      BY <1>8, <1>13, <2>3
    <3> QED BY <1>8, <2>3, <3>1 DEF RequestsInv, ShownInOrder
  <2>4. shown' = shown
    BY <1>1
  <2> QED BY <2>1, <2>2, <2>3, <2>4 DEF ShownInOrder
<1> QED BY <1>6, <1>7, <1>9, <1>12, <1>14 DEF RequestsInv

\* A call about which only the reply was dropped, if anything.
LEMMA SentForStays ==
  ASSUME RequestsInv, NEW d \in Call, requests'[d] = requests[d],
         performed'[d] = performed[d], OnWire(d)' = OnWire(d),
         replies'[d] \in {replies[d], "none"}
  PROVE  SentFor(d)'
<1>1. SentFor(d)
  BY DEF RequestsInv
<1> QED BY <1>1 DEF SentFor

LEMMA Settled ==
  ASSUME RequestsInv, NEW c \in Call, NEW how \in {"answered", "failed", "aborted"},
         requests' = [requests EXCEPT ![c].at = how]
  PROVE  /\ requests' \in [Call -> RequestRecord] /\ requests'[c].at = how
         /\ requests'[c].attempt = requests[c].attempt
         /\ \A d \in Call \ {c} : requests'[d] = requests[d]
BY DEF RequestsInv, RequestsTyped, RequestRecord

\* The call under way ends, and is shown if it was answered.
LEMMA SettlesInv ==
  ASSUME RequestsInv, NEW c \in Call, requests[c].at \in ActiveAt,
         NEW how \in {"answered", "failed", "aborted"},
         requests' = [requests EXCEPT ![c].at = how], controllers' = NoHolder,
         UNCHANGED <<wire, performed, begun>>,
         replies' = replies \/ replies' = [replies EXCEPT ![c] = "none"],
         how = "answered" => performed[c] >= 1 /\ shown' = Append(shown, c),
         how # "answered" => UNCHANGED shown
  PROVE  RequestsInv'
<1>1. /\ requests' \in [Call -> RequestRecord] /\ requests'[c].at = how
      /\ requests'[c].attempt = requests[c].attempt
      /\ \A d \in Call \ {c} : requests'[d] = requests[d]
  BY Settled
<1>2. controllers = c /\ \A d \in Call \ {c} : requests[d].at \notin ActiveAt
  BY DEF RequestsInv, HoldsKey
<1>3. begun # <<>> /\ begun[Len(begun)] = c
  BY <1>2 DEF RequestsInv, HoldsKey
<1>4. \A d \in Call : OnWire(d)' = OnWire(d)
  BY DEF OnWire
<1>5. ASSUME NEW d \in Call PROVE SentFor(d)'
  <2>1. CASE d # c
    BY <1>1, <1>4, <2>1, SentForStays DEF RequestsInv, RequestsTyped
  <2>2. CASE d = c
    <3>1. SentFor(c) /\ requests[c].at # "new"
      BY DEF RequestsInv, ActiveAt
    <3>2. replies'[c] \in {replies[c], "none"}
      BY DEF RequestsInv, RequestsTyped
    <3> QED BY <1>1, <1>4, <2>2, <3>1, <3>2 DEF SentFor
  <2> QED BY <2>1, <2>2
<1>6. ASSUME NEW d \in Call PROVE HoldsKey(d)'
  BY <1>1, <1>2, PositiveSends DEF HoldsKey, ActiveAt
<1>7. RequestsTyped'
  <2>1. shown \in Seq(Call)
    BY DEF RequestsInv, RequestsTyped
  <2>2. CASE how = "answered"
    <3>1. shown' = Append(shown, c)
      BY <2>2
    <3>2. shown' \in Seq(Call)
      BY <2>1, <3>1
    <3> QED BY <1>1, <3>2 DEF RequestsInv, RequestsTyped
  <2>3. CASE how # "answered"
    <3>1. shown' = shown
      BY <2>3
    <3> QED BY <1>1, <3>1 DEF RequestsInv, RequestsTyped
  <2> QED BY <2>2, <2>3
<1>8. CASE how # "answered"
  <2>1. /\ \A d \in Call : requests[d].at # "new" => requests'[d].at # "new"
        /\ \A d \in Call : requests[d].at = "answered" => requests'[d].at = "answered"
    BY <1>1 DEF ActiveAt
  <2>2. BegunOnce' /\ ShownInOrder'
    BY <1>8, <2>1, OrderStays
  <2> QED BY <1>5, <1>6, <1>7, <2>2 DEF RequestsInv
<1>9. CASE how = "answered"
  <2>1. BegunOnce'
    <3>1. \A i \in 1 .. Len(begun) : begun[i] \in Call
      BY DEF RequestsInv, RequestsTyped
    <3> QED BY <1>1, <1>9, <3>1 DEF RequestsInv, BegunOnce
  <2>2. /\ shown' \in Seq(Call) /\ Len(shown') = Len(shown) + 1 /\ shown'[Len(shown) + 1] = c
        /\ \A i \in 1 .. Len(shown) : shown'[i] = shown[i] /\ shown[i] \in Call
        /\ Len(shown) \in Nat
    <3>1. PICK old \in Seq(Call) : old = shown
      BY DEF RequestsInv, RequestsTyped
    <3>2. shown' = Append(old, c)
      BY <1>9, <3>1
    <3> QED BY <3>1, <3>2
  <2>3. \A i \in 1 .. Len(shown) : shown[i] # c
    BY DEF RequestsInv, ShownInOrder, ActiveAt
  <2>4. Len(begun) \in 1 .. Len(begun)
    BY <1>3 DEF RequestsInv, RequestsTyped
  <2>5. \A i \in 1 .. Len(shown') : requests'[shown'[i]].at = "answered"
    BY <1>1, <1>9, <2>2, <2>3 DEF RequestsInv, ShownInOrder
  <2>6. \A i \in 1 .. Len(shown') : \E m \in 1 .. Len(begun) : begun[m] = shown'[i]
    BY <1>3, <2>2, <2>4 DEF RequestsInv, ShownInOrder
  <2>7. ASSUME NEW i \in 1 .. Len(shown'), NEW j \in 1 .. Len(shown'),
               NEW m \in 1 .. Len(begun), NEW n \in 1 .. Len(begun),
               i < j, begun[m] = shown'[i], begun[n] = shown'[j]
        PROVE  m < n
    <3>1. i \in 1 .. Len(shown)
      BY <2>2, <2>7
    <3>2. CASE j \in 1 .. Len(shown)
      BY <2>2, <2>7, <3>1, <3>2 DEF RequestsInv, ShownInOrder
    <3>3. CASE j = Len(shown) + 1
      <4>1. begun[n] = c /\ begun[m] # c
        BY <2>2, <2>3, <2>7, <3>1, <3>3
      <4>2. n = Len(begun) /\ m # n
        BY <1>3, <2>4, <4>1 DEF RequestsInv, BegunOnce
      <4> QED BY <4>2, <2>4
    <3> QED BY <2>2, <3>2, <3>3
  <2>8. ShownInOrder'
    BY <2>5, <2>6, <2>7 DEF ShownInOrder
  <2> QED BY <1>5, <1>6, <1>7, <2>1, <2>8 DEF RequestsInv
<1> QED BY <1>8, <1>9

\* The catch clause, of a call that was sent.
LEMMA RetryOrFailInv ==
  ASSUME RequestsInv, NEW c \in Call, requests[c].at = "sent", RetryOrFail(c),
         replies' = [replies EXCEPT ![c] = "none"],
         UNCHANGED <<wire, performed, begun, shown>>
  PROVE  RequestsInv'
<1>1. CASE ~(isMethodRetrySafe(c) /\ requests[c].attempt < SendLimit)
  <2>1. controllers = c
    BY DEF RequestsInv, HoldsKey, ActiveAt
  <2>2. requests' = [requests EXCEPT ![c].at = "failed"] /\ controllers' = NoHolder
    BY <1>1, <2>1 DEF RetryOrFail, Settle, Finished
  <2> QED BY <2>2, SettlesInv DEF ActiveAt
<1>2. CASE isMethodRetrySafe(c) /\ requests[c].attempt < SendLimit
  <2>1. requests' = [requests EXCEPT ![c].at = "sleeping"] /\ UNCHANGED controllers
    BY <1>2 DEF RetryOrFail
  <2>2. /\ requests' \in [Call -> RequestRecord] /\ requests'[c].at = "sleeping"
        /\ requests'[c].attempt = requests[c].attempt
        /\ \A d \in Call \ {c} : requests'[d] = requests[d]
    BY <2>1 DEF RequestsInv, RequestsTyped, RequestRecord
  <2>3. \A d \in Call : OnWire(d)' = OnWire(d)
    BY DEF OnWire
  <2>4. ASSUME NEW d \in Call PROVE SentFor(d)'
    <3>1. replies'[d] \in {replies[d], "none"}
      BY DEF RequestsInv, RequestsTyped
    <3>2. CASE d # c
      BY <2>2, <2>3, <3>1, <3>2, SentForStays
    <3>3. CASE d = c
      <4>1. SentFor(c)
        BY DEF RequestsInv
      <4> QED BY <1>2, <2>2, <2>3, <3>1, <3>3, <4>1 DEF SentFor, isMethodRetrySafe
    <3> QED BY <3>2, <3>3
  <2>5. \A d \in Call : HoldsKey(d)'
    BY <2>1, <2>2 DEF RequestsInv, HoldsKey, ActiveAt
  <2>6. BegunOnce' /\ ShownInOrder'
    BY <2>2, OrderStays
  <2>7. RequestsTyped'
    BY <2>1, <2>2 DEF RequestsInv, RequestsTyped
  <2> QED BY <2>4, <2>5, <2>6, <2>7 DEF RequestsInv
<1> QED BY <1>1, <1>2

LEMMA WakesInv == ASSUME RequestsInv, NEW c \in Call, Wakes(c) PROVE RequestsInv'
<1>1. PICK n \in Nat : n = requests[c].attempt
  BY PositiveSends DEF RequestsInv, RequestsTyped, RequestRecord
<1>2. n + 1 \in 1 .. SendLimit /\ n + 1 \in 0 .. SendLimit
  BY <1>1, PositiveSends DEF Wakes, RequestsInv, SentFor
<1>3. /\ requests' = [requests EXCEPT ![c] = [at |-> "sent", attempt |-> @.attempt + 1]]
      /\ wire' = wire \cup {<<c, n + 1>>} /\ requests[c].at = "sleeping"
      /\ UNCHANGED <<replies, controllers, performed, begun, shown>>
  BY <1>1 DEF Wakes
<1>4. /\ requests' \in [Call -> RequestRecord] /\ requests'[c].at = "sent"
      /\ requests'[c].attempt = n + 1
      /\ \A d \in Call \ {c} : requests'[d] = requests[d]
  BY <1>1, <1>2, <1>3 DEF RequestsInv, RequestsTyped, RequestRecord
<1>5. ASSUME NEW d \in Call PROVE SentFor(d)'
  <2>1. CASE d # c
    <3>1. OnWire(d)' = OnWire(d)
      BY <1>3, <2>1 DEF OnWire
    <3> QED BY <1>3, <1>4, <2>1, <3>1, SentForStays
  <2>2. CASE d = c
    <3>1. SentFor(c)
      BY DEF RequestsInv
    <3>2. OnWire(c)' = OnWire(c) \cup {n + 1}
      BY <1>2, <1>3 DEF OnWire
    <3>3. \A m \in OnWire(c) : m \in Nat /\ m <= n
      BY <1>1, <3>1, PositiveSends DEF SentFor, OnWire
    <3>4. n + 1 \notin OnWire(c)
      BY <3>3
    <3>5. Cardinality(OnWire(c) \cup {n + 1}) = Cardinality(OnWire(c)) + 1
      BY <3>4, OnWireFinite, FS_AddElement
    <3>6. PICK k \in Nat : k = Cardinality(OnWire(c))
      BY OnWireFinite
    <3>7. performed[c] \in Nat /\ performed[c] + k <= n
      BY <1>1, <3>1, <3>6 DEF RequestsInv, RequestsTyped, SentFor
    <3>8. performed'[c] + Cardinality(OnWire(c)') <= requests'[c].attempt
      BY <1>3, <1>4, <3>2, <3>5, <3>6, <3>7
    <3>9. \A m \in OnWire(c)' : m <= requests'[c].attempt
      BY <1>4, <3>2, <3>3
    <3>10. isMethodRetrySafe(c)
      BY <1>3, <3>1 DEF SentFor
    <3> QED BY <1>3, <1>4, <2>2, <3>1, <3>8, <3>9, <3>10 DEF SentFor, isMethodRetrySafe
  <2> QED BY <2>1, <2>2
<1>6. \A d \in Call : HoldsKey(d)'
  BY <1>3, <1>4 DEF RequestsInv, HoldsKey, ActiveAt
<1>7. BegunOnce' /\ ShownInOrder'
  BY <1>3, <1>4, OrderStays
<1>8. RequestsTyped'
  BY <1>2, <1>3, <1>4 DEF RequestsInv, RequestsTyped
<1> QED BY <1>5, <1>6, <1>7, <1>8 DEF RequestsInv

LEMMA ReachesInv ==
  ASSUME RequestsInv, NEW c \in Call, NEW n \in 1 .. SendLimit, Reaches(c, n)
  PROVE  RequestsInv'
<1>1. PICK done \in BOOLEAN, reply \in {"ok", "busy", "refused"} :
        /\ reply = "ok" => done
        /\ performed' = [performed EXCEPT ![c] =
             @ + IF done /\ ~(KindOf[c] = "keyed" /\ @ > 0) THEN 1 ELSE 0]
        /\ replies' = [replies EXCEPT ![c] =
             IF requests[c] = [at |-> "sent", attempt |-> n] THEN reply ELSE @]
  BY DEF Reaches
<1>2. /\ <<c, n>> \in wire /\ wire' = wire \ {<<c, n>>}
      /\ UNCHANGED <<requests, controllers, begun, shown>>
  BY DEF Reaches
<1>3. PICK p \in Nat : p = performed[c]
  BY DEF RequestsInv, RequestsTyped
<1>4. PICK more \in {0, 1} : more = IF done /\ ~(KindOf[c] = "keyed" /\ p > 0) THEN 1 ELSE 0
  OBVIOUS
<1>5. performed' = [performed EXCEPT ![c] = p + more]
  BY <1>1, <1>3, <1>4
<1>6. /\ performed' \in [Call -> Nat] /\ performed'[c] = p + more
      /\ \A d \in Call \ {c} : performed'[d] = performed[d]
  BY <1>5 DEF RequestsInv, RequestsTyped
<1>7. /\ replies' \in [Call -> {"none", "ok", "busy", "refused"}]
      /\ replies'[c] \in {reply, replies[c]}
      /\ \A d \in Call \ {c} : replies'[d] = replies[d]
  BY <1>1 DEF RequestsInv, RequestsTyped
<1>8. ASSUME NEW d \in Call PROVE SentFor(d)'
  <2>1. CASE d # c
    <3>1. OnWire(d)' = OnWire(d)
      BY <1>2, <2>1 DEF OnWire
    <3> QED BY <1>2, <1>6, <1>7, <2>1, <3>1, SentForStays
  <2>2. CASE d = c
    <3>1. SentFor(c)
      BY DEF RequestsInv
    <3>2. OnWire(c)' = OnWire(c) \ {n} /\ n \in OnWire(c)
      BY <1>2 DEF OnWire
    <3>3. Cardinality(OnWire(c) \ {n}) = Cardinality(OnWire(c)) - 1
      BY <3>2, OnWireFinite, FS_RemoveElement
    <3>4. PICK k \in Nat : k = Cardinality(OnWire(c))
      BY OnWireFinite
    <3>5. PICK a \in Nat : a = requests[c].attempt
      BY PositiveSends DEF RequestsInv, RequestsTyped, RequestRecord
    <3>6. p + k <= a
      BY <1>3, <3>1, <3>4, <3>5 DEF SentFor
    <3>7. performed'[c] + Cardinality(OnWire(c)') <= requests'[c].attempt
      BY <1>2, <1>6, <3>2, <3>3, <3>4, <3>5, <3>6
    <3>8. KindOf[c] = "keyed" => p + more <= 1
      BY <1>3, <1>4, <3>1 DEF SentFor
    <3>9. replies'[c] = "ok" \/ requests[c].at = "answered" => p + more >= 1
      <4>1. CASE replies[c] = "ok" \/ requests[c].at = "answered"
        BY <1>3, <3>1, <4>1 DEF SentFor
      <4>2. CASE ~(replies[c] = "ok" \/ requests[c].at = "answered") /\ reply = "ok"
        <5>1. done
          BY <1>1, <4>2
        <5> QED BY <1>4, <5>1
      <4> QED BY <1>7, <4>1, <4>2
    <3>10. \A m \in OnWire(c)' : m <= requests'[c].attempt
      BY <1>2, <3>1, <3>2 DEF SentFor
    <3> QED BY <1>2, <1>6, <2>2, <3>1, <3>7, <3>8, <3>9, <3>10 DEF SentFor, isMethodRetrySafe
  <2> QED BY <2>1, <2>2
<1>9. \A d \in Call : HoldsKey(d)'
  BY <1>2 DEF RequestsInv, HoldsKey
<1>10. BegunOnce' /\ ShownInOrder'
  BY <1>2, OrderStays
<1> QED BY <1>2, <1>6, <1>7, <1>8, <1>9, <1>10 DEF RequestsInv, RequestsTyped

LEMMA RequestsStepInv == RequestsInv /\ [RequestsNext]_requestVars => RequestsInv'
<1> SUFFICES ASSUME RequestsInv, [RequestsNext]_requestVars PROVE RequestsInv'
  OBVIOUS
<1>1. CASE CancelRequest
  <2>1. PICK c \in Call : c = controllers
    BY <1>1 DEF CancelRequest, RequestsInv, RequestsTyped
  <2>2. requests[c].at \in ActiveAt
    BY <2>1 DEF RequestsInv, HoldsKey
  <2> QED BY <1>1, <2>1, <2>2, SettlesInv DEF CancelRequest
<1>2. ASSUME NEW c \in Call, Receives(c) PROVE RequestsInv'
  <2>1. /\ requests[c].at = "sent" /\ requests[c].at \in ActiveAt
        /\ replies' = [replies EXCEPT ![c] = "none"] /\ UNCHANGED <<wire, performed, begun>>
    BY <1>2 DEF Receives, ActiveAt
  <2>2. controllers = c
    BY <2>1 DEF RequestsInv, HoldsKey
  <2>3. CASE replies[c] = "ok" /\ Settle(c, "answered") /\ shown' = Append(shown, c)
    <3>1. performed[c] >= 1
      BY <2>3 DEF RequestsInv, SentFor
    <3>2. requests' = [requests EXCEPT ![c].at = "answered"] /\ controllers' = NoHolder
      BY <2>2, <2>3 DEF Settle, Finished
    <3> QED BY <2>1, <2>3, <3>1, <3>2, SettlesInv
  <2>4. CASE RetryOrFail(c) /\ UNCHANGED shown
    BY <2>1, <2>4, RetryOrFailInv
  <2>5. CASE Settle(c, "failed") /\ UNCHANGED shown
    <3>1. requests' = [requests EXCEPT ![c].at = "failed"] /\ controllers' = NoHolder
      BY <2>2, <2>5 DEF Settle, Finished
    <3> QED BY <2>1, <2>5, <3>1, SettlesInv
  <2> QED BY <1>2, <2>3, <2>4, <2>5 DEF Receives
<1>3. ASSUME NEW c \in Call, TimesOut(c) PROVE RequestsInv'
  BY <1>3, RetryOrFailInv DEF TimesOut
<1>4. CASE UNCHANGED requestVars
  <2>1. \A c \in Call : OnWire(c)' = OnWire(c)
    BY <1>4 DEF requestVars, OnWire
  <2>2. \A c \in Call : SentFor(c)'
    BY <1>4, <2>1, SentForStays DEF requestVars
  <2> QED BY <1>4, <2>2 DEF requestVars, RequestsInv, RequestsTyped, HoldsKey, BegunOnce,
                            ShownInOrder
<1> QED BY <1>1, <1>2, <1>3, <1>4, BeginRequestInv, WakesInv, ReachesInv DEF RequestsNext

\* A mutation of the page is performed at most once for each call, one that was answered was
\* performed, and an older call is never answered after a newer one for the same key.
THEOREM CallsTakeTheirTurn ==
  RequestsSpec => [](RequestsTypeOK /\ OnceForEachCall /\ AnswersInOrder)
BY RequestsInitInv, RequestsStepInv, RequestsInvOrders, PTL DEF RequestsSpec

-----------------------------------------------------------------------------
(***************************************************************************)
(* RateLimits, for any buckets, refills and capacities.                    *)
(***************************************************************************)

StoredTypeOK ==
  /\ stored \in [Bucket -> [tokens : Int, updated : Nat, expires : Nat]]
  /\ \A b \in Bucket : stored[b] # NotStored => stored[b].tokens \in 0 .. Capacity[b]

(* A key in Redis outlives twice the time in which its bucket fills. *)
ExpireFull ==
  \A b \in SharedBucket :
    stored[b] # NotStored => stored[b].expires = stored[b].updated + ExpiresIn(b)

(* What a stretch of time took out of a bucket beyond its refills is not in it now. *)
Accounted == \A b \in Bucket : excess[b] + Level(b) <= Capacity[b]

RatesInv ==
  /\ now \in Nat /\ advances \in 0 .. MaxAdvance /\ back \in 0 .. MaxStepsBack
  /\ now <= advances
  /\ StoredTypeOK
  /\ excess \in [Bucket -> Nat]
  /\ ExpireFull /\ Accounted

(* What has been refilled in some ticks, and in one more. *)
LEMMA RefillOf ==
  ASSUME NEW d \in Nat, NEW e \in Nat, NEW r \in Nat
  PROVE  /\ d * r \in Nat
         /\ (d + 1) * r = d * r + r
         /\ d <= e => d * r <= e * r
  OBVIOUS

(* In the time after which its key expires a bucket is filled. *)
LEMMA FilledAtExpiry ==
  ASSUME NEW b \in Bucket
  PROVE  ExpiresIn(b) \in Nat /\ ExpiresIn(b) * Refill[b] >= Capacity[b]
<1> DEFINE a == 2 * Capacity[b] + Refill[b] - 1
<1>1. Capacity[b] \in Nat \ {0} /\ Refill[b] \in Nat \ {0} /\ a \in Nat
  BY BucketAssumption
<1>2. ASSUME NEW n \in Nat, NEW r \in Nat \ {0}
      PROVE  (n \div r) \in Nat /\ (n \div r) * r > n - r
  OBVIOUS
<1>3. (a \div Refill[b]) \in Nat /\ (a \div Refill[b]) * Refill[b] > a - Refill[b]
  BY <1>1, <1>2
<1>4. (a \div Refill[b]) * Refill[b] \in Nat
  BY <1>1, <1>3, RefillOf
<1> HIDE DEF a
<1>5. a - Refill[b] = 2 * Capacity[b] - 1
  BY <1>1 DEF a
<1>6. (a \div Refill[b]) * Refill[b] >= Capacity[b]
  BY <1>1, <1>3, <1>4, <1>5
<1> QED BY <1>3, <1>6 DEF ExpiresIn, a

LEMMA LesserOf == ASSUME NEW c \in Int, NEW x \in Int, x >= c PROVE Lesser(c, x) = c
  BY DEF Lesser

(* What some ticks make of what was in a bucket. *)
Filled(capacity, tokens, ticks, refill) == Lesser(capacity, tokens + Greater(0, ticks) * refill)

LEMMA FilledInBounds ==
  ASSUME NEW c \in Nat, NEW t \in 0 .. c, NEW d \in Int, NEW r \in Nat
  PROVE  /\ Filled(c, t, d, r) \in t .. c
         /\ Filled(c, t, d - 1, r) <= Filled(c, t, d, r)
         /\ Filled(c, t, d + 1, r) <= Filled(c, t, d, r) + r
<1>1. \A e \in Int : Greater(0, e) \in Nat
  BY DEF Greater
<1>2. \A e \in Int : Greater(0, e) * r \in Nat
  BY <1>1, RefillOf
<1>3. ASSUME NEW e \in Int
      PROVE  Greater(0, e + 1) * r = Greater(0, e) * r \/ Greater(0, e + 1) * r = Greater(0, e) * r + r
  <2>1. Greater(0, e + 1) = Greater(0, e) \/ Greater(0, e + 1) = Greater(0, e) + 1
    BY DEF Greater
  <2> QED BY <1>1, <2>1, RefillOf
<1>4. d - 1 \in Int /\ d + 1 \in Int /\ (d - 1) + 1 = d
  OBVIOUS
<1>5. \/ Greater(0, d) * r = Greater(0, d - 1) * r
      \/ Greater(0, d) * r = Greater(0, d - 1) * r + r
  BY <1>3, <1>4
<1>6. \/ Greater(0, d + 1) * r = Greater(0, d) * r
      \/ Greater(0, d + 1) * r = Greater(0, d) * r + r
  BY <1>3
<1>7. Greater(0, d) * r \in Nat /\ Greater(0, d - 1) * r \in Nat /\ Greater(0, d + 1) * r \in Nat
  BY <1>2, <1>4
<1> QED BY <1>5, <1>6, <1>7 DEF Filled, Lesser

LEMMA FilledAtOnce ==
  ASSUME NEW c \in Nat, NEW t \in 0 .. c, NEW d \in Int, NEW r \in Nat, d <= 0
  PROVE  Filled(c, t, d, r) = t
<1>1. Greater(0, d) = 0 /\ 0 * r = 0 /\ c \in Int /\ t <= c
  BY DEF Greater
<1>2. t + Greater(0, d) * r = t
  BY <1>1
<1> QED BY <1>1, <1>2 DEF Filled, Lesser

LEMMA LevelIsFilled ==
  ASSUME NEW b \in Bucket, stored[b] # NotStored
  PROVE  Level(b) = Filled(Capacity[b], stored[b].tokens, now - stored[b].updated, Refill[b])
  BY DEF Level, Filled

LEMMA LevelIsFilledNext ==
  ASSUME NEW b \in Bucket, stored'[b] # NotStored
  PROVE  Level(b)' = Filled(Capacity[b], stored'[b].tokens, now' - stored'[b].updated, Refill[b])
<1>1. Level(b)' = IF stored'[b] = NotStored THEN Capacity[b]
                  ELSE Lesser(Capacity[b], stored'[b].tokens
                              + Greater(0, now' - stored'[b].updated) * Refill[b])
  BY DEF Level, Lesser, Greater, NotStored
<1> QED BY <1>1 DEF Filled

(* The level of a bucket is between nothing and its capacity. *)
LEMMA LevelInBounds ==
  ASSUME StoredTypeOK, now \in Nat, NEW b \in Bucket
  PROVE  Level(b) \in 0 .. Capacity[b]
<1>1. Capacity[b] \in Nat /\ Refill[b] \in Nat
  BY BucketAssumption
<1>2. CASE stored[b] = NotStored
  BY <1>1, <1>2 DEF Level
<1>3. CASE stored[b] # NotStored
  <2>1. stored[b].tokens \in 0 .. Capacity[b] /\ now - stored[b].updated \in Int
    BY <1>3 DEF StoredTypeOK
  <2>2. Filled(Capacity[b], stored[b].tokens, now - stored[b].updated, Refill[b])
          \in stored[b].tokens .. Capacity[b]
    BY ONLY <1>1, <2>1, FilledInBounds
  <2>3. Level(b) \in stored[b].tokens .. Capacity[b]
    BY <1>3, <2>2, LevelIsFilled
  <2> QED BY ONLY <1>1, <2>1, <2>3
<1> QED BY <1>2, <1>3

LEMMA RatesInitInv == RatesInit => RatesInv
<1> SUFFICES ASSUME RatesInit PROVE RatesInv
  OBVIOUS
<1>1. \A b \in Bucket : Level(b) = Capacity[b] /\ Capacity[b] \in Nat
  BY BucketAssumption DEF RatesInit, Level
<1>2. StoredTypeOK /\ ExpireFull
  BY DEF RatesInit, StoredTypeOK, ExpireFull, NotStored, Bucket
<1>3. Accounted
  BY <1>1 DEF RatesInit, Accounted
<1> QED BY <1>2, <1>3, BucketAssumption DEF RatesInit, RatesInv

(* A tick of the clock puts no more into a bucket than it takes off the excess. *)
LEMMA AdvancesInv == ASSUME RatesInv, Advances PROVE RatesInv'
<1> USE DEF RatesInv, Advances
<1>1. /\ StoredTypeOK' /\ ExpireFull'
      /\ now' \in Nat /\ advances' \in 0 .. MaxAdvance /\ now' <= advances'
      /\ back' \in 0 .. MaxStepsBack
  BY BucketAssumption DEF StoredTypeOK, ExpireFull, ExpiresIn
<1>2. \A b \in Bucket : /\ excess[b] \in Nat /\ Refill[b] \in Nat
                        /\ excess'[b] = Greater(0, excess[b] - Refill[b])
  BY BucketAssumption
<1>3. excess' \in [Bucket -> Nat]
  BY <1>2 DEF Greater
<1>4. ASSUME NEW b \in Bucket
      PROVE  Level(b)' <= Level(b) + Refill[b] /\ Level(b)' <= Capacity[b] /\ Level(b)' \in Int
  <2>1. Capacity[b] \in Nat /\ Refill[b] \in Nat
    BY BucketAssumption
  <2>2. CASE stored[b] = NotStored
    BY <2>1, <2>2 DEF Level
  <2>3. CASE stored[b] # NotStored
    <3> DEFINE d == now - stored[b].updated
    <3>1. stored[b].tokens \in 0 .. Capacity[b] /\ d \in Int
      BY <2>3 DEF StoredTypeOK
    <3>2. Level(b) = Filled(Capacity[b], stored[b].tokens, d, Refill[b])
      BY <2>3, LevelIsFilled
    <3>3. stored'[b] = stored[b] /\ now' - stored'[b].updated = d + 1
      BY <2>3 DEF StoredTypeOK
    <3>4. Level(b)' = Filled(Capacity[b], stored[b].tokens, d + 1, Refill[b])
      BY ONLY <2>3, <3>3, LevelIsFilledNext
    <3>5. Level(b) \in 0 .. Capacity[b]
      BY LevelInBounds
    <3>6. d + 1 \in Int
      BY <3>1
    <3> HIDE DEF d
    <3>7. Filled(Capacity[b], stored[b].tokens, d + 1, Refill[b]) \in stored[b].tokens .. Capacity[b]
      BY ONLY <2>1, <3>1, <3>6, FilledInBounds
    <3>8. Filled(Capacity[b], stored[b].tokens, d + 1, Refill[b])
            <= Filled(Capacity[b], stored[b].tokens, d, Refill[b]) + Refill[b]
      BY ONLY <2>1, <3>1, FilledInBounds
    <3> QED BY ONLY <2>1, <3>1, <3>2, <3>4, <3>5, <3>7, <3>8
  <2> QED BY <2>2, <2>3
<1>5. ASSUME NEW b \in Bucket PROVE excess'[b] + Level(b)' <= Capacity[b]
  <2>1. Level(b) \in 0 .. Capacity[b]
    BY <1>1, LevelInBounds
  <2>2. excess[b] + Level(b) <= Capacity[b] /\ Capacity[b] \in Nat
    BY BucketAssumption DEF Accounted
  <2> QED BY <1>2, <1>4, <2>1, <2>2 DEF Greater
<1> QED BY <1>1, <1>3, <1>5 DEF Accounted

(* A clock set back takes from no bucket, whatever it would have been refilled since. *)
LEMMA SetBackInv == ASSUME RatesInv, SetBack PROVE RatesInv'
<1> USE DEF RatesInv, SetBack
<1>1. /\ StoredTypeOK' /\ ExpireFull' /\ excess' \in [Bucket -> Nat]
      /\ now' \in Nat /\ advances' \in 0 .. MaxAdvance /\ now' <= advances'
      /\ back' \in 0 .. MaxStepsBack
  BY BucketAssumption DEF StoredTypeOK, ExpireFull, ExpiresIn
<1>2. ASSUME NEW b \in Bucket PROVE Level(b)' <= Level(b) /\ Level(b)' \in Int
  <2>1. Capacity[b] \in Nat /\ Refill[b] \in Nat
    BY BucketAssumption
  <2>2. CASE stored[b] = NotStored
    BY <2>1, <2>2 DEF Level
  <2>3. CASE stored[b] # NotStored
    <3> DEFINE d == now - stored[b].updated
    <3>1. stored[b].tokens \in 0 .. Capacity[b] /\ d \in Int
      BY <2>3 DEF StoredTypeOK
    <3>2. Level(b) = Filled(Capacity[b], stored[b].tokens, d, Refill[b])
      BY <2>3, LevelIsFilled
    <3>3. stored'[b] = stored[b] /\ now' - stored'[b].updated = d - 1
      BY <2>3 DEF StoredTypeOK
    <3>4. Level(b)' = Filled(Capacity[b], stored[b].tokens, d - 1, Refill[b])
      BY ONLY <2>3, <3>3, LevelIsFilledNext
    <3>5. d - 1 \in Int
      BY <3>1
    <3> HIDE DEF d
    <3>6. Filled(Capacity[b], stored[b].tokens, d - 1, Refill[b]) \in stored[b].tokens .. Capacity[b]
      BY ONLY <2>1, <3>1, <3>5, FilledInBounds
    <3>7. Filled(Capacity[b], stored[b].tokens, d - 1, Refill[b])
            <= Filled(Capacity[b], stored[b].tokens, d, Refill[b])
      BY ONLY <2>1, <3>1, FilledInBounds
    <3> QED BY ONLY <2>1, <3>1, <3>2, <3>4, <3>6, <3>7
  <2> QED BY <2>2, <2>3
<1>3. ASSUME NEW b \in Bucket PROVE excess'[b] + Level(b)' <= Capacity[b]
  <2>1. Level(b) \in 0 .. Capacity[b]
    BY <1>1, LevelInBounds
  <2>2. excess[b] + Level(b) <= Capacity[b] /\ Capacity[b] \in Nat /\ excess[b] \in Nat
    BY BucketAssumption DEF Accounted
  <2> QED BY <1>2, <2>1, <2>2
<1> QED BY <1>1, <1>3 DEF Accounted

(* A bucket that is not written keeps its level while the clock stands. *)
LEMMA SameLevel ==
  ASSUME NEW b \in Bucket, now' = now, stored'[b] = stored[b]
  PROVE  Level(b)' = Level(b)
<1>1. CASE stored[b] = NotStored
  BY <1>1 DEF Level
<1>2. CASE stored[b] # NotStored
  BY <1>2, LevelIsFilled, LevelIsFilledNext
<1> QED BY <1>1, <1>2

(* A bucket just written has the level that was written. *)
LEMMA LevelJustWritten ==
  ASSUME NEW b \in Bucket, NEW t \in 0 .. Capacity[b], NEW e, now \in Nat, now' = now,
         stored'[b] = [tokens |-> t, updated |-> now, expires |-> e]
  PROVE  Level(b)' = t /\ stored'[b] # NotStored
<1>1. Capacity[b] \in Nat /\ Refill[b] \in Nat
  BY BucketAssumption
<1>2. stored'[b].tokens = t /\ stored'[b].updated = now
  OBVIOUS
<1>3. stored'[b] # NotStored
  BY <1>1, <1>2 DEF NotStored
<1> DEFINE d == now' - stored'[b].updated
<1>4. d \in Int /\ d <= 0
  BY <1>2
<1>5. Level(b)' = Filled(Capacity[b], t, d, Refill[b])
  BY ONLY <1>2, <1>3, LevelIsFilledNext
<1> HIDE DEF d
<1>6. Filled(Capacity[b], t, d, Refill[b]) = t
  BY <1>1, <1>4, FilledAtOnce
<1> QED BY <1>3, <1>5, <1>6

(* A bucket whose key expires is full already. *)
LEMMA ExpiresInv == ASSUME RatesInv, NEW b \in SharedBucket, Expires(b) PROVE RatesInv'
<1> USE DEF RatesInv, Expires
<1>1. b \in Bucket /\ now' = now
  BY DEF Bucket
<1>2. \A k \in Bucket : stored'[k] = IF k = b THEN NotStored ELSE stored[k]
  BY <1>1 DEF StoredTypeOK
<1>3. StoredTypeOK' /\ ExpireFull'
  <2>1. NotStored \in [tokens : Int, updated : Nat, expires : Nat]
    BY DEF NotStored
  <2>2. stored' \in [Bucket -> [tokens : Int, updated : Nat, expires : Nat]]
    BY <2>1 DEF StoredTypeOK
  <2>3. \A k \in Bucket : stored'[k] # NotStored => stored'[k].tokens \in 0 .. Capacity[k]
    BY <1>2 DEF StoredTypeOK
  <2>4. \A k \in SharedBucket :
          stored'[k] # NotStored => stored'[k].expires = stored'[k].updated + ExpiresIn(k)
    BY <1>2 DEF ExpireFull, Bucket
  <2> QED BY <2>2, <2>3, <2>4 DEF StoredTypeOK, ExpireFull, NotStored, ExpiresIn
<1>4. Level(b) = Capacity[b]
  <2>1. Capacity[b] \in Nat /\ Refill[b] \in Nat /\ ExpiresIn(b) \in Nat
    BY <1>1, BucketAssumption, FilledAtExpiry
  <2> DEFINE d == now - stored[b].updated
  <2>2. stored[b].updated \in Nat /\ stored[b].expires = stored[b].updated + ExpiresIn(b)
    BY <1>1 DEF StoredTypeOK, ExpireFull
  <2>3. d \in Nat /\ d >= ExpiresIn(b) /\ stored[b].tokens \in 0 .. Capacity[b]
    BY <1>1, <2>1, <2>2 DEF StoredTypeOK
  <2>4. Level(b) = Filled(Capacity[b], stored[b].tokens, d, Refill[b])
    BY <1>1, LevelIsFilled
  <2> HIDE DEF d
  <2>5. d * Refill[b] \in Nat /\ ExpiresIn(b) * Refill[b] <= d * Refill[b]
    BY ONLY <2>1, <2>3, RefillOf
  <2>6. ExpiresIn(b) * Refill[b] >= Capacity[b] /\ ExpiresIn(b) * Refill[b] \in Nat
    BY ONLY <1>1, <2>1, FilledAtExpiry, RefillOf
  <2>7. Greater(0, d) = d
    BY <2>3 DEF Greater
  <2>8. stored[b].tokens + d * Refill[b] >= Capacity[b]
    BY ONLY <2>1, <2>3, <2>5, <2>6
  <2>9. Level(b) = Lesser(Capacity[b], stored[b].tokens + d * Refill[b])
    BY ONLY <2>4, <2>7 DEF Filled
  <2>10. stored[b].tokens + d * Refill[b] \in Int
    BY ONLY <2>1, <2>3, <2>5
  <2> QED BY ONLY <2>1, <2>8, <2>9, <2>10, LesserOf
<1>5. ASSUME NEW k \in Bucket PROVE excess'[k] + Level(k)' <= Capacity[k]
  <2>1. CASE k = b
    <3>1. Level(k)' = Capacity[k]
      BY <1>2, <2>1 DEF Level
    <3> QED BY <1>4, <2>1, <3>1 DEF Accounted
  <2>2. CASE k # b
    BY <1>1, <1>2, <2>2, SameLevel DEF Accounted
  <2> QED BY <2>1, <2>2
<1> QED BY <1>1, <1>3, <1>5 DEF Accounted

(* What the script takes out of a bucket goes onto its excess. *)
LEMMA ConsumeInv ==
  ASSUME RatesInv, NEW cost \in 1 .. MaxCost, NEW buckets \in Charges, Consume(buckets, cost)
  PROVE  RatesInv'
<1> USE DEF RatesInv, Consume
<1>1. now' = now /\ cost \in Nat /\ buckets \subseteq SharedBucket /\ buckets \subseteq Bucket
  BY BucketAssumption DEF Bucket
<1>2. ASSUME NEW b \in Bucket
      PROVE  /\ Level(b) \in 0 .. Capacity[b] /\ excess[b] \in Nat /\ Capacity[b] \in Nat
             /\ ExpiresIn(b) \in Nat
             /\ b \in buckets => Level(b) - cost \in 0 .. Capacity[b]
             /\ excess'[b] = IF b \in buckets THEN excess[b] + cost ELSE excess[b]
             /\ stored'[b] = IF b \in buckets
                             THEN [tokens |-> Level(b) - cost, updated |-> now,
                                   expires |-> now + ExpiresIn(b)]
                             ELSE stored[b]
  <2>1. Level(b) \in 0 .. Capacity[b] /\ Capacity[b] \in Nat
    BY LevelInBounds, BucketAssumption
  <2>2. ExpiresIn(b) \in Nat
    BY FilledAtExpiry
  <2>3. b \in buckets => Level(b) >= cost
    OBVIOUS
  <2> QED BY <1>1, <2>1, <2>2, <2>3 DEF Charge
<1>3. excess' \in [Bucket -> Nat]
  BY <1>1 DEF Charge
<1>4. StoredTypeOK' /\ ExpireFull'
  <2>1. \A b \in buckets :
          /\ stored'[b].tokens = Level(b) - cost /\ stored'[b].updated = now
          /\ stored'[b].expires = now + ExpiresIn(b)
    BY <1>1, <1>2
  <2>2. stored' \in [Bucket -> [tokens : Int, updated : Nat, expires : Nat]]
    <3>1. \A b \in buckets : [tokens |-> Level(b) - cost, updated |-> now,
                              expires |-> now + ExpiresIn(b)]
                               \in [tokens : Int, updated : Nat, expires : Nat]
      BY <1>1, <1>2
    <3> QED BY <1>1, <3>1 DEF StoredTypeOK
  <2>3. \A b \in Bucket : stored'[b] # NotStored => stored'[b].tokens \in 0 .. Capacity[b]
    BY <1>2, <2>1 DEF StoredTypeOK
  <2>4. \A b \in SharedBucket :
          stored'[b] # NotStored => stored'[b].expires = stored'[b].updated + ExpiresIn(b)
    BY <1>2, <2>1 DEF ExpireFull, Bucket
  <2> QED BY <2>2, <2>3, <2>4 DEF StoredTypeOK, ExpireFull, NotStored, ExpiresIn
<1>5. ASSUME NEW b \in Bucket PROVE excess'[b] + Level(b)' <= Capacity[b]
  <2>1. CASE b \in buckets
    <3>1. Level(b)' = Level(b) - cost
      BY <1>1, <1>2, <2>1, LevelJustWritten
    <3> QED BY <1>1, <1>2, <2>1, <3>1 DEF Accounted
  <2>2. CASE b \notin buckets
    BY <1>1, <1>2, <2>2, SameLevel DEF Accounted
  <2> QED BY <2>1, <2>2
<1> QED BY <1>1, <1>3, <1>4, <1>5 DEF Accounted

LEMMA CheckInv ==
  ASSUME RatesInv, NEW cost \in 1 .. MaxCost, NEW b \in LocalBucket, Check(b, cost)
  PROVE  RatesInv'
<1> USE DEF RatesInv
<1> DEFINE granted == Level(b) >= cost
           left    == IF granted THEN Level(b) - cost ELSE Level(b)
<1>1. /\ now' = now /\ advances' = advances /\ back' = back
      /\ cost \in Nat /\ b \in Bucket /\ b \notin SharedBucket
  BY BucketAssumption DEF Check, Bucket
<1>2. Level(b) \in 0 .. Capacity[b] /\ Capacity[b] \in Nat
  BY <1>1, LevelInBounds, BucketAssumption
<1>3. left \in 0 .. Capacity[b]
  BY <1>1, <1>2
<1>4. stored' = [stored EXCEPT ![b] = [tokens |-> left, updated |-> now, expires |-> 0]]
  BY DEF Check
<1>5. \A k \in Bucket : excess'[k] = IF k = b /\ granted THEN excess[k] + cost ELSE excess[k]
  BY DEF Check, Charge
<1>6. excess' \in [Bucket -> Nat]
  <2>1. CASE granted
    BY <1>1, <2>1 DEF Check, Charge
  <2>2. CASE ~granted
    BY <1>1, <2>2 DEF Check
  <2> QED BY <2>1, <2>2
<1> HIDE DEF left
<1>7. \A k \in Bucket :
        stored'[k] = IF k = b THEN [tokens |-> left, updated |-> now, expires |-> 0] ELSE stored[k]
  BY <1>1, <1>4 DEF StoredTypeOK
<1>8. StoredTypeOK' /\ ExpireFull'
  <2>1. stored' \in [Bucket -> [tokens : Int, updated : Nat, expires : Nat]]
    <3>1. [tokens |-> left, updated |-> now, expires |-> 0] \in [tokens : Int, updated : Nat, expires : Nat]
      BY <1>2, <1>3
    <3> QED BY <1>4, <3>1 DEF StoredTypeOK
  <2>2. \A k \in Bucket : stored'[k] # NotStored => stored'[k].tokens \in 0 .. Capacity[k]
    BY <1>3, <1>7 DEF StoredTypeOK
  <2>3. \A k \in SharedBucket :
          stored'[k] # NotStored => stored'[k].expires = stored'[k].updated + ExpiresIn(k)
    BY <1>1, <1>7 DEF ExpireFull, Bucket
  <2> QED BY <2>1, <2>2, <2>3 DEF StoredTypeOK, ExpireFull, NotStored, ExpiresIn
<1>9. ASSUME NEW k \in Bucket PROVE excess'[k] + Level(k)' <= Capacity[k]
  <2>1. excess[k] \in Nat /\ excess[k] + Level(k) <= Capacity[k]
    BY DEF Accounted
  <2>2. CASE k = b
    <3>1. Level(k)' = left
      BY <1>1, <1>3, <1>7, <2>2, LevelJustWritten
    <3> QED BY <1>1, <1>2, <1>5, <2>1, <2>2, <3>1 DEF left
  <2>3. CASE k # b
    BY <1>1, <1>5, <1>7, <2>1, <2>3, SameLevel
  <2> QED BY <2>2, <2>3
<1> QED BY <1>1, <1>6, <1>8, <1>9 DEF Accounted

LEMMA RatesStepInv == RatesInv /\ [RatesNext]_rateVars => RatesInv'
<1> SUFFICES ASSUME RatesInv, [RatesNext]_rateVars PROVE RatesInv'
  OBVIOUS
<1>1. CASE Advances
  BY <1>1, AdvancesInv
<1>2. CASE SetBack
  BY <1>2, SetBackInv
<1>3. ASSUME NEW b \in SharedBucket, Expires(b) PROVE RatesInv'
  BY <1>3, ExpiresInv
<1>4. ASSUME NEW cost \in 1 .. MaxCost, NEW buckets \in Charges, Consume(buckets, cost)
      PROVE  RatesInv'
  BY <1>4, ConsumeInv
<1>5. ASSUME NEW cost \in 1 .. MaxCost, NEW b \in LocalBucket, Check(b, cost) PROVE RatesInv'
  BY <1>5, CheckInv
<1>6. CASE UNCHANGED rateVars
  <2>1. \A b \in Bucket : Level(b)' = Level(b)
    BY <1>6, SameLevel DEF rateVars
  <2> QED BY <1>6, <2>1
          DEF rateVars, RatesInv, StoredTypeOK, ExpireFull, Accounted, NotStored, ExpiresIn
<1> QED BY <1>1, <1>2, <1>3, <1>4, <1>5, <1>6 DEF RatesNext

(* The token buckets of the API and of the secure API: over any stretch of time none      *)
(* gives more than its capacity and what the clock's ticks in it refill, with the clock   *)
(* set back and its key expired at any moment.                                            *)
THEOREM BurstsAreBounded == RatesSpec => [](RatesTypeOK /\ BurstIsBounded)
<1>1. RatesInv => BurstIsBounded
  <2> SUFFICES ASSUME RatesInv, NEW b \in Bucket PROVE excess[b] <= Capacity[b]
    BY DEF BurstIsBounded
  <2>1. Level(b) \in 0 .. Capacity[b]
    BY LevelInBounds DEF RatesInv
  <2>2. excess[b] \in Nat /\ Capacity[b] \in Nat /\ excess[b] + Level(b) <= Capacity[b]
    BY BucketAssumption DEF RatesInv, Accounted
  <2> QED BY <2>1, <2>2
<1>2. RatesInv => RatesTypeOK
  <2> SUFFICES ASSUME RatesInv PROVE RatesTypeOK
    OBVIOUS
  <2>1. now \in 0 .. MaxAdvance
    BY BucketAssumption DEF RatesInv
  <2> QED BY <2>1 DEF RatesInv, RatesTypeOK, StoredTypeOK
<1> QED BY RatesInitInv, RatesStepInv, <1>1, <1>2, PTL DEF RatesSpec

-----------------------------------------------------------------------------
(***************************************************************************)
(* SharedLock, for any objects, any times to live and any commands lost or *)
(* late.                                                                   *)
(***************************************************************************)

(* The key lasts as long as the grant of the object whose token it holds. *)
KeyIsAsGiven == \A l \in LockObject : key.token = l => key.until = given[l]

(* GrantIsKept says who has the key; that it lapses with the grant needs the time it has. *)
LockInv == LockTypeOK /\ GrantIsKept /\ KeyIsAsGiven

LEMMA LockInitInv == LockInit => LockInv
  BY LockAssumption
  DEF LockInit, LockInv, LockTypeOK, GrantIsKept, KeyIsAsGiven, Standing, Idle

(* The key expires exactly when the grant of its object does. *)
LEMMA TickKeepsInv == ASSUME LockInv, LockTick PROVE LockInv'
<1> USE LockAssumption DEF LockInv, LockTick
<1>1. LockTypeOK'
  BY DEF LockTypeOK
<1>2. GrantIsKept'
  BY DEF LockTypeOK, GrantIsKept, KeyIsAsGiven, Standing
<1>3. KeyIsAsGiven'
  BY DEF KeyIsAsGiven
<1> QED BY <1>1, <1>2, <1>3

(* What touches neither the key nor the grants nor the clock keeps the invariant. *)
LEMMA CallsKeepInv ==
  ASSUME LockInv, UNCHANGED <<key, moment, given>>, LockTypeOK'
  PROVE  LockInv'
  BY DEF LockInv, GrantIsKept, KeyIsAsGiven, Standing

LockCall == [acquired : BOOLEAN, call : {"none", "acquire", "release"},
             ran : BOOLEAN, reply : BOOLEAN]

LEMMA RanTypeOK ==
  ASSUME NEW calls \in [LockObject -> LockCall], NEW l \in LockObject, NEW reply \in BOOLEAN,
         NEW ran, ran = [calls EXCEPT ![l].ran = TRUE, ![l].reply = reply]
  PROVE  ran \in [LockObject -> LockCall]
  BY DEF LockCall

(* A command that runs, awaited or late, leaves the calls well typed. *)
LEMMA RunsTypeOK ==
  ASSUME LockTypeOK, NEW l \in LockObject, NEW call \in {"acquire", "release"},
         NEW reply \in BOOLEAN, Runs(l, call, reply)
  PROVE  /\ lock' \in [LockObject -> [acquired : BOOLEAN, call : {"none", "acquire", "release"},
                                      ran : BOOLEAN, reply : BOOLEAN]]
         /\ late' \subseteq LockObject \X {"acquire", "release"}
         /\ moment' = moment
<1>1. CASE /\ lock' = [lock EXCEPT ![l].ran = TRUE, ![l].reply = reply]
           /\ late' = late
  <2>1. lock \in [LockObject -> LockCall] /\ late \subseteq LockObject \X {"acquire", "release"}
    BY DEF LockTypeOK, LockCall
  <2>2. lock' \in [LockObject -> LockCall]
    BY <1>1, <2>1, RanTypeOK, Zenon
  <2> QED BY <1>1, <2>1, <2>2 DEF Runs, LockCall
<1>2. CASE late' = late \ {<<l, call>>} /\ lock' = lock
  BY <1>2 DEF LockTypeOK, Runs
<1> QED BY <1>1, <1>2 DEF Runs

(* SET NX gives the key only when no grant stands. *)
LEMMA AcquireKeepsInv == ASSUME LockInv, NEW l \in LockObject, RunsAcquire(l) PROVE LockInv'
<1> USE LockAssumption DEF LockInv, RunsAcquire
<1>1. LockTypeOK'
  <2>1. moment \in Nat /\ LockTtl[l] \in Nat
    BY DEF LockTypeOK
  <2>2. key' \in [token : LockObject \cup {Nobody}, until : Nat] /\ given' \in [LockObject -> Nat]
    BY <2>1 DEF LockTypeOK
  <2> QED BY <2>2, RunsTypeOK DEF LockTypeOK
<1>2. moment' = moment /\ moment \in Nat /\ LockTtl[l] \in Nat \ {0}
  BY DEF Runs, LockTypeOK
<1>3. CASE key.token = Nobody
  <2>1. \A k \in LockObject : given'[k] = IF k = l THEN moment + LockTtl[l] ELSE given[k]
    BY <1>3 DEF LockTypeOK
  <2>2. GrantIsKept'
    BY <1>2, <1>3, <2>1 DEF GrantIsKept, Standing
  <2>3. KeyIsAsGiven'
    BY <1>3, <2>1 DEF KeyIsAsGiven
  <2> QED BY <1>1, <2>2, <2>3
<1>4. CASE key.token # Nobody
  BY <1>1, <1>2, <1>4, CallsKeepInv
<1> QED BY <1>3, <1>4

(* A release that runs takes the key from its own object only. *)
LEMMA ReleaseKeepsInv == ASSUME LockInv, NEW l \in LockObject, RunsRelease(l) PROVE LockInv'
<1> USE LockAssumption DEF LockInv, RunsRelease
<1>1. LockTypeOK'
  <2>1. key' \in [token : LockObject \cup {Nobody}, until : Nat] /\ given' \in [LockObject -> Nat]
    BY DEF LockTypeOK
  <2>2. OwnToken(l) \in BOOLEAN
    BY DEF OwnToken
  <2> QED BY <2>1, <2>2, RunsTypeOK DEF LockTypeOK
<1>2. moment' = moment /\ moment \in Nat
  BY DEF Runs, LockTypeOK
<1>3. \A k \in LockObject : given'[k] = IF k = l THEN 0 ELSE given[k]
  BY DEF LockTypeOK
<1>4. GrantIsKept'
  BY <1>2, <1>3 DEF GrantIsKept, Standing, OwnToken
<1>5. KeyIsAsGiven'
  BY <1>3 DEF KeyIsAsGiven, OwnToken
<1> QED BY <1>1, <1>4, <1>5

LEMMA LockStepInv == LockInv /\ [LockNext]_lockVars => LockInv'
<1> SUFFICES ASSUME LockInv, [LockNext]_lockVars PROVE LockInv'
  OBVIOUS
<1>1. CASE LockTick
  BY <1>1, TickKeepsInv
<1>2. ASSUME NEW l \in LockObject, NEW call \in {"acquire", "release"}, Sends(l, call)
      PROVE  LockInv'
  <2>1. LockTypeOK'
    BY <1>2 DEF LockInv, LockTypeOK, Sends
  <2> QED BY <1>2, <2>1, CallsKeepInv DEF Sends
<1>3. ASSUME NEW l \in LockObject, RunsAcquire(l) PROVE LockInv'
  BY <1>3, AcquireKeepsInv
<1>4. ASSUME NEW l \in LockObject, RunsRelease(l) PROVE LockInv'
  BY <1>4, ReleaseKeepsInv
<1>5. ASSUME NEW l \in LockObject, Answered(l) PROVE LockInv'
  <2>1. LockTypeOK'
    BY <1>5 DEF LockInv, LockTypeOK, Answered, Idle
  <2> QED BY <1>5, <2>1, CallsKeepInv DEF Answered
<1>6. ASSUME NEW l \in LockObject, AnswerLost(l) PROVE LockInv'
  <2>1. lock[l].call \in {"acquire", "release"}
    BY <1>6 DEF LockInv, LockTypeOK, AnswerLost
  <2>2. LockTypeOK'
    BY <1>6, <2>1 DEF LockInv, LockTypeOK, AnswerLost, Idle
  <2> QED BY <1>6, <2>2, CallsKeepInv DEF AnswerLost
<1>7. CASE UNCHANGED lockVars
  BY <1>7 DEF lockVars, LockInv, LockTypeOK, GrantIsKept, KeyIsAsGiven, Standing
<1> QED BY <1>1, <1>2, <1>3, <1>4, <1>5, <1>6, <1>7 DEF LockNext

(* DistributedLock: an object that was given the key has it, alone, until its time runs   *)
(* out or its own release runs, whatever commands of others come late or twice.           *)
THEOREM LockIsKept == LockSpec => [](LockTypeOK /\ GrantIsKept)
<1>1. LockInv => LockTypeOK /\ GrantIsKept
  BY DEF LockInv
<1> QED BY LockInitInv, LockStepInv, <1>1, PTL DEF LockSpec
===============================================================================
