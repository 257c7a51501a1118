----------------------------- MODULE HumanCustody -----------------------------
(***************************************************************************)
(* The API's in-memory stores of what people do with an incident the agent *)
(* gave up on: HandoffStore, a case from its queue to a resolver and back  *)
(* to the agent, and ClosureStore, the closures and reopenings.  A call is *)
(* atomic; resolvers race for a case and repeat calls.  One tenant.        *)
(***************************************************************************)
EXTENDS Naturals, Sequences

CONSTANTS Case, Incident,
          Resolver,      \* subjects with a role that resolves and closes
          Requester,     \* subjects with a role that hands off
          Queue, Agent,  \* the owning team, and "agent_supervisor"
          Closure,       \* closure requests, by their digest
          MaxEvents      \* bound: custody events, and audit events, of one row

ASSUME CustodyAssumption == MaxEvents \in Nat \ {0}

VARIABLES case,   \* HandoffStore.rows
          row     \* ClosureStore.rows, with what each close call returned

custodyVars == <<case, row>>

Unowned == "unowned"   \* None, as an owner

Party == Resolver \cup Requester \cup {Queue, Agent, Unowned}

NoCase == [status |-> "absent", owner |-> Unowned, changed |-> FALSE, events |-> <<>>]
NoRow  == [status |-> "absent", closure |-> <<>>, audit |-> <<>>, returned |-> {}]

CustodyTypeOK ==
  /\ case \in [Case -> [status : {"absent", "queued", "acknowledged", "verification_required",
                                  "returned_for_verification"},
                        owner : Party, changed : BOOLEAN,
                        events : Seq([type : {"queued", "acknowledged", "human_change",
                                              "returned_for_verification"},
                                      actor : Party, from : Party, to : Party])]]
  /\ row \in [Incident -> [status : {"absent", "active", "closed", "reopened"},
                           closure : Seq(Closure),
                           audit : Seq([type : {"closed", "reopened"}, of : Seq(Closure)]),
                           returned : SUBSET Closure]]

CustodyInit ==
  /\ case = [c \in Case |-> NoCase]
  /\ row = [i \in Incident |-> NoRow]
-----------------------------------------------------------------------------
Event(type, actor, from, to) == [type |-> type, actor |-> actor, from |-> from, to |-> to]

\* What a call makes of the case, with the event it appends.
Custody(c, status, owner, changed, event) ==
  /\ Len(case[c].events) < MaxEvents
  /\ case' = [case EXCEPT ![c] = [status |-> status, owner |-> owner, changed |-> changed,
                                  events |-> Append(case[c].events, event)]]
  /\ UNCHANGED row

\* create: an id that is taken is denied.
HandOff(c, p) ==
  /\ case[c] = NoCase
  /\ Custody(c, "queued", Unowned, FALSE, Event("queued", p, Unowned, Queue))

\* Mutant: acknowledge that takes over a case somebody has.
IsQueued(c) == case[c].status \in {"queued", "acknowledged"}

Acknowledgeable(c) == case[c].status = "queued"

Acknowledge(c, p) ==
  /\ Acknowledgeable(c)
  /\ Custody(c, "acknowledged", p, case[c].changed, Event("acknowledged", p, Queue, p))

RecordChange(c, p) ==
  /\ case[c].status = "acknowledged" /\ case[c].owner = p
  /\ Custody(c, "verification_required", p, TRUE, Event("human_change", p, p, p))

\* return_to_agent: the owner and the flag are asked for, not the status, and neither is
\* changed: the event hands the case to the agent, the row keeps it with the resolver.
ReturnToAgent(c, p) ==
  /\ case[c].owner = p /\ case[c].changed
  /\ Custody(c, "returned_for_verification", p, TRUE,
             Event("returned_for_verification", p, p, Agent))
-----------------------------------------------------------------------------
\* close puts the row before it looks at the request, so a request denied for its checks
\* or the employee's answer leaves an active row behind.
Rejected(i) ==
  /\ row[i].status = "absent"
  /\ row' = [row EXCEPT ![i].status = "active"]
  /\ UNCHANGED case

\* The record of a request whose checks all passed and that the employee confirmed.
Close(i, q) ==
  /\ row[i].status # "closed"
  /\ Len(row[i].audit) < MaxEvents
  /\ row' = [row EXCEPT ![i] =
       [status |-> "closed", closure |-> <<q>>,
        audit |-> Append(row[i].audit, [type |-> "closed", of |-> <<q>>]),
        returned |-> row[i].returned \cup {q}]]
  /\ UNCHANGED case

Reopen(i) ==
  /\ row[i].status = "closed"
  /\ Len(row[i].audit) < MaxEvents
  /\ row' = [row EXCEPT ![i].status = "reopened",
                        ![i].audit = Append(@, [type |-> "reopened", of |-> <<>>])]
  /\ UNCHANGED case

CustodyNext ==
  \/ \E c \in Case : \/ \E p \in Requester : HandOff(c, p)
                     \/ \E p \in Resolver : \/ Acknowledge(c, p) \/ RecordChange(c, p)
                                            \/ ReturnToAgent(c, p)
  \/ \E i \in Incident : Rejected(i) \/ Reopen(i) \/ \E q \in Closure : Close(i, q)

CustodySpec == CustodyInit /\ [][CustodyNext]_custodyVars
-----------------------------------------------------------------------------
\* The status a case has after an event.
StatusAfter(type) == CASE type = "queued"                    -> "queued"
                       [] type = "acknowledged"              -> "acknowledged"
                       [] type = "human_change"              -> "verification_required"
                       [] type = "returned_for_verification" -> "returned_for_verification"

IsReturn(e) == e.type = "returned_for_verification"

\* "Becomes its single human custodian": however resolvers race and repeat their calls, a
\* case is acknowledged once, and whoever changed it or gave it back is who acknowledged
\* it; it is never given back unless its custodian changed something before, and once given
\* back nothing happens to it any more, except that the same custodian gives it back again
\* (the flag that allows a return is never cleared).
SingleCustodian ==
  \A c \in Case :
    LET events == case[c].events
    IN \A n \in 1 .. Len(events) :
         LET e      == events[n]
             before == {events[m] : m \in 1 .. n - 1}
             acks   == {b \in before : b.type = "acknowledged"}
         IN /\ e.type = "acknowledged" => acks = {}
            /\ e.type \in {"human_change", "returned_for_verification"} =>
                 acks # {} /\ \A a \in acks : a.actor = e.actor
            /\ IsReturn(e) => \E b \in before : b.type = "human_change"
            /\ (\E b \in before : IsReturn(b)) => IsReturn(e)

\* The events tell who has a case and how it stands: each takes it from whom the one before
\* gave it to, and the row names the status of the last and whom it gave the case to.  A
\* return is the exception: its event gives the case to the agent, but the owner stays who
\* he was, and a second return takes the case from him again.
EventsTellCustody ==
  \A c \in Case :
    LET events == case[c].events
        \* The m-th event is the last before the n-th that is no return.
        GaveLast(m, n) == ~IsReturn(events[m]) /\ \A k \in m + 1 .. n - 1 : IsReturn(events[k])
    IN /\ events # <<>> => case[c].status = StatusAfter(events[Len(events)].type)
       /\ \A m \in 1 .. Len(events) :
            /\ \A n \in m + 1 .. Len(events) :
                 GaveLast(m, n) => events[n].from = events[m].to
            /\ GaveLast(m, Len(events) + 1) /\ case[c].status # "queued" =>
                 case[c].owner = events[m].to

\* Every closure ever returned is on the audit trail, closures and reopenings alternate
\* on it, and a row shows the closure that was made last.
ClosuresAudited ==
  \A i \in Incident :
    LET a == row[i].audit
    IN /\ row[i].returned = {q \in Closure : \E n \in 1 .. Len(a) : a[n].of = <<q>>}
       /\ \A n \in 1 .. Len(a) : a[n].type = IF n % 2 = 1 THEN "closed" ELSE "reopened"
       /\ \A n \in 1 .. Len(a) :
            a[n].type = "closed" /\ (\A m \in n + 1 .. Len(a) : a[m].type # "closed")
              => row[i].closure = a[n].of

CustodyIsTraceable == SingleCustodian /\ EventsTellCustody /\ ClosuresAudited
===============================================================================
