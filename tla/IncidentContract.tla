--------------------------- MODULE IncidentContract ---------------------------
(***************************************************************************)
(* What the incident API promises its clients, with transactions, locks,   *)
(* idempotency records, retries and lost answers left out: a mutation      *)
(* happens at one moment, on the version of the incident its client        *)
(* named, at most once for its key; and the transitions of a tenant are    *)
(* one log, in the order in which they happened.  IncidentRequests         *)
(* implements it.                                                          *)
(***************************************************************************)
EXTENDS Integers, Sequences

CONSTANTS Incident,
          Slot,          \* what a key is for: <<operation, incident, key>>
          Target,        \* the statuses clients ask for
          None,
          TRANSITIONS    \* the statuses each status can be left for

VARIABLES table,     \* the incidents: status and version
          effects,   \* the mutations made, each with its key and what was asked
          log        \* the transitions of the tenant, oldest first

vars == <<table, effects, log>>

Missing == [status |-> "absent", version |-> 0]

Init == /\ table = [i \in Incident |-> Missing]
        /\ effects = {}
        /\ log = <<>>

\* The request under key x, for target, takes incident i to its next version.
Act(x, target, i, status) ==
  LET named == table[i].version
  IN /\ \A e \in effects : e.slot # x
     /\ table' = [table EXCEPT ![i] = [status |-> status, version |-> named + 1]]
     /\ effects' = effects \cup {[slot   |-> x,
                                  print  |-> <<target, named>>,
                                  result |-> [incident |-> i, version |-> named + 1]]}

Create(x, i) == /\ x[1] = "create"
                /\ table[i] = Missing
                /\ Act(x, None, i, "new")
                /\ UNCHANGED log

Update(x, i) == /\ x[1] = "update" /\ x[2] = i
                /\ table[i] # Missing
                /\ Act(x, None, i, table[i].status)
                /\ UNCHANGED log

Transition(x, i, target) ==
  /\ x[1] = "transition" /\ x[2] = i
  /\ table[i] # Missing
  /\ target \in TRANSITIONS[table[i].status]
  /\ Act(x, target, i, target)
  /\ log' = Append(log, [incident |-> i, version |-> table[i].version + 1, to |-> target])

Next == \E x \in Slot, i \in Incident :
          \/ Create(x, i) \/ Update(x, i)
          \/ \E target \in Target : Transition(x, i, target)

Spec == Init /\ [][Next]_vars
===============================================================================
