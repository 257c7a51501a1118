----------------------------- MODULE AgentRuntime -----------------------------
(***************************************************************************)
(* The control of one agent execution by people: InterruptInbox, which     *)
(* takes their decisions, and RuntimeStore, which starts, resumes and      *)
(* cancels the execution of one (tenant, incident, thread) and keeps its   *)
(* timeline.                                                               *)
(*                                                                         *)
(* Consoles talk to both over HTTP: a decision or a command, once written, *)
(* may arrive late, more than once, or after others, so what was written   *)
(* stays in "decisions" and "commands" and any of it may arrive next.      *)
(* Digests are injective, so a fingerprint is the thing itself, and a      *)
(* checkpoint is the start command and the decisions that led to it.       *)
(***************************************************************************)
EXTENDS Integers, Sequences

CONSTANTS Interrupt, Decision, Command, Console,   \* identities
          None,
          Kind,        \* the kind of each interrupt
          Actor,       \* who decides
          Requester,   \* the actor that asked for each interrupt
          Decider      \* the actors whose role, and whose binding to the incident, suit it

ASSUME InterruptAssumption ==
  /\ Kind \in [Interrupt -> {"diagnostic_consent", "remediation_approval", "employee_confirmation"}]
  /\ Requester \in [Interrupt -> Actor]
  /\ Decider \in [Interrupt -> SUBSET Actor]
  /\ None \notin Decision \cup (Command \X Nat)

VARIABLES record,      \* the inbox: the record of each interrupt
          inboxLog,    \* the events of all records, by cursor
          accepted,    \* InterruptInbox.decisions
          decisions,   \* the decisions written so far, by decision_id
          past,        \* interrupts whose expires_at has passed
          execution,   \* the execution under the key
          commands,    \* the commands written so far, by command_id
          console,     \* each console's place in the timeline
          started      \* history: how many executions each start command began

vars == <<record, inboxLog, accepted, decisions, past, execution, commands, console, started>>

inboxVars   == <<record, inboxLog, accepted, decisions, past>>
runtimeVars == <<execution, commands, console, started>>

Outcome == {"approved", "rejected", "declined", "confirmed", "not_fixed", "revoked"}

TERMINAL == Outcome \cup {"expired"}

Allowed(kind) == CASE kind = "diagnostic_consent"    -> {"approved", "declined", "revoked"}
                   [] kind = "remediation_approval"  -> {"approved", "rejected", "revoked"}
                   [] kind = "employee_confirmation" -> {"confirmed", "not_fixed"}

TERMINAL_STATUSES == {"cancelled"}   \* of those in the code, the one a command leads to

Unwritten   == [interrupt |-> None]
NoRecord    == [status |-> "absent", checkpoint |-> <<>>, decision |-> None, version |-> 0]
NoExecution == [status |-> "absent", checkpoint |-> <<>>, processed |-> {}, events |-> <<>>]

TypeOK ==
  /\ \A i \in Interrupt : /\ record[i].status \in {"absent", "pending"} \cup TERMINAL
                          /\ record[i].decision # None <=> record[i].status \in Outcome
  /\ accepted \subseteq Decision
  /\ past \subseteq Interrupt
  /\ execution.status \in {"absent", "running", "cancelled"}
  /\ execution.processed \subseteq Command
  /\ \A c \in Console : /\ console[c].cursor \in Nat
                        /\ \A n \in console[c].got : n <= console[c].cursor

Init ==
  /\ record = [i \in Interrupt |-> NoRecord]
  /\ inboxLog = <<>>
  /\ accepted = {}
  /\ decisions = [d \in Decision |-> Unwritten]
  /\ past = {}
  /\ execution = NoExecution
  /\ commands = [c \in Command |-> [action |-> "none"]]
  /\ console = [c \in Console |-> [cursor |-> 0, got |-> {}, since |-> None]]
  /\ started = [c \in Command |-> 0]
-----------------------------------------------------------------------------
LogInbox(i, status) == inboxLog' = Append(inboxLog, [interrupt |-> i, status |-> status])

\* create: the graph stops at its checkpoint and asks.
Create(i) ==
  /\ record[i].status = "absent"
  /\ execution.status = "running"
  /\ record' = [record EXCEPT ![i] = [status |-> "pending", checkpoint |-> execution.checkpoint,
                                      decision |-> None, version |-> 1]]
  /\ LogInbox(i, "pending")
  /\ UNCHANGED <<accepted, decisions, past, runtimeVars>>

Expire(i) ==
  /\ i \notin past /\ record[i].status # "absent"
  /\ past' = past \cup {i}
  /\ UNCHANGED <<record, inboxLog, accepted, decisions, runtimeVars>>

\* Someone writes a decision on a pending interrupt, at the checkpoint shown with it.
Write(d) ==
  /\ decisions[d] = Unwritten
  /\ \E i \in Interrupt, a \in Actor :
       /\ record[i].status = "pending"
       /\ \E outcome \in Allowed(Kind[i]) :
            decisions' = [decisions EXCEPT ![d] =
              [interrupt |-> i, actor |-> a, outcome |-> outcome,
               expected |-> record[i].checkpoint, late |-> i \in past]]
  /\ UNCHANGED <<record, inboxLog, accepted, past, runtimeVars>>

\* Mutant: decide that does not look whether the interrupt was decided before.
OpenAlways(i) == record[i].status # "absent"

Undecided(i) == record[i].status = "pending"

\* The roles and bindings of decide: an approval is not for the one who asked for it.
Authorised(d) ==
  LET w == decisions[d]
  IN /\ w.actor \in Decider[w.interrupt]
     /\ Kind[w.interrupt] = "remediation_approval" => w.actor # Requester[w.interrupt]

Accept(d) ==
  LET w == decisions[d]
      i == w.interrupt
  IN /\ record' = [record EXCEPT ![i] = [status |-> w.outcome, checkpoint |-> @.checkpoint,
                                         decision |-> d, version |-> @.version + 1]]
     /\ accepted' = accepted \cup {d}
     /\ LogInbox(i, w.outcome)

Lapse(d) == record' = [record EXCEPT ![decisions[d].interrupt].status = "expired"]

\* decide.  A repeat is answered from the record, and so changes nothing; a decision
\* written after the expiry finds out that the interrupt expired.
Decide(d) ==
  LET w == decisions[d]
      i == w.interrupt
  IN /\ w # Unwritten
     /\ d \notin accepted
     /\ Undecided(i)
     /\ w.expected = record[i].checkpoint
     /\ Authorised(d)
     /\ \/ /\ ~w.late
           /\ Accept(d)
        \/ /\ w.late
           /\ Lapse(d)
           /\ LogInbox(i, "expired")
           /\ UNCHANGED accepted
     /\ UNCHANGED <<decisions, past, runtimeVars>>
-----------------------------------------------------------------------------
\* A console writes a command: a start, or a resume or a cancel at the checkpoint it
\* sees.  The fingerprint of a resume may be any: of a decision on this interrupt or on
\* another, accepted, refused, used already or not made at all.
Compose(c) ==
  /\ commands[c].action = "none"
  /\ \/ commands' = [commands EXCEPT ![c] = [action |-> "start"]]
     \/ /\ execution.status # "absent"
        /\ \/ commands' = [commands EXCEPT ![c] =
                [action |-> "cancel", expected |-> execution.checkpoint]]
           \/ \E d \in Decision :
                commands' = [commands EXCEPT ![c] =
                  [action |-> "resume", expected |-> execution.checkpoint, decision |-> d]]
  /\ UNCHANGED <<inboxVars, execution, console, started>>

Event(c) == [command |-> c, action |-> commands[c].action]

\* apply, the start: over nothing, or over an execution that has ended.
Start(c) ==
  /\ commands[c].action = "start"
  /\ c \notin execution.processed
  /\ execution.status \in {"absent"} \cup TERMINAL_STATUSES
  /\ started' = [started EXCEPT ![c] = @ + 1]
  /\ execution' = [status |-> "running", checkpoint |-> <<c>>, processed |-> {c},
                   events |-> <<Event(c)>>]
  /\ UNCHANGED <<inboxVars, commands, console>>

\* Mutant: resume and cancel that do not compare the checkpoint.
CurrentAlways(c) == TRUE

AtCheckpoint(c) == commands[c].expected = execution.checkpoint

\* Mutant: resume leaves the checkpoint where it is.
SameCheckpoint(c) == execution.checkpoint

\* The fingerprint is not looked up anywhere: any 64 characters do.
NextCheckpoint(c) == Append(execution.checkpoint, commands[c].decision)

Resume(c) ==
  /\ commands[c].action = "resume"
  /\ c \notin execution.processed
  /\ execution.status = "running"
  /\ AtCheckpoint(c)
  /\ execution' = [execution EXCEPT !.checkpoint = NextCheckpoint(c),
                                    !.processed = @ \cup {c},
                                    !.events = Append(@, Event(c))]
  /\ UNCHANGED <<inboxVars, commands, console, started>>

Cancel(c) ==
  /\ commands[c].action = "cancel"
  /\ c \notin execution.processed
  /\ execution.status = "running"
  /\ AtCheckpoint(c)
  /\ execution' = [execution EXCEPT !.status = "cancelled",
                                    !.processed = @ \cup {c},
                                    !.events = Append(@, Event(c))]
  /\ UNCHANGED <<inboxVars, commands, console, started>>
-----------------------------------------------------------------------------
\* Mutant: stream takes the cursor for the number of events to skip and one more.
AfterStrictly(cursor) == {n \in 1..Len(execution.events) : n > cursor + 1}

\* stream: the events after a cursor.
After(cursor) == {n \in 1..Len(execution.events) : n > cursor}

\* Which execution of the thread this is: its start command, and which time.
Incarnation == <<execution.checkpoint[1], started[execution.checkpoint[1]]>>

\* A console reads on from its cursor; some of the answer may be lost on the way, and it
\* keeps the last event that arrived.
Follow(c) ==
  /\ After(console[c].cursor) # {}
  /\ \E n \in After(console[c].cursor) :
       console' = [console EXCEPT ![c] =
         [cursor |-> n,
          got    |-> @.got \cup {m \in After(@.cursor) : m <= n},
          since  |-> IF @.since = None THEN Incarnation ELSE @.since]]
  /\ UNCHANGED <<inboxVars, execution, commands, started>>
-----------------------------------------------------------------------------
Next ==
  \/ \E i \in Interrupt : Create(i) \/ Expire(i)
  \/ \E d \in Decision : Write(d) \/ Decide(d)
  \/ \E c \in Command : Compose(c) \/ Start(c) \/ Resume(c) \/ Cancel(c)
  \/ \E c \in Console : Follow(c)

Spec == Init /\ [][Next]_vars
-----------------------------------------------------------------------------
\* An interrupt is settled once, whatever arrives later: its events are its creation and
\* at most one verdict, the verdict is its status, and the one decision accepted on it
\* is the decision the record shows.
OneVerdict ==
  \A i \in Interrupt :
    LET told == {n \in 1..Len(inboxLog) : inboxLog[n].interrupt = i}
        r    == record[i]
    IN /\ r.status = "absent"  => told = {}
       /\ r.status = "pending" => \E m \in told : told = {m} /\ inboxLog[m].status = "pending"
       /\ r.status \in TERMINAL =>
            \E m, n \in told : /\ told = {m, n} /\ m < n
                              /\ inboxLog[m].status = "pending" /\ inboxLog[n].status = r.status
       /\ {d \in accepted : decisions[d].interrupt = i} = {r.decision} \ {None}
       /\ r.decision # None => decisions[r.decision].outcome = r.status

\* The execution is where its timeline says, and every command of it acted at the very
\* point its console saw when it wrote it, and took it on from there.  So of two consoles
\* that answer one question, or of a resume and its retry under another command written at
\* the same point, one acts, in whatever order they arrive and however late.
CommandsActWhereSeen ==
  LET path == execution.checkpoint
      told(n) == commands[execution.events[n].command]
  IN /\ Len(execution.events) = Len(path) + (IF execution.status = "cancelled" THEN 1 ELSE 0)
     /\ \A n \in 2..Len(execution.events) : told(n).expected = SubSeq(path, 1, n - 1)
     /\ \A n \in 2..Len(path) : told(n).action = "resume" /\ told(n).decision = path[n]

\* "Resume requires the exact current checkpoint plus a server-validated human-decision
\* fingerprint": an execution is resumed only with decisions the inbox has accepted.
ResumesAreValidated ==
  \A n \in 2..Len(execution.checkpoint) : execution.checkpoint[n] \in accepted

\* A console that has read nothing but this execution was given every event up to its
\* cursor, however often it lost the rest of an answer and asked again.
TimelineHasNoHoles ==
  \A c \in Console :
    console[c].since # None /\ console[c].since = Incarnation =>
      console[c].got = 1..console[c].cursor

\* "Start is idempotent": a start command, sent again, begins no other execution.
StartOnce == \A c \in Command : started[c] <= 1
===============================================================================
