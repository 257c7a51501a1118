-------------------------- MODULE AgentRuntimeProofs --------------------------
(***************************************************************************)
(* Theorems about AgentRuntime for any interrupts, decisions, commands,    *)
(* consoles, actors and bindings.                                          *)
(***************************************************************************)
EXTENDS AgentRuntime, SequenceTheorems, TLAPS

Path == Seq(Command \cup Decision)

Row == [status : {"absent", "pending"} \cup TERMINAL, checkpoint : Path,
        decision : Decision \cup {None}, version : Nat]

EventRow == [command : Command, action : {"start", "resume", "cancel"}]

Execution == [status : {"absent", "running", "cancelled"}, checkpoint : Path,
              processed : SUBSET Command,
              events : Seq(EventRow)]

(* CommandsActWhereSeen, of a path and a timeline with so many events more than the path. *)
Follows(path, evs, cmds, more) ==
  /\ Len(evs) = Len(path) + more
  /\ \A n \in 2..Len(evs) : cmds[evs[n].command].expected = SubSeq(path, 1, n - 1)
  /\ \A n \in 2..Len(path) : /\ cmds[evs[n].command].action = "resume"
                             /\ cmds[evs[n].command].decision = path[n]

More(status) == IF status = "cancelled" THEN 1 ELSE 0

Entry == [interrupt : Interrupt, status : {"pending"} \cup TERMINAL]

Told(log, i) == {n \in 1..Len(log) : log[n].interrupt = i}

(* What OneVerdict says of the log of an interrupt, and of the decisions accepted on it. *)
Tells(log, i, status) ==
  /\ status = "absent"  => Told(log, i) = {}
  /\ status = "pending" => \E m \in Told(log, i) : Told(log, i) = {m} /\ log[m].status = "pending"
  /\ status \in TERMINAL =>
       \E m, n \in Told(log, i) : /\ Told(log, i) = {m, n} /\ m < n
                                 /\ log[m].status = "pending" /\ log[n].status = status

Shows(acc, dec, i, row) ==
  /\ {d \in acc : dec[d].interrupt = i} = {row.decision} \ {None}
  /\ row.decision # None => dec[row.decision].outcome = row.status

(* The inbox: a decision accepted was written, and is the one its interrupt shows. *)
InboxOK ==
  /\ record \in [Interrupt -> Row]
  /\ \A i \in Interrupt : record[i].decision # None <=> record[i].status \in Outcome
  /\ decisions = [d \in Decision |-> decisions[d]]
  /\ \A d \in Decision : decisions[d] # Unwritten =>
       decisions[d].interrupt \in Interrupt /\ decisions[d].outcome \in Outcome
  /\ accepted \subseteq Decision /\ past \subseteq Interrupt
  /\ \A d \in accepted : decisions[d] # Unwritten
  /\ inboxLog \in Seq(Entry)
  /\ \A i \in Interrupt : /\ Tells(inboxLog, i, record[i].status)
                          /\ Shows(accepted, decisions, i, record[i])

(* A command written to resume carries some fingerprint.                                  *)
CommandsOK ==
  /\ commands = [c \in Command |-> commands[c]]
  /\ \A c \in Command :
       /\ commands[c].action \in {"none", "start", "resume", "cancel"}
       /\ commands[c].action = "resume" => commands[c].decision \in Decision

(* The timeline is made of commands that were written, and leads along the path to the    *)
(* checkpoint.                                                                            *)
PathOK ==
  /\ execution \in Execution
  /\ execution.status = "absent" => execution.checkpoint = <<>> /\ execution.events = <<>>
  /\ execution.status # "absent" => Len(execution.checkpoint) > 0 /\ execution.checkpoint[1] \in Command
  /\ \A m \in 1..Len(execution.events) : commands[execution.events[m].command].action # "none"
  /\ Follows(execution.checkpoint, execution.events, commands, More(execution.status))

(* A console reads one incarnation at first, none that has yet to begin, and without holes. *)
ConsolesOK ==
  /\ started \in [Command -> Nat]
  /\ console = [c \in Console |-> [cursor |-> console[c].cursor, got |-> console[c].got,
                                   since |-> console[c].since]]
  /\ \A c \in Console :
       /\ console[c].cursor \in Nat
       /\ \A n \in console[c].got : n \in Nat /\ n <= console[c].cursor
       /\ console[c].since = None => console[c].cursor = 0 /\ console[c].got = {}
       /\ console[c].since # None =>
            \E k \in Command, n \in Nat : console[c].since = <<k, n>> /\ n <= started[k]
       /\ console[c].since # None /\ console[c].since = Incarnation =>
            /\ console[c].got = 1..console[c].cursor
            /\ console[c].cursor <= Len(execution.events)

IInv == InboxOK /\ CommandsOK /\ PathOK /\ ConsolesOK

LEMMA InitIInv == Init => IInv
<1> SUFFICES ASSUME Init PROVE IInv
  OBVIOUS
<1> USE InterruptAssumption DEF Init
<1>1. NoRecord \in Row /\ NoRecord.status = "absent" /\ NoRecord.decision = None
  BY DEF NoRecord, Row, Path
<1>2. ASSUME NEW i \in Interrupt
      PROVE  /\ Tells(inboxLog, i, record[i].status)
             /\ Shows(accepted, decisions, i, record[i])
  <2>1. Told(inboxLog, i) = {}
    BY DEF Told
  <2>2. record[i].status = "absent" /\ record[i].decision = None
    BY <1>1
  <2> QED BY <2>1, <2>2 DEF Tells, Shows, TERMINAL, Outcome
<1>3. InboxOK
  BY <1>1, <1>2 DEF InboxOK, Outcome
<1>4. CommandsOK
  BY DEF CommandsOK
<1>5. PathOK
  BY DEF PathOK, NoExecution, Execution, Path, Follows, More
<1>6. ConsolesOK
  BY DEF ConsolesOK
<1> QED BY <1>3, <1>4, <1>5, <1>6 DEF IInv

(* What the inbox does leaves the runtime as it is.                                       *)
LEMMA InboxAlone == ASSUME IInv, InboxOK', UNCHANGED runtimeVars PROVE IInv'
<1> USE DEF runtimeVars
<1>1. CommandsOK'
  BY DEF IInv, CommandsOK
<1>2. PathOK'
  BY DEF IInv, PathOK
<1>3. ConsolesOK'
  BY DEF IInv, ConsolesOK, Incarnation
<1> QED BY <1>1, <1>2, <1>3 DEF IInv

(* An entry of another interrupt tells nothing of this one; its own move it on. *)
LEMMA TellsAppend ==
  ASSUME NEW log \in Seq(Entry), NEW e \in Entry, NEW i \in Interrupt, NEW status
  PROVE  /\ Append(log, e) \in Seq(Entry)
         /\ e.interrupt # i /\ Tells(log, i, status) => Tells(Append(log, e), i, status)
         /\ e.interrupt = i /\ Tells(log, i, "absent") /\ e.status = "pending" =>
              Tells(Append(log, e), i, "pending")
         /\ e.interrupt = i /\ Tells(log, i, "pending") /\ e.status \in TERMINAL =>
              Tells(Append(log, e), i, e.status)
<1> DEFINE log2 == Append(log, e)
           len  == Len(log)
<1>1. /\ log2 \in Seq(Entry) /\ Len(log2) = len + 1 /\ len \in Nat
      /\ \A n \in 1..len : log2[n] = log[n]
      /\ log2[len + 1] = e
  BY AppendProperties, LenProperties
<1> HIDE DEF log2, len
<1>2. Told(log, i) \subseteq 1..len
  BY DEF Told, len
<1>3. Told(log2, i) = IF e.interrupt = i THEN Told(log, i) \cup {len + 1} ELSE Told(log, i)
  BY <1>1 DEF Told, len
<1>4. e.interrupt # i /\ Tells(log, i, status) => Tells(log2, i, status)
  BY <1>1, <1>2, <1>3 DEF Tells
<1>5. e.interrupt = i /\ Tells(log, i, "absent") /\ e.status = "pending" => Tells(log2, i, "pending")
  BY <1>1, <1>3 DEF Tells, TERMINAL, Outcome
<1>6. ASSUME e.interrupt = i, Tells(log, i, "pending"), e.status \in TERMINAL
      PROVE  Tells(log2, i, e.status)
  <2>1. PICK m \in Told(log, i) : Told(log, i) = {m} /\ log[m].status = "pending"
    BY <1>6 DEF Tells
  <2>2. /\ Told(log2, i) = {m, len + 1} /\ m < len + 1
        /\ log2[m].status = "pending" /\ log2[len + 1].status = e.status
    BY <1>1, <1>2, <1>3, <1>6, <2>1
  <2>3. e.status # "absent" /\ e.status # "pending"
    BY <1>6 DEF TERMINAL, Outcome
  <2> QED BY <2>2, <2>3 DEF Tells
<1> QED BY <1>1, <1>4, <1>5, <1>6 DEF log2

(* A record that changes with an entry in the log, the others as they were. *)
LEMMA OneRecord ==
  ASSUME InboxOK, NEW i \in Interrupt, NEW row \in Row, record' = [record EXCEPT ![i] = row],
         LogInbox(i, row.status), decisions' = decisions, past' = past, accepted' \subseteq Decision,
         row.decision # None <=> row.status \in Outcome,
         \/ record[i].status = "absent" /\ row.status = "pending"
         \/ record[i].status = "pending" /\ row.status \in TERMINAL,
         \A d \in accepted' : decisions[d] # Unwritten,
         Shows(accepted', decisions, i, row),
         \A d \in Decision : decisions[d].interrupt # i => (d \in accepted' <=> d \in accepted)
  PROVE  InboxOK'
<1> DEFINE e == [interrupt |-> i, status |-> row.status]
<1>1. /\ record' \in [Interrupt -> Row]
      /\ \A k \in Interrupt : record'[k] = IF k = i THEN row ELSE record[k]
  BY DEF InboxOK
<1>2. e \in Entry /\ e.interrupt = i /\ e.status = row.status
  BY DEF Entry, TERMINAL, Outcome
<1>3. inboxLog' = Append(inboxLog, e) /\ inboxLog \in Seq(Entry)
  BY DEF LogInbox, InboxOK
<1> HIDE DEF e
<1>4. inboxLog' \in Seq(Entry)
  BY <1>2, <1>3, TellsAppend
<1>5. ASSUME NEW k \in Interrupt
      PROVE  /\ Tells(inboxLog', k, record'[k].status)
             /\ Shows(accepted', decisions', k, record'[k])
  <2>1. CASE k = i
    <3>1. record[i].status \in {"absent", "pending"} /\ Tells(inboxLog, i, record[i].status)
      BY DEF InboxOK
    <3>2. Tells(inboxLog', i, row.status)
      BY <1>2, <1>3, <3>1, TellsAppend
    <3> QED BY <1>1, <2>1, <3>2
  <2>2. CASE k # i
    <3>1. Tells(inboxLog, k, record[k].status) /\ Shows(accepted, decisions, k, record[k])
          /\ accepted \subseteq Decision
      BY DEF InboxOK
    <3>2. Tells(inboxLog', k, record[k].status)
      BY <1>2, <1>3, <2>2, <3>1, TellsAppend
    <3>3. {d \in accepted' : decisions[d].interrupt = k} = {d \in accepted : decisions[d].interrupt = k}
      BY <2>2, <3>1
    <3>4. Shows(accepted', decisions, k, record[k])
      BY <3>1, <3>3 DEF Shows
    <3> QED BY <1>1, <2>2, <3>2, <3>4
  <2> QED BY <2>1, <2>2
<1> QED BY <1>1, <1>4, <1>5 DEF InboxOK

LEMMA CreateIInv == ASSUME IInv, NEW i \in Interrupt, Create(i) PROVE IInv'
<1> DEFINE row == [status |-> "pending", checkpoint |-> execution.checkpoint,
                   decision |-> None, version |-> 1]
<1>1. /\ row \in Row /\ row.status = "pending" /\ row.decision = None
      /\ record' = [record EXCEPT ![i] = row] /\ LogInbox(i, row.status)
      /\ record[i].status = "absent" /\ record[i].decision = None
      /\ decisions' = decisions /\ past' = past /\ accepted' = accepted /\ UNCHANGED runtimeVars
  BY DEF Create, Row, IInv, PathOK, Execution, InboxOK, Outcome
<1> HIDE DEF row
<1>2. Shows(accepted', decisions, i, row)
  BY <1>1 DEF IInv, InboxOK, Shows
<1>3. row.decision # None <=> row.status \in Outcome
  BY <1>1 DEF Outcome
<1>4. accepted' \subseteq Decision /\ \A d \in accepted' : decisions[d] # Unwritten
  BY <1>1 DEF IInv, InboxOK
<1>5. InboxOK'
  BY <1>1, <1>2, <1>3, <1>4, OneRecord DEF IInv
<1> QED BY <1>1, <1>5, InboxAlone

LEMMA ExpireIInv == ASSUME IInv, NEW i \in Interrupt, Expire(i) PROVE IInv'
<1>1. /\ UNCHANGED <<record, inboxLog, accepted, decisions>> /\ UNCHANGED runtimeVars
      /\ past' \subseteq Interrupt
  BY DEF Expire, IInv, InboxOK
<1>2. InboxOK'
  BY <1>1 DEF IInv, InboxOK
<1> QED BY <1>1, <1>2, InboxAlone

LEMMA WriteIInv == ASSUME IInv, NEW d \in Decision, Write(d) PROVE IInv'
<1>1. PICK i \in Interrupt, a \in Actor :
        /\ record[i].status = "pending"
        /\ \E outcome \in Allowed(Kind[i]) :
             decisions' = [decisions EXCEPT ![d] =
               [interrupt |-> i, actor |-> a, outcome |-> outcome,
                expected |-> record[i].checkpoint, late |-> i \in past]]
  BY DEF Write
<1>2. PICK outcome \in Allowed(Kind[i]) :
        decisions' = [decisions EXCEPT ![d] =
          [interrupt |-> i, actor |-> a, outcome |-> outcome,
           expected |-> record[i].checkpoint, late |-> i \in past]]
  BY <1>1
<1> DEFINE w == [interrupt |-> i, actor |-> a, outcome |-> outcome,
                 expected |-> record[i].checkpoint, late |-> i \in past]
<1>3. outcome \in Outcome
  BY InterruptAssumption DEF Allowed, Outcome
<1>4. w.interrupt = i /\ w.outcome = outcome /\ decisions' = [decisions EXCEPT ![d] = w]
  BY <1>2
<1> HIDE DEF w
<1>5. /\ d \notin accepted /\ decisions = [k \in Decision |-> decisions[k]]
      /\ UNCHANGED <<record, inboxLog, accepted, past>> /\ UNCHANGED runtimeVars
      /\ accepted \subseteq Decision
  BY DEF Write, IInv, InboxOK
<1>6. /\ decisions' = [k \in Decision |-> decisions'[k]]
      /\ \A k \in Decision : decisions'[k] = IF k = d THEN w ELSE decisions[k]
  BY <1>4, <1>5
<1>7. \A k \in accepted : decisions'[k] = decisions[k]
  BY <1>5, <1>6
<1>8. \A k \in Interrupt : Shows(accepted', decisions', k, record'[k])
  <2> TAKE k \in Interrupt
  <2>1. Shows(accepted, decisions, k, record[k])
    BY DEF IInv, InboxOK
  <2>2. {c \in accepted : decisions'[c].interrupt = k} = {c \in accepted : decisions[c].interrupt = k}
    BY <1>7
  <2>3. record[k].decision # None => record[k].decision \in accepted
    BY <2>1 DEF Shows
  <2> QED BY <1>5, <1>7, <2>1, <2>2, <2>3 DEF Shows
<1>9. InboxOK'
  BY <1>3, <1>4, <1>5, <1>6, <1>7, <1>8 DEF IInv, InboxOK
<1> QED BY <1>5, <1>9, InboxAlone

LEMMA DecideIInv == ASSUME IInv, NEW d \in Decision, Decide(d) PROVE IInv'
<1> DEFINE w == decisions[d]
           i == w.interrupt
<1>1. /\ w # Unwritten /\ d \notin accepted /\ i \in Interrupt /\ w.outcome \in Outcome
      /\ record[i] \in Row /\ record[i].status = "pending" /\ record[i].decision = None
      /\ accepted \subseteq Decision /\ record \in [Interrupt -> Row]
      /\ decisions' = decisions /\ past' = past /\ UNCHANGED runtimeVars
  BY DEF Decide, Undecided, IInv, InboxOK, Outcome
<1>2. Shows(accepted, decisions, i, record[i])
  BY <1>1 DEF IInv, InboxOK
<1>4. CASE Accept(d)
  <2> DEFINE row == [status |-> w.outcome, checkpoint |-> record[i].checkpoint,
                 decision |-> d, version |-> record[i].version + 1]
  <2>1. /\ row \in Row /\ row.status = w.outcome /\ row.decision = d
    BY <1>1 DEF Row, TERMINAL
  <2>2. record' = [record EXCEPT ![i] = row] /\ accepted' = accepted \cup {d}
        /\ LogInbox(i, w.outcome)
    BY <1>4 DEF Accept
  <2> HIDE DEF row
  <2>3. Shows(accepted', decisions, i, row)
    <3>1. {c \in accepted' : decisions[c].interrupt = i} = {d}
      BY <1>1, <1>2, <2>2 DEF Shows
    <3>2. d # None
      BY InterruptAssumption
    <3> QED BY <2>1, <3>1, <3>2 DEF Shows
  <2>4. row.decision # None <=> row.status \in Outcome
    BY <1>1, <2>1, InterruptAssumption
  <2>5. /\ accepted' \subseteq Decision /\ \A c \in accepted' : decisions[c] # Unwritten
        /\ \A c \in Decision : decisions[c].interrupt # i => (c \in accepted' <=> c \in accepted)
    BY <1>1, <2>2 DEF IInv, InboxOK
  <2>6. LogInbox(i, row.status) /\ row.status \in TERMINAL
    BY <1>1, <2>1, <2>2 DEF TERMINAL
  <2> HIDE DEF i, w
  <2>7. InboxOK'
    BY <1>1, <2>1, <2>2, <2>3, <2>4, <2>5, <2>6, OneRecord DEF IInv
  <2> QED BY <1>1, <2>7, InboxAlone
<1>5. CASE Lapse(d) /\ LogInbox(i, "expired") /\ UNCHANGED accepted
  <2> DEFINE row == [record[i] EXCEPT !.status = "expired"]
  <2>1. row \in Row /\ row.status = "expired" /\ row.decision = None
    BY <1>1 DEF Row, TERMINAL
  <2>2. record' = [record EXCEPT ![i] = row] /\ accepted' = accepted /\ LogInbox(i, "expired")
    BY <1>5 DEF Lapse
  <2> HIDE DEF row
  <2>3. Shows(accepted', decisions, i, row)
    BY <1>1, <1>2, <2>1, <2>2 DEF Shows
  <2>4. (row.decision # None <=> row.status \in Outcome) /\ row.status \in TERMINAL
    BY <2>1 DEF Outcome, TERMINAL
  <2>5. /\ accepted' \subseteq Decision /\ \A c \in accepted' : decisions[c] # Unwritten
        /\ LogInbox(i, row.status)
    BY <1>1, <2>1, <2>2 DEF IInv, InboxOK
  <2> HIDE DEF i, w
  <2>7. InboxOK'
    BY <1>1, <2>1, <2>2, <2>3, <2>4, <2>5, OneRecord DEF IInv
  <2> QED BY <1>1, <2>7, InboxAlone
<1> QED BY <1>4, <1>5 DEF Decide

(* The commands and consoles leave the inbox as it is. *)
LEMMA InboxApart == ASSUME InboxOK, UNCHANGED inboxVars PROVE InboxOK'
BY DEF InboxOK, inboxVars

(* A command in the timeline has been written, and is not written again. *)
LEMMA ComposeIInv == ASSUME IInv, NEW c \in Command, Compose(c) PROVE IInv'
<1>1. /\ UNCHANGED inboxVars /\ UNCHANGED <<execution, console, started>>
      /\ commands[c].action = "none" /\ commands = [k \in Command |-> commands[k]]
  BY DEF Compose, IInv, CommandsOK
<1>2. PICK new : /\ commands' = [commands EXCEPT ![c] = new]
                 /\ new.action \in {"start", "resume", "cancel"}
                 /\ new.action = "resume" => new.decision \in Decision
  <2>1. CASE commands' = [commands EXCEPT ![c] = [action |-> "start"]]
    <3>1. [action |-> "start"].action = "start"
      OBVIOUS
    <3> QED BY <2>1, <3>1
  <2>2. CASE commands' = [commands EXCEPT ![c] =
               [action |-> "cancel", expected |-> execution.checkpoint]]
    <3>1. [action |-> "cancel", expected |-> execution.checkpoint].action = "cancel"
      OBVIOUS
    <3> QED BY <2>2, <3>1
  <2>3. ASSUME NEW d \in Decision,
               commands' = [commands EXCEPT ![c] =
                 [action |-> "resume", expected |-> execution.checkpoint, decision |-> d]]
        PROVE  \E new : /\ commands' = [commands EXCEPT ![c] = new]
                        /\ new.action \in {"start", "resume", "cancel"}
                        /\ new.action = "resume" => new.decision \in Decision
    <3> DEFINE new == [action |-> "resume", expected |-> execution.checkpoint, decision |-> d]
    <3>1. new.action = "resume" /\ new.decision = d /\ commands' = [commands EXCEPT ![c] = new]
      BY <2>3
    <3> HIDE DEF new
    <3> QED BY <3>1
  <2> QED BY <2>1, <2>2, <2>3 DEF Compose
<1>3. /\ commands' = [k \in Command |-> commands'[k]]
      /\ \A k \in Command : commands'[k] = IF k = c THEN new ELSE commands[k]
  BY <1>1, <1>2
<1>4. InboxOK'
  BY <1>1, InboxApart DEF IInv
<1>5. CommandsOK'
  BY <1>2, <1>3 DEF IInv, CommandsOK
<1>6. PathOK'
  <2>1. /\ execution.events \in Seq(EventRow)
        /\ \A m \in 1..Len(execution.events) : execution.events[m] \in EventRow
        /\ Len(execution.events) \in Nat
    BY ElementOfSeq, LenProperties DEF IInv, PathOK, Execution
  <2>2. \A m \in 1..Len(execution.events) :
          commands'[execution.events[m].command] = commands[execution.events[m].command]
    BY <1>1, <1>3, <2>1 DEF EventRow, IInv, PathOK
  <2>3. Follows(execution.checkpoint, execution.events, commands', More(execution.status))
    <3>1. /\ Follows(execution.checkpoint, execution.events, commands, More(execution.status))
          /\ execution.checkpoint \in Path
      BY DEF IInv, PathOK, Execution
    <3>2. Len(execution.checkpoint) <= Len(execution.events) /\ Len(execution.checkpoint) \in Nat
      <4>1. More(execution.status) \in {0, 1} /\ Len(execution.checkpoint) \in Nat
        BY <3>1, LenProperties DEF More, Path
      <4>2. Len(execution.events) = Len(execution.checkpoint) + More(execution.status)
        BY <3>1 DEF Follows
      <4> QED BY <4>1, <4>2
    <3>3. /\ \A n \in 2..Len(execution.events) : n \in 1..Len(execution.events)
          /\ \A n \in 2..Len(execution.checkpoint) : n \in 1..Len(execution.events)
      BY <2>1, <3>2
    <3> QED BY <2>2, <3>1, <3>3 DEF Follows
  <2> QED BY <1>1, <2>2, <2>3 DEF IInv, PathOK
<1>7. ConsolesOK'
  BY <1>1 DEF IInv, ConsolesOK, Incarnation
<1> QED BY <1>4, <1>5, <1>6, <1>7 DEF IInv

LEMMA StartIInv == ASSUME IInv, NEW c \in Command, Start(c) PROVE IInv'
<1> DEFINE e   == Event(c)
           new == [status |-> "running", checkpoint |-> <<c>>, processed |-> {c}, events |-> <<e>>]
<1>1. /\ UNCHANGED inboxVars /\ UNCHANGED <<commands, console>> /\ commands[c].action = "start"
      /\ execution' = new /\ started' = [started EXCEPT ![c] = @ + 1]
      /\ started \in [Command -> Nat]
  BY DEF Start, IInv, ConsolesOK
<1>2. e \in EventRow
      /\ e.command = c /\ e.action = "start"
  BY <1>1 DEF Event, EventRow
<1> HIDE DEF e
<1>3. /\ execution' \in Execution /\ execution'.status = "running"
      /\ execution'.checkpoint = <<c>> /\ execution'.events = <<e>>
  BY <1>1, <1>2 DEF Execution, Path
<1> HIDE DEF new
<1>4. InboxOK'
  BY <1>1, InboxApart DEF IInv
<1>5. CommandsOK'
  BY <1>1 DEF IInv, CommandsOK, inboxVars
<1>6. PathOK'
  <2>1. Len(execution'.checkpoint) = 1 /\ Len(execution'.events) = 1
        /\ execution'.checkpoint[1] = c /\ execution'.events[1] = e
    BY <1>3
  <2>2. \A m \in 1..Len(execution'.events) : execution'.events[m] = e
    BY <2>1
  <2>3. Follows(execution'.checkpoint, execution'.events, commands', More(execution'.status))
    BY <1>3, <2>1 DEF Follows, More
  <2> QED BY <1>1, <1>2, <1>3, <2>1, <2>2, <2>3 DEF PathOK
<1>7. ConsolesOK'
  <2>1. started' \in [Command -> Nat] /\ started'[c] = started[c] + 1
        /\ \A k \in Command : started[k] <= started'[k]
    BY <1>1
  <2>2. Incarnation' = <<c, started[c] + 1>>
    BY <1>3, <2>1 DEF Incarnation
  <2>3. ASSUME NEW o \in Console, console[o].since # None
        PROVE  /\ \E k \in Command, n \in Nat : console[o].since = <<k, n>> /\ n <= started'[k]
               /\ console[o].since # Incarnation'
    <3>1. PICK k \in Command, n \in Nat : console[o].since = <<k, n>> /\ n <= started[k]
      BY <2>3 DEF IInv, ConsolesOK
    <3>2. n <= started'[k]
      BY <1>1, <2>1, <3>1
    <3>3. <<k, n>> # <<c, started[c] + 1>>
      BY <1>1, <3>1
    <3> QED BY <2>2, <3>1, <3>2, <3>3
  <2> QED BY <1>1, <2>1, <2>3 DEF IInv, ConsolesOK
<1> QED BY <1>4, <1>5, <1>6, <1>7 DEF IInv

(* One more event of the incarnation the consoles read. *)
LEMMA ConsolesFollow ==
  ASSUME ConsolesOK, UNCHANGED <<console, started>>, execution'.checkpoint[1] = execution.checkpoint[1],
         Len(execution.events) \in Nat, Len(execution'.events) = Len(execution.events) + 1
  PROVE  ConsolesOK'
<1>1. Incarnation' = Incarnation
  BY DEF Incarnation
<1> QED BY <1>1 DEF ConsolesOK

LEMMA CancelIInv == ASSUME IInv, NEW c \in Command, Cancel(c) PROVE IInv'
<1> DEFINE e   == Event(c)
           evs == Append(execution.events, e)
           did == execution.processed \cup {c}
           new == [execution EXCEPT !.status = "cancelled", !.processed = did, !.events = evs]
<1>1. /\ UNCHANGED inboxVars /\ UNCHANGED <<commands, console, started>>
      /\ commands[c].action = "cancel" /\ execution' = new /\ execution \in Execution
      /\ execution.status = "running" /\ commands[c].expected = execution.checkpoint
  BY DEF Cancel, AtCheckpoint, IInv, PathOK
<1>2. e \in EventRow
      /\ e.command = c /\ e.action = "cancel"
  BY <1>1 DEF Event, EventRow
<1> HIDE DEF e
<1>3. /\ execution' \in Execution /\ execution'.status = "cancelled"
      /\ execution'.checkpoint = execution.checkpoint
      /\ execution'.events = Append(execution.events, e)
  <2>1. evs \in Seq(EventRow) /\ did \in SUBSET Command
    BY <1>1, <1>2, AppendProperties DEF Execution
  <2>2. evs = Append(execution.events, e)
    OBVIOUS
  <2> HIDE DEF evs, did
  <2> QED BY <1>1, <2>1, <2>2 DEF Execution
<1> HIDE DEF new, evs, did
<1>4. /\ Len(execution.events) \in Nat /\ Len(execution'.events) = Len(execution.events) + 1
      /\ \A m \in 1..Len(execution.events) : execution'.events[m] = execution.events[m]
      /\ execution'.events[Len(execution.events) + 1] = e
  BY <1>1, <1>2, <1>3, AppendProperties, LenProperties DEF Execution
<1>5. InboxOK' /\ CommandsOK'
  BY <1>1, InboxApart DEF IInv, CommandsOK, inboxVars
<1>6. PathOK'
  <2>1. \A m \in 1..Len(execution'.events) :
          \/ m \in 1..Len(execution.events) /\ execution'.events[m] = execution.events[m]
          \/ m = Len(execution.events) + 1 /\ execution'.events[m] = e
    BY <1>4
  <2>2. /\ Follows(execution.checkpoint, execution.events, commands, 0)
        /\ execution.checkpoint \in Path /\ Len(execution.checkpoint) \in Nat
        /\ Len(execution.checkpoint) > 0 /\ Len(execution.events) = Len(execution.checkpoint)
    BY <1>1, LenProperties DEF IInv, PathOK, Follows, More, Execution, Path
  <2>3. Follows(execution.checkpoint, execution'.events, commands, 1)
    <3>1. \A n \in 2..Len(execution'.events) :
            commands[execution'.events[n].command].expected = SubSeq(execution.checkpoint, 1, n - 1)
      <4> TAKE n \in 2..Len(execution'.events)
      <4>1. CASE n = Len(execution.events) + 1
        <5>1. SubSeq(execution.checkpoint, 1, n - 1) = execution.checkpoint
          BY <2>2, <4>1, SubSeqFull DEF Path
        <5> QED BY <1>1, <1>2, <1>4, <4>1, <5>1
      <4>2. CASE n # Len(execution.events) + 1
        <5>1. n \in 2..Len(execution.events) /\ n \in 1..Len(execution.events)
          BY <1>4, <4>2
        <5> QED BY <1>4, <2>2, <5>1 DEF Follows
      <4> QED BY <4>1, <4>2
    <3>2. \A n \in 2..Len(execution.checkpoint) : n \in 1..Len(execution.events)
      BY <2>2
    <3> QED BY <1>4, <2>2, <3>1, <3>2 DEF Follows
  <2>4. \A m \in 1..Len(execution'.events) : commands[execution'.events[m].command].action # "none"
    <3> TAKE m \in 1..Len(execution'.events)
    <3>1. CASE execution'.events[m] = e
      BY <1>1, <1>2, <3>1
    <3>2. CASE m \in 1..Len(execution.events) /\ execution'.events[m] = execution.events[m]
      BY <3>2 DEF IInv, PathOK
    <3> QED BY <2>1, <3>1, <3>2
  <2>5. Len(execution'.checkpoint) > 0 /\ execution'.checkpoint[1] \in Command
    BY <1>1, <1>3 DEF IInv, PathOK
  <2> QED BY <1>1, <1>3, <2>3, <2>4, <2>5 DEF PathOK, More
<1>7. ConsolesOK'
  BY <1>1, <1>3, <1>4, ConsolesFollow DEF IInv
<1> QED BY <1>5, <1>6, <1>7 DEF IInv

(* The path grows by the decision, and the timeline by the resume that acted at its end.  *)
LEMMA ResumeIInv == ASSUME IInv, NEW c \in Command, Resume(c) PROVE IInv'
<1> DEFINE e   == Event(c)
           cp  == execution.checkpoint
           d   == commands[c].decision
           len == Len(cp)
           evs == Append(execution.events, e)
           did == execution.processed \cup {c}
           to  == Append(cp, d)
           new == [execution EXCEPT !.checkpoint = to, !.processed = did, !.events = evs]
<1>1. /\ UNCHANGED inboxVars /\ UNCHANGED <<commands, console, started>>
      /\ commands[c].action = "resume" /\ commands[c].expected = cp
      /\ execution' = new /\ execution \in Execution /\ execution.status = "running"
  BY DEF Resume, NextCheckpoint, AtCheckpoint, IInv, PathOK
<1>3. d \in Decision
  BY <1>1 DEF IInv, CommandsOK
<1>4. e \in EventRow
      /\ e.command = c /\ e.action = "resume"
  BY <1>1 DEF Event, EventRow
<1>5. cp \in Path /\ len \in Nat /\ len > 0 /\ cp[1] \in Command
  BY <1>1 DEF IInv, PathOK, Execution, Path
<1> HIDE DEF e, d
<1>6. Append(cp, d) \in Path
  BY <1>3, <1>5, AppendProperties DEF Path
<1>7. /\ execution' \in Execution /\ execution'.status = "running"
      /\ execution'.checkpoint = Append(cp, d)
      /\ execution'.events = Append(execution.events, e)
  <2>1. evs \in Seq(EventRow) /\ did \in SUBSET Command /\ to \in Path
    BY <1>1, <1>4, <1>6, AppendProperties DEF Execution
  <2>2. evs = Append(execution.events, e) /\ to = Append(cp, d)
    OBVIOUS
  <2> HIDE DEF evs, did, to, cp
  <2> QED BY <1>1, <2>1, <2>2 DEF Execution
<1> HIDE DEF new, evs, did, to
<1>8. /\ Len(execution.events) \in Nat /\ Len(execution'.events) = Len(execution.events) + 1
      /\ \A m \in 1..Len(execution.events) : execution'.events[m] = execution.events[m]
      /\ execution'.events[Len(execution.events) + 1] = e
  BY <1>1, <1>4, <1>7, AppendProperties, LenProperties DEF Execution
<1>9. /\ Len(execution'.checkpoint) = len + 1
      /\ \A n \in 1..len : execution'.checkpoint[n] = cp[n]
      /\ execution'.checkpoint[len + 1] = d
  BY <1>3, <1>5, <1>7, AppendProperties DEF Path
<1>10. \A n \in 2..(len + 1) : SubSeq(execution'.checkpoint, 1, n - 1) = SubSeq(cp, 1, n - 1)
  <2> TAKE n \in 2..(len + 1)
  <2>1. execution'.checkpoint = cp \o <<d>> /\ <<d>> \in Path
    BY <1>3, <1>5, <1>7, AppendIsConcat DEF Path
  <2>2. 1 \in 1..Len(cp) /\ n - 1 \in 1..Len(cp)
    BY <1>5
  <2> QED BY <1>5, <2>1, <2>2, SubSeqOfConcat1 DEF Path
<1>11. SubSeq(cp, 1, len) = cp
  BY <1>5, SubSeqFull DEF Path
<1>12. Follows(cp, execution.events, commands, 0) /\ Len(execution.events) = len
  BY <1>1, <1>5 DEF IInv, PathOK, Follows, More
<1> HIDE DEF cp, len
<1>13. InboxOK' /\ CommandsOK'
  BY <1>1, InboxApart DEF IInv, CommandsOK, inboxVars
<1>14. ASSUME NEW n \in 2..Len(execution'.events)
       PROVE  commands[execution'.events[n].command].expected = SubSeq(execution'.checkpoint, 1, n - 1)
  <2>1. n \in 2..(len + 1)
    BY <1>8, <1>12
  <2>2. CASE n = len + 1
    <3>1. SubSeq(execution'.checkpoint, 1, n - 1) = cp
      BY <1>5, <1>10, <1>11, <2>1, <2>2
    <3> QED BY <1>1, <1>4, <1>8, <1>12, <2>2, <3>1
  <2>3. CASE n # len + 1
    <3>1. n \in 2..Len(execution.events) /\ n \in 1..Len(execution.events)
      BY <1>5, <1>12, <2>1, <2>3
    <3> QED BY <1>8, <1>10, <1>12, <2>1, <3>1 DEF Follows
  <2> QED BY <2>2, <2>3
<1>15. ASSUME NEW n \in 2..Len(execution'.checkpoint)
       PROVE  /\ commands[execution'.events[n].command].action = "resume"
              /\ commands[execution'.events[n].command].decision = execution'.checkpoint[n]
  <2>1. CASE n = len + 1
    BY <1>1, <1>4, <1>8, <1>9, <1>12, <2>1 DEF d
  <2>2. CASE n # len + 1
    <3>1. n \in 2..len /\ n \in 1..len
      BY <1>5, <1>9, <2>2
    <3>2. Len(cp) = len
      BY DEF cp, len
    <3> QED BY <1>8, <1>9, <1>12, <3>1, <3>2 DEF Follows
  <2> QED BY <2>1, <2>2
<1>16. Follows(execution'.checkpoint, execution'.events, commands, 0)
  BY <1>5, <1>8, <1>9, <1>12, <1>14, <1>15 DEF Follows
<1>17. \A m \in 1..Len(execution'.events) : commands[execution'.events[m].command].action # "none"
  <2> TAKE m \in 1..Len(execution'.events)
  <2>1. CASE m = Len(execution.events) + 1
    BY <1>1, <1>4, <1>8, <2>1
  <2>2. CASE m # Len(execution.events) + 1
    <3>1. m \in 1..Len(execution.events)
      BY <1>8, <2>2
    <3> QED BY <1>8, <3>1 DEF IInv, PathOK
  <2> QED BY <2>1, <2>2
<1>19. PathOK'
  <2>1. Len(execution'.checkpoint) > 0 /\ execution'.checkpoint[1] = cp[1]
    BY <1>5, <1>9
  <2> QED BY <1>1, <1>5, <1>7, <1>16, <1>17, <2>1 DEF PathOK, More
<1>20. ConsolesOK'
  <2>1. execution'.checkpoint[1] = execution.checkpoint[1]
    BY <1>5, <1>9 DEF cp
  <2> QED BY <1>1, <1>8, <2>1, ConsolesFollow DEF IInv
<1> QED BY <1>13, <1>19, <1>20 DEF IInv

(* A console that reads on keeps what it had and gets all from there to its new cursor. *)
LEMMA FollowIInv == ASSUME IInv, NEW c \in Console, Follow(c) PROVE IInv'
<1>1. /\ UNCHANGED inboxVars /\ UNCHANGED <<execution, commands, started>>
      /\ started \in [Command -> Nat]
  BY DEF Follow, IInv, ConsolesOK
<1>2. PICK n \in After(console[c].cursor) :
        console' = [console EXCEPT ![c] =
          [cursor |-> n,
           got    |-> @.got \cup {m \in After(@.cursor) : m <= n},
           since  |-> IF @.since = None THEN Incarnation ELSE @.since]]
  BY DEF Follow
<1> DEFINE old   == console[c]
           got   == old.got \cup {m \in After(old.cursor) : m <= n}
           since == IF old.since = None THEN Incarnation ELSE old.since
           new   == [cursor |-> n, got |-> got, since |-> since]
<1>3. /\ old.cursor \in Nat /\ \A m \in old.got : m \in Nat /\ m <= old.cursor
      /\ old.since = None => old.cursor = 0 /\ old.got = {}
      /\ old.since # None =>
           \E k \in Command, v \in Nat : old.since = <<k, v>> /\ v <= started[k]
      /\ old.since # None /\ old.since = Incarnation => old.got = 1..old.cursor
  BY DEF IInv, ConsolesOK
<1>4. /\ n \in Nat /\ n > old.cursor /\ n <= Len(execution.events)
      /\ \A m \in After(old.cursor) : m \in Nat /\ m > old.cursor /\ m <= Len(execution.events)
      /\ \A m \in Nat : m > old.cursor /\ m <= n => m \in After(old.cursor)
  BY <1>3, LenProperties DEF After, IInv, PathOK, Execution
<1>5. Incarnation = <<execution.checkpoint[1], started[execution.checkpoint[1]]>>
      /\ execution.checkpoint[1] \in Command /\ started[execution.checkpoint[1]] \in Nat
  <2>1. execution.status # "absent"
    <3>1. execution.events # <<>>
      BY <1>3, <1>4
    <3> QED BY <3>1 DEF IInv, PathOK
  <2> QED BY <1>1, <2>1 DEF IInv, PathOK, Incarnation
<1>6. since # None /\ \E k \in Command, v \in Nat : since = <<k, v>> /\ v <= started[k]
  <2>1. Incarnation \in Command \X Nat
    BY <1>5
  <2>2. Incarnation # None
    BY <2>1, InterruptAssumption
  <2>3. CASE old.since = None
    BY <1>5, <2>2, <2>3
  <2>4. CASE old.since # None
    BY <1>3, <2>4
  <2> QED BY <2>3, <2>4
<1>7. \A m \in got : m \in Nat /\ m <= n
  <2>1. ASSUME NEW m \in old.got PROVE m \in Nat /\ m <= n
    <3>1. m \in Nat /\ m <= old.cursor
      BY <1>3
    <3>2. old.cursor \in Nat /\ n \in Nat /\ n > old.cursor
      BY <1>3, <1>4
    <3> HIDE DEF old
    <3> QED BY <3>1, <3>2
  <2>2. ASSUME NEW m \in After(old.cursor), m <= n PROVE m \in Nat /\ m <= n
    BY <1>4, <2>2
  <2> QED BY <2>1, <2>2
<1>8. since = Incarnation => got = 1..n
  <2> SUFFICES ASSUME since = Incarnation PROVE got = 1..n
    OBVIOUS
  <2>1. CASE old.since = None
    <3>1. old.cursor = 0 /\ old.got = {}
      BY <1>3, <2>1
    <3>2. \A m \in 1..n : m \in After(old.cursor) /\ m <= n
      BY <1>4, <3>1
    <3>3. 1..n \subseteq got
      BY <3>2
    <3> QED BY <1>4, <1>7, <3>1, <3>3
  <2>2. CASE old.since # None
    <3>1. old.got = 1..old.cursor
      BY <1>3, <2>2
    <3>2. ASSUME NEW m \in 1..n PROVE m \in old.got \/ (m \in After(old.cursor) /\ m <= n)
      BY <1>3, <1>4, <3>1
    <3>3. 1..n \subseteq got
      BY <3>2
    <3>4. ASSUME NEW m \in got PROVE m >= 1
      <4>1. CASE m \in old.got
        BY <3>1, <4>1
      <4>2. CASE m \in After(old.cursor)
        <5>1. m \in Nat /\ m > old.cursor /\ old.cursor \in Nat
          BY <1>3, <1>4, <4>2
        <5> HIDE DEF old
        <5> QED BY <5>1
      <4> QED BY <4>1, <4>2
    <3> QED BY <1>4, <1>7, <3>3, <3>4
  <2> QED BY <2>1, <2>2
<1>9. /\ console' = [console EXCEPT ![c] = new]
      /\ new.cursor = n /\ new.got = got /\ new.since = since
      /\ new = [cursor |-> new.cursor, got |-> new.got, since |-> new.since]
  BY <1>2
<1> HIDE DEF got, since, new
<1>10. /\ \A k \in Console : console'[k] = IF k = c THEN new ELSE console[k]
       /\ console' = [k \in Console |-> [cursor |-> console'[k].cursor, got |-> console'[k].got,
                                         since |-> console'[k].since]]
  BY <1>9 DEF IInv, ConsolesOK
<1>11. InboxOK' /\ CommandsOK' /\ PathOK'
  <2>1. InboxOK'
    BY <1>1, InboxApart DEF IInv
  <2>2. CommandsOK'
    BY <1>1 DEF IInv, CommandsOK, inboxVars
  <2>3. PathOK'
    BY <1>1 DEF IInv, PathOK, inboxVars
  <2> QED BY <2>1, <2>2, <2>3
<1>12. Incarnation' = Incarnation
  BY <1>1 DEF Incarnation
<1>13. ASSUME NEW k \in Console
       PROVE  /\ console'[k].cursor \in Nat
              /\ \A m \in console'[k].got : m \in Nat /\ m <= console'[k].cursor
              /\ console'[k].since = None => console'[k].cursor = 0 /\ console'[k].got = {}
              /\ console'[k].since # None =>
                   \E x \in Command, v \in Nat : console'[k].since = <<x, v>> /\ v <= started[x]
              /\ console'[k].since # None /\ console'[k].since = Incarnation =>
                   /\ console'[k].got = 1..console'[k].cursor
                   /\ console'[k].cursor <= Len(execution.events)
  <2>1. CASE k = c
    BY <1>4, <1>6, <1>7, <1>8, <1>9, <1>10, <2>1
  <2>2. CASE k # c
    BY <1>10, <2>2 DEF IInv, ConsolesOK
  <2> QED BY <2>1, <2>2
<1>14. ConsolesOK'
  BY <1>1, <1>10, <1>12, <1>13 DEF ConsolesOK
<1> QED BY <1>11, <1>14 DEF IInv

LEMMA StepIInv == IInv /\ [Next]_vars => IInv'
<1> SUFFICES ASSUME IInv, [Next]_vars PROVE IInv'
  OBVIOUS
<1>1. ASSUME NEW i \in Interrupt, Create(i) PROVE IInv'
  BY <1>1, CreateIInv
<1>2. ASSUME NEW i \in Interrupt, Expire(i) PROVE IInv'
  BY <1>2, ExpireIInv
<1>3. ASSUME NEW d \in Decision, Write(d) PROVE IInv'
  BY <1>3, WriteIInv
<1>4. ASSUME NEW d \in Decision, Decide(d) PROVE IInv'
  BY <1>4, DecideIInv
<1>5. ASSUME NEW c \in Command, Compose(c) PROVE IInv'
  BY <1>5, ComposeIInv
<1>6. ASSUME NEW c \in Command, Start(c) PROVE IInv'
  BY <1>6, StartIInv
<1>7. ASSUME NEW c \in Command, Resume(c) PROVE IInv'
  BY <1>7, ResumeIInv
<1>8. ASSUME NEW c \in Command, Cancel(c) PROVE IInv'
  BY <1>8, CancelIInv
<1>9. ASSUME NEW c \in Console, Follow(c) PROVE IInv'
  BY <1>9, FollowIInv
<1>10. CASE UNCHANGED vars
  <2>1. UNCHANGED inboxVars /\ UNCHANGED runtimeVars
    BY <1>10 DEF vars, inboxVars, runtimeVars
  <2>2. InboxOK'
    BY <2>1, InboxApart DEF IInv
  <2> QED BY <2>1, <2>2, InboxAlone
<1> QED BY <1>1, <1>2, <1>3, <1>4, <1>5, <1>6, <1>7, <1>8, <1>9, <1>10 DEF Next

LEMMA Invariant == Spec => []IInv
<1> QED BY InitIInv, StepIInv, PTL DEF Spec

(* The inbox, the execution, the commands and the consoles stay of their types.           *)
THEOREM TypeCorrect == Spec => []TypeOK
<1>1. IInv => TypeOK
  BY DEF IInv, InboxOK, PathOK, ConsolesOK, Row, Execution, TypeOK
<1> QED BY <1>1, Invariant, PTL

(* An interrupt is settled once (InterruptInbox.decide), whatever arrives later: only a    *)
(* pending one is, and its record, its log and the decision accepted move together.        *)
THEOREM SettledOnce == Spec => []OneVerdict
<1>1. IInv => OneVerdict
  BY DEF IInv, InboxOK, OneVerdict, Tells, Told, Shows
<1> QED BY <1>1, Invariant, PTL

(* Every command of the timeline acted at the point its console saw, and on no other      *)
(* (RuntimeStore.apply, the comparison of checkpoints): of commands written at the same    *)
(* point, whatever their ids, one acts.                                                    *)
THEOREM ActsWhereSeen == Spec => []CommandsActWhereSeen
<1>1. IInv => CommandsActWhereSeen
  BY DEF IInv, PathOK, Follows, More, CommandsActWhereSeen
<1> QED BY <1>1, Invariant, PTL

(* A console that reads one execution only misses none of its events (RuntimeStore.stream). *)
THEOREM TimelineIsWhole == Spec => []TimelineHasNoHoles
<1>1. IInv => TimelineHasNoHoles
  BY DEF IInv, ConsolesOK, TimelineHasNoHoles
<1> QED BY <1>1, Invariant, PTL
===============================================================================
