--------------------------- MODULE EventSourceClient ---------------------------
(***************************************************************************)
(* ResilientSseClient in the browser: start and stop, the event sources it *)
(* opens, their errors and the timers that connect again, and the ids it   *)
(* has seen, forgotten all at once when they are too many.                 *)
(*                                                                         *)
(* The server numbers its events and begins a stream after the id the      *)
(* client names in the URL, or at the first when it does not look there    *)
(* (the incident API reads only a header); an event that breaks the schema *)
(* is reported and left out.  A closed source delivers nothing more.       *)
(***************************************************************************)
EXTENDS Integers, FiniteSets, Sequences

CONSTANTS MaxLines,          \* bound: event sources opened
          MaxLineReconnects, \* maxReconnects
          MaxLineStarts,     \* bound: calls of start
          LineEvents,        \* bound: events of the server
          BadEvents,         \* those that break the schema
          SeenLimit          \* ids kept (2000)

ASSUME EventSourceAssumption ==
  /\ {MaxLines, MaxLineReconnects, MaxLineStarts, LineEvents, SeenLimit} \subseteq Nat \ {0}
  /\ BadEvents \subseteq 1 .. LineEvents

Line == 1 .. MaxLines

VARIABLES line,        \* of each source: its readyState, and the last event sent on it
          sse,         \* the fields of the client; source and reconnectTimer 0 are null
          waiting,     \* reconnect timers that are set, named by the source that failed
          delivered,   \* history: the ids handed to onEvent, with the times seen was cleared
          line_starts  \* history: calls of start

lineVars == <<line, sse, waiting, delivered, line_starts>>

LineTypeOK ==
  /\ line \in [Line -> [ready : {"none", "connecting", "open", "closed"}, at : 0 .. LineEvents]]
  /\ sse \in [source : 0 .. MaxLines, reconnects : 0 .. MaxLineReconnects,
              reconnectTimer : 0 .. MaxLines, stopped : BOOLEAN,
              seen : SUBSET (1 .. LineEvents), lastEventId : 0 .. LineEvents]
  /\ waiting \subseteq Line
  /\ line_starts \in 0 .. MaxLineStarts

LineInit ==
  /\ line = [l \in Line |-> [ready |-> "none", at |-> 0]]
  /\ sse = [source |-> 0, reconnects |-> 0, reconnectTimer |-> 0, stopped |-> FALSE,
            seen |-> {}, lastEventId |-> 0]
  /\ waiting = {}
  /\ delivered = <<>>
  /\ line_starts = 0
-----------------------------------------------------------------------------
\* connect, of a client that is not stopped: the source before it is not closed.
LineConnects ==
  \E l \in Line, from \in {0, sse.lastEventId} :
    /\ line[l].ready = "none" /\ \A k \in 1 .. l - 1 : line[k].ready # "none"
    /\ line' = [line EXCEPT ![l] = [ready |-> "connecting", at |-> from]]
    /\ sse' = [sse EXCEPT !.source = l, !.stopped = FALSE]

StartLine ==
  /\ line_starts < MaxLineStarts
  /\ line_starts' = line_starts + 1
  /\ LineConnects
  /\ UNCHANGED <<waiting, delivered>>

\* The timer calls connect, which returns at once if the client is stopped.
RetryLine(l) ==
  /\ l \in waiting
  /\ waiting' = waiting \ {l}
  /\ IF sse.stopped THEN UNCHANGED <<line, sse>> ELSE LineConnects
  /\ UNCHANGED <<delivered, line_starts>>

LineOpens(l) ==
  /\ line[l].ready = "connecting"
  /\ line' = [line EXCEPT ![l].ready = "open"]
  /\ sse' = [sse EXCEPT !.reconnects = 0]
  /\ UNCHANGED <<waiting, delivered, line_starts>>

\* Mutant: an event is known by the last id only.
IsLast(n) == n = sse.lastEventId

Seen(n) == n \in sse.seen

SeenAfter(seen) == IF Cardinality(seen) > SeenLimit THEN {} ELSE seen

\* onmessage, of any source that is open.
LineDelivers(l) ==
  LET n == line[l].at + 1
  IN /\ line[l].ready = "open" /\ n <= LineEvents
     /\ line' = [line EXCEPT ![l].at = n]
     /\ IF n \in BadEvents \/ Seen(n) THEN UNCHANGED <<sse, delivered>>
        ELSE LET seen == SeenAfter(sse.seen \cup {n})
             IN /\ sse' = [sse EXCEPT !.seen = seen, !.lastEventId = n]
                /\ delivered' = Append(delivered, [id |-> n, cleared |-> seen = {}])
     /\ UNCHANGED <<waiting, line_starts>>

\* stop clears the timer whose handle it has and closes the source it has.
StoppedLines == [k \in Line |-> IF k = sse.source THEN [line[k] EXCEPT !.ready = "closed"]
                                ELSE line[k]]
StoppedClient == [sse EXCEPT !.stopped = TRUE, !.source = 0]

\* Mutant: stop leaves the timer set.
TimersLeft == waiting

TimersAfterStop == waiting \ {sse.reconnectTimer}

StopLine ==
  /\ line' = StoppedLines
  /\ sse' = StoppedClient
  /\ waiting' = TimersAfterStop
  /\ UNCHANGED <<delivered, line_starts>>

\* onerror: the source is closed, and unless the client is stopped or gives up, a timer is
\* set, whose handle replaces that of a timer that may still be set.
LineFails(l) ==
  /\ line[l].ready \in {"connecting", "open"}
  /\ CASE sse.stopped ->
            line' = [line EXCEPT ![l].ready = "closed"] /\ UNCHANGED <<sse, waiting>>
       [] ~sse.stopped /\ sse.reconnects >= MaxLineReconnects ->
            /\ line' = [StoppedLines EXCEPT ![l].ready = "closed"]
            /\ sse' = StoppedClient
            /\ waiting' = TimersAfterStop
       [] OTHER ->
            /\ line' = [line EXCEPT ![l].ready = "closed"]
            /\ sse' = [sse EXCEPT !.reconnects = @ + 1, !.reconnectTimer = l]
            /\ waiting' = waiting \cup {l}
  /\ UNCHANGED <<delivered, line_starts>>

LineNext ==
  \/ StartLine \/ StopLine
  \/ \E l \in Line : RetryLine(l) \/ LineOpens(l) \/ LineDelivers(l) \/ LineFails(l)

LineSpec == LineInit /\ [][LineNext]_lineVars
-----------------------------------------------------------------------------
\* Whether the i-th delivery repeats an earlier one, and whether the ids were forgotten
\* between the two.
Repeats(i)   == \E j \in 1 .. i - 1 : delivered[j].id = delivered[i].id
Forgotten(i) == \E j \in 1 .. i - 1 : /\ delivered[j].cleared
                                      /\ \A k \in j + 1 .. i - 1 : delivered[k].id # delivered[i].id

\* Whether the event keeps the schema and every such event before it was told before.
InTurn(i) ==
  /\ delivered[i].id \notin BadEvents
  /\ \A n \in 1 .. delivered[i].id - 1 :
       n \notin BadEvents => \E j \in 1 .. i - 1 : delivered[j].id = n

\* However often the line breaks and wherever the server begins again, the page is handed
\* every event that keeps the schema in order and none left out, and an event a second time
\* only after the ids were forgotten; a client started once has one line, and once it is
\* stopped it is silent.
EventsOnceInOrder ==
  /\ \A i \in 1 .. Len(delivered) : InTurn(i) /\ (Repeats(i) => Forgotten(i))
  /\ LET alive == {l \in Line : line[l].ready \in {"connecting", "open"}} \cup waiting
     IN /\ Cardinality(alive) <= line_starts
        /\ line_starts = 1 /\ sse.stopped => alive = {}
===============================================================================
