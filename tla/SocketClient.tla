----------------------------- MODULE SocketClient -----------------------------
(***************************************************************************)
(* ResilientWebSocketClient in the browser: start and stop, the callbacks  *)
(* of every socket it ever opened, and its three kinds of timer.  A        *)
(* callback runs to its end; between two of them anything may happen, so a *)
(* close event, an open event or a timer can come late.                    *)
(*                                                                         *)
(* A timer whose handle is overwritten cannot be cleared any more: the     *)
(* timers that are set and the handles the client keeps are modelled       *)
(* apart.  A reconnect timer is named by the socket whose close set it.    *)
(***************************************************************************)
EXTENDS Integers, FiniteSets

CONSTANTS MaxSockets,     \* bound: sockets opened
          MaxReconnects,  \* maxReconnects
          MaxStarts       \* bound: calls of start before everything is silent again

ASSUME SocketAssumption == {MaxSockets, MaxReconnects, MaxStarts} \subseteq Nat \ {0}

Socket == 1 .. MaxSockets

VARIABLES sock,        \* readyState of each socket, "closed" once its close event ran
          client,      \* the fields of the client; 0 is null
          beating,     \* sockets whose heartbeat interval is set
          reconnecting,\* reconnect timers that are set
          lines        \* history: calls of start since everything was last silent

socketVars == <<sock, client, beating, reconnecting, lines>>

SocketTypeOK ==
  /\ sock \in [Socket -> {"none", "connecting", "open", "closing", "closed"}]
  /\ client \in [socket : 0 .. MaxSockets, reconnects : 0 .. MaxReconnects,
                 heartbeatTimer : 0 .. MaxSockets, pongTimer : 0 .. MaxSockets,
                 reconnectTimer : 0 .. MaxSockets, stopped : BOOLEAN]
  /\ beating \subseteq Socket
  /\ reconnecting \subseteq Socket
  /\ lines \in 0 .. MaxStarts

SocketInit ==
  /\ sock = [s \in Socket |-> "none"]
  /\ client = [socket |-> 0, reconnects |-> 0, heartbeatTimer |-> 0, pongTimer |-> 0,
               reconnectTimer |-> 0, stopped |-> FALSE]
  /\ beating = {}
  /\ reconnecting = {}
  /\ lines = 0
-----------------------------------------------------------------------------
\* connect, of a client that is not stopped: the socket before it is not closed.
Connects(c) ==
  \E s \in Socket :
    /\ sock[s] = "none" /\ \A t \in 1 .. s - 1 : sock[t] # "none"
    /\ sock' = [sock EXCEPT ![s] = "connecting"]
    /\ client' = [c EXCEPT !.socket = s, !.stopped = FALSE]

Live    == {s \in Socket : sock[s] \in {"connecting", "open"}}
Dying   == {s \in Socket : sock[s] = "closing"}

\* No socket will call back any more and no timer is set.
Silent == Live \cup Dying \cup reconnecting \cup beating = {}

\* start: a reconnect timer that is set stays set, and a socket that is closing calls back.
Start ==
  /\ \/ Silent /\ lines' = 1
     \/ ~Silent /\ lines < MaxStarts /\ lines' = lines + 1
  /\ Connects(client)
  /\ UNCHANGED <<beating, reconnecting>>

\* The timer calls connect, which returns at once if the client is stopped.
TimerFires(s) ==
  /\ s \in reconnecting
  /\ reconnecting' = reconnecting \ {s}
  /\ IF client.stopped THEN UNCHANGED <<sock, client>> ELSE Connects(client)
  /\ UNCHANGED <<beating, lines>>

\* onopen: startHeartbeat keeps the handle of the new interval only.
Opens(s) ==
  /\ sock[s] = "connecting"
  /\ sock' = [sock EXCEPT ![s] = "open"]
  /\ client' = [client EXCEPT !.reconnects = 0, !.heartbeatTimer = s]
  /\ beating' = beating \cup {s}
  /\ UNCHANGED <<reconnecting, lines>>

\* The interval sends a ping, unless its socket is closing, and gives it time to answer.
Beats(s) ==
  /\ s \in beating /\ sock[s] = "open"
  /\ client' = [client EXCEPT !.pongTimer = s]
  /\ UNCHANGED <<sock, beating, reconnecting, lines>>

\* A pong, on any socket, clears the timer.
Pong(s) ==
  /\ sock[s] = "open"
  /\ client' = [client EXCEPT !.pongTimer = 0]
  /\ UNCHANGED <<sock, beating, reconnecting, lines>>

Closing(s) == sock[s] \in {"connecting", "open"} /\ sock' = [sock EXCEPT ![s] = "closing"]

\* No pong came: the socket is closed.  (The handle is kept; clearing it does nothing.)
PongTimeout ==
  /\ client.pongTimer # 0
  /\ Closing(client.pongTimer)
  /\ client' = [client EXCEPT !.pongTimer = 0]
  /\ UNCHANGED <<beating, reconnecting, lines>>

\* onerror, or the server begins the close.
Errs(s) ==
  /\ Closing(s)
  /\ UNCHANGED <<client, beating, reconnecting, lines>>

\* Mutant: a reconnect is scheduled once more, as if onerror scheduled one too.
ScheduledTwice(s) == {s, MaxSockets}

\* The timer scheduleReconnect sets.
Scheduled(s) == {s}

\* onclose, of any socket at any time: clearHeartbeatTimers, then scheduleReconnect.
Closes(s) ==
  /\ sock[s] \in {"connecting", "open", "closing"}
  /\ sock' = [sock EXCEPT ![s] = "closed"]
  /\ beating' = beating \ {client.heartbeatTimer}
  /\ LET cleared == [client EXCEPT !.heartbeatTimer = 0, !.pongTimer = 0]
     IN IF client.stopped \/ client.reconnects >= MaxReconnects
        THEN client' = cleared /\ UNCHANGED reconnecting
        ELSE /\ client' = [cleared EXCEPT !.reconnects = @ + 1, !.reconnectTimer = s]
             /\ reconnecting' = reconnecting \cup Scheduled(s)
  /\ UNCHANGED lines

\* stop: clearTimers, and close of the socket it holds.
Stop ==
  /\ client' = [client EXCEPT !.stopped = TRUE, !.socket = 0, !.heartbeatTimer = 0,
                              !.pongTimer = 0, !.reconnectTimer = 0]
  /\ beating' = beating \ {client.heartbeatTimer}
  /\ reconnecting' = reconnecting \ {client.reconnectTimer}
  /\ sock' = [s \in Socket |-> IF s = client.socket /\ sock[s] \in {"connecting", "open"}
                               THEN "closing" ELSE sock[s]]
  /\ UNCHANGED lines

SocketNext ==
  \/ Start \/ Stop \/ PongTimeout
  \/ \E s \in Socket : \/ TimerFires(s) \/ Opens(s) \/ Beats(s) \/ Pong(s) \/ Errs(s)
                       \/ Closes(s)

SocketSpec == SocketInit /\ [][SocketNext]_socketVars
-----------------------------------------------------------------------------
\* However late close events, errors and timers come, they carry a line of connections on or
\* end it and never make two of one: a client that is only started when everything before is
\* silent has one socket or one reconnect timer at a time, over any number of stops and
\* restarts, and each start that does not wait for that adds one line at most.  (Such a start
\* is what the code does not guard against: the close event of the socket before it finds a
\* client that is not stopped, and reconnects beside the new one.)
OneLinePerStart == Cardinality(Live) + Cardinality(Dying) + Cardinality(reconnecting) <= lines

\* Unless starts overlapped, a client is silent once it is stopped: no socket that can still
\* open or deliver, no timer left.  And as long as it runs, an open socket has its heartbeat.
StopIsFinal ==
  lines = 1 =>
    /\ client.stopped => Live = {} /\ reconnecting = {} /\ beating = {}
    /\ \A s \in Socket : sock[s] = "open" => s \in beating

LinesAccountedFor == OneLinePerStart /\ StopIsFinal
===============================================================================
