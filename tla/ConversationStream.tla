--------------------------- MODULE ConversationStream ---------------------------
(***************************************************************************)
(* The conversation of an employee with the assistant: commands that name  *)
(* the cursor they were written at, the assistant's deltas, the stop, and  *)
(* the windows of the page that read on after the last cursor they have.   *)
(* Only the last MAX_MESSAGES events are kept.                             *)
(*                                                                         *)
(* Tenant and employee are fixed, what other actors try is refused; texts  *)
(* and their redaction are data.  A command is sent again after a lost     *)
(* answer, with the cursor it was written at.                              *)
(***************************************************************************)
EXTENDS Integers, Sequences

CONSTANTS Window,            \* windows in which the conversation is open
          SendCommand,       \* command ids
          MAX_MESSAGES,
          MaxCursor          \* bound: events of the conversation

ASSUME ConversationAssumption == {MAX_MESSAGES, MaxCursor} \subseteq Nat \ {0}

VARIABLES conversation,      \* Conversation: stopped, commands, events (kept ones)
          window,            \* of each window, the cursor it read up to and what it has
          written_at,        \* the cursor each command was written at, -1: not written
          spoken             \* history: every event, in order

conversationVars == <<conversation, window, written_at, spoken>>

Said == [type : {"message"}, command : SendCommand]
          \cup [type : {"assistant_delta", "assistant_complete", "assistant_stopped"}]

ConversationTypeOK ==
  /\ conversation.stopped \in BOOLEAN /\ conversation.cursor \in 0 .. MaxCursor
  /\ conversation.commands \subseteq SendCommand
  /\ Len(conversation.events) <= MAX_MESSAGES
  /\ window \in [Window -> [cursor : 0 .. MaxCursor, got : SUBSET (1 .. MaxCursor)]]
  /\ written_at \in [SendCommand -> -1 .. MaxCursor]
  /\ spoken \in Seq(Said)

ConversationInit ==
  /\ conversation = [cursor |-> 0, stopped |-> FALSE, commands |-> {}, events |-> <<>>]
  /\ window = [w \in Window |-> [cursor |-> 0, got |-> {}]]
  /\ written_at = [c \in SendCommand |-> -1]
  /\ spoken = <<>>
-----------------------------------------------------------------------------
\* Mutant: once full, the list takes no more.
TrimmedAtEnd(events) ==
  IF Len(events) <= MAX_MESSAGES THEN events ELSE SubSeq(events, 1, MAX_MESSAGES)

\* row.events[-MAX_MESSAGES:].
Trimmed(events) ==
  IF Len(events) <= MAX_MESSAGES THEN events
  ELSE SubSeq(events, Len(events) - MAX_MESSAGES + 1, Len(events))

\* _append, with what else the caller writes in the row.
Appended(row, said) ==
  /\ row.cursor < MaxCursor
  /\ conversation' = [row EXCEPT
       !.cursor = @ + 1,
       !.events = Trimmed(Append(@, [cursor |-> row.cursor + 1, said |-> said]))]
  /\ spoken' = Append(spoken, said)

Writes(w, c) ==
  /\ written_at[c] = -1
  /\ written_at' = [written_at EXCEPT ![c] = window[w].cursor]
  /\ UNCHANGED <<conversation, window, spoken>>

\* Mutant: the cursor is looked at only to see that it is none of the future.
NotAhead(c) == written_at[c] \in 0 .. conversation.cursor

AtCursor(c) == written_at[c] = conversation.cursor

\* send, of a command not seen before.  A repeat is answered and changes nothing.
Send(c) ==
  /\ c \notin conversation.commands
  /\ ~conversation.stopped
  /\ AtCursor(c)
  /\ Appended([conversation EXCEPT !.commands = @ \cup {c}],
              [type |-> "message", command |-> c])
  /\ UNCHANGED <<window, written_at>>

AssistantDelta(final) ==
  /\ ~conversation.stopped
  /\ Appended(conversation,
              [type |-> IF final THEN "assistant_complete" ELSE "assistant_delta"])
  /\ UNCHANGED <<window, written_at>>

StopConversation ==
  /\ ~conversation.stopped
  /\ Appended([conversation EXCEPT !.stopped = TRUE], [type |-> "assistant_stopped"])
  /\ UNCHANGED <<window, written_at>>

\* after, asked by a window for what follows the cursor it has.
ReadAfter(w) ==
  LET new == {n \in DOMAIN conversation.events :
                conversation.events[n].cursor > window[w].cursor}
  IN /\ new # {}
     /\ window' = [window EXCEPT ![w] =
          [cursor |-> conversation.cursor,
           got |-> @.got \cup {conversation.events[n].cursor : n \in new}]]
     /\ UNCHANGED <<conversation, written_at, spoken>>

ConversationNext ==
  \/ StopConversation
  \/ \E final \in BOOLEAN : AssistantDelta(final)
  \/ \E c \in SendCommand : Send(c) \/ \E w \in Window : Writes(w, c)
  \/ \E w \in Window : ReadAfter(w)

ConversationSpec == ConversationInit /\ [][ConversationNext]_conversationVars
-----------------------------------------------------------------------------
\* Each message was said once, by someone who had all that was said before it or knew that
\* a window's worth of it was gone; nothing was said after the stop; and a window that
\* misses an event was given a full list after it: one that is given less has them all.
ConversationTells ==
  /\ \A i \in 1 .. Len(spoken) :
       /\ spoken[i].type = "message" => written_at[spoken[i].command] = i - 1
       /\ spoken[i].type = "assistant_stopped" => i = Len(spoken)
  /\ \A w \in Window : \A n \in 1 .. window[w].cursor :
       n \notin window[w].got =>
         \E m \in n + 1 .. window[w].cursor - MAX_MESSAGES + 1 :
           m - 1 \notin window[w].got /\ m .. m + MAX_MESSAGES - 1 \subseteq window[w].got
===============================================================================
