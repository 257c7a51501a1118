------------------------------ MODULE DigitalTwin ------------------------------
(***************************************************************************)
(* The synthetic environment: operators read its version and activate      *)
(* fault scenarios, roll the last change back or reset it, each as of the  *)
(* version they read.  The journal keeps what each change replaced, and    *)
(* snapshots are kept from before each activation.                         *)
(*                                                                         *)
(* A place stands for a domain and a path into it, digests are injective,  *)
(* and every operator has the role and the tenant.                         *)
(***************************************************************************)
EXTENDS Integers, Sequences, SequencesExt, FiniteSets

CONSTANTS Operator,
          Place, Fault,            \* fault scenarios: each sets its place to a value
          PlaceOf, FaultValue,
          Baseline,                \* the value of each place in the baseline
          SnapshotLimit,
          MaxVersion, MaxGeneration   \* bounds: changes between resets, and resets

ASSUME TwinAssumption ==
  /\ PlaceOf \in [Fault -> Place]
  /\ Baseline = [p \in Place |-> Baseline[p]] /\ DOMAIN FaultValue = Fault
  /\ {SnapshotLimit, MaxVersion, MaxGeneration} \subseteq Nat \ {0}

VARIABLES twin,             \* DigitalTwin: state, version, generation, journal
          snapshots,        \* SyntheticControlService._snapshots
          known,            \* the version each operator read last
          past_states       \* history: the states of this generation, by version

twinVars == <<twin, snapshots, known, past_states>>

TwinTypeOK ==
  /\ DOMAIN twin.state = Place
  /\ twin.version \in 0 .. MaxVersion /\ twin.generation \in 1 .. MaxGeneration
  /\ Len(twin.journal) <= twin.version
  /\ Cardinality(snapshots) <= SnapshotLimit
  /\ known \in [Operator -> 0 .. MaxVersion]

TwinInit ==
  /\ twin = [state |-> Baseline, version |-> 0, generation |-> 1, journal |-> <<>>]
  /\ snapshots = {}
  /\ known = [o \in Operator |-> 0]
  /\ past_states = <<Baseline>>
-----------------------------------------------------------------------------
\* The state read, by which an operator learns the version.
Reads(o) ==
  /\ known[o] # twin.version
  /\ known' = [known EXCEPT ![o] = twin.version]
  /\ UNCHANGED <<twin, snapshots, past_states>>

\* The identifier of a snapshot is its generation, version and digest.
Snapshot == [generation |-> twin.generation, version |-> twin.version, state |-> twin.state]

Capture ==
  /\ Cardinality(snapshots) < SnapshotLimit
  /\ snapshots' = snapshots \cup {Snapshot}
  /\ UNCHANGED <<twin, known, past_states>>

\* Mutant: what is replaced is read after the change.
PreviousAfter(place, value) == value

PreviousValue(place, value) == twin.state[place]

\* A change of one place, entered at the end of a journal.
Changed(journal, place, value, kind) ==
  LET state == [twin.state EXCEPT ![place] = value]
      entry == [sequence |-> twin.version + 1, kind |-> kind, place |-> place,
                value |-> value, previous |-> PreviousValue(place, value), result |-> state]
  IN /\ twin.version < MaxVersion
     /\ twin' = [twin EXCEPT !.state = state, !.version = @ + 1,
                             !.journal = Append(journal, entry)]
     /\ past_states' = Append(past_states, state)

\* activate: the snapshot is taken first, and kept though the version is refused (Capture).
Activate(o, f) ==
  /\ Cardinality(snapshots) < SnapshotLimit
  /\ known[o] = twin.version
  /\ snapshots' = snapshots \cup {Snapshot}
  /\ Changed(twin.journal, PlaceOf[f], FaultValue[f], "activate")
  /\ UNCHANGED known

\* rollback: the last entry is taken off, whatever it is, and one for its undoing put on.
RollBack(o) ==
  /\ known[o] = twin.version
  /\ twin.journal # <<>>
  /\ LET last == Last(twin.journal)
     IN Changed(Front(twin.journal), last.place, last.previous, "rollback")
  /\ UNCHANGED <<snapshots, known>>

\* Mutant: reset leaves the journal.
KeptJournal(journal) == journal

ClearedJournal(journal) == <<>>

\* reset, which names no version.
Reset ==
  /\ twin.generation < MaxGeneration
  /\ twin' = [state |-> Baseline, version |-> 0, generation |-> twin.generation + 1,
              journal |-> ClearedJournal(twin.journal)]
  /\ snapshots' = {}
  /\ past_states' = <<Baseline>>
  /\ UNCHANGED known

TwinNext ==
  \/ Capture \/ Reset
  \/ \E o \in Operator : Reads(o) \/ RollBack(o) \/ \E f \in Fault : Activate(o, f)

TwinSpec == TwinInit /\ [][TwinNext]_twinVars
-----------------------------------------------------------------------------
\* What the changes in the journal, made one after the other, make of the baseline.
Replayed == [p \in Place |->
  LET changes == {i \in DOMAIN twin.journal : twin.journal[i].place = p}
  IN IF changes = {} THEN Baseline[p] ELSE twin.journal[Max(changes)].value]

\* The journal explains the state, though rollbacks take entries out of it: replayed from
\* the baseline it gives the state, each entry's digest is that of the state its change
\* led to, and what the next rollback restores is exactly the state before the last change.
\* A snapshot shows the state its generation and version had.
JournalExplainsTwin ==
  /\ Replayed = twin.state
  /\ \A i \in 1 .. Len(twin.journal) :
       /\ past_states[twin.journal[i].sequence + 1] = twin.journal[i].result
       /\ i > 1 => twin.journal[i - 1].sequence < twin.journal[i].sequence
  /\ twin.journal # <<>> =>
       LET last == Last(twin.journal)
       IN [twin.state EXCEPT ![last.place] = last.previous] = past_states[twin.version]
  /\ \A s \in snapshots :
       s.generation = twin.generation /\ s.state = past_states[s.version + 1]
===============================================================================
