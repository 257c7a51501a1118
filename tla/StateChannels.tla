------------------------------ MODULE StateChannels ------------------------------
(***************************************************************************)
(* The reducers of the graph state: what is left of messages, evidence and *)
(* errors, and of the retry counts, after the updates of parallel nodes    *)
(* were merged in the order they came in, some of them again after a node  *)
(* was run again.                                                          *)
(*                                                                         *)
(* The tuple _bounded_records returns is its records in the order of their *)
(* places, so a set of records stands for it.                              *)
(***************************************************************************)
EXTENDS Integers, FiniteSets

CONSTANTS Item,              \* versions of records: [id, place, canonical]
          Limit,             \* MAX_MESSAGES, MAX_EVIDENCE, MAX_ERRORS
          RetryNode,         \* names of nodes, numbered in their order
          MaxRetryNodes, MaxRetryPerNode,
          MaxCount           \* bound: counts a node reports

ASSUME ChannelAssumption ==
  /\ Item \subseteq [id : Nat, place : Nat, canonical : Nat] /\ IsFiniteSet(Item)
  /\ \A r, s \in Item : r.canonical = s.canonical => r = s
  /\ RetryNode \subseteq Nat /\ IsFiniteSet(RetryNode)
  /\ {Limit, MaxRetryNodes, MaxRetryPerNode, MaxCount} \subseteq Nat \ {0}

VARIABLES channel,           \* the records kept
          retry_counts,      \* a node without a count: 0
          written,           \* history: every version some update brought
          reported           \* history: the highest count some update brought, of each node

channelVars == <<channel, retry_counts, written, reported>>

ChannelTypeOK ==
  /\ channel \subseteq Item /\ written \subseteq Item
  /\ retry_counts \in [RetryNode -> 0 .. MaxRetryPerNode]
  /\ reported \in [RetryNode -> 0 .. MaxCount]

ChannelInit ==
  /\ channel = {} /\ written = {}
  /\ retry_counts = [n \in RetryNode |-> 0]
  /\ reported = [n \in RetryNode |-> 0]
-----------------------------------------------------------------------------
\* The sort key: the order field, then the identity.
Later(r, s) == r.place > s.place \/ (r.place = s.place /\ r.id > s.id)

\* One version of each record: the greatest in canonical form.
Merged(items) == {r \in items : \A s \in items : s.id = r.id => s.canonical <= r.canonical}

LastOf(items) == {r \in items : Cardinality({s \in items : Later(s, r)}) < Limit}

\* Mutant: a version that comes in later replaces the one there was.
BoundedOverwrites(current, updates) ==
  LastOf({r \in current : \A s \in updates : s.id # r.id} \cup Merged(updates))

\* _bounded_records.
Bounded(current, updates) == LastOf(Merged(current \cup updates))

Smaller(a, b) == IF a < b THEN a ELSE b
Larger(a, b) == IF a > b THEN a ELSE b

\* merge_retry_counts: the greatest count, capped, of the first nodes by name.
MergedCounts(counts, node, count) ==
  LET merged == [counts EXCEPT ![node] = Smaller(MaxRetryPerNode, Larger(@, count))]
      named  == {n \in RetryNode : merged[n] > 0}
  IN [n \in RetryNode |->
        IF Cardinality({m \in named : m < n}) < MaxRetryNodes THEN merged[n] ELSE 0]

\* An update of one or two records, as one node returns it.
MergeRecords(updates) ==
  /\ channel' = Bounded(channel, updates)
  /\ written' = written \cup updates
  /\ UNCHANGED <<retry_counts, reported>>

MergeRetries(node, count) ==
  /\ retry_counts' = MergedCounts(retry_counts, node, count)
  /\ reported' = [reported EXCEPT ![node] = Larger(@, count)]
  /\ UNCHANGED <<channel, written>>

ChannelNext ==
  \/ \E r, s \in Item : MergeRecords({r, s})
  \/ \E n \in RetryNode, count \in 1 .. MaxCount : MergeRetries(n, count)

ChannelSpec == ChannelInit /\ [][ChannelNext]_channelVars
-----------------------------------------------------------------------------
\* Versions of one record all carry the same place.
PlacesAgree == \A r, s \in written : r.id = s.id => r.place = s.place

\* What is kept does not depend on the order of the updates, nor on updates merged twice:
\* of all versions ever written the greatest of each record, and of these the last ones, as
\* long as the versions of a record agree on its place; whether they do or not, no record is
\* there twice and none is lost while there is room.  And of the nodes that failed, the first
\* by name keep the count of all their retries.
MergesAreOrderFree ==
  /\ PlacesAgree => channel = Bounded({}, written)
  /\ \A r, s \in channel : r.id = s.id => r = s
  /\ Cardinality(channel) = Smaller(Limit, Cardinality({r.id : r \in written}))
  /\ \A n \in RetryNode :
       LET before == {m \in RetryNode : m < n /\ reported[m] > 0}
       IN retry_counts[n] = IF Cardinality(before) < MaxRetryNodes
                            THEN Smaller(MaxRetryPerNode, reported[n]) ELSE 0
===============================================================================
