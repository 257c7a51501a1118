------------------------------- MODULE RateLimits -------------------------------
(***************************************************************************)
(* Token buckets: the Redis script behind the API's rate limits, which     *)
(* charges a tenant's, a user's and a network's bucket together or not at  *)
(* all, and the limiter of the secure API, which keeps one bucket per key  *)
(* in its process.                                                         *)
(*                                                                         *)
(* Both compute a level from the time of the last write, and the clock is  *)
(* a server's: it may be set back.  The Redis client evaluates the script  *)
(* again when a reply is lost, which is one more step here.                *)
(***************************************************************************)
EXTENDS Integers

CONSTANTS SharedBucket,    \* keys in Redis
          LocalBucket,     \* keys of a process
          Charges,         \* requests: the buckets each charges together
          Capacity, Refill,\* of each bucket; refill per tick
          MaxCost,
          MaxAdvance,      \* bound: ticks of the clock
          MaxStepsBack     \* bound: how often the clock is set back

Bucket == SharedBucket \cup LocalBucket

ASSUME BucketAssumption ==
  /\ SharedBucket \cap LocalBucket = {}
  /\ Charges \subseteq (SUBSET SharedBucket \ {{}})
  /\ Capacity \in [Bucket -> Nat \ {0}] /\ Refill \in [Bucket -> Nat \ {0}]
  /\ {MaxCost, MaxAdvance, MaxStepsBack} \subseteq Nat
  /\ \A b \in LocalBucket : MaxCost <= Capacity[b]    \* check raises otherwise

VARIABLES now,             \* the clock as it reads
          advances, back,  \* ticks it went forward, and back, since the start
          stored,          \* buckets written and not expired: [tokens, updated, expires]
          excess           \* history: the most that a stretch of time up to now took out of
                           \* a bucket, over what the clock's ticks in it put in

rateVars == <<now, advances, back, stored, excess>>

NotStored == [tokens |-> -1, updated |-> 0, expires |-> 0]

RatesTypeOK ==
  /\ now \in 0 .. MaxAdvance /\ advances \in 0 .. MaxAdvance /\ back \in 0 .. MaxStepsBack
  /\ \A b \in Bucket : stored[b] = NotStored \/ stored[b].tokens \in 0 .. Capacity[b]
  /\ excess \in [Bucket -> Nat]

RatesInit ==
  /\ now = 0 /\ advances = 0 /\ back = 0
  /\ stored = [b \in Bucket |-> NotStored]
  /\ excess = [b \in Bucket |-> 0]
-----------------------------------------------------------------------------
Lesser(a, b) == IF a < b THEN a ELSE b
Greater(a, b) == IF a > b THEN a ELSE b

Advances ==
  /\ advances < MaxAdvance
  /\ now' = now + 1 /\ advances' = advances + 1
  /\ excess' = [b \in Bucket |-> Greater(0, excess[b] - Refill[b])]
  /\ UNCHANGED <<back, stored>>

SetBack ==
  /\ now > 0 /\ back < MaxStepsBack
  /\ now' = now - 1 /\ back' = back + 1
  /\ UNCHANGED <<advances, stored, excess>>

\* Mutant: the level is not cut off at the capacity.
LevelUncapped(b) ==
  IF stored[b] = NotStored THEN Capacity[b]
  ELSE stored[b].tokens + Greater(0, now - stored[b].updated) * Refill[b]

\* What is in a bucket now; time that runs backwards takes nothing out.
Level(b) ==
  IF stored[b] = NotStored THEN Capacity[b]
  ELSE Lesser(Capacity[b], stored[b].tokens + Greater(0, now - stored[b].updated) * Refill[b])

\* EXPIRE: twice the time in which the bucket fills.
ExpiresIn(b) == (2 * Capacity[b] + Refill[b] - 1) \div Refill[b]

Charge(buckets, cost) ==
  excess' = [b \in Bucket |-> IF b \in buckets THEN excess[b] + cost ELSE excess[b]]

\* Redis drops a key some time after it expired, and at the latest when it is read.
Expires(b) ==
  /\ b \in SharedBucket /\ stored[b] # NotStored /\ stored[b].expires <= now
  /\ stored' = [stored EXCEPT ![b] = NotStored]
  /\ UNCHANGED <<now, advances, back, excess>>

\* The script of consume: all buckets are charged or none.  Refused, it writes nothing.
Consume(buckets, cost) ==
  /\ \A b \in buckets : /\ stored[b] # NotStored => stored[b].expires > now
                        /\ Level(b) >= cost
  /\ stored' = [b \in Bucket |-> IF b \notin buckets THEN stored[b] ELSE
       [tokens |-> Level(b) - cost, updated |-> now, expires |-> now + ExpiresIn(b)]]
  /\ Charge(buckets, cost)
  /\ UNCHANGED <<now, advances, back>>

\* check of the limiter in the process, which writes the level down when it refuses, too.
Check(b, cost) ==
  /\ LET granted == Level(b) >= cost
     IN /\ stored' = [stored EXCEPT ![b] =
             [tokens |-> IF granted THEN Level(b) - cost ELSE Level(b),
              updated |-> now, expires |-> 0]]
        /\ IF granted THEN Charge({b}, cost) ELSE UNCHANGED excess
  /\ UNCHANGED <<now, advances, back>>

RatesNext ==
  \/ Advances \/ SetBack
  \/ \E b \in SharedBucket : Expires(b)
  \/ \E cost \in 1 .. MaxCost : \/ \E buckets \in Charges : Consume(buckets, cost)
                                \/ \E b \in LocalBucket : Check(b, cost)

RatesSpec == RatesInit /\ [][RatesNext]_rateVars
-----------------------------------------------------------------------------
\* Over any stretch of time no bucket gives more than its capacity and what the clock's
\* ticks forward refill: not across an expiry of its key, not while other buckets refuse,
\* and when the clock was set back no more than the ticks it then makes again.
BurstIsBounded == \A b \in Bucket : excess[b] <= Capacity[b]
===============================================================================
