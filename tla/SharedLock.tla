------------------------------- MODULE SharedLock -------------------------------
(***************************************************************************)
(* DistributedLock: objects with a token of their own that set one key in  *)
(* Redis for a time and delete it again, if it is still theirs.  Every     *)
(* command is awaited: it runs in Redis at some moment after it was sent,  *)
(* and its answer comes later or is lost, which raises in the caller.      *)
(*                                                                         *)
(* An object is used by one task at a time.                                *)
(***************************************************************************)
EXTENDS Integers

CONSTANTS LockObject, Nobody,
          LockTtl,           \* ttl_ms of each object
          LastMoment         \* bound: the clock of Redis

ASSUME LockAssumption ==
  /\ LockTtl \in [LockObject -> Nat \ {0}]
  /\ LastMoment \in Nat
  /\ Nobody \notin LockObject

VARIABLES key,               \* the key in Redis: whose token, and until when
          lock,              \* of each object: acquired, and the command it awaits
          late,              \* commands given up for lost that may still run
          moment,            \* the clock of Redis
          given              \* history: until when each object was given the lock

lockVars == <<key, lock, late, moment, given>>

LockTypeOK ==
  /\ key \in [token : LockObject \cup {Nobody}, until : Nat]
  /\ lock \in [LockObject -> [acquired : BOOLEAN, call : {"none", "acquire", "release"},
                              ran : BOOLEAN, reply : BOOLEAN]]
  /\ late \subseteq LockObject \X {"acquire", "release"}
  /\ moment \in 0 .. LastMoment
  /\ given \in [LockObject -> Nat]

Idle(acquired) == [acquired |-> acquired, call |-> "none", ran |-> FALSE, reply |-> FALSE]

LockInit ==
  /\ key = [token |-> Nobody, until |-> 0]
  /\ lock = [l \in LockObject |-> Idle(FALSE)]
  /\ late = {}
  /\ moment = 0
  /\ given = [l \in LockObject |-> 0]
-----------------------------------------------------------------------------
\* A millisecond passes, and with its last the key expires.
LockTick ==
  /\ moment < LastMoment
  /\ moment' = moment + 1
  /\ key' = IF key.until <= moment + 1 THEN [token |-> Nobody, until |-> 0] ELSE key
  /\ UNCHANGED <<lock, late, given>>

Sends(l, call) ==
  /\ lock[l].call = "none"
  /\ call = "release" => lock[l].acquired
  /\ lock' = [lock EXCEPT ![l].call = call]
  /\ UNCHANGED <<key, late, moment, given>>

\* The command runs in Redis, with this answer, awaited or not.
Runs(l, call, reply) ==
  /\ \/ /\ lock[l].call = call /\ ~lock[l].ran
        /\ lock' = [lock EXCEPT ![l].ran = TRUE, ![l].reply = reply]
        /\ UNCHANGED late
     \/ /\ <<l, call>> \in late
        /\ late' = late \ {<<l, call>>}
        /\ UNCHANGED lock
  /\ UNCHANGED moment

\* SET NX PX.
RunsAcquire(l) ==
  /\ Runs(l, "acquire", key.token = Nobody)
  /\ IF key.token = Nobody
     THEN /\ key' = [token |-> l, until |-> moment + LockTtl[l]]
          /\ given' = [given EXCEPT ![l] = moment + LockTtl[l]]
     ELSE UNCHANGED <<key, given>>

\* Mutant: the key is deleted, whoever's it is.
AnyToken(l) == key.token # Nobody

OwnToken(l) == key.token = l

\* _RELEASE.
RunsRelease(l) ==
  /\ Runs(l, "release", OwnToken(l))
  /\ key' = IF OwnToken(l) THEN [token |-> Nobody, until |-> 0] ELSE key
  /\ given' = [given EXCEPT ![l] = 0]

\* The answer comes: acquired says what it says, and after a release no.
Answered(l) ==
  /\ lock[l].ran
  /\ lock' = [lock EXCEPT ![l] = Idle(lock[l].call = "acquire" /\ lock[l].reply)]
  /\ UNCHANGED <<key, late, moment, given>>

\* The call raises and acquired stays as it was; a command that did not run yet runs later
\* or never.
AnswerLost(l) ==
  /\ lock[l].call # "none"
  /\ lock' = [lock EXCEPT ![l] = Idle(lock[l].acquired)]
  /\ \E more \in SUBSET (IF lock[l].ran THEN {} ELSE {<<l, lock[l].call>>}) :
       late' = late \cup more
  /\ UNCHANGED <<key, moment, given>>

LockNext ==
  \/ LockTick
  \/ \E l \in LockObject :
       \/ Sends(l, "acquire") \/ Sends(l, "release")
       \/ RunsAcquire(l) \/ RunsRelease(l) \/ Answered(l) \/ AnswerLost(l)

LockSpec == LockInit /\ [][LockNext]_lockVars
-----------------------------------------------------------------------------
Standing(l) == given[l] > moment

\* What was given for a time is kept for that time and no longer, whatever commands come
\* late: the key is that of the object whose grant stands, until the time runs out or a
\* release of its own runs; so no two objects have the lock at once.
GrantIsKept == \A l \in LockObject : Standing(l) <=> key.token = l
===============================================================================
