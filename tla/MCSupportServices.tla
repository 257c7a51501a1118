--------------------------- MODULE MCSupportServices ---------------------------
(***************************************************************************)
(* A small instance of SupportServices for TLC.                            *)
(***************************************************************************)
EXTENDS SupportServices

\* Two runs with different plans, in different sessions.
CONSTANTS r1, r2
MCPlanOf    == [r \in Run |-> IF r = r2 THEN "rebuild profile" ELSE "restart spooler"]
MCSessionOf == [r \in Run |-> IF r = r2 THEN "s2" ELSE "s1"]

\* The second login session expires before time stops.
CONSTANTS s1, s2
MCEndsAt == [s \in Login |-> IF s = s2 THEN 2 ELSE 9]

CONSTANTS c1, c2, c3
MCKindOf == [c \in Call |-> IF c = c1 THEN "unkeyed" ELSE IF c = c2 THEN "keyed" ELSE "read"]

\* Two users of one tenant, and a key of a process.
CONSTANTS tenant, user1, user2
MCCharges  == {{tenant, user1}, {tenant, user2}}
MCCapacity == [b \in Bucket |-> IF b = tenant THEN 3 ELSE 2]
MCRefill   == [b \in Bucket |-> 1]

\* Versions of three records; one version of the first has another place than the rest.
Version(id, place, canonical) == [id |-> id, place |-> place, canonical |-> canonical]
MCItem == {Version(1, 1, 1), Version(1, 1, 6), Version(1, 3, 0),
           Version(2, 2, 5), Version(2, 2, 2), Version(3, 2, 3), Version(3, 2, 4)}

\* Two faults of one place of the synthetic environment, and one of another.
CONSTANTS f1, f2, f3, printing, directory
MCPlaceOf    == [f \in Fault |-> IF f = f3 THEN directory ELSE printing]
MCFaultValue == [f \in Fault |-> IF f = f2 THEN "stuck" ELSE "down"]
MCBaseline   == [p \in Place |-> "well"]

\* The lock of the second object lasts longer.
CONSTANTS l1, l2
MCLockTtl == [l \in LockObject |-> IF l = l1 THEN 1 ELSE 2]

\* Two engineers, each the author of a bundle; a run that the strict policy blocks.
CONSTANTS b1, b2, noor, omar, run1, run2, strict
MCAuthor == [b \in Bundle |-> IF b = b1 THEN noor ELSE omar]
MCBlocks == {<<strict, run1>>}
===============================================================================
