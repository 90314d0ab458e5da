-------------------------- MODULE MCDistributedLock --------------------------
(* Three requests compete for one key, two of them served by one process.    *)
(* Three are needed: one whose lock lapsed, one that took the key over and    *)
(* one that could slip in when the first one releases.                        *)
EXTENDS DistributedLock

CONSTANTS r1, r2, r3, k1, i1, i2

MCRequests == {r1, r2, r3}
MCKeys == {k1}
MCInstances == {i1, i2}
MCKeyOf == [r \in MCRequests |-> k1]
MCInstanceOf == [r \in MCRequests |-> IF r = r2 THEN i2 ELSE i1]

=============================================================================
