---------------------------- MODULE MCRateLimiter ----------------------------
(* Four requests of one client on two processes, with a limit of two: one      *)
(* creates the counter, one more passes, and two are over the limit or open    *)
(* the next window.                                                            *)
EXTENDS RateLimiter

CONSTANTS r1, r2, r3, r4, k1, i1, i2

MCRequests == {r1, r2, r3, r4}
MCCounters == {k1}
MCInstances == {i1, i2}
MCCounterOf == [r \in MCRequests |-> k1]
MCInstanceOf == [r \in MCRequests |-> IF r \in {r1, r2} THEN i1 ELSE i2]

=============================================================================
