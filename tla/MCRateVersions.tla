---------------------------- MODULE MCRateVersions ----------------------------
(* Four requests and four quotes: two that miss together, one that finds what they *)
(* left, and one that misses after the entry has expired.                          *)
EXTENDS RateVersions, TLC

CONSTANTS r1, r2, r3, r4

MCRequests == {r1, r2, r3, r4}
MCSymmetry == Permutations(MCRequests)

=============================================================================
