------------------------- MODULE MCTransactionService -------------------------
(* Three requests for one store on two processes: two in INR share a process,  *)
(* the one in another currency, which may wait for the FX service under the    *)
(* lock, runs in the other.  One round of acquireLock is enough here: several  *)
(* rounds are checked in MCDistributedLock.                                    *)
EXTENDS TransactionService

CONSTANTS r1, r2, r3, s1, i1, i2

MCRequests == {r1, r2, r3}
MCStores == {s1}
MCInstances == {i1, i2}
MCStoreOf == [r \in MCRequests |-> s1]
MCInINR == {r1, r3}
MCInstanceOf == [r \in MCRequests |-> IF r = r2 THEN i2 ELSE i1]

=============================================================================
