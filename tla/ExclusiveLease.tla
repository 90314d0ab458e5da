---------------------------- MODULE ExclusiveLease ----------------------------
(***************************************************************************)
(* What a caller of DistributedLockService may rely on, with nothing said  *)
(* of Redis, random values, retries or scripts: per key, at most one lease *)
(* is live at a time.  A lease is granted for a limited time; when that    *)
(* time is over it lapses whether its holder has finished or not.  A lease *)
(* that nobody works under (it was given back, the process of its holder   *)
(* died, or the reply that granted it was lost) is orphaned: it keeps its  *)
(* key until the key is freed or the time of the lease is over.            *)
(*                                                                         *)
(* DistributedLock implements this specification (LeaseRefinement there).  *)
(***************************************************************************)

CONSTANTS
  Requests,   \* the calls that ask for a lease
  KeyOf       \* KeyOf[r]: the key that r asks for

VARIABLE lease   \* lease[r]: how far r's lease has got

States == {"none", "active", "lapsed", "orphaned", "ended"}

\* The states in which a lease keeps other requests away from its key.
Live == {"active", "orphaned"}

Init == lease = [r \in Requests |-> "none"]

SetLease(r, s) == lease' = [lease EXCEPT ![r] = s]

Grant(r) ==
  /\ lease[r] = "none"
  /\ \A q \in Requests : KeyOf[q] = KeyOf[r] => lease[q] \notin Live
  /\ \E s \in Live : SetLease(r, s)

Deny(r) == lease[r] = "none" /\ SetLease(r, "ended")

\* The time of the lease is over.  A holder that is still at work does not notice.
Lapse(r) == lease[r] = "active" /\ SetLease(r, "lapsed")

\* The holder gives the lease back.
Return(r) ==
  \/ lease[r] = "active" /\ SetLease(r, "orphaned")
  \/ lease[r] = "lapsed" /\ SetLease(r, "ended")

\* An orphaned lease ends; if the request that it was meant for is still asking,
\* that request may be granted another one.
Free(r) == lease[r] = "orphaned" /\ \E s \in {"none", "ended"} : SetLease(r, s)

AfterCrash(s) ==
  CASE s = "active" -> "orphaned"
    [] s \in {"none", "lapsed"} -> "ended"
    [] OTHER -> s

\* The process that serves the requests of S dies: none of them will ask,
\* work or give back anything any more.
Crash(S) ==
  lease' = [r \in Requests |-> IF r \in S THEN AfterCrash(lease[r]) ELSE lease[r]]

Next ==
  \/ \E r \in Requests : Grant(r) \/ Deny(r) \/ Lapse(r) \/ Return(r) \/ Free(r)
  \/ \E S \in SUBSET Requests : Crash(S)

Spec == Init /\ [][Next]_lease

-----------------------------------------------------------------------------

TypeOK == lease \in [Requests -> States]

\* Two live leases never share a key.
Exclusive ==
  \A r, q \in Requests :
    KeyOf[r] = KeyOf[q] /\ lease[r] \in Live /\ lease[q] \in Live => r = q

=============================================================================
