-------------------------- MODULE ExclusiveLeaseProofs --------------------------
(***************************************************************************)
(* Theorems about ExclusiveLease for every set of requests and any         *)
(* assignment of keys.  What is proved here of the abstract lease holds of *)
(* whatever implements it: DistributedLockProofs and, through the lock,    *)
(* TransactionServiceProofs carry these theorems over.                     *)
(***************************************************************************)
EXTENDS ExclusiveLease, TLAPS

LeaseInv == TypeOK /\ Exclusive

\* A lease that has ended stays so: its request gets no other one.
EndedForGood ==
  [][\A r \in Requests : lease[r] = "ended" => lease'[r] = "ended"]_lease

\* No step passes a key from one request to another: between two live leases of a key
\* there is a moment when none is live.
NoHandover ==
  [][\A r, q \in Requests :
       KeyOf[r] = KeyOf[q] /\ lease[r] \in Live /\ lease'[q] \in Live => r = q]_lease

\* What one step does to the leases: it grants one under a key that is free, or it makes
\* no lease live that was not, and undoes no end.
LEMMA LeaseSteps ==
  ASSUME TypeOK, [Next]_lease
  PROVE  /\ TypeOK'
         /\ \A r \in Requests : lease[r] = "ended" => lease'[r] = "ended"
         /\ \/ \A r \in Requests : lease'[r] \in Live => lease[r] \in Live
            \/ \E r \in Requests :
                 /\ \A q \in Requests : KeyOf[q] = KeyOf[r] => lease[q] \notin Live
                 /\ \A q \in Requests \ {r} : lease'[q] = lease[q]
  <1>1. ASSUME NEW r \in Requests, Grant(r)
        PROVE  /\ TypeOK'
               /\ lease[r] = "none"
               /\ \A q \in Requests : KeyOf[q] = KeyOf[r] => lease[q] \notin Live
               /\ \A q \in Requests \ {r} : lease'[q] = lease[q]
    BY <1>1 DEF Grant, SetLease, Live, TypeOK, States
  <1>2. ASSUME NEW r \in Requests, Deny(r) \/ Lapse(r) \/ Return(r) \/ Free(r)
        PROVE  /\ TypeOK'
               /\ lease[r] # "ended" /\ (lease'[r] \in Live => lease[r] \in Live)
               /\ \A q \in Requests \ {r} : lease'[q] = lease[q]
    BY <1>2 DEF Deny, Lapse, Return, Free, SetLease, Live, TypeOK, States
  <1>3. ASSUME NEW S \in SUBSET Requests, Crash(S)
        PROVE  /\ TypeOK'
               /\ \A r \in Requests : /\ lease[r] = "ended" => lease'[r] = "ended"
                                      /\ lease'[r] \in Live => lease[r] \in Live
    <2>1. \A s \in States : /\ AfterCrash(s) \in States
                            /\ s = "ended" => AfterCrash(s) = "ended"
                            /\ AfterCrash(s) \in Live => s \in Live
      BY DEF AfterCrash, States, Live
    <2> QED BY <1>3, <2>1 DEF Crash, TypeOK
  <1>4. CASE UNCHANGED lease
    BY <1>4 DEF TypeOK
  <1>5. CASE \E r \in Requests : Grant(r)
    BY <1>1, <1>5
  <1>6. CASE \E r \in Requests : Deny(r) \/ Lapse(r) \/ Return(r) \/ Free(r)
    BY <1>2, <1>6
  <1>7. CASE \E S \in SUBSET Requests : Crash(S)
    BY <1>3, <1>7
  <1> QED BY <1>4, <1>5, <1>6, <1>7 DEF Next

\* No lease is live at first.
LEMMA LeaseInvInit == Init => LeaseInv
  BY DEF Init, LeaseInv, TypeOK, Exclusive, States, Live

\* Exclusive is inductive, given the types.
LEMMA LeaseInvStep == LeaseInv /\ [Next]_lease => LeaseInv'
  <1> SUFFICES ASSUME LeaseInv, [Next]_lease PROVE Exclusive' /\ TypeOK'
    BY DEF LeaseInv
  <1>1. CASE \A r \in Requests : lease'[r] \in Live => lease[r] \in Live
    BY <1>1, LeaseSteps DEF LeaseInv, Exclusive
  <1>2. ASSUME NEW r \in Requests,
               \A q \in Requests : KeyOf[q] = KeyOf[r] => lease[q] \notin Live,
               \A q \in Requests \ {r} : lease'[q] = lease[q]
        PROVE  Exclusive'
    BY <1>2 DEF LeaseInv, Exclusive
  <1> QED BY <1>1, <1>2, LeaseSteps DEF LeaseInv

\* Types are kept, and two live leases never share a key.
THEOREM LeasesExclude == Spec => [](TypeOK /\ Exclusive)
  BY LeaseInvInit, LeaseInvStep, PTL DEF Spec, LeaseInv

\* An ended lease does not come back.
THEOREM EndsAreFinal == Spec => EndedForGood
  <1>1. TypeOK /\ [Next]_lease => [\A r \in Requests : lease[r] = "ended" => lease'[r] = "ended"]_lease
    BY LeaseSteps
  <1> QED BY <1>1, LeasesExclude, PTL DEF Spec, EndedForGood

\* A key is free between two leases of it.
THEOREM FreeBetween == Spec => NoHandover
  <1>1. LeaseInv /\ [Next]_lease =>
          [\A r, q \in Requests :
             KeyOf[r] = KeyOf[q] /\ lease[r] \in Live /\ lease'[q] \in Live => r = q]_lease
    <2> SUFFICES ASSUME LeaseInv, [Next]_lease, NEW r \in Requests, NEW q \in Requests,
                        KeyOf[r] = KeyOf[q], lease[r] \in Live, lease'[q] \in Live
                 PROVE  r = q
      OBVIOUS
    <2>1. lease[q] \in Live
      BY LeaseSteps DEF LeaseInv
    <2> QED BY <2>1 DEF LeaseInv, Exclusive
  <1> QED BY <1>1, LeasesExclude, PTL DEF Spec, NoHandover, LeaseInv

=============================================================================
