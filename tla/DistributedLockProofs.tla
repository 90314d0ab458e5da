------------------------ MODULE DistributedLockProofs ------------------------
(***************************************************************************)
(* Theorems about DistributedLock for every set of requests, keys and      *)
(* processes and every retry count: type correctness, mutual exclusion, no *)
(* key stranded by a release, the implementation of ExclusiveLease and     *)
(* what follows from it, and the measure by which acquireLock ends.        *)
(*                                                                         *)
(* MutualExclusion is not inductive: nothing in it says why a second SET   *)
(* is refused.  LockInv adds that a holder whose TTL has not run out still *)
(* owns its key in Redis.                                                  *)
(***************************************************************************)
EXTENDS DistributedLock, TLAPS

\* The value in a Redis key was put there by a request that locks this key.
OwnersByKey == \A k \in Keys : owner[k] # NoOwner => KeyOf[owner[k]] = k

\* A request that was told it has the lock owns its Redis key until the TTL runs out,
\* and not any longer.
HoldersOwn ==
  \A r \in Requests : call[r] = "held" => (owner[KeyOf[r]] = r <=> ~lapsed[r])

\* A request is in the loop of acquireLock only while it has a round left, and
\* there is no lock of it yet that could have lapsed.
RoundsLeft ==
  \A r \in Requests :
    call[r] \in {"idle", "trying", "waiting"} => attempts[r] < RetryCount /\ ~lapsed[r]

LockInv == TypeOK /\ RoundsLeft /\ OwnersByKey /\ HoldersOwn /\ NoStrandedKey

-----------------------------------------------------------------------------

\* SET NX leaves every key as it is but a free one, which it gives to its sender.
LEMMA SetIfAbsentLemma ==
  ASSUME TypeOK, NEW r \in Requests
  PROVE  /\ SetIfAbsent(r) \in [Keys -> Requests \cup {NoOwner}]
         /\ \A k \in Keys :
              \/ SetIfAbsent(r)[k] = owner[k]
              \/ k = KeyOf[r] /\ owner[k] = NoOwner /\ SetIfAbsent(r)[k] = r
         /\ SetIfAbsent(r) # owner => SetIfAbsent(r)[KeyOf[r]] = r
  BY LockAssumption DEF TypeOK, SetIfAbsent

\* The script leaves every key as it is but the caller's own, which becomes free.
LEMMA DeleteIfOwnedLemma ==
  ASSUME TypeOK, NEW r \in Requests
  PROVE  /\ DeleteIfOwned(r) \in [Keys -> Requests \cup {NoOwner}]
         /\ \A k \in Keys :
              \/ DeleteIfOwned(r)[k] = owner[k]
              \/ k = KeyOf[r] /\ owner[k] = r /\ DeleteIfOwned(r)[k] = NoOwner
         /\ DeleteIfOwned(r)[KeyOf[r]] # r
  BY LockAssumption DEF TypeOK, DeleteIfOwned

-----------------------------------------------------------------------------

\* The invariant holds when no request has come yet.
LEMMA InvInit == Init => LockInv
  BY LockAssumption
  DEF Init, LockInv, TypeOK, RoundsLeft, OwnersByKey, HoldersOwn, NoStrandedKey,
      Holding, CallStates, InFlight

\* A step that leaves the keys and the history alone, and moves one request r to a
\* state in which r neither holds nor has released, keeps the lock's invariant.
LEMMA QuietStep ==
  ASSUME LockInv, NEW r \in Requests,
         NEW s \in CallStates \ {"held", "idle", "released"},
         SetCall(r, s), UNCHANGED <<owner, lapsed>>
  PROVE  OwnersByKey' /\ HoldersOwn' /\ NoStrandedKey'
  BY DEF LockInv, TypeOK, SetCall, OwnersByKey, HoldersOwn, NoStrandedKey, Holding

\* A SET of r, whether its reply arrives or not, neither takes the key of another
\* request q nor gives it one.
LEMMA OthersKeep ==
  ASSUME LockInv, NEW r \in Requests, NEW q \in Requests \ {r},
         owner' \in {owner, SetIfAbsent(r)}
  PROVE  owner'[KeyOf[q]] = q <=> owner[KeyOf[q]] = q
  <1>1. KeyOf[q] \in Keys /\ q # NoOwner
    BY LockAssumption
  <1>2. \/ SetIfAbsent(r)[KeyOf[q]] = owner[KeyOf[q]]
        \/ owner[KeyOf[q]] = NoOwner /\ SetIfAbsent(r)[KeyOf[q]] = r
    BY <1>1, SetIfAbsentLemma DEF LockInv
  <1> QED BY <1>1, <1>2

\* Every step of the specification preserves the invariant.
LEMMA InvStep == LockInv /\ [Next]_vars => LockInv'
  <1> SUFFICES ASSUME LockInv, [Next]_vars PROVE LockInv'
    OBVIOUS
  <1> USE DEF LockInv
  <1>1. ASSUME NEW r \in Requests, Acquire(r) PROVE LockInv'
    <2>1. TypeOK' /\ RoundsLeft'
      BY <1>1 DEF Acquire, SetCall, TypeOK, RoundsLeft, CallStates, InFlight
    <2>2. OwnersByKey' /\ HoldersOwn' /\ NoStrandedKey'
      BY <1>1, QuietStep DEF Acquire, CallStates, InFlight
    <2> QED BY <2>1, <2>2
  <1>2. ASSUME NEW r \in Requests, Try(r) PROVE LockInv'
    <2>1. TypeOK'
      BY <1>2, SetIfAbsentLemma DEF Try, SetCall, TypeOK, CallStates, InFlight
    <2>2. RoundsLeft'
      BY <1>2 DEF Try, SetCall, TypeOK, RoundsLeft
    <2>3. OwnersByKey'
      BY <1>2, SetIfAbsentLemma DEF Try, OwnersByKey, TypeOK
    <2>4. ASSUME NEW q \in Requests, call'[q] = "held"
          PROVE  owner'[KeyOf[q]] = q <=> ~lapsed'[q]
      <3>1. CASE q = r
        BY <1>2, <2>4, <3>1, SetIfAbsentLemma DEF Try, SetCall, RoundsLeft, TypeOK
      <3>2. CASE q # r
        BY <1>2, <2>4, <3>2, OthersKeep DEF Try, SetCall, HoldersOwn, TypeOK
      <3> QED BY <3>1, <3>2
    <2>5. NoStrandedKey'
      BY <1>2, SetIfAbsentLemma, LockAssumption
      DEF Try, SetCall, NoStrandedKey, TypeOK
    <2> QED BY <2>1, <2>2, <2>3, <2>4, <2>5 DEF HoldersOwn
  <1>3. ASSUME NEW r \in Requests, SetUnseen(r) PROVE LockInv'
    <2>1. TypeOK' /\ RoundsLeft'
      BY <1>3, SetIfAbsentLemma DEF SetUnseen, TypeOK, RoundsLeft
    <2>2. OwnersByKey'
      BY <1>3, SetIfAbsentLemma DEF SetUnseen, OwnersByKey, TypeOK
    <2>3. \A q \in Requests \ {r} : owner'[KeyOf[q]] = q <=> owner[KeyOf[q]] = q
      BY <1>3, OthersKeep DEF SetUnseen
    <2>4. HoldersOwn' /\ NoStrandedKey'
      BY <1>3, <2>3 DEF SetUnseen, HoldersOwn, NoStrandedKey
    <2> QED BY <2>1, <2>2, <2>4
  <1>4. ASSUME NEW r \in Requests, TryFails(r) PROVE LockInv'
    <2>1. TypeOK' /\ RoundsLeft'
      BY <1>4, SetIfAbsentLemma
      DEF TryFails, SetCall, TypeOK, RoundsLeft, CallStates, InFlight
    <2>2. OwnersByKey'
      BY <1>4, SetIfAbsentLemma DEF TryFails, OwnersByKey, TypeOK
    <2>3. \A q \in Requests \ {r} : owner'[KeyOf[q]] = q <=> owner[KeyOf[q]] = q
      BY <1>4, OthersKeep DEF TryFails
    <2>4. call'[r] = "acquireFailed" /\ \A q \in Requests \ {r} : call'[q] = call[q]
      BY <1>4 DEF TryFails, SetCall, TypeOK
    <2>5. HoldersOwn' /\ NoStrandedKey'
      BY <1>4, <2>3, <2>4 DEF TryFails, HoldersOwn, NoStrandedKey
    <2> QED BY <2>1, <2>2, <2>5
  <1>5. ASSUME NEW r \in Requests, Retry(r) PROVE LockInv'
    <2>1. attempts[r] + 1 \in 0 .. RetryCount
      BY <1>5, LockAssumption DEF Retry, RoundsLeft, TypeOK
    <2>2. TypeOK' /\ RoundsLeft'
      BY <1>5, <2>1 DEF Retry, SetCall, TypeOK, RoundsLeft, CallStates, InFlight
    <2>3. OwnersByKey' /\ HoldersOwn' /\ NoStrandedKey'
      BY <1>5, QuietStep DEF Retry, CallStates, InFlight
    <2> QED BY <2>2, <2>3
  <1>6. ASSUME NEW r \in Requests, Release(r) PROVE LockInv'
    <2>1. TypeOK' /\ RoundsLeft'
      BY <1>6 DEF Release, SetCall, TypeOK, RoundsLeft, CallStates, InFlight
    <2>2. OwnersByKey' /\ HoldersOwn' /\ NoStrandedKey'
      BY <1>6, QuietStep DEF Release, CallStates, InFlight
    <2> QED BY <2>1, <2>2
  <1>7. ASSUME NEW r \in Requests,
               RunScript(r) \/ ScriptUnseen(r) \/ ScriptFails(r)
        PROVE  LockInv'
    <2>1. owner' = owner \/ owner' = DeleteIfOwned(r)
      BY <1>7 DEF RunScript, ScriptUnseen, ScriptFails
    <2>2. TypeOK' /\ RoundsLeft'
      <3>1. owner' \in [Keys -> Requests \cup {NoOwner}]
        BY <2>1, DeleteIfOwnedLemma DEF TypeOK
      <3>2. UNCHANGED <<attempts, lapsed>>
        BY <1>7 DEF RunScript, ScriptUnseen, ScriptFails
      <3>3. \E s \in {"releasing", "released", "releaseFailed"} : SetCall(r, s)
        BY <1>7 DEF RunScript, ScriptUnseen, ScriptFails, SetCall, TypeOK
      <3> QED
        BY <3>1, <3>2, <3>3 DEF SetCall, TypeOK, RoundsLeft, CallStates, InFlight
    <2>3. OwnersByKey'
      BY <2>1, DeleteIfOwnedLemma DEF OwnersByKey, TypeOK
    <2>4. HoldersOwn' /\ NoStrandedKey'
      BY <1>7, <2>1, DeleteIfOwnedLemma, LockAssumption
      DEF RunScript, ScriptUnseen, ScriptFails, SetCall, HoldersOwn, NoStrandedKey,
          Holding, TypeOK
    <2> QED BY <2>2, <2>3, <2>4
  <1>8. ASSUME NEW k \in Keys, Expire(k) PROVE LockInv'
    <2>1. owner[k] \in Requests
      BY <1>8 DEF Expire, TypeOK
    <2>2. TypeOK' /\ RoundsLeft' /\ OwnersByKey' /\ NoStrandedKey'
      BY <1>8, <2>1, LockAssumption
      DEF Expire, TypeOK, RoundsLeft, OwnersByKey, NoStrandedKey, CallStates, InFlight
    <2>3. ASSUME NEW q \in Requests, call'[q] = "held"
          PROVE  owner'[KeyOf[q]] = q <=> ~lapsed'[q]
      <3>1. call[q] = "held" /\ (owner[KeyOf[q]] = q <=> ~lapsed[q])
        BY <1>8, <2>3 DEF Expire, HoldersOwn
      <3>2. CASE q = owner[k]
        BY <1>8, <2>1, <3>1, <3>2, LockAssumption DEF Expire, TypeOK, OwnersByKey
      <3>3. CASE q # owner[k]
        <4>1. lapsed'[q] = lapsed[q]
          BY <1>8, <3>3 DEF Expire, TypeOK
        <4>2. owner'[KeyOf[q]] = q <=> owner[KeyOf[q]] = q
          BY <1>8, <3>3, LockAssumption DEF Expire, TypeOK
        <4> QED BY <3>1, <4>1, <4>2
      <3> QED BY <3>2, <3>3
    <2> QED BY <2>2, <2>3 DEF HoldersOwn
  <1>9. ASSUME NEW i \in Instances, ProcessEnds(i) PROVE LockInv'
    BY <1>9
    DEF ProcessEnds, TypeOK, RoundsLeft, OwnersByKey, HoldersOwn, NoStrandedKey, Holding,
        CallStates, InFlight
  <1>10. CASE UNCHANGED vars
    BY <1>10
    DEF vars, TypeOK, RoundsLeft, OwnersByKey, HoldersOwn, NoStrandedKey, Holding
  <1> QED
    BY <1>1, <1>2, <1>3, <1>4, <1>5, <1>6, <1>7, <1>8, <1>9, <1>10
    DEF Next, RequestStep, Terminated

\* In every reachable state the invariant holds.
THEOREM InvAlways == SafeSpec => []LockInv
  BY InvInit, InvStep, PTL DEF SafeSpec

\* Every variable keeps its type; attempts never exceeds RetryCount.
THEOREM TypeCorrect == SafeSpec => []TypeOK
  BY InvAlways, PTL DEF LockInv

\* Two requests that hold the same lock within its TTL are one.
THEOREM LocksExclude == SafeSpec => []MutualExclusion
  <1>1. LockInv => MutualExclusion
    BY DEF LockInv, HoldersOwn, Holding, MutualExclusion
  <1> QED BY <1>1, InvAlways, PTL

\* A release that returned has left no key behind.
THEOREM ReleasesFree == SafeSpec => []NoStrandedKey
  BY InvAlways, PTL DEF LockInv

-----------------------------------------------------------------------------
(* DistributedLock implements ExclusiveLease *)

\* The lease of a request changes only with its own call, its own history, or its
\* own value coming to or leaving its key.
LEMMA SameLease ==
  ASSUME NEW q \in Requests, call'[q] = call[q], lapsed'[q] = lapsed[q],
         owner'[KeyOf[q]] = q <=> owner[KeyOf[q]] = q
  PROVE  LeaseOf(q)' = LeaseOf(q)
  BY DEF LeaseOf

\* What the lease of r is, by the state of its call and the owner of its key.
LEMMA LeaseCases ==
  ASSUME NEW r \in Requests
  PROVE  /\ call[r] = "held" => LeaseOf(r) = IF lapsed[r] THEN "lapsed" ELSE "active"
         /\ call[r] # "held" /\ owner[KeyOf[r]] = r => LeaseOf(r) = "orphaned"
         /\ call[r] \in {"idle", "trying", "waiting"} /\ owner[KeyOf[r]] # r
              => LeaseOf(r) = "none"
         /\ call[r] \notin {"held", "idle", "trying", "waiting"} /\ owner[KeyOf[r]] # r
              => LeaseOf(r) = "ended"
  BY DEF LeaseOf

\* The same facts about the next state.
LEMMA LeaseCasesNext ==
  ASSUME NEW r \in Requests
  PROVE  /\ call'[r] = "held" => LeaseOf(r)' = IF lapsed'[r] THEN "lapsed" ELSE "active"
         /\ call'[r] # "held" /\ owner'[KeyOf[r]] = r => LeaseOf(r)' = "orphaned"
         /\ call'[r] \in {"idle", "trying", "waiting"} /\ owner'[KeyOf[r]] # r
              => LeaseOf(r)' = "none"
         /\ call'[r] \notin {"held", "idle", "trying", "waiting"} /\ owner'[KeyOf[r]] # r
              => LeaseOf(r)' = "ended"
  BY DEF LeaseOf

\* A step that may change only the lease of r, to s, sets the view accordingly.
LEMMA ViewUpdate ==
  ASSUME NEW r \in Requests, NEW s, LeaseOf(r)' = s,
         \A q \in Requests \ {r} : LeaseOf(q)' = LeaseOf(q)
  PROVE  /\ Lease!SetLease(r, s)
         /\ s = LeaseOf(r) => UNCHANGED LeaseView
  BY DEF Lease!SetLease, LeaseView

\* While a key is free in Redis no lease of it is live.
LEMMA FreeKeyNoLease ==
  ASSUME LockInv, NEW r \in Requests, owner[KeyOf[r]] = NoOwner
  PROVE  \A q \in Requests : KeyOf[q] = KeyOf[r] => LeaseView[q] \notin Lease!Live
  <1> SUFFICES ASSUME NEW q \in Requests, KeyOf[q] = KeyOf[r]
               PROVE  LeaseOf(q) \notin {"active", "orphaned"}
    BY DEF LeaseView, Lease!Live
  <1>1. owner[KeyOf[q]] # q
    BY LockAssumption
  <1>2. call[q] = "held" => lapsed[q]
    BY <1>1 DEF LockInv, HoldersOwn
  <1> QED BY <1>1, <1>2, LeaseCases DEF LockInv, TypeOK, CallStates, InFlight

\* The lease starts as the specification of it wants.
LEMMA LeaseInit == Init => Lease!Init
  BY LockAssumption DEF Init, Lease!Init, LeaseView, LeaseOf

\* Every step is a step of the lease or leaves the lease as it is.
LEMMA LeaseStep == LockInv /\ [Next]_vars => [Lease!Next]_LeaseView
  <1> SUFFICES ASSUME LockInv, Next PROVE Lease!Next \/ UNCHANGED LeaseView
    <2>1. CASE UNCHANGED vars
      BY <2>1 DEF vars, LeaseView, LeaseOf
    <2> QED BY <2>1
  <1> USE DEF LockInv
  <1>1. ASSUME NEW r \in Requests, Acquire(r) PROVE UNCHANGED LeaseView
    <2>1. \A q \in Requests \ {r} : LeaseOf(q)' = LeaseOf(q)
      BY <1>1, SameLease DEF Acquire, SetCall, TypeOK
    <2>2. owner[KeyOf[r]] # r
      BY <1>1 DEF Acquire, NoStrandedKey
    <2>3. LeaseOf(r) = "none" /\ LeaseOf(r)' = "none"
      BY <1>1, <2>2, LeaseCases, LeaseCasesNext DEF Acquire, SetCall, TypeOK
    <2> QED BY <2>1, <2>3, ViewUpdate
  <1>2. ASSUME NEW r \in Requests,
               Try(r) \/ SetUnseen(r) \/ TryFails(r)
        PROVE  Lease!Next \/ UNCHANGED LeaseView
    <2> DEFINE k == KeyOf[r]
    <2>1. /\ call[r] = "trying" /\ lapsed' = lapsed
          /\ \A q \in Requests \ {r} : call'[q] = call[q]
          /\ owner' = owner \/ owner' = SetIfAbsent(r)
      BY <1>2 DEF Try, SetUnseen, TryFails, SetCall, TypeOK
    <2>2. \A q \in Requests \ {r} : LeaseOf(q)' = LeaseOf(q)
      BY <2>1, SetIfAbsentLemma, SameLease, LockAssumption
    <2>3. LeaseOf(r) = IF owner[k] = r THEN "orphaned" ELSE "none"
      BY <2>1, LeaseCases
    <2>4. /\ call'[r] \in {"held", "trying", "waiting", "acquireFailed"}
          /\ call'[r] = "held" => owner' # owner
      BY <1>2 DEF Try, SetUnseen, TryFails, SetCall, TypeOK
    <2>5. ~lapsed'[r]
      BY <2>1 DEF RoundsLeft
    <2>6. CASE owner' # owner
      <3>1. owner[k] = NoOwner /\ owner'[k] = r
        BY <2>1, <2>6, SetIfAbsentLemma DEF SetIfAbsent
      <3>2. LeaseOf(r) = "none"
        BY <2>3, <3>1, LockAssumption
      <3>3. LeaseOf(r)' \in {"active", "orphaned"}
        BY <2>4, <2>5, <3>1, LeaseCasesNext
      <3>4. Lease!Grant(r)
        BY <2>2, <3>1, <3>2, <3>3, FreeKeyNoLease, ViewUpdate
        DEF Lease!Grant, LeaseView, Lease!Live
      <3> QED BY <3>4 DEF Lease!Next
    <2>7. CASE owner' = owner
      <3>1. CASE owner[k] = r
        BY <2>2, <2>3, <2>4, <2>7, <3>1, LeaseCasesNext, ViewUpdate
      <3>2. CASE owner[k] # r /\ call'[r] # "acquireFailed"
        BY <2>2, <2>3, <2>4, <2>7, <3>2, LeaseCasesNext, ViewUpdate
      <3>3. CASE owner[k] # r /\ call'[r] = "acquireFailed"
        <4>1. Lease!Deny(r)
          BY <2>2, <2>3, <2>7, <3>3, LeaseCasesNext, ViewUpdate
          DEF Lease!Deny, LeaseView
        <4> QED BY <4>1 DEF Lease!Next
      <3> QED BY <2>4, <3>1, <3>2, <3>3
    <2> QED BY <2>6, <2>7
  <1>3. ASSUME NEW r \in Requests, Retry(r)
        PROVE  Lease!Next \/ UNCHANGED LeaseView
    <2>1. \A q \in Requests \ {r} : LeaseOf(q)' = LeaseOf(q)
      BY <1>3, SameLease DEF Retry, SetCall, TypeOK
    <2>2. call'[r] \in {"trying", "refused"} /\ owner' = owner
      BY <1>3 DEF Retry, SetCall, TypeOK
    <2>3. LeaseOf(r) = IF owner[KeyOf[r]] = r THEN "orphaned" ELSE "none"
      BY <1>3, LeaseCases DEF Retry
    <2>4. CASE owner[KeyOf[r]] = r \/ call'[r] = "trying"
      BY <2>1, <2>2, <2>3, <2>4, LeaseCasesNext, ViewUpdate
    <2>5. CASE owner[KeyOf[r]] # r /\ call'[r] = "refused"
      <3>1. Lease!Deny(r)
        BY <2>1, <2>2, <2>3, <2>5, LeaseCasesNext, ViewUpdate DEF Lease!Deny, LeaseView
      <3> QED BY <3>1 DEF Lease!Next
    <2> QED BY <2>2, <2>4, <2>5
  <1>4. ASSUME NEW r \in Requests, Release(r) PROVE Lease!Next
    <2>1. \A q \in Requests \ {r} : LeaseOf(q)' = LeaseOf(q)
      BY <1>4, SameLease DEF Release, SetCall, TypeOK
    <2>2. call[r] = "held" /\ call'[r] = "releasing" /\ owner' = owner
      BY <1>4 DEF Release, SetCall, TypeOK
    <2>3. LeaseOf(r) = IF lapsed[r] THEN "lapsed" ELSE "active"
      BY <2>2, LeaseCases
    <2>4. CASE owner[KeyOf[r]] = r /\ ~lapsed[r]
      BY <2>1, <2>2, <2>3, <2>4, LeaseCasesNext, ViewUpdate
      DEF Lease!Next, Lease!Return, LeaseView
    <2>5. CASE owner[KeyOf[r]] # r
      <3>1. lapsed[r]
        BY <2>2, <2>5 DEF HoldersOwn
      <3> QED
        BY <2>1, <2>2, <2>3, <2>5, <3>1, LeaseCasesNext, ViewUpdate
        DEF Lease!Next, Lease!Return, LeaseView
    <2>6. owner[KeyOf[r]] = r => ~lapsed[r]
      BY <2>2 DEF HoldersOwn
    <2> QED BY <2>4, <2>5, <2>6
  <1>5. ASSUME NEW r \in Requests,
               RunScript(r) \/ ScriptUnseen(r) \/ ScriptFails(r)
        PROVE  Lease!Next \/ UNCHANGED LeaseView
    <2> DEFINE k == KeyOf[r]
    <2>1. /\ call[r] = "releasing" /\ lapsed' = lapsed
          /\ call'[r] \in {"releasing", "released", "releaseFailed"}
          /\ \A q \in Requests \ {r} : call'[q] = call[q]
          /\ owner' = owner \/ owner' = DeleteIfOwned(r)
      BY <1>5 DEF RunScript, ScriptUnseen, ScriptFails, SetCall, TypeOK
    <2>2. \A q \in Requests \ {r} : LeaseOf(q)' = LeaseOf(q)
      BY <2>1, DeleteIfOwnedLemma, SameLease, LockAssumption
    <2>3. LeaseOf(r) = IF owner[k] = r THEN "orphaned" ELSE "ended"
      BY <2>1, LeaseCases
    <2>4. LeaseOf(r)' = IF owner'[k] = r THEN "orphaned" ELSE "ended"
      BY <2>1, LeaseCasesNext
    <2>5. owner'[k] = r => owner[k] = r
      BY <2>1, DeleteIfOwnedLemma DEF DeleteIfOwned
    <2>6. CASE owner'[k] = r <=> owner[k] = r
      BY <2>2, <2>3, <2>4, <2>6, ViewUpdate
    <2>7. CASE owner'[k] # r /\ owner[k] = r
      <3>1. Lease!Free(r)
        BY <2>2, <2>3, <2>4, <2>7, ViewUpdate DEF Lease!Free, LeaseView
      <3> QED BY <3>1 DEF Lease!Next
    <2> QED BY <2>5, <2>6, <2>7
  <1>6. ASSUME NEW k \in Keys, Expire(k) PROVE Lease!Next
    <2>1. PICK r \in Requests : r = owner[k] /\ KeyOf[r] = k
      BY <1>6 DEF Expire, TypeOK, OwnersByKey
    <2>2. /\ call' = call /\ owner'[k] = NoOwner
          /\ \A q \in Requests : KeyOf[q] # k => owner'[KeyOf[q]] = owner[KeyOf[q]]
          /\ \A q \in Requests \ {r} : lapsed'[q] = lapsed[q]
          /\ call[r] = "held" => lapsed'[r]
      BY <1>6, <2>1, LockAssumption DEF Expire, TypeOK
    <2>3. \A q \in Requests \ {r} : LeaseOf(q)' = LeaseOf(q)
      BY <2>1, <2>2, SameLease, LockAssumption
    <2>4. owner'[KeyOf[r]] # r
      BY <2>1, <2>2, LockAssumption
    <2>5. CASE call[r] = "held"
      <3>1. LeaseOf(r) = "active" /\ LeaseOf(r)' = "lapsed"
        BY <2>1, <2>2, <2>5, LeaseCases, LeaseCasesNext DEF HoldersOwn
      <3>2. Lease!Lapse(r)
        BY <2>1, <2>3, <3>1, ViewUpdate DEF Lease!Lapse, LeaseView
      <3> QED BY <2>1, <3>2 DEF Lease!Next
    <2>6. CASE call[r] # "held"
      <3>1. LeaseOf(r) = "orphaned"
        BY <2>1, <2>6, LeaseCases
      <3>2. LeaseOf(r)' \in {"none", "ended"}
        BY <2>1, <2>2, <2>4, <2>6, LeaseCasesNext
      <3>3. Lease!Free(r)
        BY <2>1, <2>3, <3>1, <3>2, ViewUpdate DEF Lease!Free, LeaseView
      <3> QED BY <2>1, <3>3 DEF Lease!Next
    <2> QED BY <2>5, <2>6
  <1>7. ASSUME NEW i \in Instances, ProcessEnds(i) PROVE Lease!Next
    <2> DEFINE S == {r \in Requests : InstanceOf[r] = i /\ call[r] \in InFlight}
    <2>1. owner' = owner /\ lapsed' = lapsed
      BY <1>7 DEF ProcessEnds
    <2>2. \A r \in S : call[r] \in InFlight /\ call'[r] = "dead"
      BY <1>7 DEF ProcessEnds
    <2>3. \A r \in Requests \ S : call'[r] = call[r]
      BY <1>7 DEF ProcessEnds
    <2>4. \A r \in Requests \ S : LeaseOf(r)' = LeaseOf(r)
      BY <2>1, <2>3, SameLease
    <2>5. ASSUME NEW r \in S PROVE LeaseOf(r)' = Lease!AfterCrash(LeaseOf(r))
      <3>1. r \in Requests
        OBVIOUS
      <3>2. LeaseOf(r)' = IF owner[KeyOf[r]] = r THEN "orphaned" ELSE "ended"
        BY <2>1, <2>2, <3>1, LeaseCasesNext
      <3>3. CASE call[r] = "held"
        BY <3>1, <3>2, <3>3, LeaseCases DEF HoldersOwn, Lease!AfterCrash
      <3>4. CASE call[r] \in {"trying", "waiting", "releasing"}
        BY <3>1, <3>2, <3>4, LeaseCases DEF Lease!AfterCrash
      <3> QED BY <2>2, <3>3, <3>4 DEF InFlight
    <2>6. LeaseView' =
            [r \in Requests |-> IF r \in S THEN Lease!AfterCrash(LeaseView[r])
                                           ELSE LeaseView[r]]
      BY <2>4, <2>5 DEF LeaseView
    <2> QED BY <2>6 DEF Lease!Next, Lease!Crash
  <1> QED
    <2>1. CASE Terminated
      BY <2>1 DEF Terminated, vars, LeaseView, LeaseOf
    <2>2. CASE \E r \in Requests : RequestStep(r)
      BY <2>2, <1>1, <1>2, <1>3, <1>4, <1>5 DEF RequestStep
    <2> QED BY <2>1, <2>2, <1>6, <1>7 DEF Next

\* The lock service, with its Redis keys, retries, lost replies and crashes, is an
\* exclusive lease.
THEOREM ImplementsLease == SafeSpec => LeaseRefinement
  BY InvAlways, LeaseInit, LeaseStep, PTL DEF SafeSpec, LeaseRefinement, Lease!Spec

-----------------------------------------------------------------------------
(* What the lock inherits from the lease *)

LeaseP == INSTANCE ExclusiveLeaseProofs WITH lease <- LeaseView

\* The lease that DistributedLock implements is the one the theorems are about.
LEMMA SameLeaseSpec == Lease!Spec => LeaseP!Spec
  <1> USE DEF Lease!States, LeaseP!States, Lease!Live, LeaseP!Live,
              Lease!SetLease, LeaseP!SetLease
  <1>1. Lease!Init => LeaseP!Init
    BY DEF Lease!Init, LeaseP!Init
  <1>2. \A r \in Requests :
          /\ Lease!Grant(r) => LeaseP!Grant(r)
          /\ Lease!Deny(r) => LeaseP!Deny(r)
          /\ Lease!Lapse(r) => LeaseP!Lapse(r)
          /\ Lease!Return(r) => LeaseP!Return(r)
          /\ Lease!Free(r) => LeaseP!Free(r)
    BY DEF Lease!Grant, LeaseP!Grant, Lease!Deny, LeaseP!Deny, Lease!Lapse, LeaseP!Lapse,
           Lease!Return, LeaseP!Return, Lease!Free, LeaseP!Free
  <1>3. \A S \in SUBSET Requests : Lease!Crash(S) => LeaseP!Crash(S)
    BY DEF Lease!Crash, LeaseP!Crash, Lease!AfterCrash, LeaseP!AfterCrash
  <1>4. [Lease!Next]_LeaseView => [LeaseP!Next]_LeaseView
    BY <1>2, <1>3 DEF Lease!Next, LeaseP!Next
  <1> QED BY <1>1, <1>4, PTL DEF Lease!Spec, LeaseP!Spec

\* In terms of the lease: two live leases of a key, be they at work or left behind by a
\* release that failed, a crash or a lost reply, are one.
THEOREM LeasesOfLockExclude == SafeSpec => []Lease!Exclusive
  <1>1. LeaseP!TypeOK /\ LeaseP!Exclusive => Lease!Exclusive
    BY DEF LeaseP!Exclusive, Lease!Exclusive, LeaseP!Live, Lease!Live
  <1> QED BY <1>1, ImplementsLease, SameLeaseSpec, LeaseP!LeasesExclude, PTL DEF LeaseRefinement

\* A request that is over, and whose value is not in its key, never owns the key again: no
\* late or repeated command of it locks the key for nobody.
THEOREM OverForGood ==
  ASSUME NEW x \in Requests
  PROVE  SafeSpec => [](LeaseOf(x) = "ended" => []~(owner[KeyOf[x]] = x))
  <1> DEFINE Ended == LeaseOf(x) = "ended"
             Gone == ~(owner[KeyOf[x]] = x)
             Final == \A r \in Requests : LeaseView[r] = "ended" => LeaseView'[r] = "ended"
  <1>1. Ended => Gone
    <2> SUFFICES ASSUME owner[KeyOf[x]] = x PROVE LeaseOf(x) # "ended"
      OBVIOUS
    <2> QED BY LeaseCases
  <1>2. [Final]_LeaseView /\ Ended => Ended'
    BY DEF LeaseView
  <1>3. SafeSpec => [][Final]_LeaseView
    <2>1. SafeSpec => LeaseP!EndedForGood
      BY ImplementsLease, SameLeaseSpec, LeaseP!EndsAreFinal, PTL DEF LeaseRefinement
    <2> QED BY <2>1 DEF LeaseP!EndedForGood
  <1> HIDE DEF Ended, Gone, Final
  <1>4. SafeSpec => [](Ended => []Gone)
    BY <1>1, <1>2, <1>3, PTL
  <1> QED BY <1>4 DEF Ended, Gone

\* acquireLock says "acquired" only if no other request was holding the lock of that key,
\* with its TTL left, when the SET was executed.
THEOREM GrantedWhenFree ==
  SafeSpec => [][\A r, q \in Requests :
                   Holding(r) /\ KeyOf[r] = KeyOf[q] =>
                     ~(call[q] = "trying" /\ call'[q] = "held")]_vars
  <1> DEFINE Granted ==
        \A r, q \in Requests :
          Holding(r) /\ KeyOf[r] = KeyOf[q] => ~(call[q] = "trying" /\ call'[q] = "held")
             Between ==
        \A r, q \in Requests :
          KeyOf[r] = KeyOf[q] /\ LeaseView[r] \in LeaseP!Live /\ LeaseView'[q] \in LeaseP!Live
            => r = q
  <1>1. LockInv /\ LockInv' /\ [Next]_vars /\ [Between]_LeaseView => [Granted]_vars
    <2> SUFFICES ASSUME LockInv, LockInv', Next, [Between]_LeaseView,
                        NEW r \in Requests, NEW q \in Requests,
                        Holding(r), KeyOf[r] = KeyOf[q], call[q] = "trying", call'[q] = "held"
                 PROVE  FALSE
      OBVIOUS
    <2>1. LeaseView[r] \in LeaseP!Live /\ r # q
      BY LeaseCases DEF Holding, LeaseView, LeaseP!Live, LockInv, TypeOK
    <2>2. Try(q)
      BY DEF Next, RequestStep, Acquire, Try, SetUnseen, TryFails, Retry, Release, RunScript,
             ScriptUnseen, ScriptFails, Expire, ProcessEnds, Terminated, SetCall, vars,
             LockInv, TypeOK, InFlight
    <2>3. ~lapsed'[q]
      BY <2>2 DEF Try, LockInv, RoundsLeft
    <2>4. LeaseView'[q] = "active" /\ LeaseView[q] # "active"
      <3>1. LeaseOf(q)' = "active"
        BY <2>3, LeaseCasesNext
      <3>2. LeaseOf(q) # "active"
        BY DEF LeaseOf
      <3> QED BY <3>1, <3>2 DEF LeaseView
    <2> QED BY <2>1, <2>4 DEF LeaseP!Live
  <1>2. SafeSpec => [][Between]_LeaseView
    BY ImplementsLease, SameLeaseSpec, LeaseP!FreeBetween, PTL
    DEF LeaseRefinement, LeaseP!NoHandover
  <1> HIDE DEF Granted, Between
  <1>3. SafeSpec => [][Granted]_vars
    BY <1>1, <1>2, InvAlways, PTL DEF SafeSpec
  <1> QED BY <1>3 DEF Granted

-----------------------------------------------------------------------------
(* Why acquireLock ends *)

\* What is left of the loop of acquireLock: the commands and pauses still to come.
Left(r) ==
  CASE call[r] = "trying"  -> 2 * (RetryCount - attempts[r])
    [] call[r] = "waiting" -> 2 * (RetryCount - attempts[r]) - 1
    [] OTHER               -> 0

\* The steps that Fairness promises a request in the loop.
LoopStep(r) == Try(r) \/ TryFails(r) \/ Retry(r)

RunsDown(r) ==
  /\ Left(r) \in Nat \ {0} /\ Left(r)' \in Nat
  /\ Left(r)' <= Left(r)
  /\ LoopStep(r) => Left(r)' < Left(r)

\* A step of the lock takes whoever is in the loop nearer to its end, or no farther from it.
LEMMA LoopGoesDown ==
  ASSUME LockInv, LockInv', Next, NEW r \in Requests, call[r] \in {"trying", "waiting"}
  PROVE  RunsDown(r)
  <1> USE DEF RunsDown
  <1>1. attempts[r] \in Nat /\ attempts[r] < RetryCount /\ RetryCount \in Nat
    BY LockAssumption DEF LockInv, RoundsLeft, TypeOK
  <1>2. Left(r) \in Nat \ {0}
    BY <1>1 DEF Left
  <1>3. CASE Retry(r)
    <2>1. /\ call[r] = "waiting" /\ attempts'[r] = attempts[r] + 1
          /\ call'[r] = IF attempts'[r] < RetryCount THEN "trying" ELSE "refused"
      BY <1>3 DEF Retry, SetCall, LockInv, TypeOK
    <2>2. CASE attempts'[r] < RetryCount
      BY <1>1, <2>1, <2>2 DEF Left
    <2>3. CASE ~(attempts'[r] < RetryCount)
      BY <1>1, <2>1, <2>3 DEF Left
    <2> QED BY <2>2, <2>3
  <1>4. CASE Try(r) \/ TryFails(r)
    <2>1. call[r] = "trying" /\ attempts' = attempts
          /\ call'[r] \in {"held", "waiting", "acquireFailed"}
      BY <1>4 DEF Try, TryFails, SetCall, LockInv, TypeOK
    <2> QED BY <1>1, <2>1 DEF Left
  <1>5. CASE ~LoopStep(r)
    <2>1. attempts'[r] = attempts[r] /\ call'[r] \in {call[r], "dead"}
      BY <1>5
      DEF LoopStep, Next, RequestStep, Acquire, Try, SetUnseen, TryFails, Retry, Release,
          RunScript, ScriptUnseen, ScriptFails, Expire, ProcessEnds, Terminated, SetCall,
          vars, LockInv, TypeOK
    <2> QED BY <1>1, <2>1, <1>5 DEF Left
  <1> QED BY <1>2, <1>3, <1>4, <1>5 DEF LoopStep

\* Each step of the loop takes it nearer to its end, and no step of anyone else, no lost
\* reply and no crash puts it back: all of AcquireReturns but the fairness.
THEOREM LoopsRunDown ==
  SafeSpec => [][\A r \in Requests : call[r] \in {"trying", "waiting"} => RunsDown(r)]_vars
  <1>1. LockInv /\ LockInv' /\ [Next]_vars =>
          [\A r \in Requests : call[r] \in {"trying", "waiting"} => RunsDown(r)]_vars
    BY LoopGoesDown
  <1> QED BY <1>1, InvAlways, PTL DEF SafeSpec

=============================================================================
