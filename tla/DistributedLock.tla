--------------------------- MODULE DistributedLock ---------------------------
(***************************************************************************)
(* DistributedLockService (src/core/services/distributed-lock.service.ts)  *)
(* and the Redis keys it works on.                                         *)
(*                                                                         *)
(* acquireLock draws a random value and sends SET key value PX ttl NX, at  *)
(* most RetryCount times with a pause after each refusal; releaseLock runs *)
(* a script that deletes the key if it still holds the caller's value.     *)
(* Several Node processes share one Redis.  A request makes one call of    *)
(* acquireLock, so the value that its call draws is named by the request.  *)
(*                                                                         *)
(* A connection may break when Redis has executed a command and its reply  *)
(* is on the way; ioredis then sends the command again (SetUnseen,         *)
(* ScriptUnseen), and makes the call throw only after many attempts.       *)
(*                                                                         *)
(* Time is not counted: the TTL of a key may run out at any moment, before *)
(* or after its holder is done, and a pause ends some time after it began. *)
(***************************************************************************)
EXTENDS Naturals

CONSTANTS
  Requests,     \* the calls of acquireLock, each with a value of its own
  Keys,         \* the keys that are locked
  KeyOf,        \* KeyOf[r]: the key that request r locks
  Instances,    \* the Node processes
  InstanceOf,   \* InstanceOf[r]: the process that serves request r
  RetryCount,   \* DEFAULT_RETRY_COUNT
  NoOwner       \* what a key holds that does not exist in Redis

ASSUME LockAssumption ==
  /\ KeyOf \in [Requests -> Keys]
  /\ InstanceOf \in [Requests -> Instances]
  /\ RetryCount \in Nat \ {0}
  /\ NoOwner \notin Requests

VARIABLES
  owner,      \* owner[k]: whose value the Redis key of k holds
  call,       \* call[r]: where request r is in acquireLock and releaseLock
  attempts,   \* attempts[r]: the local variable of acquireLock
  lapsed      \* lapsed[r]: history, the TTL of r's key ran out while r held the lock

vars == <<owner, call, attempts, lapsed>>

\* In flight: a request that has called acquireLock and may still touch Redis.
InFlight == {"trying", "waiting", "held", "releasing"}

CallStates ==
  InFlight \cup {"idle", "refused", "acquireFailed", "released", "releaseFailed", "dead"}

Init ==
  /\ owner = [k \in Keys |-> NoOwner]
  /\ call = [r \in Requests |-> "idle"]
  /\ attempts = [r \in Requests |-> 0]
  /\ lapsed = [r \in Requests |-> FALSE]

SetCall(r, s) == call' = [call EXCEPT ![r] = s]

-----------------------------------------------------------------------------
(* The two Redis commands, as what they leave in the keys. *)

\* Bug variant: SET without NX takes the key from its owner.
SetAlways(r) == [owner EXCEPT ![KeyOf[r]] = r]

SetIfAbsent(r) ==
  IF owner[KeyOf[r]] = NoOwner THEN [owner EXCEPT ![KeyOf[r]] = r] ELSE owner

\* Bug variant: DEL without comparing values.
DeleteAlways(r) == [owner EXCEPT ![KeyOf[r]] = NoOwner]

\* Bug variant: the script looks at a key that acquireLock never sets.
DeleteOtherKey(r) == owner

DeleteIfOwned(r) ==
  IF owner[KeyOf[r]] = r THEN [owner EXCEPT ![KeyOf[r]] = NoOwner] ELSE owner

-----------------------------------------------------------------------------
(* acquireLock *)

Acquire(r) ==
  /\ call[r] = "idle"
  /\ SetCall(r, "trying")
  /\ UNCHANGED <<owner, attempts, lapsed>>

\* One round of the loop: the reply is OK if this very SET created the key.
Try(r) ==
  /\ call[r] = "trying"
  /\ owner' = SetIfAbsent(r)
  /\ SetCall(r, IF owner' # owner THEN "held" ELSE "waiting")
  /\ UNCHANGED <<attempts, lapsed>>

\* The SET is executed and will be sent again, since its reply is lost.
SetUnseen(r) ==
  /\ call[r] = "trying"
  /\ owner' = SetIfAbsent(r)
  /\ UNCHANGED <<call, attempts, lapsed>>

\* The SET throws: Redis may have executed it all the same.
TryFails(r) ==
  /\ call[r] = "trying"
  /\ owner' \in {owner, SetIfAbsent(r)}
  /\ SetCall(r, "acquireFailed")
  /\ UNCHANGED <<attempts, lapsed>>

\* Bug variant: the loop does not count its rounds.
RetryForever(r) ==
  /\ call[r] = "waiting"
  /\ SetCall(r, "trying")
  /\ UNCHANGED <<owner, attempts, lapsed>>

\* Bug variant: one round too many.
RetryOnceMore(r) ==
  /\ call[r] = "waiting"
  /\ attempts' = [attempts EXCEPT ![r] = @ + 1]
  /\ SetCall(r, IF attempts'[r] <= RetryCount THEN "trying" ELSE "refused")
  /\ UNCHANGED <<owner, lapsed>>

\* The pause after a refused SET, also after the last one, and the loop's test.
Retry(r) ==
  /\ call[r] = "waiting"
  /\ attempts' = [attempts EXCEPT ![r] = @ + 1]
  /\ SetCall(r, IF attempts'[r] < RetryCount THEN "trying" ELSE "refused")
  /\ UNCHANGED <<owner, lapsed>>

-----------------------------------------------------------------------------
(* releaseLock *)

\* The holder is done with its work; how long that took is up to the holder.
Release(r) ==
  /\ call[r] = "held"
  /\ SetCall(r, "releasing")
  /\ UNCHANGED <<owner, attempts, lapsed>>

RunScript(r) ==
  /\ call[r] = "releasing"
  /\ owner' = DeleteIfOwned(r)
  /\ SetCall(r, "released")
  /\ UNCHANGED <<attempts, lapsed>>

\* The script is executed and will be sent again, since its reply is lost.
ScriptUnseen(r) ==
  /\ call[r] = "releasing"
  /\ owner' = DeleteIfOwned(r)
  /\ UNCHANGED <<call, attempts, lapsed>>

ScriptFails(r) ==
  /\ call[r] = "releasing"
  /\ owner' \in {owner, DeleteIfOwned(r)}
  /\ SetCall(r, "releaseFailed")
  /\ UNCHANGED <<attempts, lapsed>>

-----------------------------------------------------------------------------
(* Redis and the processes *)

\* The PX of the SET: Redis drops the key when its time is over.
Expire(k) ==
  /\ owner[k] # NoOwner
  /\ owner' = [owner EXCEPT ![k] = NoOwner]
  /\ lapsed' = [lapsed EXCEPT ![owner[k]] = @ \/ call[owner[k]] = "held"]
  /\ UNCHANGED <<call, attempts>>

\* The process ends, by a signal or a crash: main.ts enables no shutdown hooks and
\* no module has one, so nothing is released.
ProcessEnds(i) ==
  /\ call' = [r \in Requests |->
                IF InstanceOf[r] = i /\ call[r] \in InFlight THEN "dead" ELSE call[r]]
  /\ UNCHANGED <<owner, attempts, lapsed>>

\* Every request is over and every key is free.
Terminated ==
  /\ \A r \in Requests : call[r] \notin InFlight \cup {"idle"}
  /\ \A k \in Keys : owner[k] = NoOwner
  /\ UNCHANGED vars

RequestStep(r) ==
  \/ Acquire(r) \/ Try(r) \/ SetUnseen(r) \/ TryFails(r) \/ Retry(r)
  \/ Release(r) \/ RunScript(r) \/ ScriptUnseen(r) \/ ScriptFails(r)

Next ==
  \/ \E r \in Requests : RequestStep(r)
  \/ \E k \in Keys : Expire(k)
  \/ \E i \in Instances : ProcessEnds(i)
  \/ Terminated

SafeSpec == Init /\ [][Next]_vars

\* A Redis command that was sent is answered or throws, and a timer fires.  Nothing makes
\* a request arrive, a holder finish its work or a TTL run out in time.
Fairness == \A r \in Requests : WF_vars(Try(r) \/ TryFails(r) \/ Retry(r))

Spec == SafeSpec /\ Fairness

-----------------------------------------------------------------------------
(* Properties *)

\* Every variable has its type.
TypeOK ==
  /\ owner \in [Keys -> Requests \cup {NoOwner}]
  /\ call \in [Requests -> CallStates]
  /\ attempts \in [Requests -> 0 .. RetryCount]
  /\ lapsed \in [Requests -> BOOLEAN]

Holding(r) == call[r] = "held" /\ ~lapsed[r]

\* Two requests that acquireLock told they have the same lock, that are not done
\* with it and whose TTL has not run out, are one: SET NX never takes a key from a
\* holder, and no release (on time, late or sent twice), failed call or crash of
\* another request frees it early.
MutualExclusion ==
  \A r, q \in Requests : Holding(r) /\ Holding(q) /\ KeyOf[r] = KeyOf[q] => r = q

\* A request whose releaseLock returned owns no key, however late, lost or
\* repeated its commands were: only a call that threw, a process that died or a
\* reply of SET that got lost leaves a key to its TTL.
NoStrandedKey ==
  \A r \in Requests : call[r] \in {"idle", "released"} => owner[KeyOf[r]] # r

\* The lease that the caller of the service sees.
LeaseOf(r) ==
  CASE call[r] = "held"                          -> IF lapsed[r] THEN "lapsed" ELSE "active"
    [] call[r] # "held" /\ owner[KeyOf[r]] = r   -> "orphaned"
    [] call[r] \in {"idle", "trying", "waiting"} /\ owner[KeyOf[r]] # r -> "none"
    [] OTHER                                     -> "ended"

LeaseView == [r \in Requests |-> LeaseOf(r)]

Lease == INSTANCE ExclusiveLease WITH lease <- LeaseView

\* A process that is terminated leaves no lock behind.
GracefulRelease ==
  \A r \in Requests : call[r] = "dead" => owner[KeyOf[r]] # r

\* The service is an exclusive lease: Redis keys, random values and retries
\* together grant a key only when no lease of it is live.
LeaseRefinement == Lease!Spec

\* acquireLock returns: it ends with the lock, with null or by throwing, however
\* long others keep the key, unless its process dies.
AcquireReturns ==
  \A r \in Requests :
    call[r] = "trying" ~> call[r] \notin {"trying", "waiting"}

=============================================================================
