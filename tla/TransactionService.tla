-------------------------- MODULE TransactionService --------------------------
(***************************************************************************)
(* TransactionService.createTransaction (transaction.service.ts): acquire  *)
(* the lock of the store, convert the amount, start the insert, release    *)
(* the lock in the finally block, and answer.                              *)
(*                                                                         *)
(* It composes DistributedLock (one key per store) and RateCache, whose    *)
(* variables it declares under the same names, with the inserts sent to    *)
(* MongoDB and the answers to the clients.  Steps between two awaits are   *)
(* one action: JavaScript runs them without giving up the event loop.      *)
(*                                                                         *)
(* The code says `return this.transactionRepository.create(...)` without   *)
(* await: the finally block runs while the insert is on its way, and       *)
(* nothing listens to the promise of the insert until releaseLock is done. *)
(***************************************************************************)
EXTENDS Naturals

CONSTANTS
  Requests,     \* the calls of createTransaction
  Stores,
  StoreOf,      \* StoreOf[r]: user.storeId of the caller of r
  InINR,        \* the requests whose amount is in INR
  Instances,    \* the Node processes
  InstanceOf,   \* InstanceOf[r]: the process that serves r
  RetryCount,   \* DEFAULT_RETRY_COUNT of DistributedLockService
  NoOwner

ASSUME TransactionAssumption ==
  /\ StoreOf \in [Requests -> Stores]
  /\ InINR \subseteq Requests
  /\ InstanceOf \in [Requests -> Instances]
  /\ RetryCount \in Nat \ {0}
  /\ NoOwner \notin Requests

VARIABLES
  owner, call, attempts, lapsed,   \* DistributedLock
  cached, conv,                    \* RateCache
  insert,                          \* insert[r]: the insert of r's transaction
  answer                           \* answer[r]: what the client of r was told

lockVars == <<owner, call, attempts, lapsed>>
rateVars == <<cached, conv>>
vars == <<owner, call, attempts, lapsed, cached, conv, insert, answer>>

Lock == INSTANCE DistributedLock WITH Keys <- Stores, KeyOf <- StoreOf
Rates == INSTANCE RateCache

\* "pending": sent, with a promise in a live process; "detached": the process is gone.
InsertStates == {"none", "pending", "detached", "stored", "failed"}
Answers == {"none", "created", "conflict", "unavailable", "error", "lost"}

Init ==
  /\ Lock!Init
  /\ Rates!Init
  /\ insert = [r \in Requests |-> "none"]
  /\ answer = [r \in Requests |-> "none"]

SetInsert(r, s) == insert' = [insert EXCEPT ![r] = s]
Answer(r, s) == answer' = [answer EXCEPT ![r] = s]

-----------------------------------------------------------------------------
(* Acquiring the lock of the store *)

Receive(r) ==
  /\ answer[r] = "none"
  /\ Lock!Acquire(r)
  /\ UNCHANGED <<rateVars, insert, answer>>

\* user.storeId is undefined: toString throws before the lock is asked for.
NoStore(r) ==
  /\ call[r] = "idle" /\ answer[r] = "none"
  /\ Answer(r, "error")
  /\ UNCHANGED <<lockVars, rateVars, insert>>

TryLock(r) == Lock!Try(r) /\ UNCHANGED <<rateVars, insert, answer>>
LockUnseen(r) == Lock!SetUnseen(r) /\ UNCHANGED <<rateVars, insert, answer>>

\* Bug variant: acquireLock gives up, and nobody looks at what it returned.
RetryLockUnchecked(r) ==
  /\ call[r] = "waiting"
  /\ attempts' = [attempts EXCEPT ![r] = @ + 1]
  /\ Lock!SetCall(r, IF attempts'[r] < RetryCount THEN "trying" ELSE "held")
  /\ UNCHANGED <<owner, lapsed, rateVars, insert, answer>>

\* acquireLock gives up: ConflictException.
RetryLock(r) ==
  /\ Lock!Retry(r)
  /\ IF call'[r] = "refused" THEN Answer(r, "conflict") ELSE UNCHANGED answer
  /\ UNCHANGED <<rateVars, insert>>

LockFails(r) ==
  /\ Lock!TryFails(r)
  /\ Answer(r, "error")
  /\ UNCHANGED <<rateVars, insert>>

-----------------------------------------------------------------------------
(* The try block: convertToINR, then create without await.  Leaving the block *)
(* enters the finally block, which sends the release, in the same step.       *)

AskRates(r) ==
  /\ call[r] = "held" /\ r \notin InINR
  /\ Rates!Miss(r) \/ Rates!Fetch(r) \/ Rates!StoreUnseen(r)
  /\ UNCHANGED <<lockVars, insert, answer>>

ConversionFails(r) ==
  /\ Rates!FetchFails(r)
  /\ Lock!Release(r)
  /\ UNCHANGED <<insert, answer>>

Converted(r) ==
  IF r \in InINR THEN Rates!NoConversion(r) ELSE Rates!Hit(r) \/ Rates!Store(r)

\* Bug variant: without the finally block.
CreateWithoutRelease(r) ==
  /\ call[r] = "held"
  /\ Converted(r)
  /\ SetInsert(r, "pending")
  /\ Lock!SetCall(r, "released")
  /\ UNCHANGED <<owner, attempts, lapsed, answer>>

Create(r) ==
  /\ Converted(r)
  /\ SetInsert(r, "pending")
  /\ Lock!Release(r)
  /\ UNCHANGED answer

-----------------------------------------------------------------------------
(* Back from releaseLock *)

\* Bug variant: what was thrown is swallowed, and the call returns undefined.
ReleasedSwallowing(r) ==
  /\ Lock!RunScript(r)
  /\ IF conv[r] = "converted" THEN UNCHANGED answer ELSE Answer(r, "undefined")
  /\ UNCHANGED <<rateVars, insert>>

\* What was thrown in the try block goes on; otherwise the insert is awaited.
Released(r) ==
  /\ Lock!RunScript(r)
  /\ CASE conv[r] = "failed"    -> Answer(r, "unavailable")
       [] conv[r] = "noRates"   -> Answer(r, "error")
       [] conv[r] = "converted" -> UNCHANGED answer
  /\ UNCHANGED <<rateVars, insert>>

ReleaseUnseen(r) == Lock!ScriptUnseen(r) /\ UNCHANGED <<rateVars, insert, answer>>

\* releaseLock throws in the finally block: this error replaces everything else.
ReleaseFails(r) ==
  /\ Lock!ScriptFails(r)
  /\ Answer(r, "error")
  /\ UNCHANGED <<rateVars, insert>>

\* Bug variant: the answer does not wait for the insert.
SettleAtOnce(r) ==
  /\ call[r] = "released" /\ answer[r] = "none" /\ insert[r] # "none"
  /\ Answer(r, "created")
  /\ UNCHANGED <<lockVars, rateVars, insert>>

\* Bug variant: a failed insert is never reported.
SettleStored(r) ==
  /\ call[r] = "released" /\ answer[r] = "none" /\ insert[r] = "stored"
  /\ Answer(r, "created")
  /\ UNCHANGED <<lockVars, rateVars, insert>>

Settle(r) ==
  /\ call[r] = "released" /\ answer[r] = "none"
  /\ \/ insert[r] = "stored" /\ Answer(r, "created")
     \/ insert[r] = "failed" /\ Answer(r, "error")
  /\ UNCHANGED <<lockVars, rateVars, insert>>

-----------------------------------------------------------------------------
(* MongoDB and the processes *)

\* MongoDB may execute an insert whose process is gone.
InsertStored(r) ==
  /\ insert[r] \in {"pending", "detached"}
  /\ SetInsert(r, "stored")
  /\ UNCHANGED <<lockVars, rateVars, answer>>

\* Validation or the driver rejects the promise of create, and somebody listens.
InsertFails(r) ==
  /\ insert[r] = "pending" /\ call[r] = "released"
  /\ SetInsert(r, "failed")
  /\ UNCHANGED <<lockVars, rateVars, answer>>

\* Process i ends when its inserts stand as in `inserts`.
Down(i, inserts) ==
  LET Mine == {r \in Requests : InstanceOf[r] = i} IN
  /\ Lock!ProcessEnds(i)
  /\ insert' = [r \in Requests |-> IF r \in Mine /\ inserts[r] = "pending"
                                   THEN "detached" ELSE inserts[r]]
  /\ answer' = [r \in Requests |->
                  IF r \in Mine /\ call[r] # "idle" /\ answer[r] = "none"
                  THEN "lost" ELSE answer[r]]
  /\ UNCHANGED rateVars

\* The promise of create is rejected while releaseLock is awaited, or after it threw:
\* nobody listens, and Node ends a process with an unhandled rejection.
InsertFailsUnheard(r) ==
  /\ insert[r] = "pending" /\ call[r] \in {"releasing", "releaseFailed"}
  /\ Down(InstanceOf[r], [insert EXCEPT ![r] = "failed"])

ProcessEnds(i) == Down(i, insert)

LockExpires(s) == Lock!Expire(s) /\ UNCHANGED <<rateVars, insert, answer>>
RatesExpire == Rates!Expire /\ UNCHANGED <<lockVars, insert, answer>>

\* Every client has its answer and every store can be locked.
Terminated ==
  /\ \A r \in Requests : answer[r] # "none"
  /\ \A s \in Stores : owner[s] = NoOwner
  /\ UNCHANGED vars

RequestStep(r) ==
  \/ Receive(r) \/ NoStore(r) \/ TryLock(r) \/ LockUnseen(r) \/ RetryLock(r)
  \/ LockFails(r) \/ AskRates(r) \/ ConversionFails(r) \/ Create(r)
  \/ Released(r) \/ ReleaseUnseen(r) \/ ReleaseFails(r) \/ Settle(r)
  \/ InsertStored(r) \/ InsertFails(r) \/ InsertFailsUnheard(r)

Next ==
  \/ \E r \in Requests : RequestStep(r)
  \/ \E i \in Instances : ProcessEnds(i)
  \/ \E s \in Stores : LockExpires(s)
  \/ RatesExpire
  \/ Terminated

SafeSpec == Init /\ [][Next]_vars

\* Redis and MongoDB answer or make the call throw, and the event loop goes on.
\* Nothing is assumed of the FX service: axios.get is called without a timeout.
Fairness ==
  /\ \A r \in Requests :
       /\ WF_vars(TryLock(r) \/ RetryLock(r) \/ LockFails(r))
       /\ WF_vars(Create(r))
       /\ WF_vars(Released(r) \/ ReleaseFails(r))
       /\ WF_vars(InsertStored(r) \/ InsertFails(r) \/ InsertFailsUnheard(r))
       /\ WF_vars(Settle(r))
  /\ \A s \in Stores : WF_vars(LockExpires(s))

Spec == SafeSpec /\ Fairness

-----------------------------------------------------------------------------
(* Properties *)

\* Every variable has its type.
TypeOK ==
  /\ Lock!TypeOK
  /\ Rates!TypeOK
  /\ insert \in [Requests -> InsertStates]
  /\ answer \in [Requests -> Answers]

Ledger == INSTANCE TransactionLedger
  WITH booked <- {r \in Requests : insert[r] = "stored"}, reply <- answer

\* Clients can rely on the answers: one answer at most, "created" only for a stored
\* transaction, and after 409 or 503 the transaction is not stored, nor will it be.
LedgerRefinement == Ledger!Spec

\* An insert is sent under the lock of its store, unless the TTL ran out while the
\* amount was converted.
InsertUnderLock ==
  [][\A r \in Requests :
       insert[r] = "none" /\ insert'[r] # "none" =>
         owner[StoreOf[r]] = r \/ (lapsed[r] /\ call[r] = "held")]_vars

\* A client with an answer can go on at once: its request is through with the lock and does
\* not keep the store locked, whichever way it left the try block.  Only a conflict may come
\* with a key whose SET was not seen, and an error with one that a call which threw left.
AnsweredStoreFree ==
  \A r \in Requests :
    answer[r] \notin {"none", "lost"} =>
      /\ call[r] \notin Lock!InFlight
      /\ owner[StoreOf[r]] = r =>
           (answer[r] \in {"conflict", "error"} /\ call[r] # "released")

\* A request in INR that has come in is answered, or its process ends, even while the
\* FX service hangs and other requests of its store wait for it under the lock.
AnsweredWithoutFx ==
  \A r \in InINR : call[r] = "trying" ~> answer[r] # "none"

\* The lock keeps the inserts of a store apart: of two inserts of one store in flight
\* one has outlived the TTL of its lock.
SerializedInserts ==
  \A r, q \in Requests :
    /\ r # q /\ StoreOf[r] = StoreOf[q]
    /\ insert[r] = "pending" /\ insert[q] = "pending"
    => lapsed[r] \/ lapsed[q]

\* An insert that fails takes no other request with it.
FailureStaysLocal ==
  [][\A r \in Requests :
       insert[r] = "pending" /\ insert'[r] = "failed" =>
         \A q \in Requests \ {r} : answer'[q] = answer[q]]_vars

=============================================================================
