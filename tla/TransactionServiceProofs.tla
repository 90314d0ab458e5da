----------------------- MODULE TransactionServiceProofs -----------------------
(***************************************************************************)
(* Theorems about TransactionService for every set of requests, stores and *)
(* processes: it uses the lock only by the lock's own steps, so that what  *)
(* DistributedLockProofs proves holds of its stores; an insert is sent     *)
(* under the lock; an answered store is free; the answers implement        *)
(* TransactionLedger, and what clients get from that; and the measure by   *)
(* which requests come to their answers.                                   *)
(*                                                                         *)
(* Most proofs look at a step through RowOfStep: what it makes of the      *)
(* call, the conversion, the insert and the answer of its one request.     *)
(***************************************************************************)
EXTENDS TransactionService, TLAPS

LP == INSTANCE DistributedLockProofs WITH Keys <- Stores, KeyOf <- StoreOf

-----------------------------------------------------------------------------
(* Every step is a step of the lock, or leaves the lock alone. *)

\* The constants of the service satisfy what the lock assumes of its own.
LEMMA LockAssumed == LP!LockAssumption
  BY TransactionAssumption DEF LP!LockAssumption

\* The service starts with the lock in its initial state.
LEMMA LockInit == Init => LP!Init
  BY DEF Init, Lock!Init, LP!Init

\* Every step of the service is a step of the lock, or leaves the lock alone.
LEMMA LockStep == [Next]_vars => [LP!Next]_(LP!vars)
  <1> SUFFICES ASSUME [Next]_vars PROVE LP!Next \/ UNCHANGED lockVars
    BY DEF LP!vars, lockVars
  <1> USE DEF Lock!SetCall, LP!SetCall
  <1>1. ASSUME NEW r \in Requests,
               Receive(r) \/ TryLock(r) \/ LockUnseen(r) \/ RetryLock(r) \/ LockFails(r)
        PROVE  LP!RequestStep(r)
    BY <1>1
    DEF Receive, TryLock, LockUnseen, RetryLock, LockFails, Lock!Acquire, Lock!Try,
        Lock!SetUnseen, Lock!Retry, Lock!TryFails, Lock!SetIfAbsent, LP!RequestStep,
        LP!Acquire, LP!Try, LP!SetUnseen, LP!Retry, LP!TryFails, LP!SetIfAbsent
  <1>2. ASSUME NEW r \in Requests,
               \/ ConversionFails(r) \/ Create(r)
               \/ Released(r) \/ ReleaseUnseen(r) \/ ReleaseFails(r)
        PROVE  LP!RequestStep(r)
    BY <1>2
    DEF ConversionFails, Create, Released, ReleaseUnseen, ReleaseFails, Lock!Release,
        Lock!RunScript, Lock!ScriptUnseen, Lock!ScriptFails, Lock!DeleteIfOwned,
        LP!RequestStep, LP!Release, LP!RunScript, LP!ScriptUnseen, LP!ScriptFails,
        LP!DeleteIfOwned
  <1>3. ASSUME NEW r \in Requests,
               NoStore(r) \/ AskRates(r) \/ Settle(r) \/ InsertStored(r) \/ InsertFails(r)
        PROVE  UNCHANGED lockVars
    BY <1>3 DEF NoStore, AskRates, Settle, InsertStored, InsertFails
  <1>4. ASSUME NEW i \in Instances, NEW inserts, Down(i, inserts) PROVE LP!Next
    BY <1>4 DEF Down, Lock!ProcessEnds, LP!ProcessEnds, LP!Next, Lock!InFlight, LP!InFlight
  <1>5. ASSUME NEW r \in Requests, InsertFailsUnheard(r) PROVE LP!Next
    BY <1>4, <1>5, TransactionAssumption DEF InsertFailsUnheard
  <1>6. ASSUME NEW s \in Stores, LockExpires(s) PROVE LP!Next
    BY <1>6 DEF LockExpires, Lock!Expire, LP!Expire, LP!Next
  <1>7. ASSUME RatesExpire \/ Terminated \/ UNCHANGED vars PROVE UNCHANGED lockVars
    BY <1>7 DEF RatesExpire, Terminated, vars, lockVars
  <1>8. CASE \E r \in Requests : RequestStep(r)
    BY <1>8, <1>1, <1>2, <1>3, <1>5 DEF RequestStep, LP!Next
  <1> QED
    BY <1>4, <1>6, <1>7, <1>8 DEF Next, ProcessEnds

\* The service uses the lock of a store as DistributedLockService allows.
THEOREM UsesLock == SafeSpec => LP!SafeSpec
  BY LockInit, LockStep, PTL DEF SafeSpec, LP!SafeSpec

\* Hence the locks of the stores are exclusive leases.
THEOREM StoresLeased == SafeSpec => LP!LeaseRefinement
  BY UsesLock, LockAssumed, LP!ImplementsLease, PTL

\* The service goes through its conversions as RateCache says, lost processes included.
THEOREM UsesRates == SafeSpec => Rates!Spec
  <1>1. Init => Rates!Init
    BY DEF Init
  <1>2. [Next]_vars => [Rates!Next]_(Rates!vars)
    <2> SUFFICES ASSUME [Next]_vars PROVE Rates!Next \/ UNCHANGED rateVars
      BY DEF Rates!vars, rateVars
    <2>1. ASSUME NEW r \in Requests, RequestStep(r)
          PROVE  Rates!Next \/ UNCHANGED rateVars
      BY <2>1
      DEF RequestStep, Receive, NoStore, TryLock, LockUnseen, RetryLock, LockFails,
          AskRates, ConversionFails, Create, Converted, Released, ReleaseUnseen,
          ReleaseFails, Settle, InsertStored, InsertFails, InsertFailsUnheard, Down,
          Rates!Next
    <2>2. ASSUME \/ \E i \in Instances : ProcessEnds(i)
                 \/ \E s \in Stores : LockExpires(s)
                 \/ Terminated \/ UNCHANGED vars
          PROVE  UNCHANGED rateVars
      BY <2>2 DEF ProcessEnds, Down, LockExpires, Terminated, vars, rateVars
    <2>3. CASE RatesExpire
      BY <2>3 DEF RatesExpire, Rates!Next
    <2> QED BY <2>1, <2>2, <2>3 DEF Next
  <1> QED BY <1>1, <1>2, PTL DEF SafeSpec, Rates!Spec

-----------------------------------------------------------------------------
(* The invariant of one request *)

\* Where the call, the conversion, the insert and the answer of r may stand together.
Consistent(r) ==
  /\ call[r] \in {"trying", "waiting", "held", "releasing"} => answer[r] = "none"
  /\ answer[r] = "conflict" => call[r] = "refused"
  /\ answer[r] \in {"created", "unavailable"} => call[r] = "released"
  /\ answer[r] = "unavailable" => conv[r] = "failed"
  /\ call[r] = "releasing" => conv[r] \in {"failed", "noRates", "converted"}
  /\ insert[r] # "none" =>
       /\ conv[r] = "converted"
       /\ call[r] \in {"releasing", "released", "releaseFailed", "dead"}

Typed ==
  /\ Rates!TypeOK
  /\ insert \in [Requests -> InsertStates]
  /\ answer \in [Requests -> Answers]

TxInv == LP!LockInv /\ Typed /\ \A r \in Requests : Consistent(r)

\* The type invariant of the two instances of the lock is the same.
LEMMA LockTypes == LP!LockInv => Lock!TypeOK
  BY DEF LP!LockInv, LP!TypeOK, Lock!TypeOK, LP!CallStates, Lock!CallStates,
         LP!InFlight, Lock!InFlight

\* The invariant holds when nothing was received yet.
LEMMA TxInit == Init => TxInv
  <1> SUFFICES ASSUME Init PROVE TxInv
    OBVIOUS
  <1>1. LP!LockInv
    BY LockInit, LockAssumed, LP!InvInit
  <1>2. Typed
    BY DEF Init, Rates!Init, Typed, Rates!TypeOK, Rates!ConvStates,
           InsertStates, Answers
  <1>3. \A r \in Requests : Consistent(r)
    BY DEF Init, Lock!Init, Rates!Init, Consistent
  <1> QED BY <1>1, <1>2, <1>3 DEF TxInv

\* A request that a step does not touch stays consistent.
LEMMA Untouched ==
  ASSUME NEW q \in Requests, Consistent(q), call'[q] = call[q], conv'[q] = conv[q],
         insert'[q] = insert[q], answer'[q] = answer[q]
  PROVE  Consistent(q)'
  BY DEF Consistent

\* A step of request r that takes its call, conversion, insert and answer to c, v, i
\* and a keeps the others consistent, and r too if these fit together.
LEMMA StepOfOne ==
  ASSUME TxInv, NEW r \in Requests, NEW c, NEW v, NEW i, NEW a,
         call' = [call EXCEPT ![r] = c], conv' = [conv EXCEPT ![r] = v],
         insert' = [insert EXCEPT ![r] = i], answer' = [answer EXCEPT ![r] = a],
         c \in {"trying", "waiting", "held", "releasing"} => a = "none",
         a = "conflict" => c = "refused",
         a \in {"created", "unavailable"} => c = "released",
         a = "unavailable" => v = "failed",
         c = "releasing" => v \in {"failed", "noRates", "converted"},
         i # "none" =>
           v = "converted" /\ c \in {"releasing", "released", "releaseFailed", "dead"}
  PROVE  \A q \in Requests : Consistent(q)'
  <1>1. /\ call \in [Requests -> Lock!CallStates] /\ conv \in [Requests -> Rates!ConvStates]
        /\ insert \in [Requests -> InsertStates] /\ answer \in [Requests -> Answers]
    BY LockTypes DEF TxInv, Lock!TypeOK, Typed, Rates!TypeOK
  <1>2. Consistent(r)'
    BY <1>1 DEF Consistent
  <1>3. \A q \in Requests \ {r} : Consistent(q)'
    BY <1>1, Untouched DEF TxInv
  <1> QED BY <1>2, <1>3

\* The four variables of StepOfOne are functions, so leaving one alone is assigning
\* to r what r has.
LEMMA Same ==
  ASSUME TxInv, NEW r \in Requests
  PROVE  /\ call = [call EXCEPT ![r] = call[r]]
         /\ conv = [conv EXCEPT ![r] = conv[r]]
         /\ insert = [insert EXCEPT ![r] = insert[r]]
         /\ answer = [answer EXCEPT ![r] = answer[r]]
  BY LockTypes DEF TxInv, Lock!TypeOK, Typed, Rates!TypeOK

\* What a step of one request assigns to its call, conversion, insert and answer.
Assigns(r, c, v, i, a) ==
  /\ call' = [call EXCEPT ![r] = c]
  /\ conv' = [conv EXCEPT ![r] = v]
  /\ insert' = [insert EXCEPT ![r] = i]
  /\ answer' = [answer EXCEPT ![r] = a]

\* One step of request r, but for the end of its process: from call c0, conversion v0,
\* insert i0 and answer a0 to c, v, i and a.
Row(r, c0, v0, i0, a0, c, v, i, a) ==
  \/ c0 = "idle" /\ a0 = "none" /\ i0 = "none"
     /\ v = v0 /\ i = i0 /\ <<c, a>> \in {<<"trying", "none">>, <<"idle", "error">>}
  \/ c0 \in {"trying", "waiting"} /\ a0 = "none" /\ i0 = "none" /\ v = v0 /\ i = i0
     /\ <<c, a>> \in {<<"trying", "none">>, <<"waiting", "none">>, <<"held", "none">>,
                     <<"refused", "conflict">>, <<"acquireFailed", "error">>}
  \/ c0 = "held" /\ a0 = "none" /\ i0 = "none" /\ a = a0
     /\ \/ r \notin InINR /\ c = "held" /\ i = "none"
        \/ v0 = "fetching" /\ v \in {"failed", "noRates"} /\ c = "releasing" /\ i = "none"
        \/ v = "converted" /\ c = "releasing" /\ i = "pending"
  \/ c0 = "releasing" /\ a0 = "none" /\ v = v0 /\ i = i0
     /\ \/ c = "releasing" /\ a = "none"
        \/ c = "released" /\ <<v0, a>> \in {<<"failed", "unavailable">>, <<"noRates", "error">>,
                                         <<"converted", "none">>}
        \/ c = "releaseFailed" /\ a = "error"
  \/ c0 = "released" /\ a0 = "none" /\ c = c0 /\ v = v0 /\ i = i0
     /\ i0 \in {"stored", "failed"} /\ a \in {"created", "error"}
  \/ c = c0 /\ v = v0 /\ a = a0
     /\ i0 \in {"pending", "detached"} /\ i \in {"stored", "failed"}

\* Every step of r is one of these rows.
LEMMA RowOfStep ==
  ASSUME TxInv, NEW r \in Requests, RequestStep(r), ~InsertFailsUnheard(r)
  PROVE  \E c, v, i, a : /\ Assigns(r, c, v, i, a)
                        /\ Row(r, call[r], conv[r], insert[r], answer[r], c, v, i, a)
  <1> USE DEF TxInv, Assigns, Row
  <1>1. Consistent(r)
    OBVIOUS
  <1>2. CASE Receive(r) \/ NoStore(r)
    <2>1. call[r] = "idle" /\ answer[r] = "none" /\ insert[r] = "none"
      BY <1>1, <1>2 DEF Receive, NoStore, Lock!Acquire, Consistent
    <2>2. \/ Assigns(r, "trying", conv[r], insert[r], "none")
          \/ Assigns(r, "idle", conv[r], insert[r], "error")
      BY <1>2, <2>1, Same DEF Receive, NoStore, Lock!Acquire, Lock!SetCall, Answer, lockVars, rateVars
    <2> QED BY <2>1, <2>2
  <1>3. CASE TryLock(r) \/ LockUnseen(r) \/ RetryLock(r) \/ LockFails(r)
    <2>1. call[r] \in {"trying", "waiting"} /\ answer[r] = "none" /\ insert[r] = "none"
      BY <1>1, <1>3
      DEF TryLock, LockUnseen, RetryLock, LockFails, Lock!Try, Lock!SetUnseen, Lock!Retry,
          Lock!TryFails, Consistent
    <2>2. PICK c, a : Assigns(r, c, conv[r], insert[r], a)
            /\ <<c, a>> \in {<<"trying", "none">>, <<"waiting", "none">>, <<"held", "none">>,
                            <<"refused", "conflict">>, <<"acquireFailed", "error">>}
      <3>1. CASE TryLock(r)
        BY <2>1, <3>1, Same DEF TryLock, Lock!Try, Lock!SetCall, rateVars
      <3>2. CASE LockUnseen(r)
        BY <2>1, <3>2, Same DEF LockUnseen, Lock!SetUnseen, rateVars
      <3>3. CASE RetryLock(r)
        BY <2>1, <3>3, Same, LockTypes
        DEF RetryLock, Lock!Retry, Lock!SetCall, Lock!TypeOK, Answer, rateVars
      <3>4. CASE LockFails(r)
        BY <2>1, <3>4, Same DEF LockFails, Lock!TryFails, Lock!SetCall, Answer, rateVars
      <3> QED BY <1>3, <3>1, <3>2, <3>3, <3>4
    <2> QED BY <2>1, <2>2
  <1>4. CASE AskRates(r) \/ ConversionFails(r) \/ Create(r)
    <2>1. call[r] = "held" /\ insert[r] = "none" /\ answer[r] = "none"
      BY <1>1, <1>4 DEF AskRates, ConversionFails, Create, Lock!Release, Consistent
    <2>2. CASE AskRates(r)
      <3>1. PICK v : Assigns(r, "held", v, "none", "none") /\ r \notin InINR
        BY <2>1, <2>2, Same
        DEF AskRates, Rates!Miss, Rates!Fetch, Rates!StoreUnseen, Rates!Goto, lockVars
      <3> QED BY <2>1, <3>1
    <2>3. CASE ConversionFails(r)
      <3>1. PICK v \in {"failed", "noRates"} :
              Assigns(r, "releasing", v, "none", "none") /\ conv[r] = "fetching"
        BY <2>1, <2>3, Same
        DEF ConversionFails, Rates!FetchFails, Rates!Goto, Lock!Release, Lock!SetCall
      <3> QED BY <2>1, <3>1
    <2>4. CASE Create(r)
      <3>1. Assigns(r, "releasing", "converted", "pending", "none")
        BY <2>1, <2>4, Same
        DEF Create, Converted, SetInsert, Rates!NoConversion, Rates!Hit, Rates!Store,
            Rates!Goto, Lock!Release, Lock!SetCall
      <3> QED BY <2>1, <3>1
    <2> QED BY <1>4, <2>2, <2>3, <2>4
  <1>5. CASE Released(r) \/ ReleaseUnseen(r) \/ ReleaseFails(r)
    <2>1. /\ call[r] = "releasing" /\ answer[r] = "none"
          /\ conv[r] \in {"failed", "noRates", "converted"}
          /\ UNCHANGED <<conv, insert>>
      BY <1>1, <1>5
      DEF Released, ReleaseUnseen, ReleaseFails, Lock!RunScript, Lock!ScriptUnseen,
          Lock!ScriptFails, Consistent, rateVars
    <2>2. CASE Released(r)
      <3>1. call' = [call EXCEPT ![r] = "released"]
        BY <2>2 DEF Released, Lock!RunScript, Lock!SetCall
      <3>2. CASE conv[r] = "failed"
        <4>1. Assigns(r, "released", conv[r], insert[r], "unavailable")
          BY <2>1, <2>2, <3>1, <3>2, Same DEF Released, Answer
        <4> QED BY <2>1, <3>2, <4>1
      <3>3. CASE conv[r] = "noRates"
        <4>1. Assigns(r, "released", conv[r], insert[r], "error")
          BY <2>1, <2>2, <3>1, <3>3, Same DEF Released, Answer
        <4> QED BY <2>1, <3>3, <4>1
      <3>4. CASE conv[r] = "converted"
        <4>1. Assigns(r, "released", conv[r], insert[r], "none")
          BY <2>1, <2>2, <3>1, <3>4, Same DEF Released
        <4> QED BY <2>1, <3>4, <4>1
      <3> QED BY <2>1, <3>2, <3>3, <3>4
    <2>3. CASE ReleaseUnseen(r)
      <3>1. Assigns(r, "releasing", conv[r], insert[r], "none")
        BY <2>1, <2>3, Same DEF ReleaseUnseen, Lock!ScriptUnseen
      <3> QED BY <2>1, <3>1
    <2>4. CASE ReleaseFails(r)
      <3>1. Assigns(r, "releaseFailed", conv[r], insert[r], "error")
        BY <2>1, <2>4, Same DEF ReleaseFails, Answer, Lock!ScriptFails, Lock!SetCall
      <3> QED BY <2>1, <3>1
    <2> QED BY <1>5, <2>2, <2>3, <2>4
  <1>6. CASE Settle(r)
    <2>1. /\ call[r] = "released" /\ answer[r] = "none" /\ insert[r] \in {"stored", "failed"}
          /\ UNCHANGED <<call, conv, insert>>
          /\ \E a \in {"created", "error"} : answer' = [answer EXCEPT ![r] = a]
      BY <1>6 DEF Settle, Answer, lockVars, rateVars
    <2> QED BY <2>1, Same
  <1>7. CASE InsertStored(r) \/ InsertFails(r)
    <2>1. /\ insert[r] \in {"pending", "detached"} /\ UNCHANGED <<call, conv, answer>>
          /\ \E i \in {"stored", "failed"} : insert' = [insert EXCEPT ![r] = i]
      BY <1>7 DEF InsertStored, InsertFails, SetInsert, lockVars, rateVars
    <2> QED BY <2>1, Same
  <1> QED BY <1>2, <1>3, <1>4, <1>5, <1>6, <1>7 DEF RequestStep

\* A step of one request keeps every request consistent.
LEMMA RowsConsistent ==
  ASSUME TxInv, NEW r \in Requests, RequestStep(r), ~InsertFailsUnheard(r)
  PROVE  \A q \in Requests : Consistent(q)'
  <1>1. PICK c, v, i, a : /\ Assigns(r, c, v, i, a)
                          /\ Row(r, call[r], conv[r], insert[r], answer[r], c, v, i, a)
    BY RowOfStep
  <1>2. /\ c \in {"trying", "waiting", "held", "releasing"} => a = "none"
        /\ a = "conflict" => c = "refused"
        /\ a \in {"created", "unavailable"} => c = "released"
        /\ a = "unavailable" => v = "failed"
        /\ c = "releasing" => v \in {"failed", "noRates", "converted"}
        /\ i # "none" =>
             v = "converted" /\ c \in {"releasing", "released", "releaseFailed", "dead"}
    <2>1. Consistent(r)
      BY DEF TxInv
    <2> QED BY <1>1, <2>1 DEF Row, Consistent
  <1> QED BY <1>1, <1>2, StepOfOne DEF Assigns

\* The end of a process, with or without a failed insert that nobody listened to.
LEMMA DownSteps ==
  ASSUME TxInv, NEW i \in Instances, NEW inserts \in [Requests -> InsertStates],
         Down(i, inserts),
         \A r \in Requests :
           inserts[r] # insert[r] => insert[r] = "pending" /\ inserts[r] = "failed"
  PROVE  Typed' /\ \A q \in Requests : Consistent(q)'
  <1> USE DEF TxInv
  <1>1. Typed'
    BY DEF Down, Typed, Rates!TypeOK, rateVars, InsertStates, Answers
  <1>2. ASSUME NEW q \in Requests PROVE Consistent(q)'
    <2>1. /\ conv'[q] = conv[q] /\ call[q] \in Lock!CallStates
          /\ call'[q] = call[q] \/ call'[q] = "dead"
          /\ answer'[q] = answer[q] \/ answer'[q] = "lost"
          /\ insert'[q] # "none" => insert[q] # "none"
      BY LockTypes DEF Down, Lock!ProcessEnds, Lock!TypeOK, rateVars
    <2>2. call'[q] = "dead" /\ call[q] # "dead" => call[q] \in Lock!InFlight
      BY DEF Down, Lock!ProcessEnds
    <2>3. call[q] \in Lock!InFlight => answer[q] = "none" /\ answer'[q] \in {"none", "lost"}
      BY <2>1 DEF Consistent, Lock!InFlight
    <2>4. call[q] \in Lock!InFlight /\ answer'[q] # answer[q] => call'[q] = "dead"
      BY DEF Down, Lock!ProcessEnds
    <2> QED BY <2>1, <2>2, <2>3, <2>4 DEF Consistent, Lock!InFlight
  <1> QED BY <1>1, <1>2

\* Every step of one request keeps the types.
LEMMA StepTypes ==
  ASSUME TxInv, NEW r \in Requests, RequestStep(r), ~InsertFailsUnheard(r)
  PROVE  Typed'
  <1> USE DEF TxInv, Typed
  <1>1. Rates!TypeOK'
    BY DEF RequestStep, Receive, NoStore, TryLock, LockUnseen, RetryLock, LockFails,
           AskRates, ConversionFails, Create, Converted, Released, ReleaseUnseen,
           ReleaseFails, Settle, InsertStored, InsertFails, rateVars, Rates!TypeOK,
           Rates!ConvStates, Rates!NoConversion, Rates!Hit, Rates!Miss, Rates!Fetch,
           Rates!FetchFails, Rates!StoreUnseen, Rates!Store, Rates!Goto
  <1>2. insert' = insert \/ \E i \in InsertStates : insert' = [insert EXCEPT ![r] = i]
    BY DEF RequestStep, Receive, NoStore, TryLock, LockUnseen, RetryLock, LockFails,
           AskRates, ConversionFails, Create, Released, ReleaseUnseen, ReleaseFails,
           Settle, InsertStored, InsertFails, SetInsert, InsertStates
  <1>3. answer' = answer \/ \E a \in Answers : answer' = [answer EXCEPT ![r] = a]
    <2>1. CASE Released(r)
      <3>1. conv[r] \in {"failed", "noRates", "converted"}
        BY <2>1 DEF Released, Lock!RunScript, Consistent
      <3> QED BY <2>1, <3>1 DEF Released, Answer, Answers
    <2>2. CASE ~Released(r)
      BY <2>2
      DEF RequestStep, Receive, NoStore, TryLock, LockUnseen, RetryLock, LockFails,
          AskRates, ConversionFails, Create, ReleaseUnseen, ReleaseFails, Settle,
          InsertStored, InsertFails, Answer, Answers
    <2> QED BY <2>1, <2>2
  <1> QED BY <1>1, <1>2, <1>3

\* TxInv is inductive.
LEMMA TxStep == TxInv /\ [Next]_vars => TxInv'
  <1> SUFFICES ASSUME TxInv, [Next]_vars PROVE TxInv'
    OBVIOUS
  <1>1. LP!LockInv'
    BY LockStep, LockAssumed, LP!InvStep DEF TxInv
  <1>2. ASSUME NEW r \in Requests, RequestStep(r), ~InsertFailsUnheard(r)
        PROVE  Typed' /\ \A q \in Requests : Consistent(q)'
    BY <1>2, StepTypes, RowsConsistent
  <1>3. ASSUME NEW r \in Requests, InsertFailsUnheard(r)
        PROVE  Typed' /\ \A q \in Requests : Consistent(q)'
    <2> DEFINE inserts == [insert EXCEPT ![r] = "failed"]
    <2>1. inserts \in [Requests -> InsertStates]
      BY DEF TxInv, Typed, InsertStates
    <2>2. insert[r] = "pending" /\ Down(InstanceOf[r], inserts)
      BY <1>3 DEF InsertFailsUnheard
    <2>3. \A q \in Requests :
            inserts[q] # insert[q] => insert[q] = "pending" /\ inserts[q] = "failed"
      BY <2>2 DEF TxInv, Typed
    <2>4. InstanceOf[r] \in Instances
      BY TransactionAssumption
    <2> HIDE DEF inserts
    <2> QED BY <2>1, <2>2, <2>3, <2>4, DownSteps
  <1>4. ASSUME NEW i \in Instances, ProcessEnds(i)
        PROVE  Typed' /\ \A q \in Requests : Consistent(q)'
    BY <1>4, DownSteps DEF ProcessEnds, TxInv, Typed
  <1>5. ASSUME NEW s \in Stores, LockExpires(s)
        PROVE  Typed' /\ \A q \in Requests : Consistent(q)'
    BY <1>5
    DEF LockExpires, Lock!Expire, rateVars, TxInv, Typed, Rates!TypeOK, Consistent
  <1>6. ASSUME RatesExpire PROVE Typed' /\ \A q \in Requests : Consistent(q)'
    BY <1>6
    DEF RatesExpire, Rates!Expire, lockVars, TxInv, Typed, Rates!TypeOK, Consistent
  <1>7. ASSUME UNCHANGED vars PROVE Typed' /\ \A q \in Requests : Consistent(q)'
    BY <1>7 DEF vars, TxInv, Typed, Rates!TypeOK, Consistent
  <1>8. Typed' /\ \A q \in Requests : Consistent(q)'
    BY <1>2, <1>3, <1>4, <1>5, <1>6, <1>7 DEF Next, RequestStep, Terminated
  <1> QED BY <1>1, <1>8 DEF TxInv

\* TxInv holds in every reachable state.
LEMMA TxAlways == SafeSpec => []TxInv
  BY TxInit, TxStep, PTL DEF SafeSpec

-----------------------------------------------------------------------------
(* The properties of the service *)

\* Every variable keeps its type.
THEOREM TypeCorrect == SafeSpec => []TypeOK
  <1>1. TxInv => TypeOK
    BY LockTypes DEF TxInv, Typed, TypeOK
  <1> QED BY <1>1, TxAlways, PTL

\* A client that was told "created" or "unavailable" finds its store free of its request.
THEOREM StoreFreeWhenAnswered == SafeSpec => []AnsweredStoreFree
  <1>1. TxInv => AnsweredStoreFree
    <2> SUFFICES ASSUME TxInv, NEW r \in Requests, answer[r] \notin {"none", "lost"}
                 PROVE  /\ call[r] \notin Lock!InFlight
                        /\ owner[StoreOf[r]] = r =>
                             (answer[r] \in {"conflict", "error"} /\ call[r] # "released")
      BY DEF AnsweredStoreFree
    <2>1. Consistent(r) /\ answer[r] \in Answers
      BY DEF TxInv, Typed
    <2>2. call[r] = "released" => owner[StoreOf[r]] # r
      BY DEF TxInv, LP!LockInv, LP!NoStrandedKey
    <2> QED BY <2>1, <2>2 DEF Consistent, Answers, Lock!InFlight
  <1> QED BY <1>1, TxAlways, PTL

\* Inserts are sent under the lock of the store, or after it lapsed in the hands of
\* the sender.
THEOREM InsertsUnderLock == SafeSpec => InsertUnderLock
  <1> DEFINE Sent(r) == insert[r] = "none" /\ insert'[r] # "none"
             Covered(r) == owner[StoreOf[r]] = r \/ (lapsed[r] /\ call[r] = "held")
  <1>1. TxInv /\ [Next]_vars => [\A r \in Requests : Sent(r) => Covered(r)]_vars
    <2> SUFFICES ASSUME TxInv, Next, NEW r \in Requests, Sent(r) PROVE Covered(r)
      OBVIOUS
    <2>1. Create(r)
      BY DEF Next, RequestStep, Receive, NoStore, TryLock, LockUnseen, RetryLock,
             LockFails, AskRates, ConversionFails, Create, Released, ReleaseUnseen,
             ReleaseFails, Settle, InsertStored, InsertFails, InsertFailsUnheard,
             ProcessEnds, Down, LockExpires, RatesExpire, Terminated, SetInsert, vars,
             TxInv, Typed
    <2>2. call[r] = "held"
      BY <2>1 DEF Create, Lock!Release
    <2> QED BY <2>2 DEF TxInv, LP!LockInv, LP!HoldersOwn, LP!TypeOK
  <1> QED BY <1>1, TxAlways, PTL DEF SafeSpec, InsertUnderLock

-----------------------------------------------------------------------------
(* TransactionService implements TransactionLedger *)

Booked == {r \in Requests : insert[r] = "stored"}

\* An initial state of the service is one of the ledger.
LEMMA LedgerInit == Init => Ledger!Init
  BY DEF Init, Ledger!Init

\* Every step of the service books, answers, loses replies, or is not seen by the clients.
LEMMA LedgerStep == TxInv /\ [Next]_vars => [Ledger!Next]_<<Booked, answer>>
  <1> SUFFICES ASSUME TxInv, Next PROVE Ledger!Next \/ UNCHANGED <<Booked, answer>>
    BY DEF vars, Booked
  <1> USE DEF TxInv, Typed
  <1>1. ASSUME NEW r \in Requests,
               \/ Receive(r) \/ TryLock(r) \/ LockUnseen(r) \/ AskRates(r)
               \/ ConversionFails(r) \/ ReleaseUnseen(r) \/ InsertFails(r)
        PROVE  UNCHANGED <<Booked, answer>>
    BY <1>1
    DEF Receive, TryLock, LockUnseen, AskRates, ConversionFails, ReleaseUnseen,
        InsertFails, SetInsert, Booked
  <1>2. ASSUME NEW r \in Requests, NoStore(r) \/ LockFails(r) \/ ReleaseFails(r)
        PROVE  Ledger!Next
    <2>1. Booked' = Booked /\ answer' = [answer EXCEPT ![r] = "error"]
      BY <1>2 DEF NoStore, LockFails, ReleaseFails, Answer, Booked
    <2>2. answer[r] = "none"
      BY <1>2
      DEF NoStore, LockFails, ReleaseFails, Lock!TryFails, Lock!ScriptFails, Consistent
    <2>3. Ledger!Reply(r, "error")
      BY <2>1, <2>2 DEF Ledger!Reply, Ledger!Refusals, Booked
    <2> QED BY <2>3 DEF Ledger!Next, Ledger!Replies
  <1>3. ASSUME NEW r \in Requests, RetryLock(r)
        PROVE  Ledger!Next \/ UNCHANGED <<Booked, answer>>
    <2>1. /\ call[r] = "waiting" /\ answer[r] = "none" /\ insert[r] = "none"
          /\ Booked' = Booked
      BY <1>3 DEF RetryLock, Lock!Retry, Consistent, Booked
    <2>2. CASE answer' = [answer EXCEPT ![r] = "conflict"]
      <3>1. Ledger!Reply(r, "conflict")
        BY <2>1, <2>2 DEF Ledger!Reply, Ledger!Refusals, Booked
      <3> QED BY <3>1 DEF Ledger!Next, Ledger!Replies, Ledger!Refusals
    <2>3. CASE answer' = answer
      BY <2>1, <2>3
    <2> QED BY <1>3, <2>2, <2>3 DEF RetryLock, Answer
  <1>4. ASSUME NEW r \in Requests, Create(r) PROVE UNCHANGED <<Booked, answer>>
    <2>1. insert[r] = "none"
      BY <1>4 DEF Create, Lock!Release, Consistent
    <2> QED BY <1>4, <2>1 DEF Create, SetInsert, Booked
  <1>5. ASSUME NEW r \in Requests, Released(r)
        PROVE  Ledger!Next \/ UNCHANGED <<Booked, answer>>
    <2>1. /\ answer[r] = "none" /\ conv[r] \in {"failed", "noRates", "converted"}
          /\ insert[r] # "none" => conv[r] = "converted"
          /\ Booked' = Booked
      BY <1>5 DEF Released, Lock!RunScript, Consistent, Booked
    <2>2. CASE conv[r] = "failed"
      <3>1. Ledger!Reply(r, "unavailable")
        BY <1>5, <2>1, <2>2 DEF Released, Answer, Ledger!Reply, Ledger!Refusals, Booked
      <3> QED BY <3>1 DEF Ledger!Next, Ledger!Replies, Ledger!Refusals
    <2>3. CASE conv[r] = "noRates"
      <3>1. Ledger!Reply(r, "error")
        BY <1>5, <2>1, <2>3 DEF Released, Answer, Ledger!Reply, Ledger!Refusals, Booked
      <3> QED BY <3>1 DEF Ledger!Next, Ledger!Replies
    <2>4. CASE conv[r] = "converted"
      BY <1>5, <2>1, <2>4 DEF Released
    <2> QED BY <2>1, <2>2, <2>3, <2>4
  <1>6. ASSUME NEW r \in Requests, Settle(r) PROVE Ledger!Next
    <2>1. PICK a \in {"created", "error"} :
            /\ answer[r] = "none" /\ answer' = [answer EXCEPT ![r] = a]
            /\ a = "created" => insert[r] = "stored"
            /\ Booked' = Booked
      BY <1>6 DEF Settle, Answer, Booked
    <2>2. Ledger!Reply(r, a)
      BY <2>1 DEF Ledger!Reply, Ledger!Refusals, Booked
    <2> QED BY <2>2 DEF Ledger!Next, Ledger!Replies
  <1>7. ASSUME NEW r \in Requests, InsertStored(r) PROVE Ledger!Next
    <2>1. /\ insert[r] \in {"pending", "detached"}
          /\ Booked' = Booked \cup {r} /\ answer' = answer
      BY <1>7 DEF InsertStored, SetInsert, Booked
    <2>2. answer[r] \notin Ledger!Refusals
      BY <2>1 DEF Consistent, Ledger!Refusals
    <2>3. Ledger!Book(r)
      BY <2>1, <2>2 DEF Ledger!Book, Booked
    <2> QED BY <2>3 DEF Ledger!Next
  <1>8. ASSUME NEW i \in Instances, NEW inserts, Down(i, inserts),
               \A r \in Requests : inserts[r] = "stored" <=> insert[r] = "stored"
        PROVE  Ledger!Next
    <2> DEFINE S == {r \in Requests : InstanceOf[r] = i /\ call[r] # "idle"}
    <2>1. Booked' = Booked
      BY <1>8 DEF Down, Booked
    <2>2. answer' = [r \in Requests |->
                       IF r \in S /\ answer[r] = "none" THEN "lost" ELSE answer[r]]
      BY <1>8 DEF Down
    <2> HIDE DEF S
    <2>3. Ledger!LoseReplies(S)
      BY <2>1, <2>2 DEF Ledger!LoseReplies, Booked
    <2>4. S \in SUBSET Requests
      BY DEF S
    <2> QED BY <2>3, <2>4 DEF Ledger!Next
  <1>9. ASSUME NEW r \in Requests, InsertFailsUnheard(r) PROVE Ledger!Next
    <2> DEFINE inserts == [insert EXCEPT ![r] = "failed"]
    <2>1. Down(InstanceOf[r], inserts) /\ InstanceOf[r] \in Instances
      BY <1>9, TransactionAssumption DEF InsertFailsUnheard
    <2>2. \A q \in Requests : inserts[q] = "stored" <=> insert[q] = "stored"
      BY <1>9 DEF InsertFailsUnheard
    <2> HIDE DEF inserts
    <2> QED BY <2>1, <2>2, <1>8
  <1>10. ASSUME NEW i \in Instances, ProcessEnds(i) PROVE Ledger!Next
    BY <1>8, <1>10 DEF ProcessEnds
  <1>11. ASSUME \/ \E s \in Stores : LockExpires(s)
                \/ RatesExpire \/ Terminated
         PROVE  UNCHANGED <<Booked, answer>>
    BY <1>11 DEF LockExpires, RatesExpire, Terminated, vars, Booked
  <1>12. CASE \E r \in Requests : RequestStep(r)
    BY <1>12, <1>1, <1>2, <1>3, <1>4, <1>5, <1>6, <1>7, <1>9 DEF RequestStep
  <1> QED BY <1>10, <1>11, <1>12 DEF Next

\* Clients can rely on the answers, as TransactionLedger says.
THEOREM ImplementsLedger == SafeSpec => LedgerRefinement
  <1>1. TxInv /\ [Next]_vars => [Ledger!Next]_(Ledger!ledger)
    BY LedgerStep DEF Ledger!ledger, Booked
  <1> QED BY <1>1, LedgerInit, TxAlways, PTL DEF SafeSpec, LedgerRefinement, Ledger!Spec

-----------------------------------------------------------------------------
(* What clients get from the ledger *)

\* An answer and the books agree.
Promise ==
  \A r \in Requests :
    /\ answer[r] = "created" => insert[r] = "stored"
    /\ answer[r] \in {"conflict", "unavailable"} => insert[r] # "stored"

\* What a step of the ledger does to the answers and the books.
LEMMA LedgerKeeps ==
  ASSUME Ledger!TypeOK, Promise, [Ledger!Next]_(Ledger!ledger)
  PROVE  /\ Ledger!TypeOK' /\ Promise'
         /\ Booked \subseteq Booked'
         /\ \A r \in Requests : answer[r] # "none" => answer'[r] = answer[r]
  <1> USE DEF Ledger!TypeOK
  <1> DEFINE Agree == \A r \in Requests :
               /\ answer[r] = "created" => r \in Booked
               /\ answer[r] \in Ledger!Refusals => r \notin Booked
  <1>1. \A r \in Requests : r \in Booked <=> insert[r] = "stored"
    BY DEF Booked
  <1>2. \A r \in Requests : r \in Booked' <=> insert'[r] = "stored"
    BY DEF Booked
  <1>3. Agree
    BY <1>1 DEF Promise, Ledger!Refusals
  <1>4. Agree' => Promise'
    BY <1>2 DEF Promise, Ledger!Refusals
  <1>5. Booked \subseteq Requests /\ Booked' \subseteq Requests
    BY DEF Booked
  <1>6. ASSUME NEW r \in Requests, Ledger!Book(r)
        PROVE  /\ Booked' = Booked \cup {r} /\ answer[r] \notin Ledger!Refusals
               /\ answer' = answer
    BY <1>6 DEF Ledger!Book, Booked
  <1>7. ASSUME NEW r \in Requests, NEW s \in Ledger!Replies \ {"none", "lost"}, Ledger!Reply(r, s)
        PROVE  /\ Booked' = Booked /\ answer[r] = "none"
               /\ answer' = [answer EXCEPT ![r] = s]
               /\ s = "created" => r \in Booked
               /\ s \in Ledger!Refusals => r \notin Booked
    BY <1>7 DEF Ledger!Reply, Booked
  <1>8. ASSUME NEW S \in SUBSET Requests, Ledger!LoseReplies(S)
        PROVE  /\ Booked' = Booked
               /\ answer' = [r \in Requests |->
                               IF r \in S /\ answer[r] = "none" THEN "lost" ELSE answer[r]]
    BY <1>8 DEF Ledger!LoseReplies, Booked
  <1>9. CASE \E r \in Requests : Ledger!Book(r)
    BY <1>5, <1>6, <1>9, <1>3, <1>4
  <1>10. CASE \E r \in Requests : \E s \in Ledger!Replies \ {"none", "lost"} : Ledger!Reply(r, s)
    BY <1>3, <1>4, <1>5, <1>7, <1>10 DEF Ledger!Replies, Ledger!Refusals
  <1>11. CASE \E S \in SUBSET Requests : Ledger!LoseReplies(S)
    BY <1>3, <1>4, <1>5, <1>8, <1>11 DEF Ledger!Replies, Ledger!Refusals
  <1>12. CASE UNCHANGED Ledger!ledger
    <2>1. answer' = answer /\ Booked' = Booked
      BY <1>12 DEF Ledger!ledger, Booked
    <2> QED BY <1>3, <1>4, <1>5, <2>1
  <1> QED BY <1>9, <1>10, <1>11, <1>12 DEF Ledger!Next

\* "created" is said only of a stored transaction, 409 and 503 only of one that is not.
THEOREM PromisesKept == SafeSpec => [](Ledger!TypeOK /\ Promise)
  <1>1. Ledger!Init => Ledger!TypeOK /\ Promise
    BY DEF Ledger!Init, Ledger!TypeOK, Ledger!Replies, Ledger!Refusals, Promise
  <1>2. Ledger!TypeOK /\ Promise /\ [Ledger!Next]_(Ledger!ledger) => (Ledger!TypeOK /\ Promise)'
    BY LedgerKeeps
  <1> QED BY <1>1, <1>2, ImplementsLedger, PTL DEF LedgerRefinement, Ledger!Spec

\* Answers are final, and so is what they say: a client that was refused may send the
\* request again without booking it twice, and one that was told "created" need not.
THEOREM AnswersFinal ==
  ASSUME NEW x \in Requests
  PROVE  /\ \A a \in Answers \ {"none"} : SafeSpec => [](answer[x] = a => [](answer[x] = a))
         /\ SafeSpec => [](answer[x] = "created" => [](insert[x] = "stored"))
         /\ SafeSpec => [](answer[x] \in {"conflict", "unavailable"} => [](insert[x] # "stored"))
  <1> DEFINE Refused == answer[x] \in {"conflict", "unavailable"}
             Created == answer[x] = "created"
             Stored == insert[x] = "stored"
             NotStored == insert[x] # "stored"
  <1>1. Ledger!TypeOK /\ Promise /\ [Ledger!Next]_(Ledger!ledger) =>
          (answer[x] # "none" => answer'[x] = answer[x])
    BY LedgerKeeps
  <1>2. Promise => (Refused => NotStored) /\ (Created => Stored)
    BY DEF Promise
  <1>3. Ledger!TypeOK /\ Promise /\ [Ledger!Next]_(Ledger!ledger) =>
          (Refused => Refused') /\ (Created => Created')
    BY <1>1
  <1>4. ASSUME NEW a \in Answers \ {"none"}
        PROVE  SafeSpec => [](answer[x] = a => [](answer[x] = a))
    <2> DEFINE Is == answer[x] = a
    <2>1. Ledger!TypeOK /\ Promise /\ [Ledger!Next]_(Ledger!ledger) => (Is => Is')
      BY <1>1
    <2> HIDE DEF Is
    <2>2. SafeSpec => [](Is => []Is)
      BY <2>1, PromisesKept, ImplementsLedger, PTL DEF LedgerRefinement, Ledger!Spec
    <2> QED BY <2>2 DEF Is
  <1> HIDE DEF Refused, Created, Stored, NotStored
  <1>5. SafeSpec => [](Refused => []NotStored)
    BY <1>2, <1>3, PromisesKept, ImplementsLedger, PTL DEF LedgerRefinement, Ledger!Spec
  <1>6. SafeSpec => [](Created => []Stored)
    BY <1>2, <1>3, PromisesKept, ImplementsLedger, PTL DEF LedgerRefinement, Ledger!Spec
  <1> QED BY <1>4, <1>5, <1>6 DEF Refused, Created, Stored, NotStored

-----------------------------------------------------------------------------
(* What the stores inherit from the lock *)

\* Of the requests of one store at most one is at work under the lock with its TTL left.
THEOREM StoresExclude == SafeSpec => []LP!MutualExclusion
  BY UsesLock, LockAssumed, LP!LocksExclude, PTL

\* A request that waits for the lock of a store comes nearer to having it or giving up with
\* every try and every pause, whatever the other requests, the rates and the inserts do.
THEOREM WaitersRunDown ==
  SafeSpec => [][\A r \in Requests :
                   call[r] \in {"trying", "waiting"} => LP!RunsDown(r)]_(LP!vars)
  BY UsesLock, LockAssumed, LP!LoopsRunDown, PTL

-----------------------------------------------------------------------------
(* Why requests are answered *)

\* Where the call, the conversion, the insert and the answer of r may stand when they come
\* to c, v, i and a: a call that ended in vain was answered, so was the request of a
\* detached insert, and a request in INR goes from the lock to its insert at once.
Fits(r, c, v, i, a) ==
  /\ c \in {"refused", "acquireFailed", "releaseFailed", "dead"} => a # "none"
  /\ i = "detached" => a # "none"
  /\ c \in {"releasing", "released"} /\ v = "converted" => i # "none"
  /\ c = "released" /\ v # "converted" => a # "none"
  /\ r \in InINR =>
       /\ v \in {"idle", "converted"}
       /\ c \in {"idle", "trying", "waiting", "held"} => v = "idle"

Steady(r) == Fits(r, call[r], conv[r], insert[r], answer[r])

AnswerInv == TxInv /\ \A r \in Requests : Steady(r)

\* Nothing has come in at first.
LEMMA AnswerInit == Init => AnswerInv
  <1>1. Init => \A r \in Requests : Steady(r)
    BY DEF Init, Lock!Init, Rates!Init, Steady, Fits
  <1> QED BY <1>1, TxInit DEF AnswerInv

\* What the end of a process, or a step that is not its own, leaves of request q.
Spared(q) ==
  /\ conv'[q] = conv[q]
  /\ call'[q] \in {call[q], "dead"}
  /\ answer'[q] = answer[q] \/ (answer[q] = "none" /\ answer'[q] = "lost")
  /\ insert'[q] = insert[q] \/ (insert[q] = "pending" /\ insert'[q] \in {"detached", "failed"})
  /\ call'[q] # call[q] \/ insert'[q] # insert[q] => answer'[q] # "none"

\* The end of a process loses answers, and with it calls and inserts, but nothing else.
LEMMA DownSpares ==
  ASSUME AnswerInv, NEW i \in Instances, NEW inserts \in [Requests -> InsertStates],
         Down(i, inserts), NEW q \in Requests,
         inserts[q] # insert[q] => /\ insert[q] = "pending" /\ inserts[q] = "failed"
                                   /\ InstanceOf[q] = i
  PROVE  Spared(q)
  <1>1. Consistent(q)
    BY DEF AnswerInv, TxInv
  <1>2. conv'[q] = conv[q] /\ call'[q] \in {call[q], "dead"}
    BY DEF Down, Lock!ProcessEnds, rateVars
  <1>3. answer'[q] = IF InstanceOf[q] = i /\ call[q] # "idle" /\ answer[q] = "none"
                     THEN "lost" ELSE answer[q]
    BY DEF Down
  <1>4. insert'[q] = IF InstanceOf[q] = i /\ inserts[q] = "pending" THEN "detached" ELSE inserts[q]
    BY DEF Down
  <1>5. call'[q] # call[q] => InstanceOf[q] = i /\ call[q] # "idle"
    BY DEF Down, Lock!ProcessEnds, Lock!InFlight
  <1>6. insert'[q] # insert[q] => InstanceOf[q] = i /\ call[q] # "idle"
    BY <1>1, <1>4 DEF Consistent
  <1> QED BY <1>2, <1>3, <1>4, <1>5, <1>6 DEF Spared

\* Any step moves a request by a row of its own or spares it.
LEMMA Moves ==
  ASSUME AnswerInv, [Next]_vars, NEW q \in Requests
  PROVE  \/ /\ RequestStep(q) /\ ~InsertFailsUnheard(q)
            /\ Row(q, call[q], conv[q], insert[q], answer[q],
                      call'[q], conv'[q], insert'[q], answer'[q])
         \/ /\ Spared(q)
            /\ RequestStep(q) => InsertFailsUnheard(q) /\ insert'[q] # insert[q]
  <1> DEFINE Own == /\ RequestStep(q) /\ ~InsertFailsUnheard(q)
                    /\ Row(q, call[q], conv[q], insert[q], answer[q],
                              call'[q], conv'[q], insert'[q], answer'[q])
             Foreign == Spared(q) /\ (RequestStep(q) => InsertFailsUnheard(q) /\ insert'[q] # insert[q])
  <1>0. TxInv /\ /\ call \in [Requests -> Lock!CallStates] /\ conv \in [Requests -> Rates!ConvStates]
                /\ insert \in [Requests -> InsertStates] /\ answer \in [Requests -> Answers]
    BY LockTypes DEF AnswerInv, TxInv, Lock!TypeOK, Typed, Rates!TypeOK
  <1>1. CASE RequestStep(q) /\ ~InsertFailsUnheard(q)
    <2>1. PICK c, v, i, a : /\ Assigns(q, c, v, i, a)
                            /\ Row(q, call[q], conv[q], insert[q], answer[q], c, v, i, a)
      BY <1>0, <1>1, RowOfStep
    <2>2. call'[q] = c /\ conv'[q] = v /\ insert'[q] = i /\ answer'[q] = a
      BY <1>0, <2>1 DEF Assigns
    <2> QED BY <1>1, <2>1, <2>2
  <1>2. ASSUME NEW r \in Requests, RequestStep(r), ~InsertFailsUnheard(r), ~RequestStep(q)
        PROVE  Foreign
    <2>1. PICK c, v, i, a : Assigns(r, c, v, i, a)
      BY <1>0, <1>2, RowOfStep
    <2>2. /\ r # q
          /\ call'[q] = call[q] /\ conv'[q] = conv[q]
          /\ insert'[q] = insert[q] /\ answer'[q] = answer[q]
      BY <1>0, <1>2, <2>1 DEF Assigns
    <2> QED BY <1>2, <2>2 DEF Spared
  <1>3. ASSUME NEW r \in Requests, InsertFailsUnheard(r), RequestStep(q) => InsertFailsUnheard(q)
        PROVE  Foreign
    <2> DEFINE inserts == [insert EXCEPT ![r] = "failed"]
    <2>1. insert[r] = "pending" /\ Down(InstanceOf[r], inserts) /\ InstanceOf[r] \in Instances
      BY <1>3, TransactionAssumption DEF InsertFailsUnheard
    <2>2. /\ inserts \in [Requests -> InsertStates]
          /\ inserts[q] # insert[q] => /\ insert[q] = "pending" /\ inserts[q] = "failed"
                                       /\ InstanceOf[q] = InstanceOf[r]
      BY <1>0, <2>1 DEF InsertStates
    <2>3. Spared(q)
      <3> HIDE DEF inserts
      <3> QED BY <2>1, <2>2, DownSpares
    <2>4. InsertFailsUnheard(q) => insert'[q] # insert[q]
      BY <1>0 DEF InsertFailsUnheard, Down
    <2> QED BY <1>3, <2>3, <2>4
  <1>4. ASSUME NEW i \in Instances, ProcessEnds(i), ~RequestStep(q) PROVE Foreign
    <2>1. Spared(q)
      BY <1>0, <1>4, DownSpares DEF ProcessEnds
    <2> QED BY <1>4, <2>1
  <1>5. CASE UNCHANGED <<call, conv, insert, answer>> /\ ~RequestStep(q)
    BY <1>5 DEF Spared
  <1>6. CASE RequestStep(q) /\ InsertFailsUnheard(q)
    BY <1>3, <1>6
  <1>7. CASE ~RequestStep(q)
    <2>1. CASE UNCHANGED vars \/ Terminated
      BY <1>5, <1>7, <2>1 DEF Terminated, vars
    <2>2. CASE RatesExpire \/ \E s \in Stores : LockExpires(s)
      BY <1>5, <1>7, <2>2
      DEF RatesExpire, LockExpires, Rates!Expire, Lock!Expire, lockVars, rateVars
    <2>3. CASE \E i \in Instances : ProcessEnds(i)
      BY <1>4, <1>7, <2>3
    <2>4. CASE \E r \in Requests : RequestStep(r)
      BY <1>2, <1>3, <1>7, <2>4
    <2> QED BY <2>1, <2>2, <2>3, <2>4 DEF Next
  <1> QED BY <1>1, <1>6, <1>7

\* AnswerInv is inductive.
LEMMA AnswerStep == AnswerInv /\ [Next]_vars => AnswerInv'
  <1> SUFFICES ASSUME AnswerInv, [Next]_vars PROVE AnswerInv'
    OBVIOUS
  <1>1. ASSUME NEW q \in Requests PROVE Steady(q)'
    <2>1. Consistent(q) /\ Steady(q)
      BY DEF AnswerInv, TxInv
    <2>2. CASE Spared(q)
      BY <2>1, <2>2 DEF Spared, Steady, Fits
    <2>3. CASE Row(q, call[q], conv[q], insert[q], answer[q],
                   call'[q], conv'[q], insert'[q], answer'[q])
      BY <2>1, <2>3 DEF Row, Consistent, Steady, Fits
    <2> QED BY <2>2, <2>3, Moves
  <1> QED BY <1>1, TxStep DEF AnswerInv

\* AnswerInv holds in every reachable state.
LEMMA AnswerAlways == SafeSpec => []AnswerInv
  BY AnswerInit, AnswerStep, PTL DEF SafeSpec

\* A request that has come in and has no answer yet.
Unanswered(r) == call[r] # "idle" /\ answer[r] = "none"

\* Where a request in INR can be before its answer.
NeverAtFx ==
  \A r \in InINR : Unanswered(r) =>
    \/ call[r] \in {"trying", "waiting", "releasing"}
    \/ call[r] = "held" /\ conv[r] = "idle"
    \/ call[r] = "released" /\ insert[r] \in {"pending", "stored", "failed"}

\* Before its answer a request in INR is at a call to Redis or MongoDB, or about to go on,
\* and never at the FX service: no await without a time limit keeps it.
THEOREM InrNeverAtFx == SafeSpec => []NeverAtFx
  <1>1. AnswerInv => NeverAtFx
    <2> SUFFICES ASSUME AnswerInv, NEW r \in InINR, Unanswered(r)
                 PROVE  \/ call[r] \in {"trying", "waiting", "releasing"}
                        \/ call[r] = "held" /\ conv[r] = "idle"
                        \/ call[r] = "released" /\ insert[r] \in {"pending", "stored", "failed"}
      BY DEF NeverAtFx
    <2>1. r \in Requests
      BY TransactionAssumption
    <2>2. /\ call[r] \in Lock!CallStates /\ insert[r] \in InsertStates
          /\ Consistent(r) /\ Steady(r)
      BY <2>1, LockTypes DEF AnswerInv, TxInv, Typed, Lock!TypeOK
    <2> QED
      BY <2>2
      DEF Unanswered, Steady, Fits, Lock!CallStates, Lock!InFlight, InsertStates
  <1> QED BY <1>1, AnswerAlways, PTL

\* The steps that Fairness promises a request, and the end of a conversion.
ProgressStep(r) ==
  \/ TryLock(r) \/ RetryLock(r) \/ LockFails(r) \/ ConversionFails(r) \/ Create(r)
  \/ Released(r) \/ ReleaseFails(r)
  \/ InsertStored(r) \/ InsertFails(r) \/ InsertFailsUnheard(r) \/ Settle(r)

\* What is left after the loop of acquireLock when call, insert and answer are c, i and a.
After(c, i, a) ==
  (CASE c \in {"trying", "waiting"} -> 3
     [] c = "held"                  -> 2
     [] c = "releasing"             -> 1
     [] OTHER                       -> 0)
  + (IF i \in {"none", "pending"} THEN 1 ELSE 0)
  + (IF a = "none" THEN 1 ELSE 0)

\* What is left of request r: the loop of acquireLock, then the rest of the call.
ToDo(r) == LP!Left(r) + After(call[r], insert[r], answer[r])

ComesNearer(r) ==
  /\ ToDo(r) \in Nat \ {0} /\ ToDo(r)' \in Nat
  /\ ToDo(r)' <= ToDo(r)
  /\ ProgressStep(r) => ToDo(r)' < ToDo(r)

\* The first part of the measure: the loop.
LEMMA LoopPart ==
  ASSUME AnswerInv, AnswerInv', [Next]_vars, NEW r \in Requests, Unanswered(r)
  PROVE  /\ LP!Left(r) \in Nat /\ LP!Left(r)' \in Nat /\ LP!Left(r)' <= LP!Left(r)
         /\ TryLock(r) \/ RetryLock(r) \/ LockFails(r) => LP!Left(r)' < LP!Left(r)
  <1> DEFINE InLoop == TryLock(r) \/ RetryLock(r) \/ LockFails(r)
  <1>1. /\ InLoop => LP!LoopStep(r) /\ call[r] \in {"trying", "waiting"} /\ call' # call
    <2>1. call \in [Requests -> Lock!CallStates]
      BY LockTypes DEF AnswerInv, TxInv, Lock!TypeOK
    <2> QED
      BY <2>1
      DEF TryLock, RetryLock, LockFails, Lock!Try, Lock!TryFails, Lock!Retry, LP!LoopStep,
          LP!Try, LP!TryFails, LP!Retry, Lock!SetCall, LP!SetCall, Lock!SetIfAbsent,
          LP!SetIfAbsent
  <1>2. LP!LockInv /\ LP!LockInv' /\ LP!LockAssumption /\ [LP!Next]_(LP!vars)
    BY LockStep, LockAssumed DEF AnswerInv, TxInv
  <1>3. CASE LP!Next /\ call[r] \in {"trying", "waiting"}
    <2>1. LP!RunsDown(r)
      BY <1>2, <1>3, LP!LoopGoesDown
    <2> QED BY <1>1, <2>1 DEF LP!RunsDown
  <1>4. CASE call[r] \notin {"trying", "waiting"}
    <2>1. call'[r] \notin {"trying", "waiting"}
      BY <1>4, Moves DEF Spared, Row, Unanswered
    <2>2. LP!Left(r) = 0 /\ LP!Left(r)' = 0
      BY <1>4, <2>1 DEF LP!Left
    <2> QED BY <1>1, <1>4, <2>2
  <1>5. CASE UNCHANGED lockVars /\ call[r] \in {"trying", "waiting"}
    <2>1. LP!Left(r) \in Nat
      <3>1. attempts[r] \in Nat /\ attempts[r] < RetryCount /\ RetryCount \in Nat
        BY <1>5, TransactionAssumption DEF AnswerInv, TxInv, LP!LockInv, LP!RoundsLeft, LP!TypeOK
      <3> QED BY <3>1, <1>5 DEF LP!Left
    <2>2. LP!Left(r)' = LP!Left(r)
      BY <1>5 DEF LP!Left, lockVars
    <2> QED BY <1>1, <1>5, <2>1, <2>2 DEF lockVars
  <1> QED BY <1>2, <1>3, <1>4, <1>5 DEF LP!vars, lockVars

\* The second part: no step adds to it, and a step of the call after the loop takes from it.
LEMMA RestPart ==
  ASSUME AnswerInv, [Next]_vars, NEW r \in Requests, Unanswered(r)
  PROVE  LET rest == After(call[r], insert[r], answer[r])
             left == After(call'[r], insert'[r], answer'[r])
         IN  /\ rest \in Nat \ {0} /\ left \in Nat /\ left <= rest
             /\ ProgressStep(r) => left < rest \/ call[r] \in {"trying", "waiting"}
  <1>1. /\ call \in [Requests -> Lock!CallStates] /\ insert \in [Requests -> InsertStates]
        /\ answer \in [Requests -> Answers] /\ Consistent(r) /\ Steady(r)
    BY LockTypes DEF AnswerInv, TxInv, Lock!TypeOK, Typed
  <1>2. ProgressStep(r) => \/ call[r] \in {"trying", "waiting"}
                           \/ call'[r] # call[r]
                           \/ insert'[r] # insert[r]
                           \/ answer'[r] # answer[r]
    <2>1. CASE TryLock(r) \/ RetryLock(r) \/ LockFails(r)
      BY <2>1 DEF TryLock, RetryLock, LockFails, Lock!Try, Lock!Retry, Lock!TryFails
    <2>2. CASE \/ ConversionFails(r) \/ Create(r) \/ Released(r) \/ ReleaseFails(r)
      BY <1>1, <2>2
      DEF ConversionFails, Create, Released, ReleaseFails, Lock!Release, Lock!RunScript,
          Lock!ScriptFails, Lock!SetCall
    <2>3. CASE InsertStored(r) \/ InsertFails(r)
      BY <1>1, <2>3 DEF InsertStored, InsertFails, SetInsert
    <2>4. CASE InsertFailsUnheard(r)
      BY <1>1, <2>4 DEF InsertFailsUnheard, Down
    <2>5. CASE Settle(r)
      BY <1>1, <2>5 DEF Settle, Answer
    <2> QED BY <2>1, <2>2, <2>3, <2>4, <2>5 DEF ProgressStep
  <1>3. CASE Spared(r)
    BY <1>1, <1>2, <1>3 DEF Spared, After, Unanswered, Steady, Fits, Consistent
  <1>4. CASE Row(r, call[r], conv[r], insert[r], answer[r],
                 call'[r], conv'[r], insert'[r], answer'[r])
    BY <1>1, <1>2, <1>4 DEF Row, After, Unanswered, Steady, Fits, Consistent
  <1> QED BY <1>3, <1>4, Moves

\* Every step of its own brings a request that has come in nearer to its answer, and no lost
\* reply, crash, expiry or step of another request puts it back: all of AnsweredWithoutFx
\* but the fairness.
THEOREM AnswersComeNearer ==
  SafeSpec => [][\A r \in Requests : Unanswered(r) => ComesNearer(r)]_vars
  <1>1. AnswerInv /\ AnswerInv' /\ [Next]_vars =>
          [\A r \in Requests : Unanswered(r) => ComesNearer(r)]_vars
    <2> SUFFICES ASSUME AnswerInv, AnswerInv', [Next]_vars, NEW r \in Requests, Unanswered(r)
                 PROVE  ComesNearer(r)
      OBVIOUS
    <2> DEFINE here == LP!Left(r)
               there == LP!Left(r)'
               rest == After(call[r], insert[r], answer[r])
               left == After(call'[r], insert'[r], answer'[r])
    <2>1. /\ here \in Nat /\ there \in Nat /\ there <= here
          /\ TryLock(r) \/ RetryLock(r) \/ LockFails(r) => there < here
      BY LoopPart
    <2>2. /\ rest \in Nat \ {0} /\ left \in Nat /\ left <= rest
          /\ ProgressStep(r) => left < rest \/ call[r] \in {"trying", "waiting"}
      BY RestPart
    <2>3. ProgressStep(r) /\ call[r] \in {"trying", "waiting"} =>
            TryLock(r) \/ RetryLock(r) \/ LockFails(r)
      BY DEF ProgressStep, AnswerInv, TxInv, Consistent, ConversionFails, Create, Released,
             ReleaseFails, InsertStored, InsertFails, InsertFailsUnheard, Settle,
             Lock!Release, Lock!RunScript, Lock!ScriptFails, Unanswered, Steady, Fits
    <2>4. ToDo(r) = here + rest /\ ToDo(r)' = there + left
      BY DEF ToDo
    <2> HIDE DEF here, there, rest, left
    <2> QED BY <2>1, <2>2, <2>3, <2>4 DEF ComesNearer
  <1> QED BY <1>1, AnswerAlways, PTL DEF SafeSpec

=============================================================================
