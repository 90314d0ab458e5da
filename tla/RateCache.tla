------------------------------ MODULE RateCache ------------------------------
(***************************************************************************)
(* The currency rates: TransactionService.getCurrencyRates and convertToINR *)
(* (transaction.service.ts) on CacheService (cache.service.ts), the Redis  *)
(* entry behind it and the FX service.                                     *)
(*                                                                         *)
(* Which rates the entry holds is left out: a conversion either has rates  *)
(* or has none.  A request is at most once in convertToINR.                *)
(***************************************************************************)

CONSTANT Requests

VARIABLES
  cached,   \* there is an entry of rates in Redis
  conv      \* conv[r]: where request r is in convertToINR

vars == <<cached, conv>>

\* "failed": the FX service could not be asked; "noRates": it answered without any.
ConvStates == {"idle", "fetching", "storing", "converted", "failed", "noRates"}

Init == cached = FALSE /\ conv = [r \in Requests |-> "idle"]

Goto(r, s) == conv' = [conv EXCEPT ![r] = s]

\* convertToINR returns an amount in INR as it is.
NoConversion(r) == conv[r] = "idle" /\ Goto(r, "converted") /\ UNCHANGED cached

\* cached() finds the entry.
Hit(r) == conv[r] = "idle" /\ cached /\ Goto(r, "converted") /\ UNCHANGED cached

\* There is no entry, or Redis failed: CacheService.get swallows the error.
Miss(r) == conv[r] = "idle" /\ Goto(r, "fetching") /\ UNCHANGED cached

Fetch(r) == conv[r] = "fetching" /\ Goto(r, "storing") /\ UNCHANGED cached

\* axios throws, or there are no rates in the answer: nothing is cached.
FetchFails(r) ==
  /\ conv[r] = "fetching"
  /\ \E s \in {"failed", "noRates"} : Goto(r, s)
  /\ UNCHANGED cached

\* The SET has been executed and ioredis will send it again.
StoreUnseen(r) == conv[r] = "storing" /\ cached' = TRUE /\ UNCHANGED conv

\* The SET returns, or CacheService.set swallows what it threw.
Store(r) == conv[r] = "storing" /\ cached' \in {cached, TRUE} /\ Goto(r, "converted")

\* The EX of the SET.
Expire == cached /\ cached' = FALSE /\ UNCHANGED conv

Next ==
  \/ \E r \in Requests :
       \/ NoConversion(r) \/ Hit(r) \/ Miss(r) \/ Fetch(r) \/ FetchFails(r)
       \/ StoreUnseen(r) \/ Store(r)
  \/ Expire

Spec == Init /\ [][Next]_vars

-----------------------------------------------------------------------------

\* Every variable has its type.
TypeOK == cached \in BOOLEAN /\ conv \in [Requests -> ConvStates]

=============================================================================
