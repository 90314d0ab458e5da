----------------------------- MODULE RateVersions -----------------------------
(***************************************************************************)
(* RateCache with the rates themselves: which of the FX service's quotes   *)
(* the entry of Redis holds when several requests miss it together and     *)
(* their replies and SETs overtake each other.                             *)
(*                                                                         *)
(* A quote is its number; 0 stands for none.  The FX service settles on a  *)
(* quote while it serves the request, and what its reply then waits for is *)
(* part of the wait for the SET.                                           *)
(***************************************************************************)

EXTENDS Naturals

CONSTANTS
  Requests,
  MaxQuote    \* bounds the quotes of a behaviour

ASSUME QuoteAssumption == MaxQuote \in Nat \ {0}

VARIABLES
  quote,      \* of the FX service now
  entry,      \* the quote that Redis holds
  conv,       \* conv[r]: where request r is in convertToINR
  got,        \* got[r]: the quote that r has of the FX service
  overtaken   \* history: requests of which another's SET was executed after their quote

vars == <<quote, entry, conv, got, overtaken>>

ConvStates == {"idle", "fetching", "storing", "converted", "failed", "noRates"}

Init ==
  /\ quote = 1
  /\ entry = 0
  /\ conv = [r \in Requests |-> "idle"]
  /\ got = [r \in Requests |-> 0]
  /\ overtaken = {}

Goto(r, s) == conv' = [conv EXCEPT ![r] = s]

NewQuote ==
  /\ quote < MaxQuote
  /\ quote' = quote + 1
  /\ UNCHANGED <<entry, conv, got, overtaken>>

NoConversion(r) ==
  /\ conv[r] = "idle"
  /\ Goto(r, "converted")
  /\ UNCHANGED <<quote, entry, got, overtaken>>

Hit(r) ==
  /\ conv[r] = "idle" /\ entry # 0
  /\ Goto(r, "converted")
  /\ UNCHANGED <<quote, entry, got, overtaken>>

Miss(r) ==
  /\ conv[r] = "idle"
  /\ Goto(r, "fetching")
  /\ UNCHANGED <<quote, entry, got, overtaken>>

Fetch(r) ==
  /\ conv[r] = "fetching"
  /\ Goto(r, "storing")
  /\ got' = [got EXCEPT ![r] = quote]
  /\ UNCHANGED <<quote, entry, overtaken>>

\* Bug variant: the first rates are built in, and cached when the FX service fails.
FetchFallsBack(r) ==
  /\ conv[r] = "fetching"
  /\ Goto(r, "storing")
  /\ got' = [got EXCEPT ![r] = 1]
  /\ UNCHANGED <<quote, entry, overtaken>>

\* Bug variant: a reply without rates is cached.
FetchFailsCaching(r) ==
  /\ conv[r] = "fetching"
  /\ Goto(r, "noRates")
  /\ entry' = quote
  /\ UNCHANGED <<quote, got, overtaken>>

FetchFails(r) ==
  /\ conv[r] = "fetching"
  /\ \E s \in {"failed", "noRates"} : Goto(r, s)
  /\ UNCHANGED <<quote, entry, got, overtaken>>

SetEntry(r) ==
  /\ entry' = got[r]
  /\ overtaken' = overtaken \cup {q \in Requests \ {r} : conv[q] = "storing"}

StoreUnseen(r) ==
  /\ conv[r] = "storing"
  /\ SetEntry(r)
  /\ UNCHANGED <<quote, conv, got>>

\* Bug variant: what the SET throws is not swallowed.
StoreThrowing(r) ==
  /\ conv[r] = "storing"
  /\ \/ SetEntry(r) /\ Goto(r, "converted")
     \/ UNCHANGED <<entry, overtaken>> /\ Goto(r, "thrown")
  /\ UNCHANGED <<quote, got>>

Store(r) ==
  /\ conv[r] = "storing"
  /\ SetEntry(r) \/ UNCHANGED <<entry, overtaken>>
  /\ Goto(r, "converted")
  /\ UNCHANGED <<quote, got>>

Expire == entry # 0 /\ entry' = 0 /\ UNCHANGED <<quote, conv, got, overtaken>>

RequestStep(r) ==
  \/ NoConversion(r) \/ Hit(r) \/ Miss(r) \/ Fetch(r) \/ FetchFails(r)
  \/ StoreUnseen(r) \/ Store(r)

Next == NewQuote \/ Expire \/ \E r \in Requests : RequestStep(r)

Spec == Init /\ [][Next]_vars

-----------------------------------------------------------------------------
(* Properties *)

\* Every variable has its type.
TypeOK ==
  /\ quote \in 1 .. MaxQuote
  /\ entry \in 0 .. MaxQuote
  /\ conv \in [Requests -> ConvStates]
  /\ got \in [Requests -> 0 .. MaxQuote]
  /\ overtaken \subseteq Requests

\* Whatever the entry holds, it comes and goes as RateCache says: a failing FX service
\* and the stampede after a miss do not make it appear or vanish otherwise.
Cache == INSTANCE RateCache WITH cached <- entry # 0
CacheRefinement == Cache!Spec

\* An entry is replaced by older rates only by a request that was overtaken: the SET of
\* another came between its quote and its own SET.  Without a stampede, a new entry is at
\* least as recent as the one it replaces.
OnlyStampedeAges ==
  [][entry' # 0 /\ entry' < entry => \E r \in overtaken : conv[r] = "storing" /\ got[r] = entry']_vars

=============================================================================
