--------------------------- MODULE RateVersionsProofs ---------------------------
(***************************************************************************)
(* Theorems about RateVersions for every set of requests and any number of *)
(* quotes: type correctness, when the entry gets older, and that it comes  *)
(* and goes as RateCache says.                                             *)
(***************************************************************************)
EXTENDS RateVersions, TLAPS

\* Nobody has a quote of the future, who stores has one, and who was not overtaken has one
\* at least as recent as the entry.
VersionInv ==
  /\ TypeOK
  /\ entry <= quote
  /\ \A r \in Requests : got[r] <= quote
  /\ \A r \in Requests : conv[r] = "storing" => got[r] # 0
  /\ \A r \in Requests : conv[r] = "storing" /\ r \notin overtaken => entry <= got[r]

\* Initially there is no entry.
LEMMA InitVersions == Init => VersionInv
  BY QuoteAssumption DEF Init, VersionInv, TypeOK, ConvStates

\* The SET of a request keeps the invariant: whoever waits with a quote is overtaken by it.
LEMMA SetKeeps ==
  ASSUME VersionInv, NEW r \in Requests, StoreUnseen(r) \/ Store(r)
  PROVE  VersionInv'
  <1>1. /\ got' = got /\ quote' = quote
        /\ conv' \in {conv, [conv EXCEPT ![r] = "converted"]}
        /\ \/ entry' = entry /\ overtaken' = overtaken
           \/ SetEntry(r)
    BY DEF StoreUnseen, Store, Goto
  <1>2. TypeOK'
    BY <1>1 DEF VersionInv, TypeOK, ConvStates, SetEntry
  <1>3. /\ entry' <= quote'
        /\ \A q \in Requests : got'[q] <= quote'
        /\ \A q \in Requests : conv'[q] = "storing" => got'[q] # 0
    BY <1>1 DEF VersionInv, TypeOK, SetEntry
  <1>4. ASSUME NEW q \in Requests, conv'[q] = "storing", q \notin overtaken'
        PROVE  entry' <= got'[q]
    <2>1. conv[q] = "storing"
      BY <1>1, <1>4 DEF VersionInv, TypeOK
    <2>2. CASE entry' = entry /\ overtaken' = overtaken
      BY <1>1, <1>4, <2>1, <2>2 DEF VersionInv
    <2>3. CASE SetEntry(r)
      <3>1. q = r
        BY <1>4, <2>1, <2>3 DEF SetEntry
      <3> QED BY <1>1, <2>3, <3>1 DEF SetEntry, VersionInv, TypeOK
    <2> QED BY <1>1, <2>2, <2>3
  <1> QED BY <1>2, <1>3, <1>4 DEF VersionInv

\* Every step keeps the invariant.
LEMMA NextKeepsVersions == VersionInv /\ [Next]_vars => VersionInv'
  <1> SUFFICES ASSUME VersionInv, [Next]_vars PROVE VersionInv'
    OBVIOUS
  <1>1. CASE UNCHANGED vars
    BY <1>1 DEF vars, VersionInv, TypeOK
  <1>2. CASE NewQuote
    BY <1>2, QuoteAssumption DEF NewQuote, VersionInv, TypeOK
  <1>3. CASE Expire
    BY <1>3, QuoteAssumption DEF Expire, VersionInv, TypeOK
  <1>4. ASSUME NEW r \in Requests, NoConversion(r) \/ Hit(r) \/ Miss(r) \/ FetchFails(r)
        PROVE  VersionInv'
    BY <1>4 DEF NoConversion, Hit, Miss, FetchFails, Goto, VersionInv, TypeOK, ConvStates
  <1>5. ASSUME NEW r \in Requests, Fetch(r) PROVE VersionInv'
    BY <1>5 DEF Fetch, Goto, VersionInv, TypeOK, ConvStates
  <1>6. ASSUME NEW r \in Requests, StoreUnseen(r) \/ Store(r) PROVE VersionInv'
    BY <1>6, SetKeeps
  <1> QED BY <1>1, <1>2, <1>3, <1>4, <1>5, <1>6 DEF Next, RequestStep

\* The invariant holds throughout, and with it the types.
THEOREM VersionsHold == Spec => []VersionInv
  BY InitVersions, NextKeepsVersions, PTL DEF Spec

\* Every variable keeps its type.
THEOREM TypeCorrect == Spec => []TypeOK
  <1>1. VersionInv => TypeOK
    BY DEF VersionInv
  <1> QED BY <1>1, VersionsHold, PTL

\* Only a request that was overtaken puts older rates in the place of newer ones.
THEOREM OnlyStampedes == Spec => OnlyStampedeAges
  <1>1. ASSUME VersionInv, [Next]_vars, entry' # 0, entry' < entry
        PROVE  \E r \in overtaken : conv[r] = "storing" /\ got[r] = entry'
    <2>1. entry' # entry
      BY <1>1 DEF VersionInv, TypeOK
    <2>2. PICK r \in Requests : conv[r] = "storing" /\ SetEntry(r)
      BY <1>1, <2>1 DEF Next, vars, NewQuote, Expire, RequestStep, NoConversion, Hit, Miss,
                        Fetch, FetchFails, StoreUnseen, Store
    <2> QED BY <1>1, <2>2 DEF VersionInv, TypeOK, SetEntry
  <1> QED BY <1>1, VersionsHold, PTL DEF Spec, OnlyStampedeAges

\* The entry comes and goes as in RateCache.
THEOREM ImplementsCache == Spec => CacheRefinement
  <1>1. Init => Cache!Init
    BY DEF Init, Cache!Init
  <1>2. ASSUME VersionInv, [Next]_vars PROVE [Cache!Next]_(Cache!vars)
    <2>1. CASE UNCHANGED vars
      BY <2>1 DEF vars, Cache!vars
    <2>2. CASE NewQuote
      BY <2>2 DEF NewQuote, Cache!vars
    <2>3. CASE Expire
      BY <2>3 DEF Expire, Cache!Next, Cache!Expire
    <2>4. ASSUME NEW r \in Requests, NoConversion(r) \/ Hit(r) \/ Miss(r) \/ Fetch(r) \/ FetchFails(r)
          PROVE  Cache!Next
      BY <2>4 DEF NoConversion, Hit, Miss, Fetch, FetchFails, Goto, Cache!Next, Cache!Goto,
                  Cache!NoConversion, Cache!Hit, Cache!Miss, Cache!Fetch, Cache!FetchFails
    <2>5. ASSUME NEW r \in Requests, StoreUnseen(r) PROVE Cache!StoreUnseen(r)
      BY <1>2, <2>5 DEF StoreUnseen, SetEntry, Cache!StoreUnseen, VersionInv
    <2>6. ASSUME NEW r \in Requests, Store(r) PROVE Cache!Store(r)
      BY <1>2, <2>6 DEF Store, SetEntry, Goto, Cache!Store, Cache!Goto, VersionInv
    <2> QED BY <1>2, <2>1, <2>2, <2>3, <2>4, <2>5, <2>6 DEF Next, RequestStep, Cache!Next
  <1> QED BY <1>1, <1>2, VersionsHold, PTL DEF Spec, CacheRefinement, Cache!Spec

=============================================================================
