----------------------------- MODULE ReportsProofs -----------------------------
(***************************************************************************)
(* Theorems about Reports for every set of transactions, clients, queries  *)
(* and instants, every calendar and every zone: type correctness, how the  *)
(* two reads of a report agree, what its window and its groups are, and    *)
(* that pages skip nothing.                                                *)
(***************************************************************************)
EXTENDS Reports, FiniteSetTheorems, TLAPS

Reporting(r) == query[r].route \in {"week", "month"}

\* Whoever has asked reads for the query asked, a report from a date on.
Asked(r) ==
  /\ at[r] # "idle" => query[r] \in Queries
  /\ at[r] \in {"listing", "summing"} => Reporting(r)
  /\ at[r] = "paging" => ~Reporting(r)
  /\ at[r] # "idle" /\ Reporting(r) => start[r] \in Instants

\* What Settled says of the transactions whose date no body gave.
Over(r) ==
  /\ EndDate(r) <= clock
  /\ \A x \in Transactions \ dated : stage[x] = "sent" => ~InWindow(r, x)

\* A report has listed what matches and still does; in a settled one nothing but what a body
\* dates can be added.
Listed(r) ==
  /\ at[r] \in {"summing", "done"} /\ Reporting(r) => listed[r] \subseteq Matching(r)
  /\ r \in settled => at[r] \notin {"idle", "listing"}
  /\ r \in settled /\ at[r] = "summing" =>
       /\ Over(r)
       /\ Matching(r) \ listed[r] \subseteq dated
  /\ at[r] = "done" /\ Reporting(r) =>
       /\ listed[r] \subseteq summed[r]
       /\ r \in settled => summed[r] \ listed[r] \subseteq dated

\* A client that pages has still to meet only what lies behind its pages.
Paged(r) ==
  /\ at[r] = "paging" =>
       /\ before[r] \subseteq Hits(r)
       /\ page[r] >= 1
       /\ \A x \in before[r] \ listed[r] : Place(r, x) >= Skip(r)
  /\ at[r] = "done" /\ ~Reporting(r) => before[r] \subseteq listed[r]

ReportInv ==
  /\ TypeOK
  /\ \A r \in Readers : Asked(r) /\ Listed(r) /\ Paged(r)

\* Initially nothing is sent or asked.
LEMMA InitReports == Init => ReportInv
  BY DEF Init, ReportInv, TypeOK, Asked, Listed, Paged, DateOrNone

\* Instants are integers, and so is the end of a report that starts at one.
LEMMA Integral ==
  /\ Instants \subseteq Int
  /\ \A r \in Readers : start[r] \in Instants => EndDate(r) \in Int
  <1>1. Instants \subseteq Int /\ Zone \in Int
    BY ReportsAssumption
  <1>2. ASSUME NEW r \in Readers, start[r] \in Instants PROVE EndDate(r) \in Int
    <2> DEFINE t == start[r] + Zone
    <2>0. t \in Int
      <3>1. start[r] \in Int
        BY <1>1, <1>2
      <3> QED BY <1>1, <3>1
    <2>1. LocalDay(start[r]) \in Int /\ TimeOfDay(start[r]) \in Int
      <3> HIDE DEF t
      <3>1. t \div 2 \in Int /\ t % 2 \in Int
        BY <2>0
      <3> QED BY <3>1 DEF LocalDay, TimeOfDay, HalfDays, t
    <2>2. PlusWeek(start[r]) \in Int
      BY <1>1, <2>1 DEF PlusWeek, Instant, HalfDays
    <2>3. MonthOf(LocalDay(start[r])) \in Months
      <3>1. PICK m \in Months : Within(LocalDay(start[r]), m)
        BY <1>2, CalendarAssumption
      <3> QED BY <3>1 DEF MonthOf
    <2>4. PlusMonth(start[r]) \in Int
      <3> DEFINE m == MonthOf(LocalDay(start[r]))
      <3>1. m \in Int /\ FirstDay[m] \in Int /\ FirstDay[m + 1] \in Int
        BY <2>3, CalendarAssumption DEF Months
      <3> HIDE DEF m
      <3>2. DateOf(LocalDay(start[r])) \in Int
        BY <2>1, <3>1 DEF DateOf, m
      <3> QED BY <1>1, <2>1, <3>1, <3>2 DEF PlusMonth, Instant, HalfDays, m
    <2> QED BY <2>2, <2>4 DEF EndDate
  <1> QED BY <1>1, <1>2

\* Searches and reports are told apart by their routes, and a search has a positive size.
LEMMA Routes ==
  ASSUME NEW q \in Queries
  PROVE  /\ q.route \in {"week", "month", "search"}
         /\ q.route # "search" => q.date \in DateOrNone
         /\ q.route = "search" => q.size \in Nat \ {0}
  BY ReportsAssumption DEF ReportQueries, SearchQueries

\* What the inserts do to a reader: dates stay, nothing stored goes away, and what is sent
\* carries the time of the clock unless a body dates it.
DataStep ==
  /\ clock' \in Instants /\ clock <= clock' /\ dated \subseteq dated'
  /\ \A x \in Transactions :
       /\ stage[x] # "none" => stamp'[x] = stamp[x]
       /\ stage[x] = "stored" => stage'[x] = "stored"
       /\ stage'[x] = "stored" => stage[x] \in {"sent", "stored"}
       /\ stage'[x] = "sent" /\ stage[x] # "sent" => stamp'[x] = clock \/ x \in dated'

\* The clock and the inserts make no other steps.
LEMMA DataSteps ==
  ASSUME ReportInv, Tick \/ \E x \in Transactions : InsertStep(x)
  PROVE  DataStep /\ TypeOK' /\ UNCHANGED readerVars
  <1>0. TypeOK /\ clock \in Int /\ (\A t \in Instants : t \in Int) /\ Dates \subseteq Instants
    BY Integral, ReportsAssumption DEF ReportInv, TypeOK
  <1>1. CASE Tick
    <2>1. PICK t \in Instants : t > clock /\ clock' = t
      BY <1>1 DEF Tick
    <2>2. clock' \in Int /\ clock <= clock'
      BY <1>0, <2>1
    <2>3. UNCHANGED <<stage, stamp, dated, readerVars>>
      BY <1>1 DEF Tick
    <2> QED BY <1>0, <2>1, <2>2, <2>3 DEF DataStep, TypeOK, readerVars
  <1>2. ASSUME NEW x \in Transactions, InsertStep(x)
        PROVE  DataStep /\ TypeOK' /\ UNCHANGED readerVars
    <2>1. UNCHANGED readerVars
      BY <1>2 DEF InsertStep, Send, Store, Lose
    <2>2. TypeOK'
      BY <1>0, <1>2, <2>1 DEF InsertStep, Send, Store, Lose, TypeOK, readerVars, DateOrNone
    <2>3. DataStep
      BY <1>0, <1>2 DEF InsertStep, Send, Store, Lose, DataStep, TypeOK
    <2> QED BY <2>1, <2>2, <2>3
  <1> QED BY <1>1, <1>2

\* The result of a search only grows, so that places in it only grow.
LEMMA PlacesGrow ==
  ASSUME NEW r \in Readers, Hits(r) \subseteq Hits(r)', NEW x \in Hits(r)
  PROVE  /\ Place(r, x) \in Nat
         /\ Place(r, x)' \in Nat
         /\ Place(r, x) <= Place(r, x)'
  <1> DEFINE S == {y \in Hits(r) : y > x}
             T == {y \in Hits(r)' : y > x}
  <1>1. S \subseteq T /\ T \subseteq Transactions /\ IsFiniteSet(Transactions)
    BY ReportsAssumption DEF Hits, Stored
  <1>2. IsFiniteSet(T)
    BY <1>1, FS_Subset
  <1>3. IsFiniteSet(S) /\ Cardinality(S) <= Cardinality(T)
    BY <1>1, <1>2, FS_Subset
  <1>4. Cardinality(S) \in Nat /\ Cardinality(T) \in Nat
    BY <1>2, <1>3, FS_CardinalityType
  <1> QED BY <1>3, <1>4 DEF Place

\* What a reader has found out stays true while the clock goes on and inserts are made.
LEMMA DataStepKeeps ==
  ASSUME ReportInv, DataStep, UNCHANGED readerVars, NEW r \in Readers
  PROVE  Asked(r)' /\ Listed(r)' /\ Paged(r)'
  <1>0. TypeOK /\ Asked(r) /\ Listed(r) /\ Paged(r)
    BY DEF ReportInv
  <1>1. /\ query' = query /\ start' = start /\ page' = page /\ at' = at /\ listed' = listed
        /\ summed' = summed /\ before' = before /\ settled' = settled
    BY DEF readerVars
  <1>2. EndDate(r)' = EndDate(r) /\ Skip(r)' = Skip(r) /\ Reporting(r)' = Reporting(r)
    BY <1>1 DEF EndDate, Skip, Reporting
  <1>3. \A x \in Transactions : stage[x] # "none" => (InWindow(r, x)' <=> InWindow(r, x))
    BY <1>1, <1>2 DEF DataStep, InWindow
  <1>4. Matching(r) \subseteq Matching(r)'
    BY <1>3 DEF DataStep, Matching, Stored
  <1>5. Hits(r) \subseteq Hits(r)'
    BY <1>1 DEF DataStep, Hits, Stored, Fits
  <1>6. Asked(r)'
    BY <1>0, <1>1, <1>2 DEF Asked
  <1>7. ASSUME Over(r), start[r] \in Instants
        PROVE  Over(r)' /\ Matching(r)' \ Matching(r) \subseteq dated'
    <2>1. EndDate(r) \in Int /\ clock \in Int /\ clock' \in Int
      BY <1>0, <1>7, Integral DEF TypeOK, DataStep
    <2>2. EndDate(r) <= clock /\ EndDate(r) <= clock'
      BY <1>7, <2>1 DEF Over, DataStep
    <2>3. ASSUME NEW x \in Transactions \ dated', stage'[x] = "sent" PROVE ~InWindow(r, x)'
      <3>1. CASE stage[x] = "sent"
        BY <1>3, <1>7, <2>3, <3>1 DEF Over, DataStep
      <3>2. CASE stage[x] # "sent"
        <4>1. stamp'[x] = clock
          BY <2>3, <3>2 DEF DataStep
        <4> QED BY <1>2, <2>1, <2>2, <4>1 DEF InWindow
      <3> QED BY <3>1, <3>2
    <2>4. ASSUME NEW x \in Transactions \ dated', stage'[x] = "stored", InWindow(r, x)'
          PROVE  x \in Matching(r)
      <3>1. stage[x] \in {"sent", "stored"}
        BY <2>4 DEF DataStep
      <3>2. InWindow(r, x)
        BY <1>3, <2>4, <3>1
      <3> QED BY <1>7, <2>4, <3>1, <3>2 DEF Over, Matching, Stored, DataStep
    <2> QED BY <1>2, <2>2, <2>3, <2>4 DEF Over, Matching, Stored
  <1>8. Listed(r)'
    <2>1. at[r] = "summing" => start[r] \in Instants
      BY <1>0 DEF Asked
    <2>2. dated \subseteq dated'
      BY DEF DataStep
    <2> QED BY <1>0, <1>1, <1>2, <1>4, <1>7, <2>1, <2>2 DEF Listed
  <1>9. Paged(r)'
    <2>1. ASSUME at[r] = "paging", NEW x \in before[r] \ listed[r]
          PROVE  Place(r, x)' >= Skip(r)
      <3>1. x \in Hits(r) /\ Place(r, x) >= Skip(r)
        BY <1>0, <2>1 DEF Paged
      <3>2. Place(r, x) \in Nat /\ Place(r, x)' \in Nat /\ Place(r, x) <= Place(r, x)'
        BY <1>5, <3>1, PlacesGrow
      <3>3. Skip(r) \in Int
        <4>1. query[r] \in Queries /\ query[r].route = "search"
          BY <1>0, <2>1, Routes DEF Asked, Reporting
        <4>2. query[r].size \in Nat /\ page[r] \in Nat
          BY <1>0, <4>1, Routes DEF TypeOK
        <4> QED BY <4>2 DEF Skip
      <3> QED BY <3>1, <3>2, <3>3
    <2> QED BY <1>0, <1>1, <1>2, <1>5, <2>1 DEF Paged
  <1> QED BY <1>6, <1>8, <1>9

\* A reader's step is nothing to another reader.
LEMMA OthersKeep ==
  ASSUME ReportInv, UNCHANGED dataVars, NEW q \in Readers,
         query'[q] = query[q], start'[q] = start[q], page'[q] = page[q], at'[q] = at[q],
         listed'[q] = listed[q], summed'[q] = summed[q], before'[q] = before[q],
         q \in settled' <=> q \in settled
  PROVE  Asked(q)' /\ Listed(q)' /\ Paged(q)'
  <1>1. clock' = clock /\ stage' = stage /\ stamp' = stamp /\ dated' = dated
    BY DEF dataVars
  <1>2. EndDate(q)' = EndDate(q) /\ Skip(q)' = Skip(q) /\ Reporting(q)' = Reporting(q)
    BY DEF EndDate, Skip, Reporting
  <1>3. Matching(q)' = Matching(q) /\ Over(q)' = Over(q)
    BY <1>1, <1>2 DEF Matching, Stored, Over, InWindow
  <1>4. Hits(q)' = Hits(q) /\ \A x \in Transactions : Place(q, x)' = Place(q, x)
    BY <1>1 DEF Hits, Stored, Fits, Place
  <1>5. before[q] \subseteq Transactions
    BY DEF ReportInv, TypeOK
  <1> QED BY <1>1, <1>2, <1>3, <1>4, <1>5 DEF ReportInv, Asked, Listed, Paged

\* The reader that makes a step keeps the invariant.
LEMMA ReaderKeeps ==
  ASSUME ReportInv, NEW r \in Readers, ReaderStep(r)
  PROVE  Asked(r)' /\ Listed(r)' /\ Paged(r)' /\ TypeOK'
  <1>0. TypeOK /\ Asked(r) /\ Listed(r) /\ Paged(r)
    BY DEF ReportInv
  <1>1. CASE List(r)
    <2>1. TypeOK'
      BY <1>0, <1>1 DEF List, dataVars, TypeOK, Matching, Stored
    <2>2. /\ at[r] = "listing" /\ at'[r] = "summing" /\ listed'[r] = Matching(r)
          /\ r \in settled' => Over(r)
      BY <1>0, <1>1 DEF List, TypeOK, Listed, Settled, Over
    <2>3. Matching(r)' = Matching(r) /\ Over(r)' = Over(r)
      BY <1>1 DEF List, dataVars, Matching, Stored, Over, InWindow, EndDate
    <2>4. UNCHANGED <<query, start>>
      BY <1>1 DEF List
    <2> QED BY <1>0, <2>1, <2>2, <2>3, <2>4 DEF Asked, Listed, Paged, Reporting
  <1>2. CASE Summarise(r)
    <2>1. TypeOK'
      BY <1>0, <1>2 DEF Summarise, dataVars, TypeOK, Matching, Stored
    <2>2. /\ at[r] = "summing" /\ at'[r] = "done" /\ summed'[r] = Matching(r)
      BY <1>0, <1>2 DEF Summarise, TypeOK
    <2>3. Matching(r)' = Matching(r)
      BY <1>2 DEF Summarise, dataVars, Matching, Stored, InWindow, EndDate
    <2>4. UNCHANGED <<query, start, listed, settled, dated>>
      BY <1>2 DEF Summarise, dataVars
    <2> QED BY <1>0, <2>1, <2>2, <2>3, <2>4 DEF Asked, Listed, Paged, Reporting
  <1>3. CASE GetPage(r)
    <2>1. /\ at[r] = "paging" /\ listed'[r] = listed[r] \cup Page(r)
          /\ UNCHANGED <<dataVars, query, start, before, settled>>
          /\ \/ Rest(r) = {} /\ at' = [at EXCEPT ![r] = "done"] /\ page' = page
             \/ page' = [page EXCEPT ![r] = page[r] + 1] /\ at' = at
      BY <1>0, <1>3 DEF GetPage, TypeOK
    <2>2. /\ query[r] \in Queries /\ query[r].route = "search" /\ query[r].size \in Nat \ {0}
          /\ page[r] \in Nat /\ page[r] >= 1
      BY <1>0, <2>1, Routes DEF Asked, Paged, Reporting, TypeOK
    <2>3. TypeOK'
      <3>1. Page(r) \subseteq Transactions
        BY DEF Page, Rest, Hits, Stored
      <3> QED BY <1>0, <1>3, <3>1 DEF GetPage, dataVars, TypeOK
    <2>4. Hits(r)' = Hits(r) /\ \A x \in Transactions : Place(r, x)' = Place(r, x)
      BY <2>1 DEF dataVars, Hits, Stored, Fits, Place
    <2>5. /\ before[r] \subseteq Hits(r) /\ before[r] \subseteq Transactions
          /\ \A x \in before[r] \ listed[r] : x \in Rest(r)
      BY <1>0, <2>1 DEF Paged, Rest, TypeOK
    <2>6. ASSUME page' = [page EXCEPT ![r] = page[r] + 1], at' = at PROVE Paged(r)'
      <3>1. ASSUME NEW x \in before[r] \ listed'[r] PROVE Place(r, x)' >= Skip(r)'
        <4> DEFINE size == query[r].size
                   n == page[r]
        <4>1. x \in Rest(r) /\ x \notin Page(r) /\ x \in Hits(r)
          BY <2>1, <2>5, <3>1
        <4>2. Place(r, x) \in Nat
          BY <2>4, <4>1, PlacesGrow
        <4>3. Skip(r) = (n - 1) * size /\ Skip(r)' = (n + 1 - 1) * size
          BY <1>0, <2>1, <2>6 DEF Skip, TypeOK
        <4>4. ~(Place(r, x) < Skip(r) + size)
          BY <4>1 DEF Page
        <4>5. n \in Nat /\ size \in Nat
          BY <2>2
        <4> HIDE DEF size, n
        <4>6. (n - 1) * size \in Int /\ (n - 1) * size + size = (n + 1 - 1) * size
          BY <4>5
        <4>7. Place(r, x)' = Place(r, x)
          BY <2>4, <2>5, <3>1
        <4> QED BY <4>2, <4>3, <4>4, <4>5, <4>6, <4>7
      <3>2. page'[r] >= 1
        BY <1>0, <2>2, <2>6 DEF TypeOK
      <3> QED BY <1>0, <2>1, <2>2, <2>4, <2>5, <2>6, <3>1, <3>2 DEF Paged
    <2>7. ASSUME Rest(r) = {}, at' = [at EXCEPT ![r] = "done"] PROVE Paged(r)'
      <3>1. before[r] \subseteq listed[r]
        BY <2>5, <2>7
      <3> QED BY <1>0, <2>1, <2>7, <3>1 DEF Paged, TypeOK
    <2>8. Asked(r)' /\ Listed(r)'
      BY <1>0, <2>1, <2>2 DEF Asked, Listed, Reporting, TypeOK
    <2> QED BY <2>1, <2>3, <2>6, <2>7, <2>8
  <1>4. CASE ReadFails(r)
    BY <1>0, <1>4 DEF ReadFails, dataVars, TypeOK, Asked, Listed, Paged, Reporting
  <1>5. ASSUME NEW q \in Queries, Ask(r, q) PROVE Asked(r)' /\ Listed(r)' /\ Paged(r)' /\ TypeOK'
    BY <1>0, <1>5, Routes DEF Ask, dataVars, TypeOK, Asked, Listed, Paged, Reporting, DateOrNone
  <1>6. ASSUME NEW q \in Queries, Search(r, q)
        PROVE  Asked(r)' /\ Listed(r)' /\ Paged(r)' /\ TypeOK'
    <2>1. TypeOK'
      BY <1>0, <1>6 DEF Search, dataVars, TypeOK, Stored
    <2>2. /\ at[r] = "idle" /\ at'[r] = "paging" /\ query'[r] = q /\ q.route = "search"
          /\ page'[r] = 1 /\ settled' = settled
          /\ before'[r] = {x \in Stored : Fits(q, x)}
      BY <1>0, <1>6 DEF Search, TypeOK
    <2>3. before'[r] = Hits(r)' /\ before'[r] \subseteq Transactions
      BY <1>6, <2>2 DEF Search, dataVars, Hits, Stored, Fits
    <2>4. Skip(r)' = 0
      <3>1. q.size \in Nat
        BY <2>2, Routes
      <3> QED BY <2>2, <3>1 DEF Skip
    <2>5. \A x \in before'[r] : Place(r, x)' \in Nat
      <3>1. ASSUME NEW x \in before'[r] PROVE Place(r, x)' \in Nat
        <4>1. IsFiniteSet({y \in Hits(r)' : y > x})
          BY <2>3, ReportsAssumption, FS_Subset
        <4> QED BY <4>1, FS_CardinalityType DEF Place
      <3> QED BY <3>1
    <2> QED BY <1>0, <2>1, <2>2, <2>3, <2>4, <2>5 DEF Asked, Listed, Paged, Reporting
  <1> QED BY <1>1, <1>2, <1>3, <1>4, <1>5, <1>6 DEF ReaderStep

\* Every step keeps the invariant.
LEMMA NextKeepsReports == ReportInv /\ [Next]_vars => ReportInv'
  <1> SUFFICES ASSUME ReportInv, [Next]_vars PROVE ReportInv'
    OBVIOUS
  <1>1. CASE UNCHANGED vars
    <2>1. ASSUME NEW q \in Readers PROVE Asked(q)' /\ Listed(q)' /\ Paged(q)'
      BY <1>1, OthersKeep DEF vars, dataVars
    <2> QED BY <1>1, <2>1 DEF vars, ReportInv, TypeOK
  <1>2. CASE Tick \/ \E x \in Transactions : InsertStep(x)
    BY <1>2, DataSteps, DataStepKeeps DEF ReportInv
  <1>3. ASSUME NEW r \in Readers, ReaderStep(r) PROVE ReportInv'
    <2>1. UNCHANGED dataVars /\ TypeOK
      BY <1>3 DEF ReportInv, ReaderStep, Ask, Search, List, Summarise, GetPage, ReadFails
    <2>2. ASSUME NEW q \in Readers, q # r PROVE Asked(q)' /\ Listed(q)' /\ Paged(q)'
      <3>1. /\ query'[q] = query[q] /\ start'[q] = start[q] /\ page'[q] = page[q]
            /\ at'[q] = at[q] /\ listed'[q] = listed[q] /\ summed'[q] = summed[q]
            /\ before'[q] = before[q] /\ (q \in settled' <=> q \in settled)
        BY <1>3, <2>1, <2>2
        DEF ReaderStep, Ask, Search, List, Summarise, GetPage, ReadFails, TypeOK
      <3> QED BY <2>1, <3>1, OthersKeep
    <2>3. Asked(r)' /\ Listed(r)' /\ Paged(r)' /\ TypeOK'
      BY <1>3, ReaderKeeps
    <2> QED BY <2>2, <2>3 DEF ReportInv
  <1> QED BY <1>1, <1>2, <1>3 DEF Next

\* The invariant holds throughout.
THEOREM ReportsHold == Spec => []ReportInv
  BY InitReports, NextKeepsReports, PTL DEF Spec

\* Every variable keeps its type.
THEOREM TypeCorrect == Spec => []TypeOK
  <1>1. ReportInv => TypeOK
    BY DEF ReportInv
  <1> QED BY <1>1, ReportsHold, PTL

\* A summary counts what the groups hold.
THEOREM SummariesCover == Spec => []SummaryCoversList
  <1>1. ReportInv => SummaryCoversList
    <2> SUFFICES ASSUME ReportInv, NEW r \in Readers, Reported(r)
                 PROVE  listed[r] \subseteq summed[r]
      BY DEF SummaryCoversList
    <2>1. Asked(r) /\ Listed(r)
      BY DEF ReportInv
    <2> QED BY <2>1, Routes DEF Reported, Asked, Reporting, Listed
  <1> QED BY <1>1, ReportsHold, PTL

\* A report of a settled period is exact but for what bodies dated.
THEOREM PastReportsExact == Spec => []PastReportExact
  <1>1. ReportInv => PastReportExact
    <2> SUFFICES ASSUME ReportInv, NEW r \in Readers, Reported(r), r \in settled
                 PROVE  summed[r] \ listed[r] \subseteq dated
      BY DEF PastReportExact
    <2>1. Asked(r) /\ Listed(r)
      BY DEF ReportInv
    <2> QED BY <2>1, Routes DEF Reported, Asked, Reporting, Listed
  <1> QED BY <1>1, ReportsHold, PTL

\* Half days of one week that share their day of the week are of one day.
LEMMA OneDay ==
  ASSUME NEW s \in Int, s % 2 = 0, NEW t \in Int, NEW u \in Int,
         s <= t, t < s + 14, s <= u, u < s + 14, (t \div 2) % 7 = (u \div 2) % 7
  PROVE  t \div 2 = u \div 2
  <1> DEFINE a == t \div 2
             b == u \div 2
             d == s \div 2
  <1>1. a \in Int /\ b \in Int /\ d \in Int
    OBVIOUS
  <1>2. d <= a /\ a < d + 7 /\ d <= b /\ b < d + 7
    OBVIOUS
  <1>3. a % 7 = b % 7
    OBVIOUS
  <1> HIDE DEF a, b, d
  <1>4. a = b
    BY <1>1, <1>2, <1>3
  <1> QED BY <1>4 DEF a, b

\* Seven local days later is fourteen half days later, whatever the zone.
LEMMA WeekLong == ASSUME NEW t \in Int, Zone \in Int PROVE PlusWeek(t) = t + 14
  <1> DEFINE l == t + Zone
  <1>1. l \in Int
    OBVIOUS
  <1>2. (l \div 2 + 7) * 2 + ((l % 2) - Zone) = (l + 14) - Zone
    <2> HIDE DEF l
    <2> QED BY <1>1
  <1>3. PlusWeek(t) = (l \div 2 + 7) * 2 + ((l % 2) - Zone)
    BY DEF PlusWeek, Instant, LocalDay, TimeOfDay, HalfDays
  <1> QED BY <1>2, <1>3

\* In a weekly report from a midnight, a group is a day.
THEOREM GroupsOfOneDay == Spec => []GroupsAreDays
  <1>1. ReportInv => GroupsAreDays
    <2> SUFFICES ASSUME ReportInv, NEW r \in Readers, Reported(r), query[r].route = "week",
                        start[r] % HalfDays = 0, NEW x \in listed[r], NEW y \in listed[r],
                        DayOfWeek(stamp[x]) = DayOfWeek(stamp[y])
                 PROVE  DayOf(stamp[x]) = DayOf(stamp[y])
      BY DEF GroupsAreDays
    <2>1. start[r] \in Instants /\ listed[r] \subseteq Matching(r)
      BY DEF ReportInv, Asked, Listed, Reported, Reporting
    <2>2. start[r] \in Int /\ Zone \in Int
      BY <2>1, Integral, ReportsAssumption
    <2>3. EndDate(r) = start[r] + 14
      BY <2>2, WeekLong DEF EndDate
    <2>4. ASSUME NEW z \in listed[r]
          PROVE  stamp[z] \in Int /\ start[r] <= stamp[z] /\ stamp[z] < start[r] + 14
      BY <2>1, <2>3, <2>4, Integral DEF Matching, Stored, InWindow, ReportInv, TypeOK
    <2>5. stamp[x] \div 2 = stamp[y] \div 2
      BY <2>2, <2>4, OneDay DEF DayOfWeek, DayOf, HalfDays
    <2> QED BY <2>5 DEF DayOf, HalfDays
  <1> QED BY <1>1, ReportsHold, PTL

\* A client that pages to the end misses nothing that was there before.
THEOREM SearchesMissNothing == Spec => []SearchMissesNothing
  <1>1. ReportInv => SearchMissesNothing
    BY DEF ReportInv, Paged, Reporting, SearchMissesNothing
  <1> QED BY <1>1, ReportsHold, PTL

\* The month that a day is within is the month of the day.
LEMMA MonthFound ==
  ASSUME NEW day \in Int, NEW m \in Months, Within(day, m)
  PROVE  MonthOf(day) = m
  <1>1. ASSUME NEW n \in Months, Within(day, n) PROVE n = m
    <2>1. /\ \A i, j \in 0 .. LastMonth + 1 : i < j => FirstDay[i] < FirstDay[j]
          /\ \A i \in 0 .. LastMonth + 1 : FirstDay[i] \in Int
      BY CalendarAssumption
    <2>2. /\ m \in Int /\ m \in 0 .. LastMonth + 1 /\ m + 1 \in 0 .. LastMonth + 1
          /\ n \in Int /\ n \in 0 .. LastMonth + 1 /\ n + 1 \in 0 .. LastMonth + 1
      BY CalendarAssumption DEF Months
    <2>3. FirstDay[m] <= day /\ day < FirstDay[m + 1] /\ FirstDay[n] <= day /\ day < FirstDay[n + 1]
      BY <1>1 DEF Within
    <2>4. /\ FirstDay[m] \in Int /\ FirstDay[m + 1] \in Int
          /\ FirstDay[n] \in Int /\ FirstDay[n + 1] \in Int
      BY <2>1, <2>2
    <2>5. FirstDay[m] < FirstDay[n + 1] /\ FirstDay[n] < FirstDay[m + 1]
      BY <2>3, <2>4
    <2>6. ~(m < n)
      <3>1. m < n => m + 1 = n \/ m + 1 < n
        BY <2>2
      <3> QED BY <2>1, <2>2, <2>4, <2>5, <3>1
    <2>7. ~(n < m)
      <3>1. n < m => n + 1 = m \/ n + 1 < m
        BY <2>2
      <3> QED BY <2>1, <2>2, <2>4, <2>5, <3>1
    <2> QED BY <2>2, <2>6, <2>7
  <1> QED BY <1>1 DEF MonthOf

\* One month later is as many days later as the month of the start has, whatever the zone
\* and however late in the month.
LEMMA MonthLong ==
  ASSUME NEW t \in Instants
  PROVE  PlusMonth(t) = t + MonthDays(MonthOf(LocalDay(t))) * HalfDays
  <1> DEFINE l == t + Zone
             first == LocalDay(t)
             m == MonthOf(first)
  <1>1. t \in Int /\ Zone \in Int
    BY ReportsAssumption
  <1>2. /\ l \in Int /\ first = l \div 2 /\ TimeOfDay(t) = l % 2
        /\ l \div 2 \in Int /\ l % 2 \in 0 .. 1 /\ (l \div 2) * 2 + (l % 2) = l
    <2>1. l \in Int
      BY <1>1
    <2>2. l \div 2 \in Int /\ l % 2 \in 0 .. 1 /\ (l \div 2) * 2 + (l % 2) = l
      <3> HIDE DEF l
      <3>1. l \div 2 \in Int /\ 0 <= l % 2 /\ l % 2 <= 1
        BY <2>1
      <3>2. (l \div 2) * 2 + (l % 2) = l
        BY <2>1
      <3> QED BY <2>1, <3>1, <3>2
    <2> QED BY <2>1, <2>2 DEF LocalDay, TimeOfDay, HalfDays
  <1> HIDE DEF first, l
  <1>3. m \in 0 .. LastMonth
    <2>1. PICK n \in Months : Within(first, n)
      BY CalendarAssumption DEF first
    <2> QED BY <1>2, <2>1, MonthFound DEF Months
  <1>4. FirstDay[m] \in Int /\ FirstDay[m + 1] \in Int
    BY <1>3, CalendarAssumption
  <1> DEFINE a == FirstDay[m]
             b == FirstDay[m + 1]
             d == l \div 2
             h == l % 2
  <1>5. PlusMonth(t) = (b + (d - a)) * 2 + h - Zone
    BY <1>2 DEF PlusMonth, Instant, DateOf, HalfDays, first
  <1>6. a \in Int /\ b \in Int /\ d \in Int /\ h \in Int /\ d * 2 + h = t + Zone
    BY <1>2, <1>4 DEF l
  <1>7. MonthDays(m) * HalfDays = (b - a) * 2
    BY DEF MonthDays, HalfDays
  <1> HIDE DEF a, b, d, h, m
  <1>8. (b + (d - a)) * 2 + h - Zone = t + (b - a) * 2
    BY <1>1, <1>6
  <1> QED BY <1>5, <1>7, <1>8 DEF m, first

\* What lies between the start and the end of a report.
WindowLength(r) ==
  IF query[r].route = "week" THEN 7 * HalfDays
  ELSE MonthDays(MonthOf(LocalDay(start[r]))) * HalfDays

WindowFull(r) ==
  /\ EndDate(r) = start[r] + WindowLength(r)
  /\ WindowLength(r) \in 7 * HalfDays .. 31 * HalfDays

\* The window of a report is never empty: it has seven days for a week, and for a month as
\* many as the month in which it begins, so that its end may fall past the next month.
THEOREM WindowsFull ==
  Spec => [](\A r \in Readers : at[r] # "idle" /\ Reporting(r) => WindowFull(r))
  <1>1. ASSUME ReportInv, NEW r \in Readers, at[r] # "idle", Reporting(r)
        PROVE  WindowFull(r)
    <2> USE DEF WindowFull
    <2>1. start[r] \in Instants /\ start[r] \in Int /\ Zone \in Int
      BY <1>1, Integral, ReportsAssumption DEF ReportInv, Asked
    <2>2. CASE query[r].route = "week"
      BY <2>1, <2>2, WeekLong DEF EndDate, WindowLength, HalfDays
    <2>3. CASE query[r].route # "week"
      <3> DEFINE m == MonthOf(LocalDay(start[r]))
      <3>1. PICK n \in Months : Within(LocalDay(start[r]), n)
        BY <2>1, CalendarAssumption
      <3>2. LocalDay(start[r]) \in Int
        <4>1. (start[r] + Zone) \div 2 \in Int
          BY <2>1
        <4> QED BY <4>1 DEF LocalDay, HalfDays
      <3>3. m = n
        BY <3>1, <3>2, MonthFound
      <3>4. MonthDays(m) \in 28 .. 31
        BY <3>3, CalendarAssumption
      <3>5. EndDate(r) = start[r] + MonthDays(m) * HalfDays
        BY <2>1, <2>3, MonthLong DEF EndDate
      <3>6. WindowLength(r) = MonthDays(m) * HalfDays
        BY <2>3 DEF WindowLength
      <3> HIDE DEF m
      <3> QED BY <3>4, <3>5, <3>6 DEF HalfDays
    <2> QED BY <2>2, <2>3
  <1>2. ReportInv => \A r \in Readers : at[r] # "idle" /\ Reporting(r) => WindowFull(r)
    BY <1>1
  <1> QED BY <1>2, ReportsHold, PTL

=============================================================================
