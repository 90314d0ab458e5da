------------------------------- MODULE Reports -------------------------------
(***************************************************************************)
(* Reports and searches over the transactions of a store while further     *)
(* ones are inserted: getTransactions and generateReport                   *)
(* (transaction.service.ts) and the pages of a client that asks for one    *)
(* after the other.                                                        *)
(*                                                                         *)
(* A transaction gets its _id and its createdAt when its insert is sent,   *)
(* unless the body had a createdAt, which is spread into the document and  *)
(* kept.  It is seen by readers when MongoDB has stored it; nothing        *)
(* deletes or changes one.  A transaction is a number here, its place in   *)
(* the order of the _ids; since several processes make them, they need not *)
(* be sent in this order.  The amounts that a report adds up are a function *)
(* of the set of transactions that it adds up, and so left out.            *)
(*                                                                         *)
(* Instants are half days, counted from a midnight in UTC.                 *)
(***************************************************************************)

EXTENDS Integers, FiniteSets

CONSTANTS
  Transactions,  \* of one store
  TypeOf,        \* TypeOf[x]: CREDIT or DEBIT
  Readers,       \* the clients
  Queries,       \* what they ask
  Instants,      \* the times at which something happens
  Dates,         \* the dates that bodies give
  LastMonth,     \* the instants lie in the months from 0 to LastMonth
  FirstDay,      \* FirstDay[m]: the day on which month m begins
  Zone,          \* of the server: its clock is that many half days ahead of UTC
  NoDate, NoType, NoQuery

TransactionType == {"CREDIT", "DEBIT"}
DateOrNone == Instants \cup {NoDate}

ReportQueries == [route : {"week", "month"}, date : DateOrNone]
SearchQueries ==
  [route : {"search"}, type : TransactionType \cup {NoType},
   startDate : DateOrNone, endDate : DateOrNone, size : Nat \ {0}]

ASSUME ReportsAssumption ==
  /\ Transactions \subseteq Nat /\ IsFiniteSet(Transactions)
  /\ TypeOf \in [Transactions -> TransactionType]
  /\ Queries \subseteq ReportQueries \cup SearchQueries
  /\ Instants \subseteq Int /\ Instants # {}
  /\ Dates \subseteq Instants
  /\ NoDate \notin Int
  /\ NoType \notin TransactionType
  /\ NoQuery \notin Queries
  /\ Zone \in Int

VARIABLES
  clock,
  stage,    \* stage[x]: how far the insert of x is
  stamp,    \* stamp[x]: createdAt
  dated,    \* history: the transactions whose body gave it
  query,    \* query[r]: what r has asked
  start,    \* start[r]: the startDate of its report
  page,     \* page[r]: the page of its search
  at,       \* at[r]: the read that r waits for, or "done"
  listed,   \* listed[r]: what the groups of the report, or the pages so far, hold
  summed,   \* summed[r]: what the summary of the report counts
  before,   \* history, before[r]: what was stored when r asked
  settled   \* history: reports whose window was over, with no insert into it under way,
            \* when the groups were read

vars == <<clock, stage, stamp, dated, query, start, page, at, listed, summed, before, settled>>

Stored == {x \in Transactions : stage[x] = "stored"}

-----------------------------------------------------------------------------
(* Dates: what Date.prototype.setDate and setMonth do, in a zone without changes of clock *)

HalfDays == 2

LocalDay(t) == (t + Zone) \div HalfDays
TimeOfDay(t) == (t + Zone) % HalfDays
Instant(day, time) == day * HalfDays + time - Zone

Months == 0 .. LastMonth
MonthDays(m) == FirstDay[m + 1] - FirstDay[m]
Within(day, m) == FirstDay[m] <= day /\ day < FirstDay[m + 1]
MonthOf(day) == CHOOSE m \in Months : Within(day, m)
DateOf(day) == day - FirstDay[MonthOf(day)]

ASSUME CalendarAssumption ==
  /\ LastMonth \in Nat
  /\ FirstDay \in [0 .. LastMonth + 1 -> Int]
  /\ \A m, n \in 0 .. LastMonth + 1 : m < n => FirstDay[m] < FirstDay[n]
  /\ \A m \in Months : MonthDays(m) \in 28 .. 31
  /\ \A t \in Instants : \E m \in Months : Within(LocalDay(t), m)

PlusWeek(t) == Instant(LocalDay(t) + 7, TimeOfDay(t))

\* A date beyond the end of the next month goes on into the one after.
PlusMonth(t) ==
  Instant(FirstDay[MonthOf(LocalDay(t)) + 1] + DateOf(LocalDay(t)), TimeOfDay(t))

\* $dayOfWeek and the calendar day are those of UTC.
DayOf(t) == t \div HalfDays
DayOfWeek(t) == DayOf(t) % 7

-----------------------------------------------------------------------------

Init ==
  /\ clock \in Instants
  /\ stage = [x \in Transactions |-> "none"]
  /\ stamp = [x \in Transactions |-> NoDate]
  /\ dated = {}
  /\ query = [r \in Readers |-> NoQuery]
  /\ start = [r \in Readers |-> NoDate]
  /\ page = [r \in Readers |-> 0]
  /\ at = [r \in Readers |-> "idle"]
  /\ listed = [r \in Readers |-> {}]
  /\ summed = [r \in Readers |-> {}]
  /\ before = [r \in Readers |-> {}]
  /\ settled = {}

readerVars == <<query, start, page, at, listed, summed, before, settled>>

Tick ==
  /\ \E t \in Instants : t > clock /\ clock' = t
  /\ UNCHANGED <<stage, stamp, dated, readerVars>>

\* Bug variant: the schema is declared without timestamps.
SendUndated(x) ==
  /\ stage[x] = "none"
  /\ stage' = [stage EXCEPT ![x] = "sent"]
  /\ UNCHANGED <<clock, stamp, dated, readerVars>>

Send(x) ==
  /\ stage[x] = "none"
  /\ stage' = [stage EXCEPT ![x] = "sent"]
  /\ \/ stamp' = [stamp EXCEPT ![x] = clock] /\ UNCHANGED dated
     \/ /\ \E d \in Dates : stamp' = [stamp EXCEPT ![x] = d]
        /\ dated' = dated \cup {x}
  /\ UNCHANGED <<clock, readerVars>>

Store(x) ==
  /\ stage[x] = "sent"
  /\ stage' = [stage EXCEPT ![x] = "stored"]
  /\ UNCHANGED <<clock, stamp, dated, readerVars>>

Lose(x) ==
  /\ stage[x] = "sent"
  /\ stage' = [stage EXCEPT ![x] = "failed"]
  /\ UNCHANGED <<clock, stamp, dated, readerVars>>

dataVars == <<clock, stage, stamp, dated>>

-----------------------------------------------------------------------------
(* Reports *)

EndDate(r) == IF query[r].route = "week" THEN PlusWeek(start[r]) ELSE PlusMonth(start[r])

\* Bug variant: $lte endDate.
InWindowClosed(r, x) == start[r] <= stamp[x] /\ stamp[x] <= EndDate(r)

InWindow(r, x) == start[r] <= stamp[x] /\ stamp[x] < EndDate(r)

Matching(r) == {x \in Stored : InWindow(r, x)}

\* Without a date in the query, a report starts now.
Ask(r, q) ==
  /\ at[r] = "idle" /\ q.route \in {"week", "month"}
  /\ query' = [query EXCEPT ![r] = q]
  /\ start' = [start EXCEPT ![r] = IF q.date = NoDate THEN clock ELSE q.date]
  /\ at' = [at EXCEPT ![r] = "listing"]
  /\ UNCHANGED <<dataVars, page, listed, summed, before, settled>>

Settled(r) ==
  /\ EndDate(r) <= clock
  /\ \A x \in Transactions : stage[x] = "sent" => ~InWindow(r, x)

List(r) ==
  /\ at[r] = "listing"
  /\ listed' = [listed EXCEPT ![r] = Matching(r)]
  /\ at' = [at EXCEPT ![r] = "summing"]
  /\ settled' = IF Settled(r) THEN settled \cup {r} ELSE settled
  /\ UNCHANGED <<dataVars, query, start, page, summed, before>>

\* Bug variant: the summary looks at the transactions before now only.
SummariseToNow(r) ==
  /\ at[r] = "summing"
  /\ summed' = [summed EXCEPT ![r] = {x \in Matching(r) : stamp[x] < clock}]
  /\ at' = [at EXCEPT ![r] = "done"]
  /\ UNCHANGED <<dataVars, query, start, page, listed, before, settled>>

\* Bug variant: the summary leaves out the end of the match.
SummariseOpen(r) ==
  /\ at[r] = "summing"
  /\ summed' = [summed EXCEPT ![r] = {x \in Stored : start[r] <= stamp[x]}]
  /\ at' = [at EXCEPT ![r] = "done"]
  /\ UNCHANGED <<dataVars, query, start, page, listed, before, settled>>

Summarise(r) ==
  /\ at[r] = "summing"
  /\ summed' = [summed EXCEPT ![r] = Matching(r)]
  /\ at' = [at EXCEPT ![r] = "done"]
  /\ UNCHANGED <<dataVars, query, start, page, listed, before, settled>>

-----------------------------------------------------------------------------
(* Searches *)

Fits(q, x) ==
  /\ q.type \in {NoType, TypeOf[x]}
  /\ q.startDate # NoDate => q.startDate <= stamp[x]
  /\ q.endDate # NoDate => stamp[x] <= q.endDate

Hits(r) == {x \in Stored : Fits(query[r], x)}

\* The place of x in the result, which is sorted by descending _id.
Place(r, x) == Cardinality({y \in Hits(r) : y > x})

Search(r, q) ==
  /\ at[r] = "idle" /\ q.route = "search"
  /\ query' = [query EXCEPT ![r] = q]
  /\ page' = [page EXCEPT ![r] = 1]
  /\ at' = [at EXCEPT ![r] = "paging"]
  /\ before' = [before EXCEPT ![r] = {x \in Stored : Fits(q, x)}]
  /\ UNCHANGED <<dataVars, start, listed, summed, settled>>

\* Bug variant: pages counted from zero.
SkipFromZero(r) == page[r] * query[r].size

Skip(r) == (page[r] - 1) * query[r].size

Rest(r) == {x \in Hits(r) : Place(r, x) >= Skip(r)}
Page(r) == {x \in Rest(r) : Place(r, x) < Skip(r) + query[r].size}

\* The client asks for pages until one is empty.
GetPage(r) ==
  /\ at[r] = "paging"
  /\ listed' = [listed EXCEPT ![r] = @ \cup Page(r)]
  /\ IF Rest(r) = {}
     THEN at' = [at EXCEPT ![r] = "done"] /\ UNCHANGED page
     ELSE page' = [page EXCEPT ![r] = @ + 1] /\ UNCHANGED at
  /\ UNCHANGED <<dataVars, query, start, summed, before, settled>>

\* A read throws; for a client that pages this is the end, too.
ReadFails(r) ==
  /\ at[r] \in {"listing", "summing", "paging"}
  /\ at' = [at EXCEPT ![r] = "failed"]
  /\ UNCHANGED <<dataVars, query, start, page, listed, summed, before, settled>>

-----------------------------------------------------------------------------

InsertStep(x) == Send(x) \/ Store(x) \/ Lose(x)

ReaderStep(r) ==
  \/ List(r) \/ Summarise(r) \/ GetPage(r) \/ ReadFails(r)
  \/ \E q \in Queries : Ask(r, q) \/ Search(r, q)

Next ==
  \/ Tick
  \/ \E x \in Transactions : InsertStep(x)
  \/ \E r \in Readers : ReaderStep(r)

Spec == Init /\ [][Next]_vars

-----------------------------------------------------------------------------
(* Properties *)

\* Every variable has its type.
TypeOK ==
  /\ clock \in Instants
  /\ stage \in [Transactions -> {"none", "sent", "stored", "failed"}]
  /\ stamp \in [Transactions -> DateOrNone]
  /\ \A x \in Transactions : stage[x] # "none" => stamp[x] \in Instants
  /\ dated \subseteq Transactions
  /\ query \in [Readers -> Queries \cup {NoQuery}]
  /\ start \in [Readers -> DateOrNone]
  /\ page \in [Readers -> Nat]
  /\ at \in [Readers -> {"idle", "listing", "summing", "paging", "done", "failed"}]
  /\ listed \in [Readers -> SUBSET Transactions]
  /\ summed \in [Readers -> SUBSET Transactions]
  /\ before \in [Readers -> SUBSET Transactions]
  /\ settled \subseteq Readers

Reported(r) == at[r] = "done" /\ query[r].route # "search"

\* The summary of a report counts whatever its groups hold, however many transactions are
\* stored between the two reads.
SummaryCoversList == \A r \in Readers : Reported(r) => listed[r] \subseteq summed[r]

\* If the period was over and its inserts were done when the groups of a report were read,
\* its summary counts nothing more than they hold, but what was given its date by a body:
\* later transactions carry later dates, unless the client says otherwise.
PastReportExact ==
  \A r \in Readers : Reported(r) /\ r \in settled => summed[r] \ listed[r] \subseteq dated

\* In a weekly report that starts at a midnight of UTC, a group holds the transactions of
\* one day: the first and the last day of the window do not share their day of the week.
GroupsAreDays ==
  \A r \in Readers :
    Reported(r) /\ query[r].route = "week" /\ start[r] % HalfDays = 0 =>
      \A x, y \in listed[r] :
        DayOfWeek(stamp[x]) = DayOfWeek(stamp[y]) => DayOf(stamp[x]) = DayOf(stamp[y])

\* A client that goes through the pages of a search to the end has met every transaction
\* that was there when it began, although inserts move the pages under its feet.
SearchMissesNothing ==
  \A r \in Readers : at[r] = "done" /\ query[r].route = "search" => before[r] \subseteq listed[r]

=============================================================================
