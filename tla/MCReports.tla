------------------------------- MODULE MCReports -------------------------------
(* Three transactions and a client, from the 31st of January of a year with 28    *)
(* days in February, in a zone 12 hours ahead of UTC.  Instants: that midnight of *)
(* UTC and the following noon, both sides of the end of the week, and the end of  *)
(* the month that begins at the midnight.  A body may give the noon, or the last  *)
(* half day of that week.                                                          *)
EXTENDS Reports

MCFirstDay == [m \in 0 .. 3 |-> <<0, 31, 59, 90>>[m + 1]]
MCInstants == {60, 61, 73, 74, 122}
MCDates == {61, 73}
MCTransactions == 1 .. 3
MCTypeOf == [x \in MCTransactions |-> IF x = 2 THEN "DEBIT" ELSE "CREDIT"]

Find(type, from, to, size) ==
  [route |-> "search", type |-> type, startDate |-> from, endDate |-> to, size |-> size]

MCQueries ==
  [route : {"week", "month"}, date : {60, 61, NoDate}]
  \cup {Find(NoType, NoDate, NoDate, 1), Find("CREDIT", 61, NoDate, 1),
        Find(NoType, NoDate, 73, 2)}

=============================================================================
