SPECIFICATION Spec
CONSTANTS
  Transactions <- MCTransactions
  TypeOf <- MCTypeOf
  Readers = {r1}
  Queries <- MCQueries
  Instants <- MCInstants
  Dates <- MCDates
  LastMonth = 2
  FirstDay <- MCFirstDay
  Zone = 1
  NoDate = NoDate
  NoType = NoType
  NoQuery = NoQuery
INVARIANTS TypeOK SummaryCoversList PastReportExact GroupsAreDays SearchMissesNothing
CHECK_DEADLOCK FALSE
