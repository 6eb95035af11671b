CONSTANTS
  Documents <- MCDocuments
  Queries <- MCQueries
SPECIFICATION FairSpec
INVARIANTS
  TraceExhaustive
  DistancesAreShortest
  NothingLeftOut
  TraceMirrorsImpact
  StaysInTenant
PROPERTIES
  SearchesAdvance
  QueriesReturn
CHECK_DEADLOCK FALSE
