SPECIFICATION FairSpec
CONSTANTS
  Scopes <- MCScopes
  Deadlines <- MCDeadlines
  CheckTimeout = 2
  BatchTimeout = 3
  ReportTimeout = 1
  OrgTimeout = 1
  CnameTimeout = 1
  HostTimeout = 1
  MapBudget = 1
  MapGrace = 1
  MaxIncludes = 2
  MaxFaults = 1
INVARIANTS TypeOK OneCardEach VerdictMeansAnswer DaneKnowsDnssec EndsClean IncompleteIsSaid BoundedOverrun
PROPERTY AuditEnds
CHECK_DEADLOCK FALSE
