SPECIFICATION Spec
CONSTANTS
  None = None
  AwareAt = 0
  EarlyTerm = 1
  NotifyTerm = 3
  FixTerm = 2
  MonthTerm = 2
  StaleTerm = 1
  Facts <- MCFacts
  Instants <- MCInstants
  Profiles <- MCProfiles
  Prepared = {"early-warning", "notification", "intermediate"}
  MaxLeft = 1
INVARIANTS
  WholeTreeReads
  PayloadsPrecedeRecords
  MixedReadsAgree
PROPERTY
  ReportedStays
CHECK_DEADLOCK FALSE
