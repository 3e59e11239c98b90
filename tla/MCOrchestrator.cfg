CONSTANTS
  Run = {r1}
  Targets <- AllTargets
  WebItem = {f1}
  TlsItem = {f2}
  ServiceItem = {s1}
  HostItem = h
  LastFormat = 2
  MaxFaults = 2
  MaxDbErrors = 1
  MaxScopeAdds = 1
SPECIFICATION FairSpec
INVARIANTS
  TypeOK
  NoDuplicates
  CheckpointBacked
  CompletionBacked
  ReportsCurrent
  ScopeValidatedFirst
PROPERTIES
  ProgressForward
  CompletedStays
  LedgerKept
  EventuallyCompleted
CHECK_DEADLOCK FALSE
