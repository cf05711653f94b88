SPECIFICATION FairSpec
CONSTANTS
  MaxRuns = 2
  MaxManual = 1
  MaxCrashes = 1
  MaxFaults = 1
  Host = host
  Others = {other}
  MaxTime = 3
  Occurrences = {1}
  Grace = 2
  NextOccurrence <- MCNextOccurrence
INVARIANTS
  ScheduleLedger
  LaunchedOnce
  OutcomeIsMirrored
PROPERTIES
  ImplementsAuditContract
  DueIsAnswered
  AuditRunEnds
CHECK_DEADLOCK FALSE
