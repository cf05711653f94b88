SPECIFICATION FairSpec
CONSTANTS
  Steps = {1, 2, 3}
  Plans <- MixedPlans
  MaxTries = 2
  MaxRuns = 3
  MaxTriggers = 1
  MaxCrashes = 1
  MaxFaults = 2
INVARIANTS
  ContinueNeverRepays
  ApprovalAuthorizesOnce
  SucceededIsReusable
  NoAbandonedCall
PROPERTIES
  ImplementsRunContract
  SweepComplete
  LegSettles
CHECK_DEADLOCK FALSE
