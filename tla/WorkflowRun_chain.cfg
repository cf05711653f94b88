SPECIFICATION Spec
CONSTANTS
  Steps = {1, 2, 3}
  Plans <- ChainPlans
  MaxTries = 1
  MaxRuns = 3
  MaxTriggers = 1
  MaxCrashes = 2
  MaxFaults = 0
INVARIANTS
  CompletedCallNeverBilledTwice
CHECK_DEADLOCK FALSE
