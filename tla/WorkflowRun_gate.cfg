SPECIFICATION Spec
CONSTANTS
  Steps = {1, 2, 3}
  Plans <- LateGate
  MaxTries = 1
  MaxRuns = 1
  MaxTriggers = 1
  MaxCrashes = 0
  MaxFaults = 0
INVARIANTS
  AmbiguousCallNeverRepeated
CHECK_DEADLOCK FALSE
