SPECIFICATION FairSpec
CONSTANTS
  Heads = {h1}
  Diffs = {d1, d2}
  Bindings = {b1}
  Clean = Clean
  None = None
  MaxEdits = 3
  MaxToggles = 2
  MaxCrashes = 1
  MaxFaults = 1
INVARIANTS
  EmittedIsPlanned
  TriggeredOnce
PROPERTIES
  ChangeIsAnswered
CHECK_DEADLOCK FALSE
