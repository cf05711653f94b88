SPECIFICATION Spec
CONSTANTS
  Runs = {r1, r2}
  Drains = {d1, d2}
  NoRun = NoRun
  NoDrain = NoDrain
  MaxAttempts = 2
  BatchSize = 2
  MaxCrashes = 1
  MaxFaults = 0
  MaxCorrupt = 0
INVARIANT TerminalIsNotified
