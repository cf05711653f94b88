\* Three agents of one run in any tree, two priorities, a deadline, one slot.
SPECIFICATION Spec
CONSTANTS
  Runs = {r1}
  Agents = {a1, a2, a3}
  Parents = {a1, a2, a3}
  NoAgent = NoAgent
  NoDeadline = NoDeadline
  MaxRunning = 1
  Priorities = {1, 2}
  Deadlines = {1}
  MaxTime = 1
  MaxDecisions = 1
SYMMETRY Symmetry
INVARIANTS
  CapacityAccounted
  CancelledRunIsDead
  CauseIsOneDecision
  QueueIsReady
PROPERTIES
  NoLateAdmission
  NoOvertaking
CHECK_DEADLOCK FALSE
