\* An agent whose own deadline is later than that of its run.
SPECIFICATION Spec
CONSTANTS
  Runs = {r1}
  Agents = {a1}
  Parents = {}
  NoAgent = NoAgent
  NoDeadline = NoDeadline
  MaxRunning = 1
  Priorities = {1}
  Deadlines = {1, 2}
  MaxTime = 1
  MaxDecisions = 1
PROPERTIES
  NoAdmissionPastRunDeadline
CHECK_DEADLOCK FALSE
