\* One job, two slots of one publish worker, leases that lapse under a
\* running attempt and create requests that land late; every fault, fair loops.
SPECIFICATION FairSpec
CONSTANTS
  Jobs = {j1}
  Workers = {w1}
  NoWorker = NoWorker
  Ticks = {1}
  ReviewConcurrency = 1
  PublishConcurrency = 2
  MaxAttempts = 2
  MaxFaults = 2
  Modes = {"github_app", "public_read"}
INVARIANTS
  TablesAgree
  SingleHolder
  RetryBudget
  SuccessIsVisible
  PublishesOnlyReports
  CommentsAccounted
PROPERTIES
  ImplementsContract
  PublicationEnds
CHECK_DEADLOCK FALSE
