\* Two jobs enqueued in a known order share one review slot and one publish
\* slot, so that a review which does not settle holds back the other job.
SPECIFICATION FairSpec
CONSTANTS
  Jobs = {j1, j2}
  Workers = {w1}
  NoWorker = NoWorker
  Ticks = {1, 2}
  ReviewConcurrency = 1
  PublishConcurrency = 1
  MaxAttempts = 1
  MaxFaults = 1
  Modes = {"github_app", "public_read"}
INVARIANTS
  NoOrphanedRunningJob
PROPERTIES
  ReviewEnds
CHECK_DEADLOCK FALSE
