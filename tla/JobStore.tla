------------------------------ MODULE JobStore ------------------------------
(***************************************************************************)
(* The durable side of the review pipeline: the tables `jobs`, `reports`   *)
(* and `publish_outbox` of SQLiteJobStore, and the operations that change  *)
(* them.  Every operation runs in one synchronous SQLite transaction, so   *)
(* each is one action here.                                                *)
(*                                                                         *)
(* Wall-clock columns are abstracted to what the statements compare:       *)
(*   created_at            the tick at which the job was enqueued (ORDER   *)
(*                         BY created_at of nextQueued);                   *)
(*   next_attempt_at and   the Boolean elapsed[j]: the deadline that       *)
(*   lease_expires_at      governs the outbox row in its present status    *)
(*                         has passed (the lease while it is leased, the   *)
(*                         backoff otherwise).                             *)
(* external_id is left out: it is only ever written by the transaction     *)
(* that makes the row `published`, after which the row is never claimed.   *)
(***************************************************************************)
EXTENDS Naturals, FiniteSets

CONSTANTS
  Jobs,      \* the review jobs that may be enqueued
  Workers,   \* PublishWorker ids (lease owners)
  NoWorker,  \* lease_owner IS NULL
  Ticks      \* values of created_at

ASSUME StoreAssumption ==
  /\ NoWorker \notin Workers
  /\ Ticks \subseteq Nat
  /\ IsFiniteSet(Jobs)

VARIABLES
  job,        \* jobs.status, "absent" before the row exists
  access,     \* jobs.access_mode
  policy,     \* jobs.publication_policy
  createdAt,  \* jobs.created_at
  report,     \* reports.github_comment_status, "none" before the row exists
  outbox,     \* publish_outbox.status, "none" before the row exists
  attempts,   \* publish_outbox.attempt_count
  gen,        \* publish_outbox.lease_generation
  owner,      \* publish_outbox.lease_owner
  elapsed     \* the deadline of the outbox row has passed

outboxVars == <<outbox, attempts, gen, owner, elapsed>>
storeVars  == <<job, access, policy, createdAt, report, outboxVars>>

AccessModes  == {"github_app", "public_read", "local_git"}
Policies     == {"github_comment", "disabled"}
JobStatuses  == {"absent", "queued", "running", "awaiting_publish", "publishing",
                 "succeeded", "failed", "cancelled", "publish_failed"}
ReportStates == {"none", "pending", "published", "failed", "skipped"}
OutboxStates == {"none", "pending", "leased", "retrying", "published", "failed"}

StoreTypeOK ==
  /\ job       \in [Jobs -> JobStatuses]
  /\ access    \in [Jobs -> AccessModes]
  /\ policy    \in [Jobs -> Policies]
  /\ createdAt \in [Jobs -> Ticks]
  /\ report    \in [Jobs -> ReportStates]
  /\ outbox    \in [Jobs -> OutboxStates]
  /\ attempts  \in [Jobs -> Nat]
  /\ gen       \in [Jobs -> Nat]
  /\ owner     \in [Jobs -> Workers \cup {NoWorker}]
  /\ elapsed   \in [Jobs -> BOOLEAN]

StoreInit ==
  /\ job       = [j \in Jobs |-> "absent"]
  /\ access    = [j \in Jobs |-> "github_app"]
  /\ policy    = [j \in Jobs |-> "github_comment"]
  /\ \E t \in Ticks : createdAt = [j \in Jobs |-> t]
  /\ report    = [j \in Jobs |-> "none"]
  /\ outbox    = [j \in Jobs |-> "none"]
  /\ attempts  = [j \in Jobs |-> 0]
  /\ gen       = [j \in Jobs |-> 0]
  /\ owner     = [j \in Jobs |-> NoWorker]
  /\ elapsed   = [j \in Jobs |-> FALSE]

-----------------------------------------------------------------------------
(* The jobs table.                                                         *)

\* Mutant: the caller's wish is honoured for every access mode.
EffectivePolicyAsRequested(mode, requested) == requested

\* A job read from a public page or a local checkout is analysis-only
\* whatever the caller asked for.
EffectivePolicy(mode, requested) ==
  IF mode \in {"public_read", "local_git"} THEN "disabled" ELSE requested

\* INSERT of a queued row; created_at never runs backwards.
Enqueue(j, mode, requested, tick) ==
  /\ job[j] = "absent"
  /\ \A k \in Jobs : job[k] # "absent" => createdAt[k] <= tick
  /\ job'       = [job EXCEPT ![j] = "queued"]
  /\ access'    = [access EXCEPT ![j] = mode]
  /\ policy'    = [policy EXCEPT ![j] = EffectivePolicy(mode, requested)]
  /\ createdAt' = [createdAt EXCEPT ![j] = tick]
  /\ UNCHANGED <<report, outboxVars>>

Queued == {j \in Jobs : job[j] = "queued"}

\* S is what n calls of claimNextQueued in a row would return: the n oldest
\* queued jobs, ties in any order, all of them when there are fewer than n.
OldestQueued(n, S) ==
  /\ S \subseteq Queued
  /\ Cardinality(S) <= n
  /\ Cardinality(S) < n => S = Queued
  /\ \A a \in S, b \in Queued \ S : createdAt[a] <= createdAt[b]

ClaimNextQueued(n, S) ==
  /\ OldestQueued(n, S)
  /\ job' = [j \in Jobs |-> IF j \in S THEN "running" ELSE job[j]]
  /\ UNCHANGED <<access, policy, createdAt, report, outboxVars>>

\* UPDATE jobs SET status = 'failed' WHERE id = ?: no condition on the status.
MarkFailed(j) ==
  /\ job' = [job EXCEPT ![j] = "failed"]
  /\ UNCHANGED <<access, policy, createdAt, report, outboxVars>>

\* updateStatus(id, "cancelled", ...), also unconditional.
UpdateStatusCancelled(j) ==
  /\ job' = [job EXCEPT ![j] = "cancelled"]
  /\ UNCHANGED <<access, policy, createdAt, report, outboxVars>>

\* Boot recovery: every running row is an orphan of the previous process.
FailInterruptedRunningJobs ==
  /\ job' = [j \in Jobs |-> IF job[j] = "running" THEN "failed" ELSE job[j]]
  /\ UNCHANGED <<access, policy, createdAt, report, outboxVars>>

-----------------------------------------------------------------------------
(* The report and its outbox row are written together.  The operation      *)
(* throws, and changes nothing, unless PersistAccepted(j) holds.           *)

\* Mutant: a report is accepted for a cancelled job.
PersistAcceptedWhenCancelled(j) ==
  job[j] \in {"running", "awaiting_publish", "publishing", "succeeded",
             "publish_failed", "cancelled"}

PersistAccepted(j) ==
  job[j] \in {"running", "awaiting_publish", "publishing", "succeeded", "publish_failed"}

PersistReportAndEnqueuePublish(j) ==
  /\ PersistAccepted(j)
  /\ IF job[j] \in {"publishing", "succeeded", "publish_failed"}
     THEN UNCHANGED <<job, report, outboxVars>>
     ELSE IF policy[j] = "disabled"
     THEN /\ job'    = [job EXCEPT ![j] = "succeeded"]
          /\ report' = [report EXCEPT ![j] = "skipped"]
          /\ UNCHANGED outboxVars
     ELSE /\ job'     = [job EXCEPT ![j] = "awaiting_publish"]
          /\ report'  = [report EXCEPT ![j] = IF @ = "none" THEN "pending" ELSE @]
          /\ outbox'  = [outbox EXCEPT ![j] = IF @ = "none" THEN "pending" ELSE @]
          /\ elapsed' = [elapsed EXCEPT ![j] = IF outbox[j] = "none" THEN TRUE ELSE @]
          /\ UNCHANGED <<attempts, gen, owner>>
  /\ UNCHANGED <<access, policy, createdAt>>

-----------------------------------------------------------------------------
(* The outbox.                                                             *)

\* Mutant: a leased row is never claimed again.
ClaimableOnce(j) ==
  /\ elapsed[j]
  /\ outbox[j] \in {"pending", "retrying"}
  /\ job[j] = "awaiting_publish"

\* Mutant: the claim does not compare the deadlines.
ClaimableEarly(j) ==
  \/ outbox[j] \in {"pending", "retrying"} /\ job[j] = "awaiting_publish"
  \/ outbox[j] = "leased" /\ job[j] = "publishing"

\* The WHERE clause of the claim: a due row of a job that awaits publication,
\* or a row whose lease ran out while its job was publishing.
Claimable(j) ==
  /\ elapsed[j]
  /\ \/ outbox[j] \in {"pending", "retrying"} /\ job[j] = "awaiting_publish"
     \/ outbox[j] = "leased" /\ job[j] = "publishing"

ClaimableJobs == {j \in Jobs : Claimable(j)}

\* w takes up to n claimable rows; each claim starts a new generation.
ClaimPublishOutboxItem(w, n, S) ==
  /\ S \subseteq ClaimableJobs
  /\ Cardinality(S) <= n
  /\ Cardinality(S) < n => S = ClaimableJobs
  /\ outbox'  = [j \in Jobs |-> IF j \in S THEN "leased" ELSE outbox[j]]
  /\ owner'   = [j \in Jobs |-> IF j \in S THEN w ELSE owner[j]]
  /\ gen'     = [j \in Jobs |-> IF j \in S THEN gen[j] + 1 ELSE gen[j]]
  /\ elapsed' = [j \in Jobs |-> IF j \in S THEN FALSE ELSE elapsed[j]]
  /\ job'     = [j \in Jobs |-> IF j \in S THEN "publishing" ELSE job[j]]
  /\ UNCHANGED <<access, policy, createdAt, report, attempts>>

\* Mutant: the fence compares the owner but not the generation.
HoldsLeaseByOwner(j, w, g) ==
  /\ outbox[j] = "leased"
  /\ owner[j] = w
  /\ job[j] = "publishing"
  /\ report[j] # "none"

\* The fencing token: the row must still be leased to w under generation g,
\* its job publishing and its report present, or the transaction rolls back.
HoldsLease(j, w, g) ==
  /\ outbox[j] = "leased"
  /\ owner[j] = w
  /\ gen[j] = g
  /\ job[j] = "publishing"
  /\ report[j] # "none"

\* The shape the three mark operations share: inc is what they add to
\* attempt_count, the rest are the statuses they write.
SettleLease(j, w, g, inc, outboxStatus, jobStatus, reportStatus) ==
  IF HoldsLease(j, w, g)
  THEN /\ outbox'   = [outbox EXCEPT ![j] = outboxStatus]
       /\ job'      = [job EXCEPT ![j] = jobStatus]
       /\ report'   = [report EXCEPT ![j] = reportStatus]
       /\ attempts' = [attempts EXCEPT ![j] = @ + inc]
       /\ owner'    = [owner EXCEPT ![j] = NoWorker]
       /\ elapsed'  = [elapsed EXCEPT ![j] = FALSE]
       /\ UNCHANGED <<access, policy, createdAt, gen>>
  ELSE UNCHANGED storeVars

MarkPublishOutboxSuccess(j, w, g) ==
  SettleLease(j, w, g, 0, "published", "succeeded", "published")

\* Mutant: a retry does not count as an attempt.
RetryUncounted(j, w, g) ==
  SettleLease(j, w, g, 0, "retrying", "awaiting_publish", "pending")

MarkPublishOutboxRetry(j, w, g) ==
  SettleLease(j, w, g, 1, "retrying", "awaiting_publish", "pending")

\* Mutant: the report keeps saying that publication is pending.
FailedReportPending(j, w, g) ==
  SettleLease(j, w, g, 1, "failed", "publish_failed", "pending")

MarkPublishOutboxFailed(j, w, g) ==
  SettleLease(j, w, g, 1, "failed", "publish_failed", "failed")

\* Time passes the lease_expires_at or next_attempt_at of a row.
DeadlinePasses(j) ==
  /\ outbox[j] \in {"leased", "retrying"}
  /\ ~elapsed[j]
  /\ elapsed' = [elapsed EXCEPT ![j] = TRUE]
  /\ UNCHANGED <<job, access, policy, createdAt, report, outbox, attempts, gen, owner>>
=============================================================================
