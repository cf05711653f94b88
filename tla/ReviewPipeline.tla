--------------------------- MODULE ReviewPipeline ---------------------------
(***************************************************************************)
(* The life of review jobs in the API daemon: the ReviewWorker that claims *)
(* and executes them, the cancel endpoint, shutdown, crash and boot, the   *)
(* PublishWorkers that lease outbox rows and post the report as a GitHub   *)
(* comment, and GitHub itself as far as those calls can tell.  All of them *)
(* act on the tables of JobStore.                                          *)
(*                                                                         *)
(* The process is single-threaded: an action is the code between two       *)
(* awaits.  Bounds on the model, not on the code: MaxFaults caps crashes,  *)
(* shutdowns, stalls and attempts that end unrecorded.                     *)
(***************************************************************************)
EXTENDS JobStore

CONSTANTS
  ReviewConcurrency,   \* CONSISTENCY_WORKER_CONCURRENCY
  PublishConcurrency,  \* CONSISTENCY_PUBLISH_WORKER_CONCURRENCY
  MaxAttempts,         \* CONSISTENCY_PUBLISH_MAX_ATTEMPTS
  MaxFaults,
  Modes                \* the access modes that occur

ASSUME PipelineAssumption ==
  /\ ReviewConcurrency \in Nat \ {0}
  /\ PublishConcurrency \in Nat \ {0}
  /\ MaxAttempts \in Nat \ {0}
  /\ MaxFaults \in Nat
  /\ Modes \subseteq AccessModes

VARIABLES
  phase,      \* the daemon: "up", "draining" (shutdown began) or "down"
  run,        \* the in-process execution of each job by the ReviewWorker
  signalled,  \* the live run of the job has been told to cancel
  tasks,      \* publish attempts in progress: processClaimedItem calls
  comments,   \* comments carrying the job's marker on GitHub
  inflight,   \* create requests whose caller gave up before GitHub acted
  overtaken,  \* history: deadlines of the row that passed under an attempt, or
              \* before GitHub had acted on all its create requests
  faults      \* how many faults happened so far

procVars == <<phase, run, signalled>>
ghVars   == <<comments, inflight, overtaken>>
vars     == <<storeVars, procVars, tasks, ghVars, faults>>

\* "building": claimed, context under construction, not yet in the registry;
\* "live": registered, agents at work; "reported": the report is durable, the
\* memory write-back and teardown remain.
RunStates == {"none", "building", "live", "reported"}

\* What an attempt awaits: the installation token, the marker search, the
\* creation or update of the comment; "posted" has its comment id in hand.
TaskStates == {"token", "search", "create", "update", "posted"}

Task == [job : Jobs, worker : Workers, gen : Nat, attempt : Nat,
         at : TaskStates, refreshed : BOOLEAN, aborted : BOOLEAN]

TypeOK ==
  /\ StoreTypeOK
  /\ phase     \in {"up", "draining", "down"}
  /\ run       \in [Jobs -> RunStates]
  /\ signalled \in [Jobs -> BOOLEAN]
  /\ tasks     \subseteq Task
  /\ comments  \in [Jobs -> Nat]
  /\ inflight  \in [Jobs -> Nat]
  /\ overtaken \in [Jobs -> Nat]
  /\ faults    \in Nat

Init ==
  /\ StoreInit
  /\ phase     = "up"
  /\ run       = [j \in Jobs |-> "none"]
  /\ signalled = [j \in Jobs |-> FALSE]
  /\ tasks     = {}
  /\ comments  = [j \in Jobs |-> 0]
  /\ inflight  = [j \in Jobs |-> 0]
  /\ overtaken = [j \in Jobs |-> 0]
  /\ faults    = 0

Fault == faults < MaxFaults /\ faults' = faults + 1

-----------------------------------------------------------------------------
(* Requests over HTTP, served only until shutdown begins.                  *)

SubmitJob(j, mode, requested, tick) ==
  /\ phase = "up"
  /\ Enqueue(j, mode, requested, tick)
  /\ UNCHANGED <<procVars, tasks, ghVars, faults>>

\* cancelReviewJob: statuses from awaiting_publish on are refused; a live run
\* is signalled, one not registered yet is not, and the row is overwritten.
CancelJob(j) ==
  /\ phase = "up"
  /\ job[j] \in {"queued", "running"}
  /\ signalled' = [signalled EXCEPT ![j] = @ \/ run[j] = "live"]
  /\ UpdateStatusCancelled(j)
  /\ UNCHANGED <<phase, run, tasks, ghVars, faults>>

-----------------------------------------------------------------------------
(* The ReviewWorker.                                                       *)

\* runOnce claims a whole batch and awaits all of it before the next one.
ClaimBatch ==
  /\ phase = "up"
  /\ \A j \in Jobs : run[j] = "none"
  /\ \E S \in (SUBSET Jobs) \ {{}} :
       /\ ClaimNextQueued(ReviewConcurrency, S)
       /\ run' = [j \in Jobs |-> IF j \in S THEN "building" ELSE run[j]]
  /\ UNCHANGED <<phase, signalled, tasks, ghVars, faults>>

\* onRunCreated: the run becomes visible to cancellation.
RegisterRun(j) ==
  /\ run[j] = "building"
  /\ run' = [run EXCEPT ![j] = "live"]
  /\ UNCHANGED <<storeVars, phase, signalled, tasks, ghVars, faults>>

\* The run hands its report over.  A cancel signal does not stop a run that
\* is already synthesizing: it gets here as well.
PersistReport(j) ==
  /\ run[j] = "live"
  /\ PersistReportAndEnqueuePublish(j)
  /\ run' = [run EXCEPT ![j] = "reported"]
  /\ UNCHANGED <<phase, signalled, tasks, ghVars, faults>>

EndRun(j) ==
  /\ run' = [run EXCEPT ![j] = "none"]
  /\ signalled' = [signalled EXCEPT ![j] = FALSE]
  /\ UNCHANGED <<phase, tasks, ghVars, faults>>

CompleteRun(j) ==
  /\ run[j] = "reported"
  /\ ~signalled[j]
  /\ EndRun(j)
  /\ UNCHANGED storeVars

\* Mutant: a cancelled run that has not handed its report over never settles.
CancelledRunHangs(j) ==
  /\ run[j] = "reported"
  /\ signalled[j]
  /\ EndRun(j)
  /\ UNCHANGED storeVars

\* A run rejects with ReviewCancelledError once its Kernel run is cancelled,
\* whatever it was doing; the worker then leaves the row alone.
CancelledRun(j) ==
  /\ run[j] \in {"live", "reported"}
  /\ signalled[j]
  /\ EndRun(j)
  /\ UNCHANGED storeVars

\* Any other rejection, also after the report became durable.  The worker
\* re-reads the status: cancelled, succeeded, awaiting_publish and publishing
\* are kept, everything else becomes failed -- publish_failed included.
RejectedRun(j) ==
  /\ run[j] # "none"
  /\ ~signalled[j]
  /\ EndRun(j)
  /\ IF job[j] \in {"cancelled", "succeeded", "awaiting_publish", "publishing"}
     THEN UNCHANGED storeVars
     ELSE MarkFailed(j)

-----------------------------------------------------------------------------
(* Shutdown, crash and boot.                                               *)

BeginShutdown ==
  /\ phase = "up"
  /\ faults < MaxFaults
  /\ phase' = "draining"
  /\ UNCHANGED <<storeVars, run, signalled, tasks, ghVars, faults>>

\* The grace window ran out: requestCancelAll.  Only registered runs hear it,
\* and no row is written.
GraceExpires ==
  /\ phase = "draining"
  /\ \E j \in Jobs : run[j] \in {"live", "reported"} /\ ~signalled[j]
  /\ signalled' = [j \in Jobs |-> signalled[j] \/ run[j] \in {"live", "reported"}]
  /\ UNCHANGED <<storeVars, phase, run, tasks, ghVars, faults>>

Unanswered == {t \in tasks : t.at = "create"}

\* The process ends.  Create requests that were being awaited are applied,
\* still travelling, or lost.
ProcessEnds ==
  /\ faults' = faults + 1
  /\ phase' = "down"
  /\ run' = [j \in Jobs |-> "none"]
  /\ signalled' = [j \in Jobs |-> FALSE]
  /\ tasks' = {}
  /\ \E applied \in SUBSET Unanswered : \E travelling \in SUBSET (Unanswered \ applied) :
       /\ comments' = [j \in Jobs |->
            comments[j] + Cardinality({t \in applied : t.job = j})]
       /\ inflight' = [j \in Jobs |->
            inflight[j] + Cardinality({t \in travelling : t.job = j})]
  /\ UNCHANGED <<storeVars, overtaken>>

\* Killed while up.
Crash == phase = "up" /\ faults < MaxFaults /\ ProcessEnds

\* The end of a shutdown (or a kill during one): the abort makes publish
\* attempts return without touching the store, as if they had been killed.
Exit == phase = "draining" /\ ProcessEnds

\* Mutant: no recovery of running rows.
BootWithoutRecovery ==
  /\ phase = "down"
  /\ phase' = "up"
  /\ UNCHANGED <<storeVars, run, signalled, tasks, ghVars, faults>>

Boot ==
  /\ phase = "down"
  /\ phase' = "up"
  /\ FailInterruptedRunningJobs
  /\ UNCHANGED <<run, signalled, tasks, ghVars, faults>>

-----------------------------------------------------------------------------
(* The PublishWorkers.                                                     *)

ActiveClaims(w) == Cardinality({t \in tasks : t.worker = w})

NewTask(w, j) ==
  [job |-> j, worker |-> w, gen |-> gen[j] + 1, attempt |-> attempts[j],
   at |-> "token", refreshed |-> FALSE, aborted |-> FALSE]

\* pollOnce: claim as many rows as there are free slots and start an attempt
\* for each of them.
PollOnce(w) ==
  /\ phase # "down"
  /\ ActiveClaims(w) < PublishConcurrency
  /\ \E S \in (SUBSET Jobs) \ {{}} :
       /\ ClaimPublishOutboxItem(w, PublishConcurrency - ActiveClaims(w), S)
       /\ tasks' = tasks \cup {NewTask(w, j) : j \in S}
  /\ UNCHANGED <<procVars, ghVars, faults>>

Advance(t, changed) == tasks' = (tasks \ {t}) \cup {changed}

\* The publishTimeout timer fires.  Once a comment id is in hand the attempt
\* can no longer be recorded, which makes it a fault.
Timeout(t) ==
  /\ ~t.aborted
  /\ Advance(t, [t EXCEPT !.aborted = TRUE])
  /\ IF t.at = "posted" THEN Fault ELSE UNCHANGED faults
  /\ UNCHANGED <<storeVars, procVars, ghVars>>

TokenFetched(t) ==
  /\ t.at = "token"
  /\ ~t.aborted
  /\ Advance(t, [t EXCEPT !.at = "search"])
  /\ UNCHANGED <<storeVars, procVars, ghVars, faults>>

\* Mutant: the comment is created whatever the search found.
MarkerIgnored(t) ==
  /\ t.at = "search"
  /\ ~t.aborted
  /\ Advance(t, [t EXCEPT !.at = "create"])
  /\ UNCHANGED <<storeVars, procVars, ghVars, faults>>

\* Mutant: an empty search counts as a comment to update.
MarkerAssumed(t) ==
  /\ t.at = "search"
  /\ ~t.aborted
  /\ Advance(t, [t EXCEPT !.at = "update"])
  /\ UNCHANGED <<storeVars, procVars, ghVars, faults>>

\* The marker search over all comments decides between update and create.
MarkerSearched(t) ==
  /\ t.at = "search"
  /\ ~t.aborted
  /\ Advance(t, [t EXCEPT !.at = IF comments[t.job] > 0 THEN "update" ELSE "create"])
  /\ UNCHANGED <<storeVars, procVars, ghVars, faults>>

CommentWritten(t) ==
  /\ t.at \in {"create", "update"}
  /\ ~t.aborted
  /\ Advance(t, [t EXCEPT !.at = "posted"])
  /\ comments' = [comments EXCEPT ![t.job] = IF t.at = "create" THEN @ + 1 ELSE @]
  /\ UNCHANGED <<storeVars, procVars, inflight, overtaken, faults>>

\* The first 401 of a call to GitHub buys one refreshed token.
RefreshToken(t) ==
  /\ t.at \in {"search", "create", "update"}
  /\ ~t.refreshed
  /\ Advance(t, [t EXCEPT !.at = "token", !.refreshed = TRUE])
  /\ UNCHANGED <<storeVars, procVars, ghVars, faults>>

RecordSuccess(t) ==
  /\ t.at = "posted"
  /\ ~t.aborted
  /\ MarkPublishOutboxSuccess(t.job, t.worker, t.gen)
  /\ tasks' = tasks \ {t}
  /\ UNCHANGED <<procVars, ghVars, faults>>

\* Mutant: off by one in isExhausted.
RecordFailureOneMore(t, permanent) ==
  /\ IF permanent \/ t.attempt >= MaxAttempts
     THEN MarkPublishOutboxFailed(t.job, t.worker, t.gen)
     ELSE MarkPublishOutboxRetry(t.job, t.worker, t.gen)
  /\ tasks' = tasks \ {t}

RecordFailure(t, permanent) ==
  /\ IF permanent \/ t.attempt + 1 >= MaxAttempts
     THEN MarkPublishOutboxFailed(t.job, t.worker, t.gen)
     ELSE MarkPublishOutboxRetry(t.job, t.worker, t.gen)
  /\ tasks' = tasks \ {t}

\* The awaited call rejects, with an error classified permanent or transient
\* (the abort of a timed-out attempt among the latter), GitHub unchanged.
AttemptFails(t, permanent) ==
  /\ t.at # "posted"
  /\ RecordFailure(t, permanent)
  /\ UNCHANGED <<procVars, ghVars, faults>>

\* The create request reached GitHub, or still will, although it rejected.
CreateUnanswered(t) ==
  /\ t.at = "create"
  /\ \/ /\ comments' = [comments EXCEPT ![t.job] = @ + 1]
        /\ UNCHANGED inflight
     \/ /\ inflight' = [inflight EXCEPT ![t.job] = @ + 1]
        /\ UNCHANGED comments
  /\ RecordFailure(t, FALSE)
  /\ UNCHANGED <<procVars, overtaken, faults>>

\* An aborted attempt that did get its token, or its comment id, returns
\* without a word to the store: the row stays leased, the attempt uncounted.
AttemptDropped(t) ==
  /\ t.aborted
  /\ \/ t.at = "token" /\ ~t.refreshed /\ Fault
     \/ t.at = "posted" /\ UNCHANGED faults
  /\ tasks' = tasks \ {t}
  /\ UNCHANGED <<storeVars, procVars, ghVars>>

-----------------------------------------------------------------------------
(* Time and GitHub.                                                        *)

\* The attempt started by the claim that holds the row now.
Holders(j) == {t \in tasks : t.job = j /\ t.gen = gen[j]}

\* A lease or a backoff runs out.  The constructor makes the lease outlast the
\* timeout of an attempt, so a lease that runs out under one is a stall of that
\* worker.  Nothing relates either of them to how long GitHub takes to act on
\* a create request that was sent.
DeadlineRunsOut(j) ==
  /\ DeadlinePasses(j)
  /\ IF Holders(j) # {} THEN Fault ELSE UNCHANGED faults
  /\ overtaken' = [overtaken EXCEPT ![j] =
       IF Holders(j) # {} \/ inflight[j] > 0 THEN @ + 1 ELSE @]
  /\ UNCHANGED <<procVars, tasks, comments, inflight>>

LateCreateLands(j) ==
  /\ inflight[j] > 0
  /\ inflight' = [inflight EXCEPT ![j] = @ - 1]
  /\ comments' = [comments EXCEPT ![j] = @ + 1]
  /\ UNCHANGED <<storeVars, procVars, tasks, overtaken, faults>>

LateCreateLost(j) ==
  /\ inflight[j] > 0
  /\ inflight' = [inflight EXCEPT ![j] = @ - 1]
  /\ UNCHANGED <<storeVars, procVars, tasks, comments, overtaken, faults>>

-----------------------------------------------------------------------------

ReviewStep(j) ==
  \/ RegisterRun(j)
  \/ PersistReport(j)
  \/ CompleteRun(j)
  \/ CancelledRun(j)
  \/ RejectedRun(j)

TaskStep(t) ==
  \/ Timeout(t)
  \/ TokenFetched(t)
  \/ MarkerSearched(t)
  \/ CommentWritten(t)
  \/ RefreshToken(t)
  \/ RecordSuccess(t)
  \/ \E permanent \in BOOLEAN : AttemptFails(t, permanent)
  \/ CreateUnanswered(t)
  \/ AttemptDropped(t)

GitHubStep(j) == LateCreateLands(j) \/ LateCreateLost(j)

Next ==
  \/ \E j \in Jobs, mode \in Modes, requested \in Policies, tick \in Ticks :
       SubmitJob(j, mode, requested, tick)
  \/ \E j \in Jobs : CancelJob(j)
  \/ ClaimBatch
  \/ \E j \in Jobs : ReviewStep(j)
  \/ BeginShutdown
  \/ GraceExpires
  \/ Crash
  \/ Exit
  \/ Boot
  \/ \E w \in Workers : PollOnce(w)
  \/ \E t \in tasks : TaskStep(t)
  \/ \E j \in Jobs : DeadlineRunsOut(j)
  \/ \E j \in Jobs : GitHubStep(j)

Spec == Init /\ [][Next]_vars

-----------------------------------------------------------------------------
(* Fairness.  The poll loops re-arm a timer after every pass, the deadlines *)
(* are clock times, every awaited call of an attempt honours the abort      *)
(* signal of its timeout, a supervisor restarts a daemon that is down, and  *)
(* a review run settles: each provider call has a timeout of its own.       *)
(* Nothing is assumed of users, of crashes, or of which way a call ends.    *)

Fairness ==
  /\ WF_vars(ClaimBatch)
  /\ WF_vars(Boot)
  /\ WF_vars(Exit)
  /\ \A j \in Jobs : WF_vars(ReviewStep(j))
  /\ \A w \in Workers : WF_vars(PollOnce(w))
  /\ \A j \in Jobs : WF_vars(\E t \in tasks : t.job = j /\ TaskStep(t))
  /\ \A j \in Jobs : WF_vars(DeadlineRunsOut(j))
  /\ \A j \in Jobs : WF_vars(GitHubStep(j))

FairSpec == Spec /\ Fairness

-----------------------------------------------------------------------------
(* Safety.                                                                 *)

\* The status of a job and the status of its outbox row are written by
\* different statements of each transaction, by three parties that do not
\* know of each other.  They always agree: a row is waiting exactly while its
\* job awaits publication, leased (and owned) exactly while it is publishing,
\* and final exactly when the job is.  Only a late rejection of the review
\* may rename publish_failed to failed.
JobMatchesOutbox ==
  \A j \in Jobs :
    /\ outbox[j] \in {"pending", "retrying"} <=> job[j] = "awaiting_publish"
    /\ outbox[j] = "leased" <=> job[j] = "publishing"
    /\ outbox[j] = "leased" <=> owner[j] # NoWorker
    /\ outbox[j] = "published" <=> job[j] = "succeeded" /\ policy[j] = "github_comment"
    /\ outbox[j] = "failed" => job[j] \in {"publish_failed", "failed"}
    /\ job[j] = "publish_failed" => outbox[j] = "failed"

\* What the report tells the user about its comment is what became of the
\* outbox row; a report exists from the moment it is handed over, and for no
\* job that was cancelled or failed before that.
ReportMatchesOutbox ==
  \A j \in Jobs :
    /\ report[j] = "pending" <=> outbox[j] \in {"pending", "leased", "retrying"}
    /\ report[j] = "published" <=> outbox[j] = "published"
    /\ report[j] = "failed" <=> outbox[j] = "failed"
    /\ report[j] = "skipped" <=> job[j] = "succeeded" /\ policy[j] = "disabled"

\* The three tables that jobs/sqliteJobStore.ts writes on behalf of the review
\* worker, the cancel request and the publish worker agree about every job.
TablesAgree == JobMatchesOutbox /\ ReportMatchesOutbox

\* However leases lapse, workers stall and rows are claimed again, at most
\* one attempt is able to settle a row.
SingleHolder ==
  \A t, u \in tasks :
    /\ t.job = u.job
    /\ HoldsLease(t.job, t.worker, t.gen)
    /\ HoldsLease(u.job, u.worker, u.gen)
    => t = u

\* A row records at most MaxAttempts failures, and the last one is final.
FailuresBounded ==
  \A j \in Jobs :
    /\ attempts[j] <= MaxAttempts
    /\ attempts[j] = MaxAttempts => outbox[j] = "failed"

\* Every claim but the current one was paid for: by a recorded failure or by
\* a fault.
ClaimsAccounted == \A j \in Jobs : gen[j] <= attempts[j] + faults + 1

\* The retry budget: failures are bounded and claims pay for themselves, so
\* without faults a row is claimed at most MaxAttempts times.
RetryBudget == FailuresBounded /\ ClaimsAccounted

\* Nothing is posted for a job that is analysis-only, whose publication is
\* disabled, that was cancelled, or that has no durable report.
PublishesOnlyReports ==
  \A j \in Jobs :
    comments[j] + inflight[j] > 0 =>
      /\ access[j] = "github_app"
      /\ policy[j] = "github_comment"
      /\ report[j] # "none"
      /\ job[j] \notin {"queued", "running", "cancelled"}

\* A job that reports success has its comment on GitHub.
SuccessIsVisible ==
  \A j \in Jobs : outbox[j] = "published" => comments[j] > 0

\* The marker search keeps a job to one comment through lost answers, crashes
\* and retries.  Every further comment is paid for by a deadline of the row
\* that passed too early: a lease under an attempt that stalled, or a lease or
\* a backoff while a create request was still on its way to GitHub.
CommentsAccounted ==
  \A j \in Jobs : comments[j] + inflight[j] <= 1 + overtaken[j]

\* While the daemon is up, a running row is being executed by this process:
\* boot recovery and the cancel path leave none behind.
NoOrphanedRunningJob ==
  phase = "up" => \A j \in Jobs : job[j] = "running" => run[j] # "none"

-----------------------------------------------------------------------------
(* Action properties.                                                      *)

\* succeeded, cancelled and failed are final, whoever still holds a
\* reference to the job; publish_failed can only become failed.
TerminalStatusIsFinal ==
  [][\A j \in Jobs :
       /\ job[j] \in {"succeeded", "cancelled", "failed"} => job'[j] = job[j]
       /\ job[j] = "publish_failed" => job'[j] \in {"publish_failed", "failed"}]_vars

\* An attempt that ends after its row was claimed anew changes no table.
StaleAttemptIsHarmless ==
  [][\A t \in tasks :
       t \notin tasks' /\ gen[t.job] # t.gen => UNCHANGED storeVars]_vars

-----------------------------------------------------------------------------
(* The pipeline implements ReviewContract.                                 *)

\* The stage of a job as its submitter sees it.
StageOf(j) ==
  CASE job[j] = "absent" -> "absent"
    [] job[j] \in {"queued", "running"} -> "open"
    [] job[j] \in {"awaiting_publish", "publishing"} -> "delivering"
    [] job[j] = "succeeded" -> IF policy[j] = "disabled" THEN "analysed" ELSE "delivered"
    [] job[j] = "publish_failed" -> "undeliverable"
    [] job[j] \in {"failed", "cancelled"} ->
         IF outbox[j] = "failed" THEN "undeliverable" ELSE "closed"

Contract == INSTANCE ReviewContract WITH
  stage  <- [j \in Jobs |-> StageOf(j)],
  posted <- [j \in Jobs |-> comments[j] > 0]

\* Whatever is cancelled, crashes, stalls or arrives late, each job goes
\* through the stages of ReviewContract: it is delivered only with its
\* comment on GitHub, given up for good once, and no comment ever appears
\* for a job that was closed or analysed only.
ImplementsContract == Contract!ContractSpec

-----------------------------------------------------------------------------
(* Liveness, under FairSpec.                                               *)

\* Once its report is durable, a job's publication comes to an end, through
\* retries, lapsed leases and restarts.
PublicationEnds ==
  \A j \in Jobs :
    job[j] \in {"awaiting_publish", "publishing"}
      ~> job[j] \in {"succeeded", "publish_failed", "failed"}

\* Every accepted job leaves the queue, and every started one leaves running.
ReviewEnds ==
  \A j \in Jobs :
    job[j] \in {"queued", "running"} ~> job[j] \notin {"queued", "running"}
=============================================================================
