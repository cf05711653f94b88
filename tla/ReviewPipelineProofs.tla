------------------------ MODULE ReviewPipelineProofs ------------------------
(***************************************************************************)
(* Proofs about ReviewPipeline for every set of jobs, every number of      *)
(* workers and every value of the bounds.                                  *)
(***************************************************************************)
EXTENDS ReviewPipeline, FiniteSetTheorems, TLAPS

-----------------------------------------------------------------------------
(* What a step does to the tables: one operation of JobStore, under the    *)
(* guard with which ReviewPipeline calls it.  The store invariants are     *)
(* proved over these operations instead of over the actions of Next.       *)

KeptOnRejection == {"cancelled", "succeeded", "awaiting_publish", "publishing"}

StoreNext ==
  \/ \E j \in Jobs, mode \in AccessModes, requested \in Policies, tick \in Ticks :
       Enqueue(j, mode, requested, tick)
  \/ \E j \in Jobs : job[j] \in {"queued", "running"} /\ UpdateStatusCancelled(j)
  \/ \E S \in SUBSET Jobs : ClaimNextQueued(ReviewConcurrency, S)
  \/ \E j \in Jobs : PersistReportAndEnqueuePublish(j)
  \/ \E j \in Jobs : run[j] # "none" /\ job[j] \notin KeptOnRejection /\ MarkFailed(j)
  \/ FailInterruptedRunningJobs
  \/ \E w \in Workers, n \in Nat, S \in SUBSET Jobs : ClaimPublishOutboxItem(w, n, S)
  \/ \E t \in tasks : MarkPublishOutboxSuccess(t.job, t.worker, t.gen)
  \/ \E t \in tasks : MarkPublishOutboxRetry(t.job, t.worker, t.gen)
  \/ \E t \in tasks : MarkPublishOutboxFailed(t.job, t.worker, t.gen)
  \/ \E j \in Jobs : DeadlinePasses(j)
  \/ UNCHANGED storeVars

LEMMA TaskStepStore ==
  ASSUME NEW t \in tasks, TaskStep(t)
  PROVE  StoreNext
<1> USE DEF StoreNext
<1>1. CASE RecordSuccess(t)
  BY <1>1 DEF RecordSuccess
<1>2. CASE \E permanent \in BOOLEAN : AttemptFails(t, permanent)
  BY <1>2 DEF AttemptFails, RecordFailure
<1>3. CASE CreateUnanswered(t)
  BY <1>3 DEF CreateUnanswered, RecordFailure
<1>4. CASE \/ Timeout(t) \/ TokenFetched(t) \/ MarkerSearched(t) \/ CommentWritten(t)
           \/ RefreshToken(t) \/ AttemptDropped(t)
  BY <1>4 DEF Timeout, TokenFetched, MarkerSearched, CommentWritten, RefreshToken,
     AttemptDropped
<1> QED BY <1>1, <1>2, <1>3, <1>4 DEF TaskStep

LEMMA ReviewStepStore ==
  ASSUME NEW j \in Jobs, ReviewStep(j)
  PROVE  StoreNext
<1> USE DEF StoreNext
<1>1. CASE PersistReport(j)
  BY <1>1 DEF PersistReport
<1>2. CASE RejectedRun(j)
  BY <1>2 DEF RejectedRun, KeptOnRejection
<1>3. CASE RegisterRun(j) \/ CompleteRun(j) \/ CancelledRun(j)
  BY <1>3 DEF RegisterRun, CompleteRun, CancelledRun
<1> QED BY <1>1, <1>2, <1>3 DEF ReviewStep

LEMMA Slots ==
  ASSUME IsFiniteSet(tasks), NEW w \in Workers, ActiveClaims(w) < PublishConcurrency
  PROVE  PublishConcurrency - ActiveClaims(w) \in Nat
<1>1. IsFiniteSet({t \in tasks : t.worker = w})
  BY FS_Subset
<1>2. ActiveClaims(w) \in Nat
  BY <1>1, FS_CardinalityType DEF ActiveClaims
<1> QED BY <1>2, PipelineAssumption

LEMMA StoreSteps ==
  ASSUME IsFiniteSet(tasks), [Next]_vars
  PROVE  StoreNext
<1>1. ASSUME NEW j \in Jobs, NEW mode \in Modes, NEW requested \in Policies,
             NEW tick \in Ticks, SubmitJob(j, mode, requested, tick)
      PROVE  StoreNext
  BY <1>1, PipelineAssumption DEF SubmitJob, StoreNext
<1>2. ASSUME NEW j \in Jobs, CancelJob(j) PROVE StoreNext
  BY <1>2 DEF CancelJob, StoreNext
<1>3. CASE ClaimBatch
  BY <1>3 DEF ClaimBatch, StoreNext
<1>4. ASSUME NEW j \in Jobs, ReviewStep(j) PROVE StoreNext
  BY <1>4, ReviewStepStore
<1>5. CASE BeginShutdown \/ GraceExpires \/ Crash \/ Exit
  BY <1>5 DEF BeginShutdown, GraceExpires, Crash, Exit, ProcessEnds, StoreNext
<1>6. CASE Boot
  BY <1>6 DEF Boot, StoreNext
<1>7. ASSUME NEW w \in Workers, PollOnce(w) PROVE StoreNext
  BY <1>7, Slots DEF PollOnce, StoreNext
<1>8. ASSUME NEW t \in tasks, TaskStep(t) PROVE StoreNext
  BY <1>8, TaskStepStore
<1>9. ASSUME NEW j \in Jobs, DeadlineRunsOut(j) PROVE StoreNext
  BY <1>9 DEF DeadlineRunsOut, StoreNext
<1>10. ASSUME NEW j \in Jobs, GitHubStep(j) PROVE StoreNext
  BY <1>10 DEF GitHubStep, LateCreateLands, LateCreateLost, StoreNext
<1>11. CASE UNCHANGED vars
  BY <1>11 DEF vars, StoreNext
<1> QED
  BY <1>1, <1>2, <1>3, <1>4, <1>5, <1>6, <1>7, <1>8, <1>9, <1>10, <1>11 DEF Next

-----------------------------------------------------------------------------
(* Type correctness.  The set of attempts is finite as well: the free      *)
(* slots of a worker are a number.                                         *)

TypeInv == TypeOK /\ IsFiniteSet(tasks)

\* Every table operation keeps the tables typed.
LEMMA EnqueueTyped ==
  ASSUME StoreTypeOK, NEW j \in Jobs, NEW mode \in AccessModes,
         NEW requested \in Policies, NEW tick \in Ticks, Enqueue(j, mode, requested, tick)
  PROVE  StoreTypeOK'
BY DEF StoreTypeOK, Enqueue, EffectivePolicy, Policies, AccessModes, JobStatuses, outboxVars

LEMMA SettleTyped ==
  ASSUME StoreTypeOK, NEW j \in Jobs, NEW w, NEW g, NEW inc \in Nat,
         NEW o \in OutboxStates, NEW s \in JobStatuses, NEW r \in ReportStates,
         SettleLease(j, w, g, inc, o, s, r)
  PROVE  StoreTypeOK'
<1>1. CASE HoldsLease(j, w, g)
  <2>1. attempts' \in [Jobs -> Nat]
    BY <1>1 DEF StoreTypeOK, SettleLease
  <2>2. owner' \in [Jobs -> Workers \cup {NoWorker}]
    BY <1>1 DEF StoreTypeOK, SettleLease
  <2>3. /\ job' = [job EXCEPT ![j] = s]
        /\ report' = [report EXCEPT ![j] = r]
        /\ outbox' = [outbox EXCEPT ![j] = o]
        /\ elapsed' = [elapsed EXCEPT ![j] = FALSE]
    BY <1>1 DEF SettleLease
  <2>4. UNCHANGED <<access, policy, createdAt, gen>>
    BY <1>1 DEF SettleLease
  <2> QED BY <2>1, <2>2, <2>3, <2>4 DEF StoreTypeOK
<1>2. CASE ~HoldsLease(j, w, g)
  BY <1>2 DEF StoreTypeOK, SettleLease, storeVars, outboxVars
<1> QED BY <1>1, <1>2

LEMMA MarkTyped ==
  ASSUME StoreTypeOK, NEW j \in Jobs, NEW w, NEW g,
         \/ MarkPublishOutboxSuccess(j, w, g)
         \/ MarkPublishOutboxRetry(j, w, g)
         \/ MarkPublishOutboxFailed(j, w, g)
  PROVE  StoreTypeOK'
BY SettleTyped DEF MarkPublishOutboxSuccess, MarkPublishOutboxRetry,
   MarkPublishOutboxFailed, OutboxStates, JobStatuses, ReportStates

\* A report that arrives is ignored, stored for the user, or handed over.
LEMMA PersistCases ==
  ASSUME NEW j \in Jobs, PersistReportAndEnqueuePublish(j)
  PROVE  /\ UNCHANGED <<access, policy, createdAt, attempts, gen, owner>>
         /\ \/ /\ job[j] \in {"publishing", "succeeded", "publish_failed"}
               /\ UNCHANGED <<job, report, outbox, elapsed>>
            \/ /\ job[j] \in {"running", "awaiting_publish"} /\ policy[j] = "disabled"
               /\ job' = [job EXCEPT ![j] = "succeeded"]
               /\ report' = [report EXCEPT ![j] = "skipped"]
               /\ UNCHANGED <<outbox, elapsed>>
            \/ /\ job[j] \in {"running", "awaiting_publish"} /\ policy[j] # "disabled"
               /\ job' = [job EXCEPT ![j] = "awaiting_publish"]
               /\ report' = [report EXCEPT ![j] = IF @ = "none" THEN "pending" ELSE @]
               /\ outbox' = [outbox EXCEPT ![j] = IF @ = "none" THEN "pending" ELSE @]
               /\ elapsed' = [elapsed EXCEPT ![j] =
                                IF outbox[j] = "none" THEN TRUE ELSE @]
<1>1. /\ PersistAccepted(j)
      /\ UNCHANGED <<access, policy, createdAt>>
  BY DEF PersistReportAndEnqueuePublish
<1>2. CASE job[j] \in {"publishing", "succeeded", "publish_failed"}
  BY <1>1, <1>2 DEF PersistReportAndEnqueuePublish, outboxVars
<1>3. CASE /\ job[j] \notin {"publishing", "succeeded", "publish_failed"}
           /\ policy[j] = "disabled"
  BY <1>1, <1>3 DEF PersistReportAndEnqueuePublish, PersistAccepted, outboxVars
<1>4. CASE /\ job[j] \notin {"publishing", "succeeded", "publish_failed"}
           /\ policy[j] # "disabled"
  BY <1>1, <1>4 DEF PersistReportAndEnqueuePublish, PersistAccepted
<1> QED BY <1>2, <1>3, <1>4

\* The same, row by row.
LEMMA PersistRow ==
  ASSUME StoreTypeOK, NEW j \in Jobs, PersistReportAndEnqueuePublish(j), NEW k \in Jobs
  PROVE  /\ access'[k] = access[k] /\ policy'[k] = policy[k] /\ owner'[k] = owner[k]
         /\ k # j => /\ job'[k] = job[k] /\ report'[k] = report[k]
                     /\ outbox'[k] = outbox[k]
         /\ k = j =>
              \/ /\ job[k] \in {"publishing", "succeeded", "publish_failed"}
                 /\ job'[k] = job[k] /\ report'[k] = report[k]
                 /\ outbox'[k] = outbox[k]
              \/ /\ job[k] \in {"running", "awaiting_publish"} /\ policy[k] = "disabled"
                 /\ job'[k] = "succeeded" /\ report'[k] = "skipped"
                 /\ outbox'[k] = outbox[k]
              \/ /\ job[k] \in {"running", "awaiting_publish"} /\ policy[k] # "disabled"
                 /\ job'[k] = "awaiting_publish"
                 /\ report'[k] = IF report[k] = "none" THEN "pending" ELSE report[k]
                 /\ outbox'[k] = IF outbox[k] = "none" THEN "pending" ELSE outbox[k]
<1> USE DEF StoreTypeOK
<1>1. UNCHANGED <<access, policy, owner>>
  BY PersistCases
<1>2. CASE UNCHANGED <<job, report, outbox>>
           /\ job[j] \in {"publishing", "succeeded", "publish_failed"}
  BY <1>1, <1>2
<1>3. CASE /\ job[j] \in {"running", "awaiting_publish"} /\ policy[j] = "disabled"
           /\ job' = [job EXCEPT ![j] = "succeeded"]
           /\ report' = [report EXCEPT ![j] = "skipped"]
           /\ UNCHANGED outbox
  BY <1>1, <1>3
<1>4. CASE /\ job[j] \in {"running", "awaiting_publish"} /\ policy[j] # "disabled"
           /\ job' = [job EXCEPT ![j] = "awaiting_publish"]
           /\ report' = [report EXCEPT ![j] = IF @ = "none" THEN "pending" ELSE @]
           /\ outbox' = [outbox EXCEPT ![j] = IF @ = "none" THEN "pending" ELSE @]
  BY <1>1, <1>4
<1> QED BY <1>2, <1>3, <1>4, PersistCases

LEMMA StoreTyped ==
  ASSUME StoreTypeOK, tasks \subseteq Task, StoreNext
  PROVE  StoreTypeOK'
<1>1. ASSUME NEW j \in Jobs, NEW mode \in AccessModes, NEW requested \in Policies,
             NEW tick \in Ticks, Enqueue(j, mode, requested, tick)
      PROVE  StoreTypeOK'
  BY <1>1, EnqueueTyped
<1>2. ASSUME NEW j \in Jobs, UpdateStatusCancelled(j) PROVE StoreTypeOK'
  BY <1>2 DEF StoreTypeOK, UpdateStatusCancelled, JobStatuses, outboxVars
<1>3. ASSUME NEW S \in SUBSET Jobs, ClaimNextQueued(ReviewConcurrency, S)
      PROVE  StoreTypeOK'
  BY <1>3 DEF StoreTypeOK, ClaimNextQueued, JobStatuses, outboxVars
<1>4. ASSUME NEW j \in Jobs, PersistReportAndEnqueuePublish(j) PROVE StoreTypeOK'
  <2>1. job' \in [Jobs -> JobStatuses]
    BY <1>4, PersistCases DEF StoreTypeOK, JobStatuses
  <2>2. report' \in [Jobs -> ReportStates]
    BY <1>4, PersistCases DEF StoreTypeOK, ReportStates
  <2>3. outbox' \in [Jobs -> OutboxStates]
    BY <1>4, PersistCases DEF StoreTypeOK, OutboxStates
  <2>4. elapsed' \in [Jobs -> BOOLEAN]
    BY <1>4, PersistCases DEF StoreTypeOK
  <2>5. UNCHANGED <<access, policy, createdAt, attempts, gen, owner>>
    BY <1>4, PersistCases
  <2> QED BY <2>1, <2>2, <2>3, <2>4, <2>5 DEF StoreTypeOK
<1>5. ASSUME NEW j \in Jobs, MarkFailed(j) PROVE StoreTypeOK'
  BY <1>5 DEF StoreTypeOK, MarkFailed, JobStatuses, outboxVars
<1>6. CASE FailInterruptedRunningJobs
  BY <1>6 DEF StoreTypeOK, FailInterruptedRunningJobs, JobStatuses, outboxVars
<1>7. ASSUME NEW w \in Workers, NEW n \in Nat, NEW S \in SUBSET Jobs,
             ClaimPublishOutboxItem(w, n, S)
      PROVE  StoreTypeOK'
  <2> USE <1>7 DEF ClaimPublishOutboxItem
  <2>1. gen' \in [Jobs -> Nat]
    BY DEF StoreTypeOK
  <2>2. owner' \in [Jobs -> Workers \cup {NoWorker}]
    BY DEF StoreTypeOK
  <2>3. job' \in [Jobs -> JobStatuses] /\ outbox' \in [Jobs -> OutboxStates]
    BY DEF StoreTypeOK, JobStatuses, OutboxStates
  <2>4. elapsed' \in [Jobs -> BOOLEAN]
    BY DEF StoreTypeOK
  <2> QED BY <2>1, <2>2, <2>3, <2>4 DEF StoreTypeOK
<1>8. ASSUME NEW t \in tasks,
             \/ MarkPublishOutboxSuccess(t.job, t.worker, t.gen)
             \/ MarkPublishOutboxRetry(t.job, t.worker, t.gen)
             \/ MarkPublishOutboxFailed(t.job, t.worker, t.gen)
      PROVE  StoreTypeOK'
  BY <1>8, MarkTyped DEF Task
<1>9. ASSUME NEW j \in Jobs, DeadlinePasses(j) PROVE StoreTypeOK'
  BY <1>9 DEF StoreTypeOK, DeadlinePasses
<1>10. CASE UNCHANGED storeVars
  BY <1>10 DEF StoreTypeOK, storeVars, outboxVars
<1> QED
  BY <1>1, <1>2, <1>3, <1>4, <1>5, <1>6, <1>7, <1>8, <1>9, <1>10 DEF StoreNext

LEMMA InitTyped ==
  Init => TypeInv
BY FS_EmptySet, PipelineAssumption, StoreAssumption
   DEF Init, StoreInit, TypeInv, TypeOK, StoreTypeOK, JobStatuses, AccessModes, Policies,
   ReportStates, OutboxStates, RunStates

\* A step of an attempt removes it or replaces it by another typed one.
LEMMA AdvanceTyped ==
  ASSUME TypeInv, NEW t \in tasks, NEW u \in Task, Advance(t, u)
  PROVE  tasks' \subseteq Task /\ IsFiniteSet(tasks')
BY FS_RemoveElement, FS_AddElement DEF Advance, TypeInv, TypeOK

LEMMA TaskStepTyped ==
  ASSUME TypeInv, NEW t \in tasks, TaskStep(t)
  PROVE  /\ tasks' \subseteq Task /\ IsFiniteSet(tasks')
         /\ comments' \in [Jobs -> Nat] /\ inflight' \in [Jobs -> Nat]
         /\ faults' \in Nat
         /\ UNCHANGED <<procVars, overtaken>>
<1>0. t \in Task
  BY DEF TypeInv, TypeOK
<1>a. IsFiniteSet(tasks \ {t}) /\ tasks \ {t} \subseteq Task
  BY FS_RemoveElement DEF TypeInv, TypeOK
<1> USE <1>0 DEF TypeInv, TypeOK, ghVars, Fault
<1>1. CASE Timeout(t)
  <2>1. [t EXCEPT !.aborted = TRUE] \in Task
    BY DEF Task
  <2> QED BY <1>1, <2>1, AdvanceTyped DEF Timeout
<1>2. CASE TokenFetched(t)
  <2>1. [t EXCEPT !.at = "search"] \in Task
    BY DEF Task, TaskStates
  <2> QED BY <1>2, <2>1, AdvanceTyped DEF TokenFetched
<1>3. CASE MarkerSearched(t)
  <2>1. [t EXCEPT !.at = IF comments[t.job] > 0 THEN "update" ELSE "create"] \in Task
    BY DEF Task, TaskStates
  <2> QED BY <1>3, <2>1, AdvanceTyped DEF MarkerSearched
<1>4. CASE CommentWritten(t)
  <2>1. [t EXCEPT !.at = "posted"] \in Task
    BY DEF Task, TaskStates
  <2>2. comments' \in [Jobs -> Nat]
    <3>1. t.job \in Jobs /\ comments[t.job] \in Nat
      BY DEF Task
    <3>2. (IF t.at = "create" THEN comments[t.job] + 1 ELSE comments[t.job]) \in Nat
      BY <3>1
    <3> QED BY <1>4, <3>2 DEF CommentWritten
  <2> QED BY <1>4, <2>1, <2>2, AdvanceTyped DEF CommentWritten
<1>5. CASE RefreshToken(t)
  <2>1. [t EXCEPT !.at = "token", !.refreshed = TRUE] \in Task
    BY DEF Task, TaskStates
  <2> QED BY <1>5, <2>1, AdvanceTyped DEF RefreshToken
<1>6. CASE RecordSuccess(t)
  BY <1>6, <1>a DEF RecordSuccess
<1>7. CASE \E permanent \in BOOLEAN : AttemptFails(t, permanent)
  BY <1>7, <1>a DEF AttemptFails, RecordFailure
<1>8. CASE CreateUnanswered(t)
  BY <1>8, <1>a DEF CreateUnanswered, RecordFailure
<1>9. CASE AttemptDropped(t)
  BY <1>9, <1>a DEF AttemptDropped
<1> QED
  BY <1>1, <1>2, <1>3, <1>4, <1>5, <1>6, <1>7, <1>8, <1>9 DEF TaskStep

LEMMA PollTyped ==
  ASSUME TypeInv, NEW w \in Workers, PollOnce(w)
  PROVE  tasks' \subseteq Task /\ IsFiniteSet(tasks')
<1>1. PICK S \in SUBSET Jobs : tasks' = tasks \cup {NewTask(w, j) : j \in S}
  BY DEF PollOnce
<1>2. \A j \in S : NewTask(w, j) \in Task
  BY DEF NewTask, Task, TaskStates, TypeInv, TypeOK, StoreTypeOK
<1>3. IsFiniteSet(S)
  BY FS_Subset, StoreAssumption
<1>4. IsFiniteSet({NewTask(w, j) : j \in S})
  <2> DEFINE f == [j \in S |-> NewTask(w, j)]
  <2>1. f \in Surjection(S, {NewTask(w, j) : j \in S})
    BY DEF Surjection
  <2> QED BY <1>3, <2>1, FS_Surjection
<1> QED BY <1>1, <1>2, <1>4, FS_Union DEF TypeInv, TypeOK

LEMMA EndTyped ==
  ASSUME TypeInv, ProcessEnds
  PROVE  comments' \in [Jobs -> Nat] /\ inflight' \in [Jobs -> Nat]
<1>1. PICK applied \in SUBSET Unanswered : \E travelling \in SUBSET (Unanswered \ applied) :
        /\ comments' = [j \in Jobs |->
             comments[j] + Cardinality({t \in applied : t.job = j})]
        /\ inflight' = [j \in Jobs |->
             inflight[j] + Cardinality({t \in travelling : t.job = j})]
  BY DEF ProcessEnds
<1>2. PICK travelling \in SUBSET (Unanswered \ applied) :
        /\ comments' = [j \in Jobs |->
             comments[j] + Cardinality({t \in applied : t.job = j})]
        /\ inflight' = [j \in Jobs |->
             inflight[j] + Cardinality({t \in travelling : t.job = j})]
  BY <1>1
<1>3. \A P \in SUBSET Unanswered, j \in Jobs :
        Cardinality({t \in P : t.job = j}) \in Nat
  <2> TAKE P \in SUBSET Unanswered, j \in Jobs
  <2>1. {t \in P : t.job = j} \subseteq tasks
    BY DEF Unanswered
  <2> QED BY <2>1, FS_Subset, FS_CardinalityType DEF TypeInv
<1>4. \A j \in Jobs : /\ Cardinality({t \in applied : t.job = j}) \in Nat
                      /\ Cardinality({t \in travelling : t.job = j}) \in Nat
  BY <1>3
<1>5. \A j \in Jobs : /\ comments[j] + Cardinality({t \in applied : t.job = j}) \in Nat
                      /\ inflight[j] + Cardinality({t \in travelling : t.job = j}) \in Nat
  <2> TAKE j \in Jobs
  <2>1. comments[j] \in Nat /\ inflight[j] \in Nat
    BY DEF TypeInv, TypeOK
  <2> QED BY <2>1, <1>4
<1>6. comments' \in [Jobs -> Nat]
  BY <1>2, <1>5
<1>7. inflight' \in [Jobs -> Nat]
  BY <1>2, <1>5
<1> QED BY <1>6, <1>7

LEMMA NextTyped ==
  ASSUME TypeInv, [Next]_vars
  PROVE  TypeInv'
<1>0. StoreTypeOK'
  BY StoreSteps, StoreTyped DEF TypeInv, TypeOK
<1> USE DEF TypeInv, TypeOK, procVars, ghVars
<1>1. ASSUME NEW j \in Jobs, NEW mode \in Modes, NEW requested \in Policies,
             NEW tick \in Ticks, SubmitJob(j, mode, requested, tick)
      PROVE  TypeInv'
  BY <1>0, <1>1 DEF SubmitJob
<1>2. ASSUME NEW j \in Jobs, CancelJob(j) PROVE TypeInv'
  BY <1>0, <1>2 DEF CancelJob
<1>3. CASE ClaimBatch
  BY <1>0, <1>3 DEF ClaimBatch, RunStates
<1>4. ASSUME NEW j \in Jobs, ReviewStep(j) PROVE TypeInv'
  BY <1>0, <1>4 DEF ReviewStep, RegisterRun, PersistReport, CompleteRun, CancelledRun,
     RejectedRun, EndRun, RunStates
<1>5. CASE BeginShutdown
  BY <1>0, <1>5 DEF BeginShutdown
<1>6. CASE GraceExpires
  BY <1>0, <1>6 DEF GraceExpires
<1>7. CASE Crash \/ Exit
  <2>1. ProcessEnds
    BY <1>7 DEF Crash, Exit
  <2>2. tasks' = {} /\ phase' = "down" /\ faults' = faults + 1 /\ UNCHANGED overtaken
    BY <2>1 DEF ProcessEnds
  <2>3. run' \in [Jobs -> RunStates] /\ signalled' \in [Jobs -> BOOLEAN]
    BY <2>1 DEF ProcessEnds, RunStates
  <2> QED BY <1>0, <2>1, <2>2, <2>3, EndTyped, FS_EmptySet
<1>8. CASE Boot
  BY <1>0, <1>8 DEF Boot
<1>9. ASSUME NEW w \in Workers, PollOnce(w) PROVE TypeInv'
  BY <1>0, <1>9, PollTyped DEF PollOnce
<1>10. ASSUME NEW t \in tasks, TaskStep(t) PROVE TypeInv'
  BY <1>0, <1>10, TaskStepTyped
<1>11. ASSUME NEW j \in Jobs, DeadlineRunsOut(j) PROVE TypeInv'
  BY <1>0, <1>11 DEF DeadlineRunsOut, Fault
<1>12. ASSUME NEW j \in Jobs, GitHubStep(j) PROVE TypeInv'
  <2>1. inflight' \in [Jobs -> Nat] /\ comments' \in [Jobs -> Nat]
    BY <1>12 DEF GitHubStep, LateCreateLands, LateCreateLost
  <2> QED BY <1>0, <1>12, <2>1 DEF GitHubStep, LateCreateLands, LateCreateLost
<1>13. CASE UNCHANGED vars
  BY <1>0, <1>13 DEF vars
<1> QED
  BY <1>1, <1>2, <1>3, <1>4, <1>5, <1>6, <1>7, <1>8, <1>9, <1>10, <1>11, <1>12, <1>13
     DEF Next

\* Every variable keeps its type, and only finitely many publish attempts
\* are ever in progress, whatever the program does.
THEOREM TypeCorrect == Spec => []TypeInv
BY InitTyped, NextTyped, PTL DEF Spec

THEOREM TypeOKHolds == Spec => []TypeOK
BY TypeCorrect, PTL DEF TypeInv

-----------------------------------------------------------------------------
(* The tables agree.  JobMatchesOutbox and ReportMatchesOutbox are          *)
(* inductive together with the fact that only a job that may be published   *)
(* ever gets an outbox row.                                                 *)

OnlyPublishable ==
  \A j \in Jobs :
    /\ outbox[j] # "none" => policy[j] = "github_comment"
    /\ policy[j] = "github_comment" => access[j] = "github_app"

StoreInv == JobMatchesOutbox /\ ReportMatchesOutbox /\ OnlyPublishable

\* The same for one job.
Agrees(j) ==
  /\ outbox[j] \in {"pending", "retrying"} <=> job[j] = "awaiting_publish"
  /\ outbox[j] = "leased" <=> job[j] = "publishing"
  /\ outbox[j] = "leased" <=> owner[j] # NoWorker
  /\ outbox[j] = "published" <=> job[j] = "succeeded" /\ policy[j] = "github_comment"
  /\ outbox[j] = "failed" => job[j] \in {"publish_failed", "failed"}
  /\ job[j] = "publish_failed" => outbox[j] = "failed"
  /\ report[j] = "pending" <=> outbox[j] \in {"pending", "leased", "retrying"}
  /\ report[j] = "published" <=> outbox[j] = "published"
  /\ report[j] = "failed" <=> outbox[j] = "failed"
  /\ report[j] = "skipped" <=> job[j] = "succeeded" /\ policy[j] = "disabled"
  /\ outbox[j] # "none" => policy[j] = "github_comment"
  /\ policy[j] = "github_comment" => access[j] = "github_app"

LEMMA StoreInvAgrees == StoreInv <=> \A j \in Jobs : Agrees(j)
BY DEF StoreInv, JobMatchesOutbox, ReportMatchesOutbox, OnlyPublishable, Agrees

\* A job whose columns do not change keeps agreeing.
LEMMA Untouched ==
  ASSUME NEW k \in Jobs, Agrees(k), job'[k] = job[k], access'[k] = access[k],
         policy'[k] = policy[k], report'[k] = report[k], outbox'[k] = outbox[k],
         owner'[k] = owner[k]
  PROVE  Agrees(k)'
BY DEF Agrees

LEMMA EnqueueAgrees ==
  ASSUME StoreTypeOK, NEW k \in Jobs, Agrees(k), NEW j \in Jobs, NEW mode \in AccessModes,
         NEW requested \in Policies, NEW tick \in Ticks, Enqueue(j, mode, requested, tick)
  PROVE  Agrees(k)'
<1>1. CASE k = j
  BY <1>1 DEF Agrees, Enqueue, EffectivePolicy, StoreTypeOK, AccessModes, Policies,
     JobStatuses, ReportStates, OutboxStates, outboxVars
<1>2. CASE k # j
  BY <1>2, Untouched DEF Enqueue, StoreTypeOK, outboxVars
<1> QED BY <1>1, <1>2

LEMMA SettleAgrees ==
  ASSUME StoreTypeOK, NEW k \in Jobs, Agrees(k), NEW j \in Jobs, NEW w, NEW g,
         \/ MarkPublishOutboxSuccess(j, w, g)
         \/ MarkPublishOutboxRetry(j, w, g)
         \/ MarkPublishOutboxFailed(j, w, g)
  PROVE  Agrees(k)'
<1> USE DEF MarkPublishOutboxSuccess, MarkPublishOutboxRetry, MarkPublishOutboxFailed
<1>1. CASE ~HoldsLease(j, w, g)
  BY <1>1, Untouched DEF SettleLease, storeVars, outboxVars
<1>2. CASE HoldsLease(j, w, g) /\ k = j
  BY <1>2 DEF Agrees, HoldsLease, SettleLease, StoreTypeOK
<1>3. CASE HoldsLease(j, w, g) /\ k # j
  <2>1. /\ job'[k] = job[k] /\ report'[k] = report[k] /\ outbox'[k] = outbox[k]
        /\ owner'[k] = owner[k] /\ UNCHANGED <<access, policy>>
    BY <1>3 DEF SettleLease, StoreTypeOK
  <2> QED BY <2>1, Untouched
<1> QED BY <1>1, <1>2, <1>3

LEMMA PersistAgrees ==
  ASSUME StoreTypeOK, NEW k \in Jobs, Agrees(k), NEW j \in Jobs,
         PersistReportAndEnqueuePublish(j)
  PROVE  Agrees(k)'
<1>1. CASE k = j
  <2> USE DEF Agrees
  <2>1. /\ access'[k] = access[k] /\ policy'[k] = policy[k] /\ owner'[k] = owner[k]
        /\ policy[k] \in Policies /\ report[k] \in ReportStates
        /\ outbox[k] \in OutboxStates
    BY PersistRow DEF StoreTypeOK
  <2>2. CASE job'[k] = job[k] /\ report'[k] = report[k] /\ outbox'[k] = outbox[k]
    BY <2>1, <2>2
  <2>3. CASE /\ job[k] \in {"running", "awaiting_publish"} /\ policy[k] = "disabled"
             /\ job'[k] = "succeeded" /\ report'[k] = "skipped"
             /\ outbox'[k] = outbox[k]
    BY <2>1, <2>3 DEF OutboxStates
  <2>4. CASE /\ job[k] \in {"running", "awaiting_publish"} /\ policy[k] # "disabled"
             /\ job'[k] = "awaiting_publish"
             /\ report'[k] = IF report[k] = "none" THEN "pending" ELSE report[k]
             /\ outbox'[k] = IF outbox[k] = "none" THEN "pending" ELSE outbox[k]
    BY <2>1, <2>4 DEF Policies, ReportStates, OutboxStates
  <2> QED BY <1>1, <2>2, <2>3, <2>4, PersistRow
<1>2. CASE k # j
  BY <1>2, PersistRow, Untouched
<1> QED BY <1>1, <1>2

LEMMA ClaimAgrees ==
  ASSUME StoreTypeOK, NEW k \in Jobs, Agrees(k), NEW w \in Workers, NEW n \in Nat,
         NEW S \in SUBSET Jobs, ClaimPublishOutboxItem(w, n, S)
  PROVE  Agrees(k)'
<1>1. CASE k \in S
  <2>1. Claimable(k)
    BY <1>1 DEF ClaimPublishOutboxItem, ClaimableJobs
  <2>2. /\ job'[k] = "publishing" /\ outbox'[k] = "leased" /\ owner'[k] = w
        /\ UNCHANGED <<access, policy, report>>
    BY <1>1 DEF ClaimPublishOutboxItem
  <2> QED BY <2>1, <2>2, StoreAssumption DEF Agrees, Claimable
<1>2. CASE k \notin S
  <2>1. /\ job'[k] = job[k] /\ outbox'[k] = outbox[k] /\ owner'[k] = owner[k]
        /\ UNCHANGED <<access, policy, report>>
    BY <1>2 DEF ClaimPublishOutboxItem
  <2> QED BY <2>1, Untouched
<1> QED BY <1>1, <1>2

\* The jobs-table operations move a job only between statuses that have no
\* outbox row, or from publish_failed to failed.
LEMMA JobsTableAgrees ==
  ASSUME StoreTypeOK, NEW k \in Jobs, Agrees(k),
         \/ \E j \in Jobs : job[j] \in {"queued", "running"} /\ UpdateStatusCancelled(j)
         \/ \E S \in SUBSET Jobs : ClaimNextQueued(ReviewConcurrency, S)
         \/ \E j \in Jobs : job[j] \notin KeptOnRejection /\ MarkFailed(j)
         \/ FailInterruptedRunningJobs
  PROVE  Agrees(k)'
<1>1. UNCHANGED <<access, policy, report, outbox, owner>>
  BY DEF UpdateStatusCancelled, ClaimNextQueued, MarkFailed, FailInterruptedRunningJobs,
     outboxVars
<1>2. \/ job'[k] = job[k]
      \/ job[k] \in {"queued", "running"} /\ job'[k] \in {"running", "cancelled", "failed"}
      \/ job[k] \notin KeptOnRejection /\ job'[k] = "failed"
  BY DEF UpdateStatusCancelled, ClaimNextQueued, OldestQueued, Queued, MarkFailed,
     FailInterruptedRunningJobs, StoreTypeOK
<1> QED
  BY <1>1, <1>2 DEF Agrees, KeptOnRejection, StoreTypeOK, OutboxStates, ReportStates

LEMMA StoreNextAgrees ==
  ASSUME TypeInv, StoreInv, StoreNext
  PROVE  StoreInv'
<1>0. StoreTypeOK /\ \A t \in tasks : t.job \in Jobs
  BY DEF TypeInv, TypeOK, Task
<1>1. SUFFICES ASSUME NEW k \in Jobs PROVE Agrees(k)'
  BY DEF StoreInv, JobMatchesOutbox, ReportMatchesOutbox, OnlyPublishable, Agrees
<1>2. Agrees(k)
  BY StoreInvAgrees
<1>3. ASSUME NEW j \in Jobs, NEW mode \in AccessModes, NEW requested \in Policies,
             NEW tick \in Ticks, Enqueue(j, mode, requested, tick)
      PROVE  Agrees(k)'
  BY <1>0, <1>2, <1>3, EnqueueAgrees
<1>4. ASSUME NEW j \in Jobs, PersistReportAndEnqueuePublish(j) PROVE Agrees(k)'
  BY <1>0, <1>2, <1>4, PersistAgrees
<1>5. ASSUME NEW w \in Workers, NEW n \in Nat, NEW S \in SUBSET Jobs,
             ClaimPublishOutboxItem(w, n, S)
      PROVE  Agrees(k)'
  BY <1>0, <1>2, <1>5, ClaimAgrees
<1>6. ASSUME NEW t \in tasks,
             \/ MarkPublishOutboxSuccess(t.job, t.worker, t.gen)
             \/ MarkPublishOutboxRetry(t.job, t.worker, t.gen)
             \/ MarkPublishOutboxFailed(t.job, t.worker, t.gen)
      PROVE  Agrees(k)'
  BY <1>0, <1>2, <1>6, SettleAgrees
<1>7. ASSUME NEW j \in Jobs, DeadlinePasses(j) PROVE Agrees(k)'
  BY <1>2, <1>7, Untouched DEF DeadlinePasses
<1>8. CASE UNCHANGED storeVars
  BY <1>2, <1>8, Untouched DEF storeVars, outboxVars
<1>9. CASE \/ \E j \in Jobs : job[j] \in {"queued", "running"} /\ UpdateStatusCancelled(j)
           \/ \E S \in SUBSET Jobs : ClaimNextQueued(ReviewConcurrency, S)
           \/ \E j \in Jobs : job[j] \notin KeptOnRejection /\ MarkFailed(j)
           \/ FailInterruptedRunningJobs
  BY <1>0, <1>2, <1>9, JobsTableAgrees
<1> QED
  BY <1>3, <1>4, <1>5, <1>6, <1>7, <1>8, <1>9 DEF StoreNext

LEMMA InitAgrees == Init => StoreInv
BY DEF Init, StoreInit, StoreInv, JobMatchesOutbox, ReportMatchesOutbox, OnlyPublishable

\* The statuses of a job, of its outbox row and of its report agree in every
\* reachable state, and only publishable jobs have an outbox row.
THEOREM StoreConsistent == Spec => []StoreInv
<1>1. TypeInv /\ StoreInv /\ [Next]_vars => StoreInv'
  BY StoreSteps, StoreNextAgrees DEF TypeInv
<1> QED BY InitAgrees, <1>1, TypeCorrect, PTL DEF Spec

\* The three tables agree about every job.
THEOREM TablesAgreeHolds == Spec => []TablesAgree
<1>1. StoreInv => TablesAgree
  BY DEF StoreInv, TablesAgree
<1> QED BY StoreConsistent, <1>1, PTL

-----------------------------------------------------------------------------
(* The process and the jobs table.  That no running row is an orphan while  *)
(* the daemon is up needs to know which rows an execution can have.         *)

RunInv ==
  /\ phase = "down" => tasks = {} /\ \A j \in Jobs : run[j] = "none"
  /\ \A j \in Jobs :
       /\ run[j] = "none" => ~signalled[j]
       /\ run[j] # "none" => job[j] \notin {"absent", "queued"}
       /\ run[j] = "reported" => job[j] # "running"
       /\ phase = "up" /\ signalled[j] => job[j] # "running"
       /\ phase = "up" /\ job[j] = "running" => run[j] # "none"

LEMMA InitRun == Init => RunInv
BY DEF Init, StoreInit, RunInv

\* The row whose report arrives is no longer running, the others are untouched.
LEMMA PersistLeavesRunning ==
  ASSUME StoreTypeOK, NEW j \in Jobs, PersistReportAndEnqueuePublish(j)
  PROVE  /\ \A k \in Jobs \ {j} : job'[k] = job[k]
         /\ job'[j] \notin {"absent", "queued", "running"}
BY PersistRow

LEMMA ReviewStepRun ==
  ASSUME TypeInv, RunInv, NEW j \in Jobs, ReviewStep(j)
  PROVE  RunInv'
<1> USE DEF RunInv, TypeInv, TypeOK, StoreTypeOK
<1>1. CASE RegisterRun(j)
  BY <1>1 DEF RegisterRun, storeVars
<1>2. CASE PersistReport(j)
  <2>1. /\ PersistReportAndEnqueuePublish(j)
        /\ run' = [run EXCEPT ![j] = "reported"]
        /\ UNCHANGED <<phase, signalled, tasks>>
    BY <1>2 DEF PersistReport
  <2>2. \A k \in Jobs \ {j} : job'[k] = job[k] /\ run'[k] = run[k]
    BY <2>1, PersistLeavesRunning
  <2>3. job'[j] \notin {"absent", "queued", "running"} /\ run'[j] = "reported"
    BY <2>1, PersistLeavesRunning
  <2>4. run[j] # "none" /\ phase # "down"
    BY <1>2 DEF PersistReport
  <2> QED BY <2>1, <2>2, <2>3, <2>4
<1>3. CASE CompleteRun(j) \/ CancelledRun(j)
  BY <1>3 DEF CompleteRun, CancelledRun, EndRun, storeVars
<1>4. CASE RejectedRun(j)
  BY <1>4 DEF RejectedRun, EndRun, MarkFailed, storeVars
<1> QED BY <1>1, <1>2, <1>3, <1>4 DEF ReviewStep

\* Claims and settlements of outbox rows leave queued and running rows alone.
LEMMA PublishKeepsRunning ==
  ASSUME StoreTypeOK, NEW j \in Jobs, NEW k \in Jobs, NEW w, NEW g,
         \/ MarkPublishOutboxSuccess(j, w, g)
         \/ MarkPublishOutboxRetry(j, w, g)
         \/ MarkPublishOutboxFailed(j, w, g)
  PROVE  \/ job'[k] = job[k]
         \/ job[k] = "publishing"
            /\ job'[k] \in {"succeeded", "awaiting_publish", "publish_failed"}
BY DEF MarkPublishOutboxSuccess, MarkPublishOutboxRetry, MarkPublishOutboxFailed,
   SettleLease, HoldsLease, StoreTypeOK, storeVars, outboxVars

LEMMA PollKeepsRunning ==
  ASSUME StoreTypeOK, NEW k \in Jobs, NEW w \in Workers, PollOnce(w)
  PROVE  \/ job'[k] = job[k]
         \/ job[k] \in {"awaiting_publish", "publishing"} /\ job'[k] = "publishing"
BY DEF PollOnce, ClaimPublishOutboxItem, ClaimableJobs, Claimable, StoreTypeOK

LEMMA TaskStepKeepsRunning ==
  ASSUME TypeInv, NEW t \in tasks, TaskStep(t), NEW k \in Jobs
  PROVE  \/ job'[k] = job[k]
         \/ job[k] = "publishing"
            /\ job'[k] \in {"succeeded", "awaiting_publish", "publish_failed"}
<1>0. t.job \in Jobs /\ StoreTypeOK
  BY DEF TypeInv, TypeOK, Task
<1>1. CASE RecordSuccess(t)
  BY <1>0, <1>1, PublishKeepsRunning DEF RecordSuccess
<1>2. CASE \E permanent \in BOOLEAN : AttemptFails(t, permanent)
  BY <1>0, <1>2, PublishKeepsRunning DEF AttemptFails, RecordFailure
<1>3. CASE CreateUnanswered(t)
  BY <1>0, <1>3, PublishKeepsRunning DEF CreateUnanswered, RecordFailure
<1>4. CASE \/ Timeout(t) \/ TokenFetched(t) \/ MarkerSearched(t) \/ CommentWritten(t)
           \/ RefreshToken(t) \/ AttemptDropped(t)
  BY <1>4 DEF Timeout, TokenFetched, MarkerSearched, CommentWritten, RefreshToken,
     AttemptDropped, storeVars
<1> QED BY <1>1, <1>2, <1>3, <1>4 DEF TaskStep

LEMMA NextRun ==
  ASSUME TypeInv, RunInv, [Next]_vars
  PROVE  RunInv'
<1> USE DEF RunInv, TypeInv, TypeOK, StoreTypeOK, procVars
<1>1. ASSUME NEW j \in Jobs, NEW mode \in Modes, NEW requested \in Policies,
             NEW tick \in Ticks, SubmitJob(j, mode, requested, tick)
      PROVE  RunInv'
  BY <1>1 DEF SubmitJob, Enqueue
<1>2. ASSUME NEW j \in Jobs, CancelJob(j) PROVE RunInv'
  BY <1>2 DEF CancelJob, UpdateStatusCancelled
<1>3. CASE ClaimBatch
  BY <1>3 DEF ClaimBatch, ClaimNextQueued
<1>4. ASSUME NEW j \in Jobs, ReviewStep(j) PROVE RunInv'
  BY <1>4, ReviewStepRun
<1>5. CASE BeginShutdown \/ GraceExpires
  BY <1>5 DEF BeginShutdown, GraceExpires, storeVars
<1>6. CASE Crash \/ Exit
  <2>1. ProcessEnds
    BY <1>6 DEF Crash, Exit
  <2>2. /\ phase' = "down" /\ tasks' = {}
        /\ \A j \in Jobs : run'[j] = "none" /\ ~signalled'[j]
    BY <2>1 DEF ProcessEnds
  <2> QED BY <2>2
<1>7. CASE Boot
  BY <1>7 DEF Boot, FailInterruptedRunningJobs
<1>8. ASSUME NEW w \in Workers, PollOnce(w) PROVE RunInv'
  <2>1. UNCHANGED procVars /\ phase # "down"
    BY <1>8 DEF PollOnce
  <2> QED BY <1>8, <2>1, PollKeepsRunning
<1>9. ASSUME NEW t \in tasks, TaskStep(t) PROVE RunInv'
  <2>1. UNCHANGED procVars
    BY <1>9, TaskStepTyped
  <2>2. \A k \in Jobs : \/ job'[k] = job[k]
                        \/ /\ job[k] = "publishing"
                           /\ job'[k] \in {"succeeded", "awaiting_publish", "publish_failed"}
    BY <1>9, TaskStepKeepsRunning
  <2>3. phase # "down"
    BY <1>9
  <2> QED BY <2>1, <2>2, <2>3
<1>10. ASSUME NEW j \in Jobs, DeadlineRunsOut(j) PROVE RunInv'
  BY <1>10 DEF DeadlineRunsOut, DeadlinePasses
<1>11. ASSUME NEW j \in Jobs, GitHubStep(j) PROVE RunInv'
  BY <1>11 DEF GitHubStep, LateCreateLands, LateCreateLost, storeVars
<1>12. CASE UNCHANGED vars
  BY <1>12 DEF vars, storeVars
<1> QED
  BY <1>1, <1>2, <1>3, <1>4, <1>5, <1>6, <1>7, <1>8, <1>9, <1>10, <1>11, <1>12 DEF Next

THEOREM RunConsistent == Spec => []RunInv
BY InitRun, NextRun, TypeCorrect, PTL DEF Spec

\* While the daemon is up, every running row is executed by this process,
\* through any number of crashes, shutdowns and boots.
THEOREM NoOrphanedRunningJobHolds == Spec => []NoOrphanedRunningJob
<1>1. RunInv => NoOrphanedRunningJob
  BY DEF RunInv, NoOrphanedRunningJob
<1> QED BY <1>1, RunConsistent, PTL
=============================================================================
