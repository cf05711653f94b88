--------------------------- MODULE PublishProofs ----------------------------
(***************************************************************************)
(* Proofs about the publish side of ReviewPipeline: fencing, the retry     *)
(* budget, what is posted and how often, and the refinement of             *)
(* ReviewContract.                                                         *)
(***************************************************************************)
EXTENDS ReviewPipelineProofs

(* How a step changes the attempts in progress.                            *)

\* u is t further on: the same claim, the same attempt number.
Same(t, u) == u.job = t.job /\ u.worker = t.worker /\ u.gen = t.gen /\ u.attempt = t.attempt

\* A row keeps its lease, or gives it up; it never gains one.
LeaseKept ==
  \A j \in Jobs :
    /\ gen'[j] = gen[j]
    /\ outbox'[j] = "leased" =>
         outbox[j] = "leased" /\ attempts'[j] = attempts[j] /\ owner'[j] = owner[j]
    /\ outbox[j] # "none" => outbox'[j] # "none"

\* Every step of an attempt is one of these.
Moves(t, u) ==
  /\ u \in Task
  /\ Same(t, u)
  /\ Advance(t, u)
  /\ UNCHANGED storeVars

Settles(t) ==
  /\ tasks' = tasks \ {t}
  /\ \/ MarkPublishOutboxSuccess(t.job, t.worker, t.gen)
     \/ MarkPublishOutboxRetry(t.job, t.worker, t.gen) /\ t.attempt + 1 < MaxAttempts
     \/ MarkPublishOutboxFailed(t.job, t.worker, t.gen)

LEMMA TaskStepKinds ==
  ASSUME TypeInv, NEW t \in tasks, TaskStep(t)
  PROVE  (\E u \in Task : Moves(t, u)) \/ Settles(t) \/ AttemptDropped(t)
<1>0. t \in Task /\ t.attempt \in Nat
  BY DEF TypeInv, TypeOK, Task
<1>1. CASE Timeout(t)
  <2>1. [t EXCEPT !.aborted = TRUE] \in Task /\ Same(t, [t EXCEPT !.aborted = TRUE])
    BY <1>0 DEF Task, Same
  <2> QED BY <1>1, <2>1 DEF Timeout, Moves
<1>2. CASE TokenFetched(t)
  <2>1. [t EXCEPT !.at = "search"] \in Task /\ Same(t, [t EXCEPT !.at = "search"])
    BY <1>0 DEF Task, TaskStates, Same
  <2> QED BY <1>2, <2>1 DEF TokenFetched, Moves
<1>3. CASE MarkerSearched(t)
  <2> DEFINE u == [t EXCEPT !.at = IF comments[t.job] > 0 THEN "update" ELSE "create"]
  <2>1. u \in Task /\ Same(t, u)
    BY <1>0 DEF Task, TaskStates, Same
  <2> QED BY <1>3, <2>1 DEF MarkerSearched, Moves
<1>4. CASE CommentWritten(t)
  <2>1. [t EXCEPT !.at = "posted"] \in Task /\ Same(t, [t EXCEPT !.at = "posted"])
    BY <1>0 DEF Task, TaskStates, Same
  <2> QED BY <1>4, <2>1 DEF CommentWritten, Moves
<1>5. CASE RefreshToken(t)
  <2> DEFINE u == [t EXCEPT !.at = "token", !.refreshed = TRUE]
  <2>1. u \in Task /\ Same(t, u)
    BY <1>0 DEF Task, TaskStates, Same
  <2> QED BY <1>5, <2>1 DEF RefreshToken, Moves
<1>6. CASE RecordSuccess(t)
  BY <1>6 DEF RecordSuccess, Settles
<1>7. CASE \E permanent \in BOOLEAN : AttemptFails(t, permanent)
  BY <1>0, <1>7, PipelineAssumption DEF AttemptFails, RecordFailure, Settles
<1>8. CASE CreateUnanswered(t)
  BY <1>0, <1>8, PipelineAssumption DEF CreateUnanswered, RecordFailure, Settles
<1>9. CASE AttemptDropped(t)
  BY <1>9
<1> QED
  BY <1>1, <1>2, <1>3, <1>4, <1>5, <1>6, <1>7, <1>8, <1>9 DEF TaskStep

LEMMA SettleKeepsLease ==
  ASSUME StoreTypeOK, NEW j \in Jobs, NEW w, NEW g,
         \/ MarkPublishOutboxSuccess(j, w, g)
         \/ MarkPublishOutboxRetry(j, w, g)
         \/ MarkPublishOutboxFailed(j, w, g)
  PROVE  LeaseKept
BY DEF MarkPublishOutboxSuccess, MarkPublishOutboxRetry, MarkPublishOutboxFailed,
   SettleLease, HoldsLease, LeaseKept, StoreTypeOK, storeVars, outboxVars

\* Only PollOnce claims.
LEMMA OtherStepsKeepLease ==
  ASSUME TypeInv, [Next]_vars, ~\E w \in Workers : PollOnce(w)
  PROVE  LeaseKept
<1>0. StoreTypeOK
  BY DEF TypeInv, TypeOK
<1>1. ASSUME NEW t \in tasks, TaskStep(t) PROVE LeaseKept
  <2>1. t.job \in Jobs
    BY DEF TypeInv, TypeOK, Task
  <2> QED BY <1>0, <1>1, <2>1, TaskStepKinds, SettleKeepsLease
      DEF Moves, Settles, AttemptDropped, LeaseKept, storeVars, outboxVars
<1>2. ASSUME NEW j \in Jobs, PersistReport(j) PROVE LeaseKept
  BY <1>0, <1>2 DEF PersistReport, PersistReportAndEnqueuePublish, LeaseKept, StoreTypeOK,
     outboxVars
<1>3. ASSUME NEW j \in Jobs, ReviewStep(j), ~PersistReport(j) PROVE LeaseKept
  BY <1>3 DEF ReviewStep, RegisterRun, CompleteRun, CancelledRun, RejectedRun, MarkFailed,
     LeaseKept, storeVars, outboxVars
<1>4. CASE \/ \E j \in Jobs, mode \in Modes, requested \in Policies, tick \in Ticks :
                SubmitJob(j, mode, requested, tick)
           \/ \E j \in Jobs : CancelJob(j)
           \/ ClaimBatch \/ BeginShutdown \/ GraceExpires \/ Crash \/ Exit \/ Boot
           \/ \E j \in Jobs : DeadlineRunsOut(j)
           \/ \E j \in Jobs : GitHubStep(j)
           \/ UNCHANGED vars
  <2>1. UNCHANGED <<outbox, attempts, gen, owner>>
    BY <1>4 DEF SubmitJob, Enqueue, CancelJob, UpdateStatusCancelled, ClaimBatch,
       ClaimNextQueued, BeginShutdown, GraceExpires, Crash, Exit, ProcessEnds, Boot,
       FailInterruptedRunningJobs, DeadlineRunsOut, DeadlinePasses, GitHubStep,
       LateCreateLands, LateCreateLost, storeVars, outboxVars, vars
  <2> QED BY <2>1 DEF LeaseKept
<1> QED BY <1>1, <1>2, <1>3, <1>4 DEF Next

-----------------------------------------------------------------------------
(* Fencing.  A claim starts a generation that no earlier attempt has, so    *)
(* generations identify attempts, and the attempt of the current one knows  *)
(* the owner and the attempt count of the row.                              *)

FenceInv ==
  /\ \A t \in tasks :
       /\ t.gen <= gen[t.job]
       /\ outbox[t.job] # "none"
       /\ t.gen = gen[t.job] /\ outbox[t.job] = "leased"
            => owner[t.job] = t.worker /\ attempts[t.job] = t.attempt
  /\ \A t, u \in tasks : t.job = u.job /\ t.gen = u.gen => t = u

\* No step but a claim adds an attempt, or makes two of one.
LEMMA AttemptsKept ==
  ASSUME TypeInv, [Next]_vars, ~\E w \in Workers : PollOnce(w)
  PROVE  \/ tasks' \subseteq tasks
         \/ \E t \in tasks, u \in Task : Same(t, u) /\ tasks' = (tasks \ {t}) \cup {u}
<1>1. ASSUME NEW t \in tasks, TaskStep(t)
      PROVE  \/ tasks' \subseteq tasks
             \/ \E u \in Task : Same(t, u) /\ tasks' = (tasks \ {t}) \cup {u}
  BY <1>1, TaskStepKinds DEF Moves, Settles, AttemptDropped, Advance
<1>2. CASE \/ \E j \in Jobs, mode \in Modes, requested \in Policies, tick \in Ticks :
                SubmitJob(j, mode, requested, tick)
           \/ \E j \in Jobs : CancelJob(j)
           \/ ClaimBatch \/ BeginShutdown \/ GraceExpires \/ Crash \/ Exit \/ Boot
           \/ \E j \in Jobs : ReviewStep(j)
           \/ \E j \in Jobs : DeadlineRunsOut(j)
           \/ \E j \in Jobs : GitHubStep(j)
           \/ UNCHANGED vars
  BY <1>2 DEF SubmitJob, CancelJob, ClaimBatch, BeginShutdown, GraceExpires, Crash, Exit,
     ProcessEnds, Boot, ReviewStep, RegisterRun, PersistReport, CompleteRun, CancelledRun,
     RejectedRun, EndRun, DeadlineRunsOut, GitHubStep, LateCreateLands, LateCreateLost, vars
<1> QED BY <1>1, <1>2 DEF Next

LEMMA PollFence ==
  ASSUME TypeInv, FenceInv, NEW w \in Workers, PollOnce(w)
  PROVE  FenceInv'
<1>1. PICK S \in SUBSET Jobs :
        /\ ClaimPublishOutboxItem(w, PublishConcurrency - ActiveClaims(w), S)
        /\ tasks' = tasks \cup {NewTask(w, j) : j \in S}
  BY DEF PollOnce
<1>2. \A j \in Jobs :
        IF j \in S
        THEN /\ gen'[j] = gen[j] + 1 /\ owner'[j] = w /\ attempts'[j] = attempts[j]
             /\ outbox'[j] = "leased"
        ELSE /\ gen'[j] = gen[j] /\ owner'[j] = owner[j] /\ attempts'[j] = attempts[j]
             /\ outbox'[j] = outbox[j]
  BY <1>1 DEF ClaimPublishOutboxItem
<1>3. \A j \in Jobs : gen[j] \in Nat
  BY DEF TypeInv, TypeOK, StoreTypeOK
<1>4. \A t \in tasks : t.job \in Jobs /\ t.gen \in Nat
  BY DEF TypeInv, TypeOK, Task
<1>5. ASSUME NEW t \in tasks' PROVE
        \/ t \in tasks
        \/ \E j \in S : /\ t = NewTask(w, j) /\ t.job = j /\ t.worker = w
                        /\ t.gen = gen[j] + 1 /\ t.attempt = attempts[j]
  BY <1>1 DEF NewTask
<1>6. ASSUME NEW t \in tasks' PROVE
        /\ t.gen <= gen'[t.job]
        /\ outbox'[t.job] # "none"
        /\ t.gen = gen'[t.job] /\ outbox'[t.job] = "leased"
             => owner'[t.job] = t.worker /\ attempts'[t.job] = t.attempt
  BY <1>2, <1>3, <1>4, <1>5 DEF FenceInv
<1>7. ASSUME NEW t \in tasks', NEW u \in tasks', t.job = u.job, t.gen = u.gen
      PROVE  t = u
  BY <1>3, <1>4, <1>5, <1>7 DEF FenceInv
<1> QED BY <1>6, <1>7 DEF FenceInv

LEMMA NextFence ==
  ASSUME TypeInv, FenceInv, [Next]_vars
  PROVE  FenceInv'
<1>1. CASE \E w \in Workers : PollOnce(w)
  BY <1>1, PollFence
<1>2. CASE ~\E w \in Workers : PollOnce(w)
  <2>0. LeaseKept
    BY <1>2, OtherStepsKeepLease
  <2>1. \A t \in tasks' : \E u \in tasks : Same(t, u)
    BY <1>2, AttemptsKept DEF Same
  <2>2. \A t \in tasks : t.job \in Jobs
    BY DEF TypeInv, TypeOK, Task
  <2>3. ASSUME NEW t \in tasks', NEW u \in tasks', t.job = u.job, t.gen = u.gen
        PROVE  t = u
    BY <1>2, <2>3, AttemptsKept DEF Same, FenceInv
  <2>4. ASSUME NEW t \in tasks' PROVE
          /\ t.gen <= gen'[t.job]
          /\ outbox'[t.job] # "none"
          /\ t.gen = gen'[t.job] /\ outbox'[t.job] = "leased"
               => owner'[t.job] = t.worker /\ attempts'[t.job] = t.attempt
    BY <2>0, <2>1, <2>2 DEF LeaseKept, FenceInv, Same
  <2> QED BY <2>3, <2>4 DEF FenceInv
<1> QED BY <1>1, <1>2

LEMMA InitFence == Init => FenceInv
BY DEF Init, FenceInv

THEOREM Fencing == Spec => []FenceInv
BY InitFence, NextFence, TypeCorrect, PTL DEF Spec

\* At most one attempt can settle a row, whoever stalls and whenever leases
\* lapse, for any number of workers.
THEOREM SingleHolderHolds == Spec => []SingleHolder
<1>1. FenceInv => SingleHolder
  BY DEF FenceInv, SingleHolder, HoldsLease
<1> QED BY <1>1, Fencing, PTL

\* An attempt that ends after its row was claimed anew changes no table.
THEOREM StaleAttemptHolds == Spec => StaleAttemptIsHarmless
<1>1. ASSUME TypeInv, [Next]_vars, NEW t \in tasks, t \notin tasks', gen[t.job] # t.gen
      PROVE  UNCHANGED storeVars
  <2>1. ASSUME NEW u \in tasks, TaskStep(u) PROVE UNCHANGED storeVars
    <3>1. CASE u = t
      <4>1. CASE Settles(t)
        <5>1. ~HoldsLease(t.job, t.worker, t.gen)
          BY <1>1 DEF HoldsLease
        <5> QED BY <4>1, <5>1 DEF Settles, MarkPublishOutboxSuccess,
            MarkPublishOutboxRetry, MarkPublishOutboxFailed, SettleLease
      <4> QED BY <1>1, <2>1, <3>1, <4>1, TaskStepKinds DEF Moves, AttemptDropped
    <3>2. CASE u # t
      BY <1>1, <2>1, <3>2, TaskStepKinds DEF Moves, Settles, AttemptDropped, Advance
    <3> QED BY <3>1, <3>2
  <2>2. ASSUME ~\E u \in tasks : TaskStep(u) PROVE UNCHANGED storeVars
    BY <1>1, <2>2 DEF Next, SubmitJob, CancelJob, ClaimBatch, BeginShutdown, GraceExpires,
       Crash, Exit, ProcessEnds, Boot, ReviewStep, RegisterRun, PersistReport, CompleteRun,
       CancelledRun, RejectedRun, EndRun, PollOnce, DeadlineRunsOut, GitHubStep,
       LateCreateLands, LateCreateLost, vars
  <2> QED BY <2>1, <2>2
<1>2. TypeInv /\ [Next]_vars =>
        [\A t \in tasks : t \notin tasks' /\ gen[t.job] # t.gen => UNCHANGED storeVars]_vars
  BY <1>1
<1> QED BY <1>2, TypeCorrect, PTL DEF Spec, StaleAttemptIsHarmless

-----------------------------------------------------------------------------
(* The retry budget.                                                        *)

BudgetInv ==
  \A j \in Jobs :
    /\ attempts[j] <= MaxAttempts
    /\ attempts[j] = MaxAttempts => outbox[j] = "failed"

LEMMA StepAttempts ==
  ASSUME TypeInv, FenceInv, BudgetInv, NEW t \in tasks, Settles(t)
  PROVE  BudgetInv'
<1>0. /\ t.job \in Jobs /\ t.attempt \in Nat
      /\ \A j \in Jobs : attempts[j] \in Nat
  BY DEF TypeInv, TypeOK, StoreTypeOK, Task
<1>1. CASE ~HoldsLease(t.job, t.worker, t.gen)
  BY <1>1 DEF Settles, MarkPublishOutboxSuccess, MarkPublishOutboxRetry,
     MarkPublishOutboxFailed, SettleLease, BudgetInv, storeVars, outboxVars
<1>2. CASE HoldsLease(t.job, t.worker, t.gen)
  <2>1. attempts[t.job] = t.attempt /\ attempts[t.job] < MaxAttempts
    BY <1>0, <1>2, PipelineAssumption DEF HoldsLease, FenceInv, BudgetInv
  <2>2. \A j \in Jobs \ {t.job} : attempts'[j] = attempts[j] /\ outbox'[j] = outbox[j]
    BY <1>2 DEF Settles, MarkPublishOutboxSuccess, MarkPublishOutboxRetry,
       MarkPublishOutboxFailed, SettleLease, TypeInv, TypeOK, StoreTypeOK
  <2>3. \/ attempts'[t.job] = attempts[t.job] + 0
        \/ attempts'[t.job] = attempts[t.job] + 1 /\ t.attempt + 1 < MaxAttempts
        \/ attempts'[t.job] = attempts[t.job] + 1 /\ outbox'[t.job] = "failed"
    BY <1>0, <1>2 DEF Settles, MarkPublishOutboxSuccess, MarkPublishOutboxRetry,
       MarkPublishOutboxFailed, SettleLease, TypeInv, TypeOK, StoreTypeOK
  <2>4. attempts'[t.job] <= MaxAttempts
        /\ (attempts'[t.job] = MaxAttempts => outbox'[t.job] = "failed")
    BY <1>0, <2>1, <2>3, PipelineAssumption
  <2> QED BY <2>2, <2>4 DEF BudgetInv
<1> QED BY <1>1, <1>2

\* Attempts are counted, and rows published, by settlements only; a failed
\* row stays failed.
LEMMA OnlySettlementsCount ==
  ASSUME TypeInv, [Next]_vars, ~\E t \in tasks : TaskStep(t) /\ Settles(t)
  PROVE  /\ attempts' = attempts
         /\ \A j \in Jobs : /\ outbox[j] = "failed" => outbox'[j] = "failed"
                            /\ outbox'[j] = "published" => outbox[j] = "published"
<1>1. ASSUME NEW t \in tasks, TaskStep(t) PROVE UNCHANGED storeVars
  BY <1>1, TaskStepKinds DEF Moves, AttemptDropped
<1>2. ASSUME NEW w \in Workers, PollOnce(w)
      PROVE  /\ attempts' = attempts
             /\ \A j \in Jobs : \/ outbox'[j] = outbox[j]
                                \/ outbox'[j] = "leased" /\ outbox[j] # "failed"
  BY <1>2 DEF PollOnce, ClaimPublishOutboxItem, ClaimableJobs, Claimable
<1>3. ASSUME NEW j \in Jobs, PersistReport(j)
      PROVE  /\ attempts' = attempts
             /\ \A k \in Jobs : \/ outbox'[k] = outbox[k]
                                \/ outbox'[k] = "pending" /\ outbox[k] # "failed"
  BY <1>3 DEF PersistReport, PersistReportAndEnqueuePublish, TypeInv, TypeOK, StoreTypeOK,
     outboxVars
<1>4. ASSUME NEW j \in Jobs, ReviewStep(j), ~PersistReport(j)
      PROVE  UNCHANGED <<attempts, outbox>>
  BY <1>4 DEF ReviewStep, RegisterRun, CompleteRun, CancelledRun, RejectedRun, MarkFailed,
     storeVars, outboxVars
<1>5. CASE \/ \E j \in Jobs, mode \in Modes, requested \in Policies, tick \in Ticks :
                SubmitJob(j, mode, requested, tick)
           \/ \E j \in Jobs : CancelJob(j)
           \/ ClaimBatch \/ BeginShutdown \/ GraceExpires \/ Crash \/ Exit \/ Boot
           \/ \E j \in Jobs : DeadlineRunsOut(j)
           \/ \E j \in Jobs : GitHubStep(j)
           \/ UNCHANGED vars
  <2>1. UNCHANGED <<attempts, outbox>>
    BY <1>5 DEF SubmitJob, Enqueue, CancelJob, UpdateStatusCancelled, ClaimBatch,
       ClaimNextQueued, BeginShutdown, GraceExpires, Crash, Exit, ProcessEnds, Boot,
       FailInterruptedRunningJobs, DeadlineRunsOut, DeadlinePasses, GitHubStep,
       LateCreateLands, LateCreateLost, storeVars, outboxVars, vars
  <2> QED BY <2>1
<1> QED
  BY <1>1, <1>2, <1>3, <1>4, <1>5 DEF Next, storeVars, outboxVars

LEMMA NextBudget ==
  ASSUME TypeInv, FenceInv, BudgetInv, [Next]_vars
  PROVE  BudgetInv'
<1>1. CASE \E t \in tasks : Settles(t)
  BY <1>1, StepAttempts
<1>2. CASE ~\E t \in tasks : Settles(t)
  BY <1>2, OnlySettlementsCount DEF BudgetInv
<1> QED BY <1>1, <1>2

LEMMA InitBudget == Init => BudgetInv
BY PipelineAssumption DEF Init, StoreInit, BudgetInv

\* For every MaxAttempts, and whatever is claimed again after a stall or a
\* restart, no row records more than MaxAttempts failures, and the last one
\* is final.
THEOREM FailuresBoundedHolds == Spec => []FailuresBounded
<1>1. BudgetInv <=> FailuresBounded
  BY DEF BudgetInv, FailuresBounded
<1> QED BY <1>1, InitBudget, NextBudget, TypeCorrect, Fencing, PTL DEF Spec

-----------------------------------------------------------------------------
(* What is posted.                                                          *)

PostInv ==
  /\ \A t \in tasks : t.at \in {"update", "posted"} => comments[t.job] > 0
  /\ \A j \in Jobs :
       /\ outbox[j] = "published" => comments[j] > 0
       /\ comments[j] + inflight[j] > 0 => outbox[j] # "none"

\* What the process leaves behind when it ends: each awaited create request
\* counts once, among the applied or among the travelling.
LEMMA EndLeaves ==
  ASSUME TypeInv, ProcessEnds, NEW j \in Jobs
  PROVE  /\ comments'[j] >= comments[j] /\ inflight'[j] >= inflight[j]
         /\ comments'[j] + inflight'[j] > comments[j] + inflight[j]
              => \E t \in Unanswered : t.job = j
<1>1. PICK applied \in SUBSET Unanswered : \E travelling \in SUBSET (Unanswered \ applied) :
        /\ comments' = [k \in Jobs |->
             comments[k] + Cardinality({t \in applied : t.job = k})]
        /\ inflight' = [k \in Jobs |->
             inflight[k] + Cardinality({t \in travelling : t.job = k})]
  BY DEF ProcessEnds
<1>2. PICK travelling \in SUBSET (Unanswered \ applied) :
        /\ comments' = [k \in Jobs |->
             comments[k] + Cardinality({t \in applied : t.job = k})]
        /\ inflight' = [k \in Jobs |->
             inflight[k] + Cardinality({t \in travelling : t.job = k})]
  BY <1>1
<1> DEFINE a == Cardinality({t \in applied : t.job = j})
           b == Cardinality({t \in travelling : t.job = j})
<1>3. comments'[j] = comments[j] + a /\ inflight'[j] = inflight[j] + b
  BY <1>2
<1>4. a \in Nat /\ b \in Nat
  <2>1. IsFiniteSet({t \in applied : t.job = j}) /\ IsFiniteSet({t \in travelling : t.job = j})
    BY FS_Subset DEF TypeInv, Unanswered
  <2> QED BY <2>1, FS_CardinalityType
<1>5. ASSUME ~\E t \in Unanswered : t.job = j PROVE a = 0 /\ b = 0
  <2>1. {t \in applied : t.job = j} = {} /\ {t \in travelling : t.job = j} = {}
    BY <1>5
  <2> QED BY <2>1, FS_EmptySet
<1>6. comments[j] \in Nat /\ inflight[j] \in Nat
  BY DEF TypeInv, TypeOK
<1> QED BY <1>3, <1>4, <1>5, <1>6

\* Comments stay, and new ones, or new requests, come from attempts.
LEMMA CommentsGrow ==
  ASSUME TypeInv, [Next]_vars, NEW j \in Jobs
  PROVE  /\ comments'[j] >= comments[j]
         /\ comments'[j] + inflight'[j] > comments[j] + inflight[j]
              => \E t \in tasks : t.job = j
<1>0. /\ comments[j] \in Nat /\ inflight[j] \in Nat
      /\ comments \in [Jobs -> Nat] /\ inflight \in [Jobs -> Nat]
  BY DEF TypeInv, TypeOK
<1>1. CASE UNCHANGED <<comments, inflight>>
  BY <1>0, <1>1
<1>2. ASSUME NEW t \in tasks, CommentWritten(t) \/ CreateUnanswered(t)
      PROVE  /\ comments'[j] >= comments[j]
             /\ t.job # j => comments'[j] = comments[j] /\ inflight'[j] = inflight[j]
  <2>0. t.job \in Jobs
    BY DEF TypeInv, TypeOK, Task
  <2>1. \/ comments' = comments
        \/ comments' = [comments EXCEPT ![t.job] = @ + 1]
    BY <1>0, <1>2, <2>0 DEF CommentWritten, CreateUnanswered
  <2>2. \/ inflight' = inflight
        \/ inflight' = [inflight EXCEPT ![t.job] = @ + 1]
    BY <1>2 DEF CommentWritten, CreateUnanswered
  <2> QED BY <1>0, <2>0, <2>1, <2>2
<1>3. CASE Crash \/ Exit
  <2>1. ProcessEnds
    BY <1>3 DEF Crash, Exit
  <2> QED BY <2>1, EndLeaves DEF Unanswered
<1>4. ASSUME NEW k \in Jobs, GitHubStep(k)
      PROVE  /\ comments'[j] >= comments[j]
             /\ comments'[j] + inflight'[j] <= comments[j] + inflight[j]
  <2>1. CASE k # j
    BY <1>0, <1>4, <2>1 DEF GitHubStep, LateCreateLands, LateCreateLost
  <2>2. CASE k = j
    BY <1>0, <1>4, <2>2 DEF GitHubStep, LateCreateLands, LateCreateLost
  <2> QED BY <2>1, <2>2
<1>5. ASSUME NEW t \in tasks, TaskStep(t), ~CommentWritten(t), ~CreateUnanswered(t)
      PROVE  UNCHANGED <<comments, inflight>>
  BY <1>5 DEF TaskStep, Timeout, TokenFetched, MarkerSearched, RefreshToken, RecordSuccess,
     AttemptFails, AttemptDropped, ghVars
<1>6. CASE \/ \E k \in Jobs, mode \in Modes, requested \in Policies, tick \in Ticks :
                SubmitJob(k, mode, requested, tick)
           \/ \E k \in Jobs : CancelJob(k)
           \/ ClaimBatch \/ BeginShutdown \/ GraceExpires \/ Boot
           \/ \E k \in Jobs : ReviewStep(k)
           \/ \E w \in Workers : PollOnce(w)
           \/ \E k \in Jobs : DeadlineRunsOut(k)
           \/ UNCHANGED vars
  <2>1. UNCHANGED <<comments, inflight>>
    BY <1>6 DEF SubmitJob, CancelJob, ClaimBatch, BeginShutdown, GraceExpires, Boot,
       ReviewStep, RegisterRun, PersistReport, CompleteRun, CancelledRun, RejectedRun,
       EndRun, PollOnce, DeadlineRunsOut, ghVars, vars
  <2> QED BY <1>1, <2>1
<1>7. ASSUME NEW t \in tasks, TaskStep(t)
      PROVE  /\ comments'[j] >= comments[j]
             /\ comments'[j] + inflight'[j] > comments[j] + inflight[j]
                  => \E u \in tasks : u.job = j
  <2>1. CASE CommentWritten(t) \/ CreateUnanswered(t)
    BY <1>0, <1>2, <2>1
  <2>2. CASE ~(CommentWritten(t) \/ CreateUnanswered(t))
    BY <1>1, <1>5, <1>7, <2>2
  <2> QED BY <2>1, <2>2
<1>8. ASSUME NEW k \in Jobs, GitHubStep(k)
      PROVE  /\ comments'[j] >= comments[j]
             /\ ~(comments'[j] + inflight'[j] > comments[j] + inflight[j])
  <2>1. comments'[j] \in Nat /\ inflight'[j] \in Nat
    BY <1>0, <1>8, NextTyped DEF Next, TypeInv, TypeOK
  <2> QED BY <1>0, <1>4, <1>8, <2>1
<1> QED BY <1>3, <1>6, <1>7, <1>8 DEF Next

\* A row becomes published only when its comment is on GitHub already.
LEMMA NewlyPublished ==
  ASSUME TypeInv, PostInv, [Next]_vars, NEW j \in Jobs,
         outbox[j] # "published", outbox'[j] = "published"
  PROVE  comments[j] > 0
<1>1. PICK t \in tasks : TaskStep(t) /\ Settles(t)
  BY OnlySettlementsCount
<1>2. CASE RecordSuccess(t)
  <2>1. t.job = j
    BY <1>2 DEF RecordSuccess, MarkPublishOutboxSuccess, SettleLease, TypeInv, TypeOK,
       StoreTypeOK, storeVars, outboxVars
  <2> QED BY <1>2, <2>1 DEF RecordSuccess, PostInv
<1>3. CASE RecordFailure(t, TRUE) \/ RecordFailure(t, FALSE)
  BY <1>3 DEF RecordFailure, MarkPublishOutboxRetry, MarkPublishOutboxFailed, SettleLease,
     TypeInv, TypeOK, StoreTypeOK, storeVars, outboxVars
<1>4. CASE UNCHANGED storeVars
  BY <1>4 DEF storeVars, outboxVars
<1> QED
  BY <1>1, <1>2, <1>3, <1>4 DEF TaskStep, Timeout, TokenFetched, MarkerSearched,
     CommentWritten, RefreshToken, AttemptFails, CreateUnanswered, AttemptDropped

LEMMA NextPost ==
  ASSUME TypeInv, FenceInv, PostInv, [Next]_vars
  PROVE  PostInv'
<1>0. /\ \A t \in tasks : t.job \in Jobs
      /\ \A j \in Jobs : /\ comments[j] \in Nat /\ inflight[j] \in Nat
                         /\ comments'[j] \in Nat /\ inflight'[j] \in Nat
  BY NextTyped DEF TypeInv, TypeOK, Task
<1>1. \A j \in Jobs : comments[j] > 0 => comments'[j] > 0
  BY <1>0, CommentsGrow
<1>2. ASSUME NEW t \in tasks', t.at \in {"update", "posted"} PROVE comments'[t.job] > 0
  <2>1. CASE t \in tasks
    BY <1>0, <1>1, <1>2, <2>1 DEF PostInv
  <2>2. CASE \E w \in Workers : PollOnce(w) /\ t \notin tasks
    BY <1>2, <2>2 DEF PollOnce, NewTask
  <2>3. ASSUME NEW u \in tasks, TaskStep(u), t \notin tasks PROVE comments'[t.job] > 0
    <3>0. u \in Task
      BY DEF TypeInv, TypeOK
    <3>1. CASE CommentWritten(u)
      <4>1. t = [u EXCEPT !.at = "posted"]
        BY <2>3, <3>1 DEF CommentWritten, Advance
      <4>2. t.job = u.job /\ u.job \in Jobs
        BY <3>0, <4>1 DEF Task
      <4>3. CASE u.at = "create"
        BY <1>0, <3>1, <4>2, <4>3 DEF CommentWritten, TypeInv, TypeOK
      <4>4. CASE u.at = "update"
        BY <1>1, <4>2, <4>4 DEF PostInv
      <4> QED BY <3>1, <4>3, <4>4 DEF CommentWritten
    <3>2. CASE MarkerSearched(u)
      <4>1. t = [u EXCEPT !.at = IF comments[u.job] > 0 THEN "update" ELSE "create"]
        BY <2>3, <3>2 DEF MarkerSearched, Advance
      <4>2. t.job = u.job /\ u.job \in Jobs /\ comments[u.job] > 0
        BY <1>2, <3>0, <4>1 DEF Task
      <4> QED BY <1>1, <4>2
    <3>3. CASE Timeout(u)
      <4>1. t = [u EXCEPT !.aborted = TRUE]
        BY <2>3, <3>3 DEF Timeout, Advance
      <4>2. t.job = u.job /\ u.job \in Jobs /\ t.at = u.at
        BY <3>0, <4>1 DEF Task
      <4> QED BY <1>1, <1>2, <4>2 DEF PostInv
    <3>4. CASE TokenFetched(u) \/ RefreshToken(u)
      <4>1. \/ t = [u EXCEPT !.at = "search"]
            \/ t = [u EXCEPT !.at = "token", !.refreshed = TRUE]
        BY <2>3, <3>4 DEF TokenFetched, RefreshToken, Advance
      <4>2. t.at \in {"search", "token"}
        BY <3>0, <4>1 DEF Task
      <4> QED BY <1>2, <4>2
    <3>5. CASE \/ RecordSuccess(u) \/ CreateUnanswered(u) \/ AttemptDropped(u)
               \/ \E permanent \in BOOLEAN : AttemptFails(u, permanent)
      <4>1. tasks' \subseteq tasks
        BY <3>5 DEF RecordSuccess, CreateUnanswered, AttemptDropped, AttemptFails,
           RecordFailure
      <4> QED BY <2>3, <4>1
    <3> QED BY <2>3, <3>1, <3>2, <3>3, <3>4, <3>5 DEF TaskStep
  <2>4. CASE ~(\E w \in Workers : PollOnce(w)) /\ ~(\E u \in tasks : TaskStep(u))
    <3>1. tasks' \subseteq tasks
      BY <2>4 DEF Next, SubmitJob, CancelJob, ClaimBatch, BeginShutdown, GraceExpires,
         Crash, Exit, ProcessEnds, Boot, ReviewStep, RegisterRun, PersistReport,
         CompleteRun, CancelledRun, RejectedRun, EndRun, DeadlineRunsOut, GitHubStep,
         LateCreateLands, LateCreateLost, vars
    <3> QED BY <2>1, <3>1
  <2> QED BY <2>1, <2>2, <2>3, <2>4
<1>3. ASSUME NEW j \in Jobs, outbox'[j] = "published" PROVE comments'[j] > 0
  BY <1>1, <1>3, NewlyPublished DEF PostInv
<1>4. ASSUME NEW j \in Jobs, comments'[j] + inflight'[j] > 0 PROVE outbox'[j] # "none"
  <2>1. outbox[j] # "none"
    BY <1>0, <1>4, CommentsGrow DEF PostInv, FenceInv
  <2>2. CASE \E w \in Workers : PollOnce(w)
    BY <2>1, <2>2 DEF PollOnce, ClaimPublishOutboxItem
  <2>3. CASE ~\E w \in Workers : PollOnce(w)
    BY <2>1, <2>3, OtherStepsKeepLease DEF LeaseKept
  <2> QED BY <2>2, <2>3
<1> QED BY <1>2, <1>3, <1>4 DEF PostInv

LEMMA InitPost == Init => PostInv
BY DEF Init, StoreInit, PostInv

THEOREM Posting == Spec => []PostInv
BY InitPost, NextPost, TypeCorrect, Fencing, PTL DEF Spec

\* A job that reports success has its comment on GitHub, whatever was timed
\* out, retried or answered late.
THEOREM SuccessIsVisibleHolds == Spec => []SuccessIsVisible
<1>1. PostInv => SuccessIsVisible
  BY DEF PostInv, SuccessIsVisible
<1> QED BY <1>1, Posting, PTL

\* Nothing is posted, or on its way to GitHub, for a job that is analysis
\* only, cancelled, or without a durable report.
THEOREM PublishesOnlyReportsHolds == Spec => []PublishesOnlyReports
<1>1. TypeInv /\ StoreInv /\ PostInv => PublishesOnlyReports
  BY DEF PostInv, StoreInv, JobMatchesOutbox, ReportMatchesOutbox, OnlyPublishable,
     PublishesOnlyReports, TypeInv, TypeOK, StoreTypeOK, OutboxStates
<1> QED BY <1>1, Posting, StoreConsistent, TypeCorrect, PTL

-----------------------------------------------------------------------------
(* Every claim but the current one was paid for.  The current claim of a    *)
(* leased row is still to be paid for only while the attempt it started can *)
(* record its outcome.                                                      *)

CanRecord(j) == \E t \in Holders(j) : ~(t.at = "posted" /\ t.aborted)

PaidFor(j) ==
  /\ gen[j] <= attempts[j] + faults + 1
  /\ outbox[j] \in {"none", "pending", "retrying"} => gen[j] <= attempts[j] + faults
  /\ outbox[j] = "leased" /\ (elapsed[j] \/ ~CanRecord(j)) => gen[j] <= attempts[j] + faults

ClaimInv == \A j \in Jobs : PaidFor(j)

\* A step that leaves the row alone, takes no attempt from it and forgets no
\* fault keeps its account.
LEMMA SameAccount ==
  ASSUME TypeInv, TypeInv', NEW j \in Jobs, PaidFor(j), gen'[j] = gen[j],
         attempts'[j] = attempts[j], outbox'[j] = outbox[j], elapsed'[j] = elapsed[j],
         faults' >= faults,
         \/ faults' > faults
         \/ outbox[j] = "leased" /\ CanRecord(j) => CanRecord(j)'
  PROVE  PaidFor(j)'
<1>1. /\ gen[j] \in Nat /\ attempts[j] \in Nat /\ faults \in Nat /\ faults' \in Nat
  BY DEF TypeInv, TypeOK, StoreTypeOK
<1> QED BY <1>1 DEF PaidFor

LEMMA TaskStepPaid ==
  ASSUME TypeInv, TypeInv', StoreInv, FenceInv, ClaimInv, NEW u \in tasks, TaskStep(u)
  PROVE  ClaimInv'
<1>0. /\ u \in Task /\ u.job \in Jobs /\ gen' = gen
      /\ \A t \in tasks : t.job \in Jobs
      /\ \A j \in Jobs : gen[j] \in Nat /\ attempts[j] \in Nat
      /\ faults \in Nat /\ faults' \in Nat /\ faults' >= faults
  <2>1. gen' = gen
    BY TaskStepKinds DEF Moves, Settles, AttemptDropped, MarkPublishOutboxSuccess,
       MarkPublishOutboxRetry, MarkPublishOutboxFailed, SettleLease, storeVars, outboxVars
  <2>2. faults' = faults \/ faults' = faults + 1
    BY DEF TaskStep, Timeout, TokenFetched, MarkerSearched, CommentWritten, RefreshToken,
       RecordSuccess, AttemptFails, CreateUnanswered, AttemptDropped, Fault
  <2> QED BY <2>1, <2>2 DEF TypeInv, TypeOK, StoreTypeOK, Task
\* Other attempts stay.
<1>1. ASSUME NEW j \in Jobs, NEW t \in Holders(j), t # u PROVE t \in Holders(j)'
  BY <1>0, <1>1, TaskStepKinds DEF Holders, Moves, Settles, AttemptDropped, Advance
\* The attempt goes on, able to record unless that was a fault.
<1>2. ASSUME NEW v \in Task, Moves(u, v), NEW j \in Jobs PROVE PaidFor(j)'
  <2>1. faults' > faults \/ (v.at = "posted" /\ v.aborted => u.at = "posted" /\ u.aborted)
    <3>1. CASE Timeout(u)
      <4>1. u.at = "posted" => faults' > faults
        BY <1>0, <3>1 DEF Timeout, Fault
      <4>2. v = [u EXCEPT !.aborted = TRUE] \/ v \in tasks
        BY <3>1, <1>2 DEF Timeout, Moves, Advance
      <4> QED
        <5>1. CASE v = u
          BY <5>1
        <5>2. CASE v # u
          <6>1. v = [u EXCEPT !.aborted = TRUE]
            BY <1>2, <4>2, <5>2 DEF Moves, Same, FenceInv
          <6>2. v.at = u.at
            BY <1>0, <6>1 DEF Task
          <6> QED BY <4>1, <6>2
        <5> QED BY <5>1, <5>2
    <3>2. CASE ~Timeout(u)
      <4>1. \/ v \in tasks
            \/ v = [u EXCEPT !.at = "search"]
            \/ v = [u EXCEPT !.at = IF comments[u.job] > 0 THEN "update" ELSE "create"]
            \/ v = [u EXCEPT !.at = "posted"] /\ ~u.aborted
            \/ v = [u EXCEPT !.at = "token", !.refreshed = TRUE]
        BY <1>2, <3>2 DEF TaskStep, Moves, Advance, TokenFetched, MarkerSearched,
           CommentWritten, RefreshToken, RecordSuccess, AttemptFails, CreateUnanswered,
           AttemptDropped, RecordFailure
      <4>2. v \in tasks => v = u
        BY <1>2 DEF Moves, Same, FenceInv
      <4>3. v = u \/ v.at # "posted" \/ ~v.aborted
        <5>1. CASE v \in tasks
          BY <4>2, <5>1
        <5>2. CASE v = [u EXCEPT !.at = "search"]
          BY <1>0, <5>2 DEF Task
        <5>3. CASE v = [u EXCEPT !.at = IF comments[u.job] > 0 THEN "update" ELSE "create"]
          BY <1>0, <5>3 DEF Task
        <5>4. CASE v = [u EXCEPT !.at = "posted"] /\ ~u.aborted
          BY <1>0, <5>4 DEF Task
        <5>5. CASE v = [u EXCEPT !.at = "token", !.refreshed = TRUE]
          BY <1>0, <5>5 DEF Task
        <5> QED BY <4>1, <5>1, <5>2, <5>3, <5>4, <5>5
      <4> QED BY <4>3
    <3> QED BY <3>1, <3>2
  <2>2. u \in Holders(j) => v \in Holders(j)'
    BY <1>0, <1>2 DEF Moves, Same, Holders, Advance
  <2>3. faults' > faults \/ (CanRecord(j) => CanRecord(j)')
    BY <1>1, <2>1, <2>2 DEF CanRecord
  <2> QED BY <1>0, <1>2, <2>3, SameAccount DEF ClaimInv, Moves, storeVars, outboxVars
\* The attempt records its outcome, or had lost its row.
<1>3. ASSUME Settles(u), NEW j \in Jobs PROVE PaidFor(j)'
  <2>1. CASE HoldsLease(u.job, u.worker, u.gen) /\ j = u.job
    <3>1. \/ attempts'[j] = attempts[j] + 1 /\ outbox'[j] \in {"retrying", "failed"}
          \/ attempts'[j] = attempts[j] + 0 /\ outbox'[j] = "published"
      BY <1>0, <1>3, <2>1 DEF Settles, MarkPublishOutboxSuccess, MarkPublishOutboxRetry,
         MarkPublishOutboxFailed, SettleLease, TypeInv, TypeOK, StoreTypeOK
    <3> QED BY <1>0, <3>1 DEF PaidFor, ClaimInv
  <2>2. CASE ~(HoldsLease(u.job, u.worker, u.gen) /\ j = u.job)
    <3>1. /\ attempts'[j] = attempts[j] /\ outbox'[j] = outbox[j]
          /\ elapsed'[j] = elapsed[j]
      BY <1>0, <1>3, <2>2 DEF Settles, MarkPublishOutboxSuccess, MarkPublishOutboxRetry,
         MarkPublishOutboxFailed, SettleLease, TypeInv, TypeOK, StoreTypeOK, storeVars,
         outboxVars
    <3>2. outbox[j] = "leased" => u \notin Holders(j)
      BY <2>2 DEF Holders, HoldsLease, FenceInv, StoreInv, JobMatchesOutbox,
         ReportMatchesOutbox
    <3>3. outbox[j] = "leased" /\ CanRecord(j) => CanRecord(j)'
      BY <1>1, <3>2 DEF CanRecord
    <3> QED BY <1>0, <3>1, <3>3, SameAccount DEF ClaimInv
  <2> QED BY <2>1, <2>2
\* The attempt is dropped: a fault now, or when it was aborted.
<1>4. ASSUME AttemptDropped(u), NEW j \in Jobs PROVE PaidFor(j)'
  <2>1. faults' > faults \/ (u.at = "posted" /\ u.aborted)
    BY <1>0, <1>4 DEF AttemptDropped, Fault
  <2>2. faults' > faults \/ (CanRecord(j) => CanRecord(j)')
    BY <1>1, <2>1 DEF CanRecord
  <2> QED BY <1>0, <1>4, <2>2, SameAccount DEF ClaimInv, AttemptDropped, storeVars, outboxVars
<1>5. CASE AttemptDropped(u)
  BY <1>4, <1>5 DEF ClaimInv
<1>6. CASE ~AttemptDropped(u)
  BY <1>2, <1>3, <1>6, TaskStepKinds DEF ClaimInv
<1> QED BY <1>5, <1>6

LEMMA PollPaid ==
  ASSUME TypeInv, TypeInv', ClaimInv, NEW w \in Workers, PollOnce(w)
  PROVE  ClaimInv'
<1>1. PICK S \in SUBSET Jobs :
        /\ ClaimPublishOutboxItem(w, PublishConcurrency - ActiveClaims(w), S)
        /\ tasks' = tasks \cup {NewTask(w, j) : j \in S}
  BY DEF PollOnce
<1>2. UNCHANGED <<attempts, faults>>
  BY <1>1 DEF PollOnce, ClaimPublishOutboxItem
<1>3. /\ faults \in Nat
      /\ \A j \in Jobs : gen[j] \in Nat /\ attempts[j] \in Nat
  BY DEF TypeInv, TypeOK, StoreTypeOK
<1>4. ASSUME NEW j \in S PROVE PaidFor(j)'
  <2>1. gen'[j] = gen[j] + 1 /\ outbox'[j] = "leased" /\ ~elapsed'[j]
    BY <1>1 DEF ClaimPublishOutboxItem
  <2>2. gen[j] <= attempts[j] + faults
    <3>1. Claimable(j)
      BY <1>1 DEF ClaimPublishOutboxItem, ClaimableJobs
    <3> QED BY <3>1 DEF Claimable, ClaimInv, PaidFor
  <2>3. CanRecord(j)'
    <3>1. NewTask(w, j) \in Holders(j)'
      BY <1>1, <2>1 DEF Holders, NewTask
    <3>2. NewTask(w, j).at = "token"
      BY DEF NewTask
    <3> QED BY <3>1, <3>2 DEF CanRecord
  <2> QED BY <1>2, <1>3, <2>1, <2>2, <2>3 DEF PaidFor
<1>5. ASSUME NEW j \in Jobs \ S PROVE PaidFor(j)'
  <2>1. gen'[j] = gen[j] /\ outbox'[j] = outbox[j] /\ elapsed'[j] = elapsed[j]
    BY <1>1 DEF ClaimPublishOutboxItem
  <2>2. CanRecord(j) => CanRecord(j)'
    BY <1>1, <2>1 DEF CanRecord, Holders
  <2> QED BY <1>2, <1>3, <2>1, <2>2, SameAccount DEF ClaimInv
<1> QED BY <1>4, <1>5 DEF ClaimInv

LEMMA NextPaid ==
  ASSUME TypeInv, TypeInv', StoreInv, FenceInv, ClaimInv, [Next]_vars
  PROVE  ClaimInv'
<1>0. /\ faults \in Nat /\ faults' \in Nat
      /\ \A j \in Jobs : gen[j] \in Nat /\ attempts[j] \in Nat
  BY DEF TypeInv, TypeOK, StoreTypeOK
<1>1. ASSUME NEW w \in Workers, PollOnce(w) PROVE ClaimInv'
  BY <1>1, PollPaid
<1>2. ASSUME NEW t \in tasks, TaskStep(t) PROVE ClaimInv'
  BY <1>2, TaskStepPaid
<1>3. CASE Crash \/ Exit
  <2>1. faults' = faults + 1 /\ UNCHANGED storeVars
    BY <1>3 DEF Crash, Exit, ProcessEnds
  <2> QED BY <1>0, <2>1, SameAccount DEF ClaimInv, storeVars, outboxVars
<1>4. ASSUME NEW j \in Jobs, DeadlineRunsOut(j) PROVE ClaimInv'
  <2>1. /\ UNCHANGED <<gen, attempts, outbox, tasks>>
        /\ \A k \in Jobs \ {j} : elapsed'[k] = elapsed[k]
        /\ outbox[j] \in {"leased", "retrying"}
    BY <1>4 DEF DeadlineRunsOut, DeadlinePasses, TypeInv, TypeOK, StoreTypeOK
  <2>2. faults' = faults \/ faults' = faults + 1
    BY <1>4 DEF DeadlineRunsOut, Fault
  <2>3. \A k \in Jobs : CanRecord(k)' <=> CanRecord(k)
    BY <2>1 DEF CanRecord, Holders
  <2>4. ASSUME NEW k \in Jobs, k # j PROVE PaidFor(k)'
    BY <1>0, <2>1, <2>2, <2>3, <2>4, SameAccount DEF ClaimInv
  <2>5. faults' = faults + 1 \/ ~CanRecord(j)
    BY <1>4 DEF DeadlineRunsOut, Fault, CanRecord
  <2>6. PaidFor(j)'
    BY <1>0, <2>1, <2>2, <2>5 DEF ClaimInv, PaidFor
  <2> QED BY <2>4, <2>6 DEF ClaimInv
<1>5. ASSUME NEW j \in Jobs, PersistReport(j) PROVE ClaimInv'
  <2>1. UNCHANGED <<gen, attempts, tasks, faults>>
    BY <1>5 DEF PersistReport, PersistReportAndEnqueuePublish, outboxVars
  <2>2. \A k \in Jobs : \/ elapsed'[k] = elapsed[k] /\ outbox'[k] = outbox[k]
                        \/ outbox[k] = "none" /\ outbox'[k] = "pending"
    <3>1. \/ UNCHANGED <<outbox, elapsed>>
          \/ /\ outbox'  = [outbox EXCEPT ![j] = IF @ = "none" THEN "pending" ELSE @]
             /\ elapsed' = [elapsed EXCEPT ![j] = IF outbox[j] = "none" THEN TRUE ELSE @]
      BY <1>5 DEF PersistReport, PersistReportAndEnqueuePublish, outboxVars
    <3>2. outbox \in [Jobs -> OutboxStates] /\ elapsed \in [Jobs -> BOOLEAN]
      BY DEF TypeInv, TypeOK, StoreTypeOK
    <3>3. CASE UNCHANGED <<outbox, elapsed>>
      BY <3>3
    <3>4. CASE /\ outbox'  = [outbox EXCEPT ![j] = IF @ = "none" THEN "pending" ELSE @]
               /\ elapsed' = [elapsed EXCEPT ![j] = IF outbox[j] = "none" THEN TRUE ELSE @]
      <4>1. ASSUME NEW k \in Jobs, k # j
            PROVE elapsed'[k] = elapsed[k] /\ outbox'[k] = outbox[k]
        BY <3>2, <3>4, <4>1
      <4>2. CASE outbox[j] = "none"
        BY <3>2, <3>4, <4>2
      <4>3. CASE outbox[j] # "none"
        BY <3>2, <3>4, <4>3
      <4> QED BY <3>2, <3>4, <4>1, <4>2, <4>3
    <3> QED BY <3>1, <3>3, <3>4
  <2>3. \A k \in Jobs : CanRecord(k)' <=> CanRecord(k)
    BY <2>1 DEF CanRecord, Holders
  <2>4. ASSUME NEW k \in Jobs PROVE PaidFor(k)'
    <3>1. CASE elapsed'[k] = elapsed[k] /\ outbox'[k] = outbox[k]
      BY <1>0, <2>1, <2>3, <3>1, SameAccount DEF ClaimInv
    <3>2. CASE outbox[k] = "none" /\ outbox'[k] = "pending"
      BY <1>0, <2>1, <3>2 DEF ClaimInv, PaidFor
    <3> QED BY <2>2, <3>1, <3>2
  <2> QED BY <2>4 DEF ClaimInv
<1>6. CASE \/ \E j \in Jobs, mode \in Modes, requested \in Policies, tick \in Ticks :
                SubmitJob(j, mode, requested, tick)
           \/ \E j \in Jobs : CancelJob(j)
           \/ ClaimBatch \/ BeginShutdown \/ GraceExpires \/ Boot
           \/ \E j \in Jobs : ReviewStep(j) /\ ~PersistReport(j)
           \/ \E j \in Jobs : GitHubStep(j)
           \/ UNCHANGED vars
  <2>1. UNCHANGED <<gen, attempts, outbox, elapsed, tasks, faults>>
    BY <1>6 DEF SubmitJob, Enqueue, CancelJob, UpdateStatusCancelled, ClaimBatch,
       ClaimNextQueued, BeginShutdown, GraceExpires, Boot, FailInterruptedRunningJobs,
       ReviewStep, RegisterRun, CompleteRun, CancelledRun, RejectedRun, EndRun, MarkFailed,
       GitHubStep, LateCreateLands, LateCreateLost, storeVars, outboxVars, vars
  <2> QED BY <1>0, <2>1 DEF ClaimInv, PaidFor, CanRecord, Holders
<1> QED BY <1>1, <1>2, <1>3, <1>4, <1>5, <1>6 DEF Next

LEMMA InitPaid == Init => ClaimInv
BY DEF Init, StoreInit, ClaimInv, PaidFor

\* A row is never claimed again without a reason: each claim but the last is
\* covered by a recorded failure or by a fault.
THEOREM ClaimsAccountedHolds == Spec => []ClaimsAccounted
<1>1. ClaimInv => ClaimsAccounted
  BY DEF ClaimInv, PaidFor, ClaimsAccounted
<1>2. TypeInv /\ TypeInv' /\ StoreInv /\ FenceInv /\ ClaimInv /\ [Next]_vars => ClaimInv'
  BY NextPaid
<1> QED
  BY <1>1, <1>2, InitPaid, TypeCorrect, StoreConsistent, Fencing, PTL DEF Spec

\* The retry budget of the publish worker, for every MaxAttempts and however
\* many attempts stall, die or are claimed again.
THEOREM RetryBudgetHolds == Spec => []RetryBudget
<1>1. FailuresBounded /\ ClaimsAccounted <=> RetryBudget
  BY DEF RetryBudget
<1> QED BY <1>1, FailuresBoundedHolds, ClaimsAccountedHolds, PTL

-----------------------------------------------------------------------------
(* How often a job is posted.  The account of a row: its comments, the      *)
(* create requests still travelling, and the attempts that may yet send one *)
(* are covered by the deadlines that passed too early, with one to spare    *)
(* once the row is exposed.                                                 *)

\* The attempts that may still create a comment: those about to, and, as long
\* as the search would find nothing, all others.
Creators(j) == {t \in tasks : t.job = j /\ (comments[j] = 0 \/ t.at = "create")}

Load(j) == comments[j] + inflight[j] + Cardinality(Creators(j))

\* There is a comment to find, or the deadline that protects the attempt of
\* the current claim, or its create requests, has not passed.
Exposed(j) ==
  \/ comments[j] > 0
  \/ ~elapsed[j] /\ (inflight[j] > 0 \/ Holders(j) # {})

Balanced(j) ==
  /\ Load(j) <= overtaken[j] + 1
  /\ Load(j) > overtaken[j] => Exposed(j)

OnceInv == \A j \in Jobs : Balanced(j)

LEMMA LoadTyped ==
  ASSUME TypeInv, NEW j \in Jobs
  PROVE  /\ comments[j] \in Nat /\ inflight[j] \in Nat /\ overtaken[j] \in Nat
         /\ IsFiniteSet(Creators(j)) /\ Cardinality(Creators(j)) \in Nat
<1>1. Creators(j) \subseteq tasks
  BY DEF Creators
<1> QED BY <1>1, FS_Subset, FS_CardinalityType DEF TypeInv, TypeOK

LEMMA LoadTypedNext ==
  ASSUME TypeInv', NEW j \in Jobs
  PROVE  /\ comments'[j] \in Nat /\ inflight'[j] \in Nat /\ overtaken'[j] \in Nat
         /\ IsFiniteSet(Creators(j)') /\ Cardinality(Creators(j)') \in Nat
<1>1. Creators(j)' \subseteq tasks'
  BY DEF Creators
<1> QED BY <1>1, FS_Subset, FS_CardinalityType DEF TypeInv, TypeOK

\* A step that adds no load, and leaves the row exposed or takes some away.
LEMMA Lighter ==
  ASSUME TypeInv, TypeInv', NEW j \in Jobs, Balanced(j), overtaken'[j] = overtaken[j],
         Load(j)' <= Load(j), Exposed(j) => Exposed(j)' \/ Load(j)' < Load(j)
  PROVE  Balanced(j)'
<1>1. Load(j) \in Nat /\ overtaken[j] \in Nat
  BY LoadTyped DEF Load
<1>2. Load(j)' \in Nat
  BY LoadTypedNext DEF Load
<1> HIDE DEF Load, Exposed
<1> QED BY <1>1, <1>2 DEF Balanced

\* Nothing happens to the attempts and comments of the job.
LEMMA QuietRow ==
  ASSUME NEW j \in Jobs, Balanced(j),
         comments'[j] = comments[j], inflight'[j] = inflight[j],
         overtaken'[j] = overtaken[j], gen'[j] = gen[j], elapsed'[j] = elapsed[j],
         \A t \in tasks : t.job = j => t \in tasks',
         \A t \in tasks' : t.job = j => t \in tasks
  PROVE  Balanced(j)'
<1>1. Creators(j)' = Creators(j)
  BY DEF Creators
<1>2. Holders(j)' = Holders(j)
  BY DEF Holders
<1> QED BY <1>1, <1>2 DEF Balanced, Load, Exposed

\* A claim needs an elapsed deadline, so the row was not exposed unless it has
\* a comment, which the new attempt will find.
LEMMA PollOnceOnce ==
  ASSUME TypeInv, TypeInv', OnceInv, NEW w \in Workers, PollOnce(w)
  PROVE  OnceInv'
<1>1. PICK S \in SUBSET Jobs :
        /\ ClaimPublishOutboxItem(w, PublishConcurrency - ActiveClaims(w), S)
        /\ tasks' = tasks \cup {NewTask(w, j) : j \in S}
  BY DEF PollOnce
<1>2. UNCHANGED <<comments, inflight, overtaken>>
  BY DEF PollOnce, ghVars
<1>3. \A j \in S : elapsed[j] /\ elapsed'[j] = FALSE /\ gen'[j] = gen[j] + 1
  BY <1>1 DEF ClaimPublishOutboxItem, ClaimableJobs, Claimable
<1>4. \A j \in Jobs \ S : elapsed'[j] = elapsed[j] /\ gen'[j] = gen[j]
  BY <1>1 DEF ClaimPublishOutboxItem
<1>5. \A j \in S : NewTask(w, j).job = j /\ NewTask(w, j).gen = gen[j] + 1
                   /\ NewTask(w, j).at = "token"
  BY DEF NewTask
<1>6. ASSUME NEW j \in Jobs \ S PROVE Balanced(j)'
  <2>1. /\ \A t \in tasks : t.job = j => t \in tasks'
        /\ \A t \in tasks' : t.job = j => t \in tasks
    BY <1>1, <1>5
  <2> QED BY <1>2, <1>4, <2>1, QuietRow DEF OnceInv
<1>7. ASSUME NEW j \in S PROVE Balanced(j)'
  <2>0. j \in Jobs /\ Balanced(j)
    BY DEF OnceInv
  <2>1. NewTask(w, j) \in Holders(j)'
    BY <1>1, <1>3, <1>5 DEF Holders
  <2>2. Creators(j)' \subseteq Creators(j) \cup {NewTask(w, j)}
    BY <1>1, <1>2, <1>5 DEF Creators
  <2>3. CASE comments[j] = 0
    <3>1. Cardinality(Creators(j)') <= Cardinality(Creators(j)) + 1
      <4> DEFINE C == Creators(j)
                 D == C \cup {NewTask(w, j)}
      <4>1. IsFiniteSet(C) /\ Cardinality(C) \in Nat
        BY <2>0, LoadTyped
      <4> HIDE DEF C
      <4>2. IsFiniteSet(D) /\ (Cardinality(D) = Cardinality(C) \/ Cardinality(D) = Cardinality(C) + 1)
        BY <4>1, FS_AddElement
      <4>3. Cardinality(Creators(j)') <= Cardinality(D)
        BY <2>2, <4>2, FS_Subset DEF C
      <4>4. Cardinality(Creators(j)') \in Nat
        BY <2>0, LoadTypedNext
      <4> QED BY <4>1, <4>2, <4>3, <4>4 DEF C
    <3>2. Load(j) <= overtaken[j]
      BY <1>3, <2>0, <2>3, LoadTyped DEF Balanced, Exposed, Load
    <3>3. Load(j)' <= overtaken'[j] + 1
      BY <1>2, <2>0, <3>1, <3>2, LoadTyped, LoadTypedNext DEF Load
    <3>4. CASE inflight[j] > 0 \/ Holders(j)' # {}
      BY <1>2, <1>3, <3>3, <3>4 DEF Balanced, Exposed
    <3> QED BY <2>1, <3>4
  <2>4. CASE comments[j] > 0
    <3>1. Creators(j)' \subseteq Creators(j)
      BY <1>1, <1>2, <1>5, <2>4 DEF Creators
    <3>2. Cardinality(Creators(j)') <= Cardinality(Creators(j))
      BY <2>0, <3>1, LoadTyped, FS_Subset
    <3>3. Load(j)' <= Load(j)
      BY <1>2, <2>0, <3>2, LoadTyped, LoadTypedNext DEF Load
    <3>4. Exposed(j)'
      BY <1>2, <2>4 DEF Exposed
    <3> QED BY <1>2, <2>0, <3>3, <3>4, Lighter
  <2> QED BY <2>0, <2>3, <2>4, LoadTyped
<1> QED BY <1>6, <1>7 DEF OnceInv

LEMMA OneCreatorLess ==
  ASSUME TypeInv, TypeInv', NEW j \in Jobs, NEW u \in Creators(j),
         Creators(j)' \subseteq Creators(j) \ {u}
  PROVE  Cardinality(Creators(j)') <= Cardinality(Creators(j)) - 1
<1>1. IsFiniteSet(Creators(j) \ {u}) /\ Cardinality(Creators(j) \ {u}) = Cardinality(Creators(j)) - 1
  BY LoadTyped, FS_RemoveElement
<1>2. Cardinality(Creators(j)') <= Cardinality(Creators(j) \ {u})
  BY <1>1, FS_Subset
<1> QED BY <1>1, <1>2, LoadTyped, LoadTypedNext

\* An attempt goes on to its next call: it can create a comment only if it
\* could before.
LEMMA MoveOnce ==
  ASSUME TypeInv, TypeInv', NEW u \in tasks, NEW x \in Task, Moves(u, x),
         Balanced(u.job), UNCHANGED ghVars,
         x.at = "create" /\ comments[u.job] > 0 => u.at = "create"
  PROVE  Balanced(u.job)'
<1> DEFINE j == u.job
<1>0. /\ j \in Jobs /\ x.job = j /\ x.gen = u.gen
      /\ tasks' = (tasks \ {u}) \cup {x}
      /\ UNCHANGED <<gen, elapsed, comments, inflight, overtaken>>
  BY DEF Moves, Same, Advance, storeVars, outboxVars, ghVars, TypeInv, TypeOK, Task
<1>1. Cardinality(Creators(j)') <= Cardinality(Creators(j))
  <2>1. CASE u \in Creators(j)
    <3>1. Creators(j)' \subseteq (Creators(j) \ {u}) \cup {x}
      BY <1>0 DEF Creators
    <3>2. IsFiniteSet(Creators(j) \ {u})
          /\ Cardinality(Creators(j) \ {u}) = Cardinality(Creators(j)) - 1
      BY <1>0, <2>1, LoadTyped, FS_RemoveElement
    <3>3. IsFiniteSet((Creators(j) \ {u}) \cup {x})
          /\ Cardinality((Creators(j) \ {u}) \cup {x}) <= Cardinality(Creators(j))
      <4> DEFINE C == Creators(j) \ {u}
      <4>1. IsFiniteSet(C) /\ Cardinality(C) = Cardinality(Creators(j)) - 1
            /\ Cardinality(Creators(j)) \in Nat
        BY <1>0, <3>2, LoadTyped
      <4> HIDE DEF C
      <4>2. /\ IsFiniteSet(C \cup {x})
            /\ Cardinality(C \cup {x}) = IF x \in C THEN Cardinality(C) ELSE Cardinality(C) + 1
        BY <4>1, FS_AddElement
      <4>3. Cardinality(C \cup {x}) <= Cardinality(Creators(j))
        BY <4>1, <4>2
      <4> QED BY <4>2, <4>3 DEF C
    <3>4. Cardinality(Creators(j)') <= Cardinality((Creators(j) \ {u}) \cup {x})
      BY <3>1, <3>3, FS_Subset
    <3>5. Cardinality((Creators(j) \ {u}) \cup {x}) \in Nat
      BY <3>3, FS_CardinalityType
    <3> QED BY <1>0, <3>3, <3>4, <3>5, LoadTyped, LoadTypedNext
  <2>2. CASE u \notin Creators(j)
    <3>0. comments[j] \in Nat
      BY <1>0, LoadTyped
    <3>1. comments[j] > 0 /\ u.at # "create"
      BY <2>2, <3>0 DEF Creators
    <3>2. Creators(j)' \subseteq Creators(j)
      BY <1>0, <3>1 DEF Creators
    <3> QED BY <1>0, <3>2, LoadTyped, FS_Subset
  <2> QED BY <2>1, <2>2
<1>2. Load(j)' <= Load(j)
  BY <1>0, <1>1, LoadTyped, LoadTypedNext DEF Load
<1>3. Exposed(j) => Exposed(j)'
  BY <1>0 DEF Exposed, Holders
<1> QED BY <1>0, <1>2, <1>3, Lighter

\* An attempt ends and no request of its own is left: without a comment it was
\* one that could have created it.
LEMMA EndOfAttemptOnce ==
  ASSUME TypeInv, TypeInv', NEW u \in tasks, tasks' = tasks \ {u},
         Balanced(u.job), UNCHANGED ghVars
  PROVE  Balanced(u.job)'
<1> DEFINE j == u.job
<1>0. j \in Jobs /\ UNCHANGED <<comments, inflight, overtaken>>
  BY DEF ghVars, TypeInv, TypeOK, Task
<1>1. Creators(j)' = Creators(j) \ {u}
  BY <1>0 DEF Creators
<1>2. CASE u \in Creators(j)
  <2>1. Cardinality(Creators(j)') <= Cardinality(Creators(j)) - 1
    BY <1>0, <1>1, <1>2, OneCreatorLess
  <2>2. Load(j)' < Load(j)
    BY <1>0, <2>1, LoadTyped, LoadTypedNext DEF Load
  <2> QED BY <1>0, <2>2, LoadTyped, LoadTypedNext, Lighter DEF Load
<1>3. CASE u \notin Creators(j)
  <2>0. comments[j] \in Nat
    BY <1>0, LoadTyped
  <2>1. comments[j] > 0
    BY <1>3, <2>0 DEF Creators
  <2>2. Creators(j)' = Creators(j)
    BY <1>1, <1>3
  <2>3. Load(j)' <= Load(j) /\ Exposed(j)'
    BY <1>0, <2>1, <2>2, LoadTyped DEF Load, Exposed
  <2> QED BY <1>0, <2>3, Lighter
<1> QED BY <1>2, <1>3

\* A create request is sent: what the attempt could do is now done, or on its
\* way under a deadline that has not passed unless it was paid for.
LEMMA CreateOnce ==
  ASSUME TypeInv, TypeInv', NEW u \in tasks, u.at = "create", Balanced(u.job),
         UNCHANGED overtaken, elapsed'[u.job] => elapsed[u.job],
         \/ /\ comments' = [comments EXCEPT ![u.job] = @ + 1]
            /\ UNCHANGED inflight
            /\ \/ tasks' = tasks \ {u}
               \/ \E x \in Task : tasks' = (tasks \ {u}) \cup {x} /\ x.at = "posted"
         \/ /\ inflight' = [inflight EXCEPT ![u.job] = @ + 1]
            /\ UNCHANGED comments
            /\ tasks' = tasks \ {u}
  PROVE  Balanced(u.job)'
<1> DEFINE j == u.job
<1>0. j \in Jobs /\ u \in Creators(j)
      /\ comments \in [Jobs -> Nat] /\ inflight \in [Jobs -> Nat]
  BY DEF TypeInv, TypeOK, Task, Creators
<1>1. \/ comments'[j] = comments[j] + 1 /\ inflight'[j] = inflight[j]
      \/ comments'[j] = comments[j] /\ inflight'[j] = inflight[j] + 1
  BY <1>0
<1>2. CASE comments'[j] = comments[j] + 1
  <2>1. Creators(j)' \subseteq Creators(j) \ {u}
    BY <1>0, <1>2 DEF Creators
  <2>2. Cardinality(Creators(j)') <= Cardinality(Creators(j)) - 1
    BY <1>0, <2>1, OneCreatorLess
  <2>3. Load(j)' <= Load(j)
    BY <1>0, <1>1, <2>2, LoadTyped, LoadTypedNext DEF Load
  <2>4. Exposed(j)'
    BY <1>0, <1>2 DEF Exposed
  <2> QED BY <1>0, <2>3, <2>4, Lighter
<1>3. CASE comments'[j] = comments[j]
  <2>0. tasks' = tasks \ {u} /\ inflight'[j] = inflight[j] + 1
    BY <1>0, <1>1, <1>3
  <2>1. Creators(j)' \subseteq Creators(j) \ {u}
    BY <1>3, <2>0 DEF Creators
  <2>2. Cardinality(Creators(j)') <= Cardinality(Creators(j)) - 1
    BY <1>0, <2>1, OneCreatorLess
  <2>3. Load(j)' <= Load(j)
    BY <1>0, <1>1, <2>2, LoadTyped, LoadTypedNext DEF Load
  <2>4. Exposed(j) => Exposed(j)'
    BY <1>0, <1>3, <2>0 DEF Exposed
  <2> QED BY <1>0, <2>3, <2>4, Lighter
<1> QED BY <1>1, <1>2, <1>3

LEMMA TaskStepOnce ==
  ASSUME TypeInv, TypeInv', OnceInv, NEW u \in tasks, TaskStep(u)
  PROVE  OnceInv'
<1>0. /\ u \in Task /\ u.job \in Jobs /\ Balanced(u.job)
      /\ comments \in [Jobs -> Nat] /\ inflight \in [Jobs -> Nat]
  BY DEF TypeInv, TypeOK, Task, OnceInv
<1>1. /\ gen' = gen /\ (elapsed'[u.job] => elapsed[u.job])
      /\ \A j \in Jobs \ {u.job} : elapsed'[j] = elapsed[j]
  BY <1>0, TaskStepKinds DEF Moves, Settles, AttemptDropped, MarkPublishOutboxSuccess,
     MarkPublishOutboxRetry, MarkPublishOutboxFailed, SettleLease, TypeInv, TypeOK,
     StoreTypeOK, storeVars, outboxVars
<1>2. ASSUME NEW j \in Jobs \ {u.job} PROVE Balanced(j)'
  <2>1. comments'[j] = comments[j] /\ inflight'[j] = inflight[j] /\ overtaken' = overtaken
    BY <1>0 DEF TaskStep, Timeout, TokenFetched, MarkerSearched, CommentWritten,
       RefreshToken, RecordSuccess, AttemptFails, CreateUnanswered, AttemptDropped, ghVars
  <2>2. /\ \A t \in tasks : t.job = j => t \in tasks'
        /\ \A t \in tasks' : t.job = j => t \in tasks
    BY TaskStepKinds DEF Moves, Settles, AttemptDropped, Advance, Same
  <2> QED BY <1>1, <2>1, <2>2, QuietRow DEF OnceInv
<1>3. Balanced(u.job)'
  <2>1. CASE Timeout(u)
    <3> DEFINE x == [u EXCEPT !.aborted = TRUE]
    <3>1. x \in Task /\ Same(u, x) /\ x.at = u.at
      BY <1>0 DEF Task, Same
    <3>2. Moves(u, x) /\ UNCHANGED ghVars
      BY <2>1, <3>1 DEF Timeout, Moves
    <3> HIDE DEF x
    <3> QED BY <1>0, <3>1, <3>2, MoveOnce
  <2>2. CASE TokenFetched(u)
    <3> DEFINE x == [u EXCEPT !.at = "search"]
    <3>1. x \in Task /\ Same(u, x) /\ x.at = "search"
      BY <1>0 DEF Task, TaskStates, Same
    <3>2. Moves(u, x) /\ UNCHANGED ghVars
      BY <2>2, <3>1 DEF TokenFetched, Moves
    <3> HIDE DEF x
    <3> QED BY <1>0, <3>1, <3>2, MoveOnce
  <2>3. CASE MarkerSearched(u)
    <3> DEFINE x == [u EXCEPT !.at = IF comments[u.job] > 0 THEN "update" ELSE "create"]
    <3>1. x \in Task /\ Same(u, x) /\ (x.at = "create" => ~(comments[u.job] > 0))
      BY <1>0 DEF Task, TaskStates, Same
    <3>2. Moves(u, x) /\ UNCHANGED ghVars
      BY <2>3, <3>1 DEF MarkerSearched, Moves
    <3> HIDE DEF x
    <3> QED BY <1>0, <3>1, <3>2, MoveOnce
  <2>4. CASE RefreshToken(u)
    <3> DEFINE x == [u EXCEPT !.at = "token", !.refreshed = TRUE]
    <3>1. x \in Task /\ Same(u, x) /\ x.at = "token"
      BY <1>0 DEF Task, TaskStates, Same
    <3>2. Moves(u, x) /\ UNCHANGED ghVars
      BY <2>4, <3>1 DEF RefreshToken, Moves
    <3> HIDE DEF x
    <3> QED BY <1>0, <3>1, <3>2, MoveOnce
  <2>5. CASE CommentWritten(u)
    <3> DEFINE x == [u EXCEPT !.at = "posted"]
    <3>1. x \in Task /\ Same(u, x) /\ x.at = "posted"
      BY <1>0 DEF Task, TaskStates, Same
    <3>2. Moves(u, x) /\ tasks' = (tasks \ {u}) \cup {x} /\ UNCHANGED <<inflight, overtaken>>
      BY <2>5, <3>1 DEF CommentWritten, Moves, Advance
    <3>3. CASE u.at = "create"
      <4>1. comments' = [comments EXCEPT ![u.job] = @ + 1]
        BY <2>5, <3>3 DEF CommentWritten
      <4> HIDE DEF x
      <4> QED BY <1>0, <1>1, <3>1, <3>2, <3>3, <4>1, CreateOnce
    <3>4. CASE u.at = "update"
      <4>1. UNCHANGED ghVars
        BY <1>0, <2>5, <3>2, <3>4 DEF CommentWritten, ghVars
      <4> HIDE DEF x
      <4> QED BY <1>0, <3>1, <3>2, <4>1, MoveOnce
    <3> QED BY <2>5, <3>3, <3>4 DEF CommentWritten
  <2>6. CASE \/ RecordSuccess(u) \/ AttemptDropped(u)
             \/ \E permanent \in BOOLEAN : AttemptFails(u, permanent)
    <3>1. tasks' = tasks \ {u} /\ UNCHANGED ghVars
      BY <2>6 DEF RecordSuccess, AttemptDropped, AttemptFails, RecordFailure
    <3> QED BY <1>0, <3>1, EndOfAttemptOnce
  <2>7. CASE CreateUnanswered(u)
    <3>1. u.at = "create" /\ tasks' = tasks \ {u} /\ UNCHANGED overtaken
      BY <2>7 DEF CreateUnanswered, RecordFailure
    <3>2. \/ comments' = [comments EXCEPT ![u.job] = @ + 1] /\ UNCHANGED inflight
          \/ inflight' = [inflight EXCEPT ![u.job] = @ + 1] /\ UNCHANGED comments
      BY <2>7 DEF CreateUnanswered
    <3> QED BY <1>0, <1>1, <3>1, <3>2, CreateOnce
  <2> QED BY <2>1, <2>2, <2>3, <2>4, <2>5, <2>6, <2>7 DEF TaskStep
<1> QED BY <1>2, <1>3 DEF OnceInv

\* Each awaited create request leaves a comment, a travelling request or nothing.
LEMMA EndLoad ==
  ASSUME TypeInv, TypeInv', ProcessEnds, NEW j \in Jobs
  PROVE  /\ comments'[j] + inflight'[j] <= Load(j)
         /\ comments'[j] >= comments[j] /\ inflight'[j] >= inflight[j]
<1>1. PICK applied \in SUBSET Unanswered : \E travelling \in SUBSET (Unanswered \ applied) :
        /\ comments' = [k \in Jobs |->
             comments[k] + Cardinality({t \in applied : t.job = k})]
        /\ inflight' = [k \in Jobs |->
             inflight[k] + Cardinality({t \in travelling : t.job = k})]
  BY DEF ProcessEnds
<1>2. PICK travelling \in SUBSET (Unanswered \ applied) :
        /\ comments' = [k \in Jobs |->
             comments[k] + Cardinality({t \in applied : t.job = k})]
        /\ inflight' = [k \in Jobs |->
             inflight[k] + Cardinality({t \in travelling : t.job = k})]
  BY <1>1
<1> DEFINE A == {t \in applied : t.job = j}
           B == {t \in travelling : t.job = j}
<1>3. comments'[j] = comments[j] + Cardinality(A)
  BY <1>2
<1>4. inflight'[j] = inflight[j] + Cardinality(B)
  BY <1>2
<1>5. A \subseteq Creators(j) /\ B \subseteq Creators(j) /\ A \cap B = {}
  BY DEF Unanswered, Creators
<1> HIDE DEF A, B
<1>6. IsFiniteSet(A) /\ IsFiniteSet(B) /\ Cardinality(A) \in Nat /\ Cardinality(B) \in Nat
  BY <1>5, LoadTyped, FS_Subset, FS_CardinalityType
<1>7. Cardinality(A \cup B) = Cardinality(A) + Cardinality(B)
  <2>1. Cardinality(A \cup B) = Cardinality(A) + Cardinality(B) - Cardinality(A \cap B)
    BY <1>6, FS_Union
  <2>2. Cardinality(A \cap B) = 0
    BY <1>5, FS_EmptySet
  <2> QED BY <1>6, <2>1, <2>2
<1>8. Cardinality(A \cup B) <= Cardinality(Creators(j))
  BY <1>5, LoadTyped, FS_Subset
<1> QED BY <1>3, <1>4, <1>6, <1>7, <1>8, LoadTyped DEF Load

LEMMA EndOnce ==
  ASSUME TypeInv, TypeInv', OnceInv, ProcessEnds
  PROVE  OnceInv'
<1>0. tasks' = {} /\ UNCHANGED <<elapsed, overtaken>>
  BY DEF ProcessEnds, storeVars, outboxVars
<1> SUFFICES ASSUME NEW j \in Jobs PROVE Balanced(j)'
  BY DEF OnceInv
<1>1. Load(j)' = comments'[j] + inflight'[j]
  <2>1. Creators(j)' = {}
    BY <1>0 DEF Creators
  <2>2. Cardinality(Creators(j)') = 0
    BY <2>1, FS_EmptySet
  <2> QED BY <2>2, LoadTypedNext DEF Load
<1>2. Load(j)' <= Load(j)
  BY <1>1, EndLoad
<1>3. Exposed(j) => Exposed(j)' \/ Load(j)' = 0
  BY <1>0, <1>1, EndLoad, LoadTyped, LoadTypedNext DEF Exposed
<1>4. CASE Exposed(j) => Exposed(j)'
  BY <1>0, <1>2, <1>4, Lighter DEF OnceInv
<1>5. CASE Load(j)' = 0
  BY <1>0, <1>5, LoadTyped DEF Balanced
<1> QED BY <1>3, <1>4, <1>5

LEMMA GitHubStepOnce ==
  ASSUME TypeInv, TypeInv', OnceInv, NEW j \in Jobs, GitHubStep(j)
  PROVE  OnceInv'
<1>0. /\ UNCHANGED <<gen, elapsed, tasks, overtaken>> /\ inflight[j] > 0
      /\ comments \in [Jobs -> Nat] /\ inflight \in [Jobs -> Nat]
  BY DEF GitHubStep, LateCreateLands, LateCreateLost, storeVars, outboxVars, TypeInv, TypeOK
<1>1. ASSUME NEW k \in Jobs \ {j} PROVE Balanced(k)'
  <2>1. comments'[k] = comments[k] /\ inflight'[k] = inflight[k]
    BY <1>0 DEF GitHubStep, LateCreateLands, LateCreateLost
  <2> QED BY <1>0, <2>1, QuietRow DEF OnceInv
<1>2. inflight'[j] = inflight[j] - 1
  BY <1>0 DEF GitHubStep, LateCreateLands, LateCreateLost
<1>3. Balanced(j)'
  <2>1. CASE comments'[j] = comments[j] + 1
    <3>1. Creators(j)' \subseteq Creators(j)
      BY <1>0, <2>1, LoadTyped DEF Creators
    <3>2. Cardinality(Creators(j)') <= Cardinality(Creators(j))
      BY <3>1, LoadTyped, FS_Subset
    <3>3. Load(j)' <= Load(j)
      BY <1>2, <2>1, <3>2, LoadTyped, LoadTypedNext DEF Load
    <3>4. Exposed(j)'
      BY <2>1, LoadTyped DEF Exposed
    <3> QED BY <1>0, <3>3, <3>4, Lighter DEF OnceInv
  <2>2. CASE comments'[j] = comments[j]
    <3>1. Creators(j)' = Creators(j)
      BY <1>0, <2>2 DEF Creators
    <3>2. Load(j)' < Load(j)
      BY <1>2, <2>2, <3>1, LoadTyped, LoadTypedNext DEF Load
    <3>3. Load(j)' <= Load(j)
      BY <3>2, LoadTyped, LoadTypedNext DEF Load
    <3> QED BY <1>0, <3>2, <3>3, Lighter DEF OnceInv
  <2>3. comments'[j] = comments[j] + 1 \/ comments'[j] = comments[j]
    BY <1>0 DEF GitHubStep, LateCreateLands, LateCreateLost
  <2> QED BY <2>1, <2>2, <2>3
<1> QED BY <1>1, <1>3 DEF OnceInv

\* A deadline that ends the protection of a row is counted.
LEMMA DeadlineOnce ==
  ASSUME TypeInv, TypeInv', OnceInv, NEW j \in Jobs, DeadlineRunsOut(j)
  PROVE  OnceInv'
<1>0. /\ UNCHANGED <<gen, tasks, comments, inflight>>
      /\ \A k \in Jobs \ {j} : elapsed'[k] = elapsed[k] /\ overtaken'[k] = overtaken[k]
      /\ overtaken'[j] = IF Holders(j) # {} \/ inflight[j] > 0
                          THEN overtaken[j] + 1 ELSE overtaken[j]
  BY DEF DeadlineRunsOut, DeadlinePasses, TypeInv, TypeOK, StoreTypeOK
<1>1. ASSUME NEW k \in Jobs \ {j} PROVE Balanced(k)'
  BY <1>0, QuietRow DEF OnceInv
<1>2. Balanced(j)'
  <2>1. Load(j)' = Load(j)
    BY <1>0 DEF Load, Creators
  <2>2. CASE Holders(j) # {} \/ inflight[j] > 0
    <3>1. Load(j)' <= overtaken'[j]
      BY <1>0, <2>1, <2>2 DEF OnceInv, Balanced
    <3>2. Load(j) \in Nat /\ overtaken'[j] \in Nat
      BY LoadTyped, LoadTypedNext DEF Load
    <3> HIDE DEF Load
    <3> QED BY <2>1, <3>1, <3>2 DEF Balanced
  <2>3. CASE ~(Holders(j) # {} \/ inflight[j] > 0)
    <3>1. overtaken'[j] = overtaken[j]
      BY <1>0, <2>3
    <3>2. Exposed(j) => Exposed(j)'
      BY <1>0, <2>3 DEF Exposed
    <3>3. Load(j)' <= Load(j)
      BY <2>1, LoadTyped DEF Load
    <3> QED BY <3>1, <3>2, <3>3, Lighter DEF OnceInv
  <2> QED BY <2>2, <2>3
<1> QED BY <1>1, <1>2 DEF OnceInv

LEMMA NextOnce ==
  ASSUME TypeInv, TypeInv', FenceInv, PostInv, OnceInv, [Next]_vars
  PROVE  OnceInv'
<1>1. ASSUME NEW w \in Workers, PollOnce(w) PROVE OnceInv'
  BY <1>1, PollOnceOnce
<1>2. ASSUME NEW t \in tasks, TaskStep(t) PROVE OnceInv'
  BY <1>2, TaskStepOnce
<1>3. CASE Crash \/ Exit
  BY <1>3, EndOnce DEF Crash, Exit
<1>4. ASSUME NEW j \in Jobs, GitHubStep(j) PROVE OnceInv'
  BY <1>4, GitHubStepOnce
<1>5. ASSUME NEW j \in Jobs, DeadlineRunsOut(j) PROVE OnceInv'
  BY <1>5, DeadlineOnce
<1>6. ASSUME NEW j \in Jobs, PersistReport(j) PROVE OnceInv'
  <2>1. UNCHANGED <<gen, tasks, comments, inflight, overtaken>>
    BY <1>6 DEF PersistReport, PersistReportAndEnqueuePublish, ghVars, outboxVars
  <2>2. \A k \in Jobs : elapsed'[k] = elapsed[k] \/ outbox[k] = "none"
    <3>1. elapsed \in [Jobs -> BOOLEAN]
      BY DEF TypeInv, TypeOK, StoreTypeOK
    <3>2. \/ elapsed' = elapsed
          \/ elapsed' = [elapsed EXCEPT ![j] = IF outbox[j] = "none" THEN TRUE ELSE @]
      BY <1>6 DEF PersistReport, PersistReportAndEnqueuePublish, outboxVars
    <3> QED BY <3>1, <3>2
  <2> SUFFICES ASSUME NEW k \in Jobs PROVE Balanced(k)'
    BY DEF OnceInv
  <2>3. CASE elapsed'[k] = elapsed[k]
    BY <2>1, <2>3, QuietRow DEF OnceInv
  <2>4. CASE outbox[k] = "none"
    <3>1. comments[k] = 0 /\ inflight[k] = 0
      BY <2>4, LoadTyped DEF PostInv
    <3>2. Creators(k) = {} /\ Creators(k)' = {}
      BY <2>1, <2>4 DEF FenceInv, Creators
    <3>3. Cardinality(Creators(k)') = 0
      BY <3>2, FS_EmptySet
    <3>4. Load(k)' = 0
      BY <2>1, <3>1, <3>3 DEF Load
    <3> QED BY <3>4, LoadTypedNext DEF Balanced
  <2> QED BY <2>2, <2>3, <2>4
<1>7. CASE \/ \E j \in Jobs, mode \in Modes, requested \in Policies, tick \in Ticks :
                SubmitJob(j, mode, requested, tick)
           \/ \E j \in Jobs : CancelJob(j)
           \/ ClaimBatch \/ BeginShutdown \/ GraceExpires \/ Boot
           \/ \E j \in Jobs : ReviewStep(j) /\ ~PersistReport(j)
           \/ UNCHANGED vars
  <2>1. UNCHANGED <<gen, elapsed, tasks, comments, inflight, overtaken>>
    BY <1>7 DEF SubmitJob, Enqueue, CancelJob, UpdateStatusCancelled, ClaimBatch,
       ClaimNextQueued, BeginShutdown, GraceExpires, Boot, FailInterruptedRunningJobs,
       ReviewStep, RegisterRun, CompleteRun, CancelledRun, RejectedRun, EndRun, MarkFailed,
       storeVars, outboxVars, ghVars, vars
  <2> QED BY <2>1, QuietRow DEF OnceInv
<1> QED BY <1>1, <1>2, <1>3, <1>4, <1>5, <1>6, <1>7 DEF Next

LEMMA InitOnce == Init => OnceInv
<1> SUFFICES ASSUME Init, NEW j \in Jobs PROVE Balanced(j)
  BY DEF OnceInv
<1>1. Creators(j) = {}
  BY DEF Init, Creators
<1>2. Load(j) = 0 /\ overtaken[j] = 0
  BY <1>1, FS_EmptySet DEF Init, Load
<1> QED BY <1>2 DEF Balanced

\* One comment per job through lost answers, crashes, restarts and retries,
\* and no more than one further comment for each deadline of the row that
\* passed under an attempt or before GitHub had acted on its requests.
THEOREM CommentsAccountedHolds == Spec => []CommentsAccounted
<1>1. TypeInv /\ OnceInv => CommentsAccounted
  <2> SUFFICES ASSUME TypeInv, OnceInv, NEW j \in Jobs
               PROVE  comments[j] + inflight[j] <= 1 + overtaken[j]
    BY DEF CommentsAccounted
  <2> QED BY LoadTyped DEF OnceInv, Balanced, Load
<1>2. TypeInv /\ TypeInv' /\ FenceInv /\ PostInv /\ OnceInv /\ [Next]_vars => OnceInv'
  BY NextOnce
<1> QED
  BY <1>1, <1>2, InitOnce, TypeCorrect, Fencing, Posting, PTL DEF Spec

-----------------------------------------------------------------------------
(* ReviewPipeline implements ReviewContract, and what is final stays so.   *)

\* What one step does to the columns of one job, as far as its stage goes.
RowStep(j) ==
  \/ job'[j] = job[j] /\ policy'[j] = policy[j] /\ outbox'[j] = outbox[j]
  \/ job[j] = "absent" /\ job'[j] = "queued"
  \/ /\ policy'[j] = policy[j]
     /\ \/ /\ outbox'[j] = outbox[j]
           /\ \/ job[j] \in {"queued", "running"} /\ job'[j] \in {"running", "cancelled"}
              \/ job[j] \in {"running", "failed", "publish_failed"} /\ job'[j] = "failed"
              \/ job[j] = "running" /\ job'[j] = "succeeded" /\ policy[j] = "disabled"
        \/ job[j] \in {"running", "awaiting_publish"} /\ job'[j] = "awaiting_publish"
        \/ job[j] \in {"awaiting_publish", "publishing"} /\ job'[j] = "publishing"
        \/ /\ job[j] = "publishing"
           /\ \/ job'[j] = "succeeded" /\ outbox'[j] = "published"
              \/ job'[j] = "awaiting_publish" /\ outbox'[j] = "retrying"
              \/ job'[j] = "publish_failed" /\ outbox'[j] = "failed"

LEMMA SettleRow ==
  ASSUME StoreTypeOK, NEW j \in Jobs, NEW k \in Jobs, NEW w, NEW g,
         \/ MarkPublishOutboxSuccess(k, w, g)
         \/ MarkPublishOutboxRetry(k, w, g)
         \/ MarkPublishOutboxFailed(k, w, g)
  PROVE  RowStep(j)
BY DEF MarkPublishOutboxSuccess, MarkPublishOutboxRetry, MarkPublishOutboxFailed,
   SettleLease, HoldsLease, RowStep, StoreTypeOK, storeVars, outboxVars

LEMMA StoreNextRow ==
  ASSUME TypeInv, StoreInv, RunInv, StoreNext, NEW j \in Jobs
  PROVE  RowStep(j)
<1>0. StoreTypeOK /\ \A t \in tasks : t.job \in Jobs
  BY DEF TypeInv, TypeOK, Task
<1> USE <1>0 DEF StoreTypeOK
<1>1. ASSUME NEW k \in Jobs, NEW mode \in AccessModes, NEW requested \in Policies,
             NEW tick \in Ticks, Enqueue(k, mode, requested, tick)
      PROVE  RowStep(j)
  BY <1>1 DEF Enqueue, RowStep, outboxVars
<1>2. ASSUME NEW k \in Jobs, PersistReportAndEnqueuePublish(k) PROVE RowStep(j)
  <2>1. policy[j] = "disabled" => job[j] # "awaiting_publish"
    BY DEF StoreInv, JobMatchesOutbox, OnlyPublishable, Policies
  <2> QED BY <1>2, <2>1, PersistRow DEF RowStep
<1>3. CASE \/ \E k \in Jobs : job[k] \in {"queued", "running"} /\ UpdateStatusCancelled(k)
           \/ \E S \in SUBSET Jobs : ClaimNextQueued(ReviewConcurrency, S)
           \/ FailInterruptedRunningJobs
           \/ \E k \in Jobs : DeadlinePasses(k)
           \/ UNCHANGED storeVars
  BY <1>3 DEF UpdateStatusCancelled, ClaimNextQueued, OldestQueued, Queued,
     FailInterruptedRunningJobs, DeadlinePasses, RowStep, storeVars, outboxVars
<1>4. ASSUME NEW k \in Jobs, run[k] # "none", job[k] \notin KeptOnRejection, MarkFailed(k)
      PROVE  RowStep(j)
  <2>1. job[k] \in {"running", "failed", "publish_failed"}
    BY <1>4 DEF RunInv, KeptOnRejection, JobStatuses
  <2> QED BY <1>4, <2>1 DEF MarkFailed, RowStep, outboxVars
<1>5. ASSUME NEW w \in Workers, NEW n \in Nat, NEW S \in SUBSET Jobs,
             ClaimPublishOutboxItem(w, n, S)
      PROVE  RowStep(j)
  BY <1>5 DEF ClaimPublishOutboxItem, ClaimableJobs, Claimable, RowStep
<1>6. CASE \E t \in tasks : \/ MarkPublishOutboxSuccess(t.job, t.worker, t.gen)
                            \/ MarkPublishOutboxRetry(t.job, t.worker, t.gen)
                            \/ MarkPublishOutboxFailed(t.job, t.worker, t.gen)
  BY <1>6, SettleRow
<1> QED BY <1>1, <1>2, <1>3, <1>4, <1>5, <1>6 DEF StoreNext

\* succeeded, cancelled and failed are final; publish_failed can only become
\* failed: for any number of jobs, workers, crashes and late rejections.
THEOREM TerminalStatusHolds == Spec => TerminalStatusIsFinal
<1>1. ASSUME TypeInv, StoreInv, RunInv, [Next]_vars, NEW j \in Jobs
      PROVE  /\ job[j] \in {"succeeded", "cancelled", "failed"} => job'[j] = job[j]
             /\ job[j] = "publish_failed" => job'[j] \in {"publish_failed", "failed"}
  <2>1. RowStep(j)
    BY <1>1, StoreSteps, StoreNextRow DEF TypeInv
  <2> QED BY <2>1 DEF RowStep
<1>2. TypeInv /\ StoreInv /\ RunInv /\ [Next]_vars =>
        [\A j \in Jobs :
           /\ job[j] \in {"succeeded", "cancelled", "failed"} => job'[j] = job[j]
           /\ job[j] = "publish_failed" => job'[j] \in {"publish_failed", "failed"}]_vars
  BY <1>1
<1> QED
  BY <1>2, TypeCorrect, StoreConsistent, RunConsistent, PTL
     DEF Spec, TerminalStatusIsFinal

-----------------------------------------------------------------------------
(* The refinement.                                                          *)

LEMMA StageTyped ==
  ASSUME StoreTypeOK, NEW j \in Jobs
  PROVE  StageOf(j) \in Contract!Stages
BY DEF StoreTypeOK, JobStatuses, StageOf, Contract!Stages

LEMMA RowStage ==
  ASSUME TypeInv, StoreInv, StoreInv', NEW j \in Jobs, RowStep(j)
  PROVE  \/ StageOf(j)' = StageOf(j)
         \/ <<StageOf(j), StageOf(j)'>> \in Contract!Moves
<1>0. job[j] \in JobStatuses /\ policy[j] \in Policies
  BY DEF TypeInv, TypeOK, StoreTypeOK
<1>1. /\ job[j] \in {"queued", "running"} => outbox[j] = "none"
      /\ job[j] = "publish_failed" => outbox[j] = "failed"
  BY DEF StoreInv, JobMatchesOutbox, TypeInv, TypeOK, StoreTypeOK, OutboxStates
<1>2. outbox'[j] = "published" => policy'[j] = "github_comment"
  BY DEF StoreInv, JobMatchesOutbox
<1> QED BY <1>0, <1>1, <1>2 DEF RowStep, StageOf, Contract!Moves, JobStatuses, Policies

\* Delivered and published are the same.
LEMMA DeliveredIsPublished ==
  ASSUME StoreTypeOK, StoreInv, NEW j \in Jobs
  PROVE  StageOf(j) = "delivered" <=> outbox[j] = "published"
BY DEF StoreTypeOK, StoreInv, JobMatchesOutbox, OnlyPublishable, StageOf, JobStatuses, Policies

\* A row exists only from the stage delivering on.
LEMMA RowMeansDelivering ==
  ASSUME StoreTypeOK, StoreInv, NEW j \in Jobs, outbox[j] # "none"
  PROVE  StageOf(j) \in {"delivering", "delivered", "undeliverable"}
BY DEF StoreTypeOK, StoreInv, JobMatchesOutbox, OnlyPublishable, StageOf, JobStatuses,
   OutboxStates, Policies

LEMMA ContractStep ==
  ASSUME TypeInv, TypeInv', StoreInv, StoreInv', RunInv, FenceInv, PostInv, [Next]_vars
  PROVE  Contract!ContractNext
<1>0. StoreTypeOK /\ StoreTypeOK'
  BY DEF TypeInv, TypeOK
<1>1. \A j \in Jobs : StageOf(j)' \in Contract!Stages
  BY <1>0 DEF StoreTypeOK, JobStatuses, StageOf, Contract!Stages
<1>2. \A j \in Jobs : \/ StageOf(j)' = StageOf(j)
                      \/ <<StageOf(j), StageOf(j)'>> \in Contract!Moves
  BY StoreSteps, StoreNextRow, RowStage DEF TypeInv
<1>3. ASSUME NEW j \in Jobs, StageOf(j)' = "delivered", StageOf(j) # "delivered"
      PROVE  comments[j] > 0
  <2>1. outbox'[j] = "published"
    BY <1>0, <1>3 DEF StoreTypeOK, StoreInv, JobMatchesOutbox, OnlyPublishable, StageOf,
       JobStatuses, Policies
  <2>2. outbox[j] # "published"
    BY <1>0, <1>3, DeliveredIsPublished
  <2> QED BY <2>1, <2>2, NewlyPublished
<1>4. \A j \in Jobs : /\ comments[j] \in Nat /\ comments'[j] \in Nat
                      /\ inflight[j] \in Nat /\ inflight'[j] \in Nat
  BY DEF TypeInv, TypeOK
<1>5. ASSUME NEW j \in Jobs, ~(comments[j] > 0), comments'[j] > 0
      PROVE  StageOf(j) \in {"delivering", "delivered", "undeliverable"}
  <2>1. outbox[j] # "none"
    BY <1>4, <1>5, CommentsGrow DEF PostInv, FenceInv
  <2> QED BY <1>0, <2>1, RowMeansDelivering
<1>6. \A j \in Jobs : comments[j] > 0 => comments'[j] > 0
  BY <1>4, CommentsGrow
<1> DEFINE s == [j \in Jobs |-> StageOf(j)]
           p == [j \in Jobs |-> comments[j] > 0]
<1>7. s' \in [Jobs -> Contract!Stages] /\ p' \in [Jobs -> BOOLEAN]
  BY <1>1
<1>8. ASSUME NEW j \in Jobs
      PROVE  /\ \/ s'[j] = s[j]
                \/ /\ <<s[j], s'[j]>> \in Contract!Moves
                   /\ s'[j] = "delivered" => p[j]
             /\ \/ p'[j] = p[j]
                \/ p'[j] /\ s[j] \in {"delivering", "delivered", "undeliverable"}
  <2>1. s[j] = StageOf(j) /\ s'[j] = StageOf(j)'
    OBVIOUS
  <2>2. p[j] = (comments[j] > 0) /\ p'[j] = (comments'[j] > 0)
    OBVIOUS
  <2> HIDE DEF s, p
  <2>3. s'[j] = s[j] \/ <<s[j], s'[j]>> \in Contract!Moves
    BY <1>2, <2>1
  <2>4. s'[j] = s[j] \/ (s'[j] = "delivered" => p[j])
    BY <1>3, <2>1, <2>2
  <2>5. p'[j] \/ ~p[j]
    BY <1>6, <2>2
  <2>6. p[j] \/ ~p'[j] \/ s[j] \in {"delivering", "delivered", "undeliverable"}
    BY <1>5, <2>1, <2>2
  <2>7. p[j] \in BOOLEAN /\ p'[j] \in BOOLEAN
    BY <2>2
  <2>8. (p[j] <=> p'[j]) => p'[j] = p[j]
    BY <2>7
  <2> QED BY <2>3, <2>4, <2>5, <2>6, <2>8
<1> QED
  BY <1>7, <1>8 DEF Contract!ContractNext, Contract!Move, Contract!Publication

LEMMA ContractStart == Init => Contract!ContractInit
<1> SUFFICES ASSUME Init PROVE Contract!ContractInit
  OBVIOUS
<1>1. \A j \in Jobs : StageOf(j) = "absent" /\ ~(comments[j] > 0)
  BY DEF Init, StoreInit, StageOf
<1>2. \A j \in Jobs : (comments[j] > 0) = FALSE
  BY <1>1
<1> QED BY <1>1, <1>2 DEF Contract!ContractInit

\* For every number of jobs and workers: each job goes through the stages of
\* ReviewContract, is delivered only with its comment on GitHub, and no
\* comment appears for a job that was closed or analysed only.
THEOREM PipelineImplementsContract == Spec => ImplementsContract
<1>1. /\ TypeInv /\ TypeInv' /\ StoreInv /\ StoreInv' /\ RunInv /\ FenceInv /\ PostInv
      /\ [Next]_vars
      => [Contract!ContractNext]_(Contract!contractVars)
  BY ContractStep
<1> QED
  BY <1>1, ContractStart, TypeCorrect, StoreConsistent, RunConsistent, Fencing, Posting, PTL
     DEF Spec, ImplementsContract, Contract!ContractSpec
=============================================================================
