# A TLA+ specification of ConsistenCy

ConsistenCy reviews pull requests and local changes: a daemon (`apps/api`) takes jobs
over HTTP or from webhooks, runs agents over a repository snapshot inside a small
"kernel" (`packages/kernel`), stores a report in SQLite and posts it as a GitHub
comment. Around that core it has a workflow runtime with approvals, scheduled audits,
a repository supervisor and a Python evidence engine.

This directory holds TLA+ models of the parts of that system whose correctness is a
matter of order, failure and shared state, the TLC configurations that check them on
small instances, and proofs, checked by TLAPS, of the safety properties for instances of
any size. `PROJECT.json` maps every definition to the lines it models.

- [The system](#the-system): inventory of the components and what makes each correct
- [Modules](#modules): which module models what, and how
- [Runs](#runs): what TLC checks, the bounds, the fairness
- [Proofs](#proofs): what is proved, and along which argument
- [Where code and text disagree](#where-code-and-text-disagree)
- [Limits](#limits): only model-checked, not modelled, and why
- [Plan](#plan)

## The system

One Node.js process holds everything except the evidence engine and sandboxed plugins,
which are child processes. SQLite calls are synchronous, so a database transaction, and
more generally the code between two `await`s, is atomic with respect to the rest of the
process; what can go wrong happens across `await`s, timers, process death and the
network.

| Component | State it keeps | Operations | Talks to | Correct when |
|---|---|---|---|---|
| **Review jobs** `apps/api/src/jobs`, `review/jobCancel.ts`, `review/runtimeRegistry.ts`, `server.ts` | tables `jobs`, `reports`; the registry of live runs | submit, claim a batch, persist report, reject, cancel, shutdown, boot recovery | publish outbox (same transaction), workload | terminal statuses stay; no row is left `running`; every job ends; FIFO |
| **Publish outbox** `apps/api/src/publish`, `jobs/sqliteJobStore.ts` | table `publish_outbox` with lease owner and generation; attempts in memory | claim, search the marker, create or update, mark success, retry or failed | GitHub, `jobs`, `reports` | one holder per row; the three tables agree; one comment unless a deadline overtakes its request; bounded retries; every publication ends |
| **Kernel scheduler** `packages/kernel/src/scheduler`, `agent`, `run` | run and agent registries, ready queue, slot count, cancel causes | register, activate, ready, admit, wait, wake, suspend, resume, succeed, fail, cancel (agent, tree, run) | `SchedulerAgentBridge` and the workload call it and listen | slots accounted for; a cancelled run is dead; no late admission; FIFO among equals |
| **Completion sink** `apps/api/src/completion`, `workflow-runtime/host.ts` (terminal write) | table `completion_outbox`; the drain in flight | record notice, flush, deliver, retry, stop, replay at boot | HTTP or command receiver, workflow host, server | no notice stranded; one drain at a time; bounded requests; quiet after stop |
| **Capability broker, budgets, syscall gateway** `packages/kernel/src/capability`, `budget`, `syscall` | capability records, used amounts, reservations | issue, revoke, authorise, commit, release, settle at cancel | agents' facades, sandbox, commit coordinator | the ledger is what ran; a limit is passed only by the calls in flight |
| **Commit coordinator** `packages/kernel/src/commit` | receipts and promises in flight by idempotency key | accept | broker, durable sink (the outbox) | one durable intent per key, retry after failure |
| **Workflow runtime** `apps/api/src/workflow-runtime` | runs, steps, approvals, checkpoints, events, plan revisions, trigger plans | start, step, wait for approval, decide, resume, recover at boot, trigger | LLM, workspace, completion sink | one continuation per approval; terminal states stay; an interrupted run is not run twice |
| **Audit and schedule** `apps/api/src/audit` | automations, schedule state and windows, planning receipts, audit runs | tick, plan, complete window, queue, execute, transition | planner, workflow, supervisor events | a window keeps the draft planned for it; a draft is launched once and ends as its workflow run did; due windows are answered |
| **Repository supervisor** `apps/api/src/heartbeat` | per repository: state, pulse, pending change, dedupe keys, lifecycle number | scan, observe, debounce, flush, reconfigure | git probe, audit planner, trigger planner and executor | what counts as reported is planned; one run per binding and key; a change that stays is answered |
| **Sandbox** `packages/kernel/src/sandbox` | session state, pending requests, child process | start, invoke, syscall back, crash, time out, terminate | gateway | every request answered once; nothing after termination |
| **Context memory, evidence** `packages/kernel/src/context`, `evidence` | pages, images, residency | create, fork, attach, evict, checkpoint, restore | workload | immutable pages shared copy-on-write; restore all or nothing |
| **Workload and bridge** `packages/workload-review`, `packages/harness-core` | agents of one review, issued handles | run agents, cancel, synthesise | scheduler, broker, LLM | a cancelled review does not succeed |
| **HTTP API, webhook intake, LLM transport, GitHub client, configuration, diagnostics, notebook, catalog, CLI, desktop, schema, evaluation, Python engine** | mostly none of their own, or caches | I/O, validation, reports, batch computation | | input and output; a few pure algorithms |

The behaviours that are hard, in the order in which they were judged worth modelling:

1. a review that is cancelled, shut down or crashes while it hands its report over, and
   a publication whose lease lapses, whose answer is lost or whose process dies around
   the one call that cannot be undone;
2. agents that leave the run state in seven ways while their run, their parent or their
   deadline cancels them;
3. notices recorded while a drain is ending, a receiver that fails, a store that
   throws, a stop that must be final;
4. the approval of a waiting workflow against cancellation, expiry, restart;
5. budget settlement at cancellation while calls are in flight, and retried commits;
6. schedule windows against crashes, and repository changes against restarts.

## Modules

| Module | What it is | Source |
|---|---|---|
| `JobStore` | the tables `jobs`, `reports`, `publish_outbox` and the transactions on them | `jobs/sqliteJobStore.ts` |
| `ReviewPipeline` | EXTENDS `JobStore`: review worker, cancel endpoint, publish workers, GitHub, shutdown, crash and boot | `jobs/worker.ts`, `review/jobCancel.ts`, `publish/worker.ts`, `publish/githubPublisher.ts`, `server.ts` |
| `ReviewContract` | the abstract specification `ReviewPipeline` implements | |
| `KernelScheduler` | the scheduler with its run and agent registries | `packages/kernel/src/scheduler`, `agent`, `run` |
| `CompletionSink` | completion outbox, drains, startup replay, terminal write of the host | `completion/sink.ts`, `completion/store.ts`, `workflow-runtime/host.ts`, `server.ts` |
| `WorkflowRun` | runs of one workflow definition: executor legs, human gates, interruption, boot scan, continue | `workflow-runtime/host.ts`, `executor.ts`, `store.ts`, `checkpointStore.ts`, `eventStore.ts` |
| `RunContract` | the abstract specification `WorkflowRun` implements | |
| `AuditRuns` | audit drafts and the executor that launches and mirrors them | `audit/store.ts`, `audit/executor.ts` |
| `AuditSchedule` | EXTENDS `AuditRuns`: the automation scheduler of one or more processes | `audit/scheduler.ts`, `audit/planner.ts`, `audit/store.ts` |
| `AuditContract` | the abstract specification `AuditSchedule` implements | |
| `RepositoryChanges` | supervisor, its sink, trigger planner and trigger executor | `heartbeat/repositorySupervisor.ts`, `workflow-runtime/triggers.ts`, `audit/store.ts` |
| `Capabilities` | broker, budget ledger, syscall gateway, commit coordinator | `packages/kernel/src/capability`, `budget`, `syscall`, `commit` |
| `MCReviewPipeline`, `MCKernelScheduler`, `MCWorkflowRun`, `MCAuditSchedule`, `MCCapabilities` | symmetry sets, workflow plans and a cron function for TLC | |
| `ReviewPipelineProofs`, `PublishProofs` | proofs about `ReviewPipeline` | |
| `SchedulerProofs`, `CompletionProofs`, `WorkflowProofs`, `AuditProofs`, `ChangesProofs`, `CapabilityProofs` | proofs about the other modules | |

A definition whose comment begins with "Mutant" is the definition below it with a
plausible bug. No specification uses one; `PROJECT.json` says which property breaks when
it takes the place of the original.

### Review pipeline

State: one variable per column that a statement reads or a property is about
(`job`, `access`, `policy`, `createdAt`, `report`, `outbox`, `attempts`, `gen`,
`owner`), all functions of the job; the process side is `phase` (up, draining, down),
`run` (how far the in-process execution of a job is), `signalled` (the run was told to
cancel) and `tasks`, the set of publish attempts in progress, each a record that carries
what `processClaimedItem` captured when it was called: the row, worker, generation and
attempt count. `comments` and `inflight` are GitHub as these calls can tell: comments
with the job's marker, and create requests whose caller gave up before GitHub acted.

Each transaction of the store is one action. Wall-clock columns are one Boolean per row,
`elapsed`: the deadline that governs the row in its present status (lease or backoff)
has passed. `DeadlineRunsOut` may set it at any moment. A lease outlasts the timeout of an
attempt (`leaseDuration > publishTimeout + safetyMargin` in `publish/worker.ts`), so one
that runs out under an attempt is a stall of the worker and counts as a fault. Nothing in
the code relates a lease or a backoff (1000*2^n ms after a create that was not answered,
`publish/worker.ts:275`) to the time a create request takes to have its effect at GitHub,
and nothing in the model does: the next attempt may search before that comment exists. The
history variable `overtaken` counts the deadlines of a row that passed while an attempt
of its current claim was in progress or a create request on its way. No guard reads it;
`CommentsAccounted` is stated over it.

A publish attempt is one action per awaited call: token, marker search, create or
update, settlement; each may fail for good or for now, be aborted by the timeout, meet a
401 and refresh its token, or be answered too late. `ProcessEnds` lets every create
request that was being awaited be applied, stay in flight or be lost.

`ReviewContract` is what a user may rely on: a job goes from open to closed, analysed or
delivering, and from there to delivered, which implies a comment, or to undeliverable;
a comment never appears for a job that has not reached delivering. `ReviewPipeline`
maps its nine statuses to those seven stages (`StageOf`) and implements it.

### Kernel scheduler

One action per public method, because every method is synchronous and the listeners
only enqueue work (`SchedulerAgentBridge`, `review/workloadRuntime.ts`). A method that
throws before changing anything is not enabled. The ready queue is a set `queued` and,
for each member, the members `ahead` of it: this keeps the order and makes insertion
and removal simple set expressions, also for the proofs. A cancel cause is the number of
its decision (`CANCEL_SEQUENCE`). `Admit` is the whole method: it cancels every overdue
agent, each by its own decision, and then admits at most one. The five `WAIT_*` states
are one.

### Completion sink

`run` is the durable state of a workflow run as far as the host's terminal write and
interrupted-run scan see it. `status`, `attempts`, `waiting` (rows whose
`next_attempt_at` is in the future), `created` and `corrupt` (rows that no longer parse)
are the table. A drain is an element of `Drains` with a `phase` and the `batch` it still
has to deliver, each row with the attempt count the drain read. `inFlight`, `joined` and
`woken` are the single-flight promise, the callers that wait for it, and the callers it
has released that have not yet run: the window between the last claim of a drain and
the moment `#inFlight` is cleared is a phase of its own (`ending`). Any store call may
throw (`MaxFaults`), the process may die anywhere (`MaxCrashes`), in particular between
the terminal write and the notice (`notifying`).

### Workflow runtime

Durable, each a function of the run: the row (`life`, `reason`), the step events
(`ledger`), the checkpoint (`header`, and for each step the event its row cites,
`cited`), the approval rows (`approval`, `expired`) and the run it continues (`pred`).
Volatile: `live` and `leg` (the local state of `executeWorkflowPlan`), `claimed`
(approved continuations that await the workspace) and `handler`, the request that is
between two of its writes. Every database write is a step of its own and may throw
(`MaxFaults`); the process may die between any two (`MaxCrashes`). The plan is chosen at
the start from `Plans` and fixed, as a pinned revision is.

A leg takes each step of the plan through `todo`, `intent` (step_started is durable),
`sent`, `done` (step_succeeded is durable, its result is not), `settled`; `retry` is a
failed attempt that has another. One action per write or awaited call: `SkipStep`,
`AskApproval`, `GateHolds`, `StartStep`, `Dispatch`, `Succeed`, `Degrade`, `FailStep`,
`SaveResult`, `FinishLeg`. Several steps are in flight up to `Width`, which is one for a
plan with a gate.

An approval is `Decide` (the row), `ClaimApproval` (the guarded update of the
lifecycle) and `ResumeApproved` (a new leg after the workspace was opened), or `Reject`.
After a crash, `Interrupt` and `MarkInterrupted` are the two transactions of the boot
scan for each run still `running`. The recovery plan is operators over the durable
state: `Outcome` is what the ledger says of a step, `Corresponds` whether its checkpoint
row agrees, `Blocks` whether it forbids a continue. `ContinueRun` claims the interrupted
run and `LaunchSuccessor` starts the run that restores its results. A payload is
abstracted to the fact that it exists, since recovery tells rows apart by the event they
cite only.

`RunContract` is what a user of the runtime may rely on, without legs, ledgers,
checkpoints or restarts: a run works, waits at most once and gets one verdict; it calls a
provider only while it works, for a gated step once and by its own consent; a failed run
has at most one successor, and that one pays for nothing its predecessor had paid for
until a human consents. The mapping keeps the rows a client sees: the stage is the
lifecycle state, the consents are the approved approval rows, the calls are those sent,
and `after` is `pred`. All the rest of `WorkflowRun` (every write of a leg, every
recovery step but the new run itself) is a stutter.

### Audit runs and schedule

Durable: `status` and `linked` of a row of `audit_runs`, `enabled` of the automation,
`next` (nextScheduledAt), and per instant the planning `receipt` and the recorded
`window`. Volatile: `exec`, where the executor's single-flight pass is, and `tick[s]`,
the evaluation of scheduler `s`. A workflow run launched for a row is its status, `wf`;
how it gets there is `WorkflowRun`'s business.

Every transaction is an action: `PlanScheduleRun` (receipt, draft), `CompleteWindow`
(window, next instant), `CreateAuditRunDraft`, `CancelAuditRun`, and the executor's
`Claim`, `Launch`, `Link`, `SettleFailed`. `Tick` is the reconcile pass at the head of a
tick, a loop of transactions without an await in between, each of which may throw; so is
`MirrorInFlight`. The scheduler is synchronous, the executor waits for `launch`: `Alive`
and `Executes` say which of the two the daemon's one thread is in. `Others` are further
processes over the same database, whose steps fall anywhere. `Boot` first lets the host
fail the workflow runs it finds interrupted and then reconciles, in the order `server.ts`
insists on. The cron expression is the constant function `NextOccurrence`.

`AuditContract` is the automation as its owner sees it: each instant of the schedule is
answered at most once, in order and for good (skipped, joined to a run that has not
ended, or given a run of its own), a row goes from pending to running to the verdict of
its workflow run or is cancelled or fails before that, and there is one workflow run at
most for it. The mapping takes the answer of an instant from its window or, while that
is not recorded, from its receipt: the second transaction of a window that has a draft is
a stutter, whoever commits it. `created` and `queued` are both pending, since no reader
is promised the difference.

### Repository changes

The `tree` is the user's and may change between the reads of one probe (`Probe` reads
head and diff in either order). `seen`, `pending` and `emitted` are
lastObservationDigest, pendingChange with its timer, and emittedDedupeKeys. A key, the
head with the configuration, is what an event is deduplicated by; here the configuration
is the set of enabled on_change bindings, and `SetBinding` is the write together with
the reconcile that the HTTP handler awaits. The sink is three writes in one synchronous
function, of which any may throw and after any of which the process may die:
`SaveRepositoryEvent`, `PlanAuditRuns`, `PlanTriggers`. `plan[<<k, b>>]` is the status of a
trigger plan, `exec` the one the executor has claimed; `Trigger` creates the run and
`CompleteTriggerPlan` records it. `Boot` fails what it finds claimed.

### Capabilities and commits

A call is one `SyscallGateway.invoke`: `InvokeGranted` decides and reserves,
`HandlerReturns` or `HandlerFails` commits or releases any time later. `Granted` is
`authorise`: the record lives, the request `fits` it (principal, action, resource and
scope; a free Boolean), and a budget has room. No caller of the gateway sets
`tokensToReserve`, so a reservation is one call and no tokens, and the ledger of a handle
is the set of calls in `reserved` with `usedCalls` and `usedTokens`. The run's side is
`SettleBudgetsOnCancel` and `RevokeIssued` over the handles it still holds. A submission
is one `CommitCoordinator.accept`: its promise is named after the submission that made
it, `inFlight` and `receipts` are the two maps, and the continuations after an await
(`OwnerResumes`, `SharerResumes`) are steps of their own in the order the promise queue
gives them. `peak` and `cut` are history variables for the properties.

## Runs

Distinct states as TLC reports them; each run takes less than two minutes on two workers.

| Run | Instance | Shows | States |
|---|---|---|---|
| `pipeline_jobs` | 2 jobs with known order, 1 review slot, 1 publish slot, 1 attempt, 1 fault, with fairness | two jobs competing for one slot: no running row is orphaned, and every job leaves the queue and its run, though the review before it may hang until it is cancelled or times out | 212,588 |
| `pipeline_stall` | 1 job, 2 publish slots, 2 attempts, 2 faults, with fairness | leases that lapse under running attempts, creates that land after a lease or a backoff: agreement of the tables, fencing, budget, nothing posted for analysis-only or cancelled jobs, no comment beyond the first without a deadline that overtook a request, refinement of `ReviewContract`; every publication ends | 156,022 |
| `scheduler` | 1 run, 3 agents in any tree, 2 priorities, a deadline, 1 slot, 1 tree cancel | slots, queue, cancelled runs, causes, admission, order | 2,067,142 |
| `scheduler_run_deadline` | 1 run, 1 agent, both with a deadline | finds an admission past the run's deadline | |
| `completion` | 2 runs, 2 drains, batch 2, 2 attempts, 1 crash, 1 throwing store call, 1 row that does not parse, with fairness | no notice stranded, one current batch, bounded requests, quiet after stop, every flush ends | 373,192 |
| `completion_notified` | as above, no fault | finds a terminal run without a notice | |
| `workflow_mixed` | 3 runs, one trigger, 3 steps, three plans (a gated model call; two gates; two branches with a condition), 2 tries, 1 crash, 2 throwing writes, with fairness | no call paid again by a continue, one call per approval, success is reusable, nothing abandoned, refinement of `RunContract`, every boot scan completes, every leg ends | 194,624 |
| `workflow_chain` | 3 runs, 2 crashes, no fault, one plan | finds a completed call billed twice | |
| `workflow_gate` | 1 run, no crash, no fault, a gate after a model call | finds a failed call sent again | |
| `audit` | 2 schedulers, 2 drafts (one of them manual), 1 window on a horizon of 3 instants, grace 2, 1 crash, 1 failing write, with fairness | window and receipt agree, one launch per draft, outcomes mirrored, refinement of `AuditContract`, due windows answered, drafts end | 127,968 |
| `changes` | 1 head, 2 diffs, 1 binding, 3 edits, 2 switches of the binding, 1 crash, 1 failing write, with fairness | what counts as emitted is planned, one run per key and binding, a change that stays is answered | 225,384 |
| `capability` | 3 calls, a budgeted handle (2 calls, 1 token) and a commit handle, usage up to 2 a call, 3 submissions of one key | the ledger is what ran, bounded overshoot, one intent per key, a failure frees its key | 888,370 |

**Bounds.** Two parties are enough for the races described: the fence needs one attempt
that stalls and one that claims anew, the single flight needs one drain that ends and one
that is wanted, order and cancellation need two agents in contention and a third to be
overtaken or to be a common child. Two attempts cover the first, the last and the one
in between being counted; two faults cover a crash during the recovery from another.
`pipeline_stall` reaches three comments for one job, and two of them without any fault.
`pipeline_jobs` needs one attempt only, as publication does not give a review its slot.
Three agents give all trees up to a chain or two siblings; that runs do not disturb each
other is left to the proofs, which have any number of them. For a
workflow, one continue relates two runs; two throwing writes are the least that reach
the failure of a failure's own write (`StartStep`, `FinishLeg`). `workflow_chain` needs a
third run because the result is lost between the second and the third; `workflow_mixed`, where one crash allows one
continue, leaves room for a third so that a second successor of one run would show. In `audit` the one
window can be planned in time, recovered late by the other scheduler, joined to a manual
draft, or skipped, and a second window would only repeat this: the ledger relates no two
instants except through `next`, and that they are answered in order is left to the
proof. In `changes` three edits let a tree change, change again
under the debounce and return; one head makes the torn read of a probe invisible, which
the proofs cover. In `capability` the third call meets a budget of two while the others
are in flight, are cut or have returned, and one unit of tokens makes the second call
overshoot; of three submissions one owns an attempt, one shares it and one retries. Keys
do not meet. Larger instances are the business of the proofs. Clocks go up to the
first tick past a deadline, which is all a comparison can tell. Deadlock checking is off
where the system may stop: once all jobs, agents or decisions are used up nothing need
happen. `completion` keeps it on. Symmetry is used only where no liveness is checked
(`scheduler`, `capability`).

**Fairness.** `ReviewPipeline!Fairness` is weak fairness of the poll loops (each re-arms
its timer), of boot and exit (a supervisor restarts the daemon), of each run and each
job's attempts (every provider and GitHub call has a timeout that aborts it), of
deadlines (clock) and of requests in flight at GitHub. Which of its ways a call ends in,
crashes, cancellations, and new jobs are not assumed. Attempts that end without being
counted are bounded by `MaxFaults`: without a bound the retry budget of the code does not
end a publication. `CompletionSink!Fairness` is weak fairness of what the event loop
owes: the steps of a drain (each request has a ten-second timeout), the synchronous
part of a notice and of startup, and the callers released by a drain. New runs, starts,
stops and the end of a backoff are not assumed. `WorkflowRun!FairSpec` is weak fairness
of the steps of each leg (its own promises drive it, and every model call has a timeout),
of the requests under way (`HostStep`) and of boot (`BootStep`: a supervisor restarts
the daemon). Triggers, decisions, expiry, continues and crashes are not assumed; a wait
for a human may last for ever.
`AuditSchedule!FairSpec` is weak fairness of boot and of the end of each workflow run,
and strong fairness of the executor and of the daemon's scheduler: both run on intervals
of one process, so each is disabled again and again while the other is in its pass.
Other schedulers, the clock and requests are not assumed. `RepositoryChanges!FairSpec` is
weak fairness of the reads of a probe, the sink and boot, and strong fairness of what
the poll interval, the debounce timer and the executor's interval start, since a probe,
a new change or the sink may come first; `ChangeIsAnswered` asks in turn that the tree
comes to rest and that no probe or write fails.

## Proofs

`tlapm` proves all obligations of eight modules. They hold for every set of jobs, workers,
runs, agents, drains, schedulers, bindings, calls and submissions, every workflow plan
(finite where rows, agents or steps are counted) and every value of the other constants
that the named assumptions
`StoreAssumption`, `PipelineAssumption`, `SchedulerAssumption`, `SinkAssumption`,
`WorkflowAssumption`, `AuditRunsAssumption`, `AuditScheduleAssumption`,
`RepositoryChangesAssumption` and `CapabilitiesAssumption` allow: thresholds are
positive, sentinels are not elements of the sets they complete, a plan is a record of
the right type, the next occurrence lies in the future. The type invariants are proved
and not listed among the runs' properties, as every other proof rests on them.

`ReviewPipelineProofs`. First, types: `TypeInv` is `TypeOK` with the set of attempts
finite, which makes the free slots of a worker a number. Then the tables: `StoreInv` is
`JobMatchesOutbox` and `ReportMatchesOutbox` together with the fact that only publishable
jobs have an outbox row. Neither of the two is inductive alone: a retry is right about
the report only because job and row agreed before it (together they are
`TablesAgree`). The processes act on the tables through a dozen operations only
(`StoreSteps`), and each operation touches single rows (`Agrees(j)`), so each is
examined once. `RunInv` relates executions to rows: a run that
is signalled, reported or gone cannot belong to a running row while the daemon is up;
hence `NoOrphanedRunningJob`.

`PublishProofs`. `FenceInv`: generations identify the attempts on a row, none is ahead of
the row, and the attempt of the current generation knows its owner and attempt count.
Two attempts that both hold the lease have the row's generation, so they are the same
(`SingleHolder`); an attempt with another generation finds the fence closed
(`StaleAttemptIsHarmless`). `FailuresBounded` is inductive given the fence, since the attempt
that settles a row has read the row's own count. `PostInv`: an attempt that updates, or
has a comment id in hand, has a comment to show, and nothing is posted without an outbox
row; hence `SuccessIsVisible` and `PublishesOnlyReports`. `ClaimInv` is an account: every
claim is paid for by a recorded failure or a fault, except the current one as long as its
attempt can still record its outcome; hence `ClaimsAccounted`, and with `FailuresBounded`
the `RetryBudget`.

In the same module, `OnceInv` keeps an account of each row. Its `Load` is what may come to
be seen at GitHub: the comments, the create requests on their way, and the attempts in
progress that may yet send one (those about to create, and all others as long as a search
would find nothing). The load is at most `overtaken`, and one more only for a row that is
`Exposed`: there is a comment to find, or its deadline has not passed and an attempt of
the current claim or a request is what it protects. A claim adds an attempt to the load
only where there is no comment and the deadline has passed, hence to a row that is not
exposed; a deadline that ends the exposure is one that `overtaken` counts. Hence
`CommentsAccounted`, for any number of faults and attempts.

`StoreNextRow` lists how a step can change the row of one job; each such
change moves the job's stage by one move of the contract or none, and comments appear
only where the contract lets them (`ContractStep`). Hence `PipelineImplementsContract`,
and `TerminalStatusIsFinal` from the same list.

`SchedulerProofs`. `SchedInv` joins types, queue and slot count, which depend on each
other: a slot is returned exactly when the agent was RUNNING, and an agent can be
admitted only from the queue, which holds exactly the READY agents. `MovesInv` adds that
an unregistered agent is nobody's child, so that the walk over a subtree asks only for
transitions the table has (`MovesFollowTable`). From these come `TerminalIsFinal`,
`CancelledRunIsDead`, `NoLateAdmission` and `NoOvertaking`. `CauseInv` gives
`CauseIsOneDecision`: a cause in use is the number of a past decision (`Allocated`), so a
new decision cannot share one by accident; what it cancels lies in one run or under one
agent; and subtrees only grow, since a parent is set once, so agents that were cancelled
together stay related for good. A sweep of deadlines takes one decision for each overdue
agent in turn.

`CompletionProofs`. `SinkInv` has the single flight at its centre (`OneFlight`: a drain is
active exactly while `#inFlight` names it), so nobody settles the rows another drain has
read (`BatchIsCurrent`), and a caller that finds `#inFlight` set joins a drain that has
yet to end (`Covered`, which is `NothingStranded` extended to the moments between a
terminal write and its notice). `Stopping` says that no drain starts after `stop()`.
`BudgetInv` accounts for requests: each is a recorded attempt, the delivery, the one under
way, or one whose outcome was lost; hence `RequestBudget` and `SettledForAReason`.

`WorkflowProofs` stacks its invariants. `TypeInv` adds to `TypeOK` that attempts stay
within their limit. `Lifecycle` ties the volatile side to the rows: a leg or a claim
belongs to a running run, a recovery marker and a successor to a run that has ended.
`Recorded` is flush before dispatch: a call that went out has its step_started in the
ledger. `Licence` says what a successor was given: from the claim to the end of its leg
it may reuse every step its predecessor had paid for (`ContinueCoversCalls`: the blockers
leave no paid step without a checkpoint row). Hence `ContinueNeverRepays`, which speaks
of runs without an approved gate: a resume restores the run's own checkpoint and forgets
what the successor was given. `Gated` is `OneRequest` (a run asks once, and does not run
while it waits) and `GateFence` (a gated step is in hand only when approved, and not paid
for as long as it can still be dispatched), inductive together with
`ApprovalAuthorizesOnce`. `Settling` reads the ledger against each node of a live leg: a
node in hand was started, one that is done remembers its success, and what a leg without a
failure has settled succeeded last and has the row that cites it. Since a terminal
`succeeded` is written only by a leg that has settled all its steps, and nobody writes to
the ledger of a run that has ended, `SucceededIsReusable` follows. `Accounted` names the
owner of every call without an outcome: a live leg, the boot scan that has yet to come, or
a run that says it was interrupted; hence `NoAbandonedCall`.

The refinement `WorkflowImplementsRunContract` needs all of these but the last two, and
`Succession`: the recovery marker of a run, the request that has taken it and the
successor exclude one another, so that `LaunchSuccessor` finds a failed run nobody
continues. `Gated` makes a wait the first and only one and a gated call the first of its
step, and `Licence` makes a call of a successor one its predecessor had not paid for. Each
action is then one of the contract's or leaves the mapped variables alone
(`NodeContract`, `VerdictContract`, `LaunchContract`, `ApprovalContract`).

`AuditProofs`. Rows and ledger are independent. `RowsInv` follows each row (`RowInv`: a
launch is counted once, a link exists only for a launched row that is past the queue) and
what the executor has in hand (`ExecInv`: a row at `launch` was never launched, one at
`link` was, and only a cancellation can have moved either); hence `LaunchedOnce` and
`OutcomeIsMirrored`. `LedgerInv` follows each instant: a scheduler about to complete a
window with a draft holds a decision that is the receipt's, unless the window has moved
on; an open receipt is that of `next`; hence `ScheduleLedger` for any number of
schedulers. `AuditImplementsContract` follows from both: `RowStep` and `WfStep` list how a
step may move a row and its workflow run, `SweepSteps` shows that a sweep over all rows
does nothing else to each, and an instant without an answer is that of `next`, with every
answered one behind it (`AnswersBehind`), so the two transactions of any two schedulers
answer it once (`PlanContract`, `CompleteContract`).

`ChangesProofs`. `SinkInv`: the pending change, and the change in the sink, belong to the
registered configuration, since reconfiguring replaces both, and the writes before the
sink's present step are durable. `PlanInv` and `ExecInv`: a plan that was launched is
never pending again, and the executor's plan is claimed. Hence `EmittedIsPlanned` and
`TriggeredOnce`.

`CapabilityProofs`. `HandleInv` is `LedgerIsWhatRan` and `OvershootBounded` for one
handle: the reservations are the calls in flight that no cancellation cut, which `CutInv`
makes disjoint from the calls that were charged, so that taking away all of them at once
disturbs neither count; the overshoot is inductive because a call is admitted only with
the used tokens within the limit, and with a `peak` that counts it. On the commit side
`OwnerInv` and `SharerInv` say what each submission waits for, and `KeyInv` that a key is
persisted exactly when its latest attempt resolved; hence `OneIntentPerKey` and
`RejectionFreesKey`, which together are `CommitsOnce`.

## Where code and text disagree

1. `scheduler_run_deadline`. `admit()` compares the clock with
   `agent.deadline ?? run.deadline`: an agent with a later deadline of its own is
   admitted after its run's deadline. The header of the scheduler says that an expired
   run is never admitted. `NoLateAdmission` states what the code does guarantee.
2. `completion_notified`. The terminal state of a workflow run and its notice are two
   transactions; a crash between them leaves a terminal run that no restart notifies,
   although the notices are described as one per terminal transition.
3. `workflow_chain`. A successor inherits the results of the run it continues in memory
   only. If it dies before it has recorded a step it was given, continuing *it* calls
   the provider again, although the first run of the chain holds the completed result;
   the action is offered with "a completed model call is never billed twice".
4. `workflow_gate`. A resume after an approval takes the plan from its start and restores
   what has a checkpoint row; a model step before the gate that had failed, or whose
   result could not be saved, is sent again in the same run. The executor promises that
   an ambiguous outcome never becomes a second paid dispatch.

5. Not a run: `packages/kernel/src/budget/accounting.ts:4` says that the two-phase model
   "prevents over-consumption by reserving budget". No caller of the gateway sets
   `tokensToReserve`, so a reservation holds a call but no tokens, and the calls in flight
   when the limit is reached pass `maxTokens`. `OvershootBounded` states the bound that
   the code does give, and `capability` and `CapabilityProofs` show it.

Observations that no run states, because the texts do not claim otherwise:

- A job may get a second comment without any crash or stall: a create that is not answered
  is retried after a backoff, the search of the next attempt comes before the first request
  has its effect, and both land. `CommentsAccounted` says that this, and a lease that is
  overtaken in the same way, are the only causes.
- `external_id` is written only together with `published`, so the publisher's path for a
  known comment id is never taken for a claimed row.
- `publish_failed` is overwritten by `failed` when a review that has already handed over
  its report is rejected after the publication was given up.
- A shutdown signal reaches runs but writes no row; a row of an interrupted run stays
  `running` until the next boot marks it failed.
- An attempt that its timeout aborts after it got a token or a comment id returns without
  recording anything; the row waits for its lease and the attempt is not counted.
- `succeedRun` and `failRun` leave the agents of the run as they are, and a child can be
  registered under a cancelled parent as long as its run lives.
- `stop()` of the completion sink waits for the whole drain, every due row at up to ten
  seconds; a store that keeps failing to record makes a drain claim the same rows again
  without a pause.
- A successor asks for its approvals again, and its resume restores its own checkpoint,
  not its predecessor's: a call the predecessor paid for may be made again.
- What degraded the first leg of a run is not remembered by the leg after an approval.
- The second gate of one run is always refused (`requestApprovalAndWait` finds the
  first request), so a run with two gates on its path fails.
- A process that dies between the interrupted verdict and its marker leaves a failed run
  that cannot be continued; the scan of the next boot does not see it.
- After a crash between decision and claim the run waits for ever, and after one between
  the claim of a continue and its successor no other continue is possible; both are
  documented as failing closed. A resume that is refused after the claim leaves the run
  `running` without a leg until the next boot. An expired wait is never swept.
- `restore` of a context image whose id is taken throws after it has seeded the pages
  (`packages/kernel/src/context/manager.ts:261`); nothing but tests calls it.
- A crash between the launch of an audit run and its link leaves the row failed with
  "before it could execute", although a workflow run exists for it.
- Cron occurrences that pass while a window is being skipped have no window record.
- A change whose event was stored and whose planning threw is offered again only when the
  tree returns to that very diff: any other diff at the same key is refused as
  `REPOSITORY_EVENT_CONFLICT`.
- When recording a trigger plan as failed throws as well, the error leaves the executor's
  tick and nobody handles it; the model takes this for the end of the process.
- A call that fails gives its reservation back, so neither the call nor its tokens count
  toward the budget. A call that a cancellation cut and that succeeds all the same is
  never charged; `releaseAll` says that a cancelled run answers for what it consumed,
  of what was committed by then.
- A submission that shares an acceptance is not authorised on its own.

## Limits

**Only model-checked.** The liveness properties (`PublicationEnds`, `ReviewEnds`,
`FlushEnds`, `SweepComplete`, `LegSettles`, `DueIsAnswered`, `AuditRunEnds`,
`ChangeIsAnswered`): liveness under fairness is out of the prover's reach. Every
invariant and every refinement a passing run checks is also a theorem.

**Stated with a restriction.** `NothingStranded` is for fewer rows that do not parse than
a batch holds: a full batch of them, claimed again at once, starves the rows behind it
(`completion/store.ts:137`), and no property covers that. A store that keeps failing to
record lets a drain send without end (`completion/sink.ts:286`): `RequestBudget` counts
the lost outcomes aside and `FlushEnds` has finitely many of them. `EmittedIsPlanned`
speaks of trigger plans only as long as no write has thrown, since the sink logs such an
error and goes on. `ChangeIsAnswered` assumes that no probe or write fails.

**Abstracted.** Report contents, markers, prompts, payloads and redaction; the clock
(see above); SQL as its effect on rows; one GitHub repository per job. Pages of the
marker search are one read: a comment of this job that appears during the search is one
whose create request was in flight. Errors of SQLite in the review pipeline are process
death; in the completion sink and the workflow runtime, whose code handles them, any
call may throw. Of a workflow, the validation of a checkpoint's contents and the checks
of the repository's HEAD and the model configuration are a choice to refuse; revisions
of a plan, handoffs between agents and the (uncalled) cancel of a run are left out.
Trigger plans and bindings are in `RepositoryChanges`, where a run is one step. Of the
audit domain, drafts made for repository events, invalid cron expressions and
automations without a definition are left out; of the broker, how a resource or a path
scope matches, and the cost limit, which works as the token limit does.

**Not modelled.** The components of the table that have no module above. Those with a
protocol are in the plan. The rest are left out because they transform
data without shared state (review content, engine, diff and graph algorithms), or do
I/O (LLM transport, GitHub client, CLI), or only report (diagnostics, notebook).
`PROJECT.json` lists them one by one.

## Plan

Done, in this order: (1) `JobStore`, `ReviewPipeline`, `ReviewContract` and their proofs;
(2) `KernelScheduler` and its proofs; (3) `CompletionSink` and its proofs;
(4) `WorkflowRun`, `RunContract` and the proofs; (5) `AuditRuns` and
`AuditSchedule`, (6) `RepositoryChanges`, (7) `Capabilities`, each with its proofs.

To come, the most important first:

| Module | Composes | Properties to state | Bounds | Theorems |
|---|---|---|---|---|
| `SandboxSession` | requests, syscalls back, timeout, crash | each request settled once, nothing after termination | 2 requests | settlement |
| `AgentBridge` | harness turns over `KernelScheduler` and `Capabilities` | a cancelled review does not succeed; every admitted agent leaves its slot | 2 agents, 2 turns | slot per turn |
| `ContextImages` | pages, images, fork, residency, checkpoint | copy-on-write isolation, restore | 2 images, 3 pages | isolation |
| `DefinitionGraph` | validation and compilation order of workflow definitions | accepts exactly the acyclic graphs; the order respects the edges | all graphs of 4 nodes | |
| `ModelRouting` | candidates, fallback and retries of the LLM transport | each candidate asked at most as often as allowed | 2 candidates | |

Then a composition of `WorkflowRun` with `CompletionSink` and `AuditRuns` at the terminal
write, which the three now model apart.
