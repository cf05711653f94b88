---------------------------- MODULE AuditProofs ----------------------------
(***************************************************************************)
(* Proofs about AuditSchedule: type correctness, the ledger of the         *)
(* schedule, one launch per draft, and the mirrored outcome, for every     *)
(* number of rows, schedulers and instants and every cron expression.      *)
(*                                                                         *)
(* The rows and the ledger are independent: RowsInv follows the executor,  *)
(* LedgerInv the schedulers, and a step of one leaves the other's alone.   *)
(* Both are needed for the refinement of AuditContract.                    *)
(***************************************************************************)
EXTENDS AuditSchedule, FiniteSetTheorems, TLAPS

RowInv(r) ==
  /\ launches[r] <= 1
  /\ wf[r] = "none" <=> launches[r] = 0
  /\ r \in linked => launches[r] = 1
  /\ status[r] \in {"none", "created"} => launches[r] = 0
  /\ r \in linked => status[r] \in {"running"} \cup Outcomes
  /\ r \in linked /\ status[r] \in Outcomes => wf[r] = status[r]
  /\ status[r] \in {"running", "succeeded"} => r \in linked

\* The row the executor holds was claimed; while it awaits the host nothing
\* but a cancellation may move it.
ExecInv ==
  /\ exec.at = "launch" => /\ exec.run \in Runs
                           /\ launches[exec.run] = 0
                           /\ status[exec.run] \in {"queued", "cancelled"}
  /\ exec.at = "link" => /\ exec.run \in Runs \ linked
                         /\ launches[exec.run] = 1
                         /\ status[exec.run] \in {"queued", "cancelled"}
  /\ ~up => exec.at = "idle"

RowsInv == (\A r \in Runs : RowInv(r)) /\ ExecInv

Real(d) == d \in Decisions /\ d.outcome \in {"created", "coalesced"}

TickInv(s) ==
  /\ tick[s].at # "idle" => tick[s].instant # NoTime
  /\ tick[s].at = "complete" => /\ tick[s].nextAt > tick[s].instant
                                /\ tick[s].decision = Skipped \/ Real(tick[s].decision)

LedgerInv ==
  /\ ScheduleLedger
  /\ receipt[NoTime] = Undecided
  /\ \A t \in Times : receipt[t] = Undecided \/ Real(receipt[t])
  /\ \A s \in Schedulers : TickInv(s)

USE AuditRunsAssumption, AuditScheduleAssumption
    DEF AuditRunsAssumption, AuditScheduleAssumption

-----------------------------------------------------------------------------
(* Initial states.                                                         *)

LEMMA InitType == Init => TypeOK
  BY DEF Init, RunsInit, TypeOK, RunsTypeOK, IdleExec, IdleTick, Undecided, Decisions,
         RunStatuses, Active, Outcomes, Phases, Runs, NoRun, NoTime, Times

LEMMA InitRows == Init => RowsInv
  BY DEF Init, RunsInit, RowsInv, RowInv, ExecInv, IdleExec, Outcomes

LEMMA InitLedger == Init => LedgerInv
  BY DEF Init, LedgerInv, ScheduleLedger, TickInv, IdleTick, Undecided, Skipped, Times, NoTime

-----------------------------------------------------------------------------
(* Types.  A step of the rows, of the executor, and of a scheduler.        *)

LEMMA CreateType ==
  ASSUME RunsTypeOK, NEW r \in Runs, CreateAuditRunDraft(r)
  PROVE  status' \in [Runs -> RunStatuses]
  BY DEF RunsTypeOK, CreateAuditRunDraft, RunStatuses, Active

WfType == [Runs -> {"none", "running"} \cup Outcomes]

LEMMA ReconcileType ==
  ASSUME RunsTypeOK, NEW F, NEW w \in WfType,
         \A r \in linked : w[r] # "none", ReconcileInterruptedRuns(F, w)
  PROVE  status' \in [Runs -> RunStatuses]
<1>1. \A r \in Recoverable : Verdict(r, w) \in RunStatuses
  BY DEF RunsTypeOK, WfType, Verdict, Recoverable, RunStatuses, Outcomes, Active
<1>. QED BY <1>1 DEF RunsTypeOK, ReconcileInterruptedRuns, Settling

LEMMA FaultsType ==
  ASSUME RunsTypeOK, NEW n \in Nat, Throws(n)
  PROVE  faults' \in 0..MaxFaults
  BY DEF RunsTypeOK, Throws

LEMMA RequestType ==
  ASSUME RunsTypeOK, ManualRun \/ SetAutomationEnabled
                     \/ \E r \in Runs : CancelAuditRun(r) \/ WorkflowEnds(r)
  PROVE  RunsTypeOK'
<1>1. CASE ManualRun
  BY <1>1, CreateType DEF ManualRun, RunsTypeOK, wfVars
<1>2. CASE SetAutomationEnabled
  BY <1>2 DEF SetAutomationEnabled, RunsTypeOK, rowVars, wfVars
<1>3. ASSUME NEW r \in Runs, CancelAuditRun(r) PROVE RunsTypeOK'
  BY <1>3 DEF CancelAuditRun, RunsTypeOK, wfVars, RunStatuses
<1>4. ASSUME NEW r \in Runs, WorkflowEnds(r) PROVE RunsTypeOK'
  BY <1>4 DEF WorkflowEnds, RunsTypeOK, rowVars, Outcomes
<1>. QED BY <1>1, <1>2, <1>3, <1>4

\* How the runtime leaves its runs when the daemon is started again.
Interrupted(waiting) ==
  [r \in Runs |-> IF wf[r] = "running" /\ r \notin waiting THEN "failed" ELSE wf[r]]

LEMMA BootType ==
  ASSUME RunsTypeOK, RowsInv, Boot
  PROVE  RunsTypeOK'
<1>1. PICK waiting \in SUBSET {r \in Runs : wf[r] = "running"} :
        wf' = Interrupted(waiting) /\ ReconcileInterruptedRuns({}, Interrupted(waiting))
  BY DEF Boot, Interrupted
<1>2. Interrupted(waiting) \in WfType
  BY DEF Interrupted, WfType, RunsTypeOK, Outcomes
<1>3. \A r \in linked : Interrupted(waiting)[r] # "none"
  BY DEF Interrupted, RunsTypeOK, RowsInv, RowInv
<1>4. status' \in [Runs -> RunStatuses]
  BY <1>1, <1>2, <1>3, ReconcileType
<1>. QED BY <1>1, <1>2, <1>4 DEF Boot, RunsTypeOK, WfType

LEMMA TickType ==
  ASSUME RunsTypeOK, RowsInv, Tick
  PROVE  RunsTypeOK'
<1>1. PICK F \in SUBSET Settling(wf) : Throws(Cardinality(F)) /\ ReconcileInterruptedRuns(F, wf)
  BY DEF Tick
<1>2. IsFiniteSet(Runs)
  BY FS_Interval DEF Runs
<1>3. Cardinality(F) \in Nat
  BY <1>2, FS_Subset, FS_CardinalityType DEF Settling, Recoverable
<1>4. faults' \in 0..MaxFaults
  BY <1>1, <1>3, FaultsType
<1>5. status' \in [Runs -> RunStatuses]
  BY <1>1, ReconcileType DEF RunsTypeOK, WfType, RowsInv, RowInv
<1>. QED BY <1>4, <1>5 DEF Tick, RunsTypeOK, Pass, wfVars, Phases

LEMMA MirrorType ==
  ASSUME RunsTypeOK, MirrorInFlight
  PROVE  RunsTypeOK'
<1>1. PICK F \in SUBSET Ended :
        /\ Throws(Cardinality(F))
        /\ status' = [r \in Runs |-> IF r \in Ended \ F THEN wf[r] ELSE status[r]]
  BY DEF MirrorInFlight
<1>2. IsFiniteSet(Runs)
  BY FS_Interval DEF Runs
<1>3. Cardinality(F) \in Nat
  BY <1>2, FS_Subset, FS_CardinalityType DEF Ended, RunsTypeOK
<1>4. faults' \in 0..MaxFaults
  BY <1>1, <1>3, FaultsType
<1>5. status' \in [Runs -> RunStatuses]
  BY <1>1 DEF RunsTypeOK, Ended, RunStatuses
<1>. QED BY <1>4, <1>5 DEF MirrorInFlight, RunsTypeOK, wfVars, IdleExec, Phases

LEMMA ClaimsType ==
  ASSUME RunsTypeOK, DrainClaims
  PROVE  RunsTypeOK'
<1>1. PICK r \in exec.todo : Claim(r)
  BY DEF DrainClaims
<1>2. r \in Runs
  BY DEF RunsTypeOK
<1>3. status' \in [Runs -> RunStatuses]
  BY <1>1, <1>2 DEF RunsTypeOK, Claim, RunStatuses, Active
<1>4. exec' \in [at : Phases, run : Runs \cup {NoRun}, todo : SUBSET Runs]
  BY <1>1, <1>2 DEF RunsTypeOK, Claim, Pass, Phases
<1>. QED BY <1>3, <1>4 DEF DrainClaims, RunsTypeOK, wfVars

LEMMA LaunchType ==
  ASSUME RunsTypeOK, RowsInv, LaunchRefused \/ Launch \/ LinkFailed \/ Link
  PROVE  RunsTypeOK'
<1>1. exec.run \in Runs
  BY DEF RowsInv, ExecInv, LaunchRefused, Launch, LinkFailed, Link
<1>2. exec' \in [at : Phases, run : Runs \cup {NoRun}, todo : SUBSET Runs]
  BY DEF RunsTypeOK, LaunchRefused, Launch, LinkFailed, Link, Pass, Phases
<1>3. CASE LaunchRefused
  BY <1>1, <1>2, <1>3 DEF LaunchRefused, SettleFailed, Works, Throws, RunsTypeOK, wfVars,
                          RunStatuses, Outcomes
<1>4. CASE Launch
  BY <1>1, <1>2, <1>4 DEF Launch, RunsTypeOK, rowVars
<1>5. CASE LinkFailed
  BY <1>1, <1>2, <1>5 DEF LinkFailed, Throws, RunsTypeOK, wfVars, RunStatuses, Outcomes
<1>6. CASE Link
  BY <1>1, <1>2, <1>6 DEF Link, RunsTypeOK, rowVars, wfVars, RunStatuses, Active
<1>. QED BY <1>3, <1>4, <1>5, <1>6

LEMMA ExecutorType ==
  ASSUME RunsTypeOK, RowsInv, ExecutorStep
  PROVE  RunsTypeOK'
BY TickType, MirrorType, ClaimsType, LaunchType DEF ExecutorStep

LEMMA CrashType ==
  ASSUME RunsTypeOK, Crash
  PROVE  RunsTypeOK'
<1>1. crashes' \in 0..MaxCrashes
  BY DEF Crash, RunsTypeOK
<1>2. exec' \in [at : Phases, run : Runs \cup {NoRun}, todo : SUBSET Runs]
  BY DEF Crash, IdleExec, Phases
<1>. QED BY <1>1, <1>2 DEF Crash, RunsTypeOK, rowVars, wfVars

-----------------------------------------------------------------------------
(* Schedulers: types.                                                      *)

LEMMA DoneType ==
  ASSUME TypeOK, NEW s \in Schedulers, Done(s)
  PROVE  tick' \in [Schedulers -> [at : {"idle", "plan", "complete"}, instant : Times,
                                   nextAt : Nat, decision : Decisions]]
BY DEF TypeOK, Done, IdleTick, Undecided, Decisions, Times, NoTime

LEMMA EvaluationType ==
  ASSUME TypeOK, NEW s \in Schedulers, NEW at \in {"idle", "plan", "complete"},
         NEW t \in Times, NEW n \in Nat, NEW d \in Decisions, Evaluation(s, at, t, n, d)
  PROVE  tick' \in [Schedulers -> [at : {"idle", "plan", "complete"}, instant : Times,
                                   nextAt : Nat, decision : Decisions]]
BY DEF TypeOK, Evaluation

LEMMA DecidedType ==
  ASSUME TypeOK, NEW s \in Schedulers, NEW d \in Decisions, Decided(s, d)
  PROVE  tick' \in [Schedulers -> [at : {"idle", "plan", "complete"}, instant : Times,
                                   nextAt : Nat, decision : Decisions]]
<1>1. tick[s].instant \in Times
  BY DEF TypeOK
<1>2. NextOccurrence[tick[s].instant] \in Nat
  BY <1>1
<1>. QED BY <1>1, <1>2, EvaluationType DEF Decided

LEMMA ConstantDecisions == Undecided \in Decisions /\ Skipped \in Decisions
  BY DEF Undecided, Skipped, Decisions

LEMMA EnsureType ==
  ASSUME TypeOK, NEW s \in Schedulers, EnsureAutomationScheduleState(s)
  PROVE  TypeOK'
<1>1. next' \in Nat
  BY DEF TypeOK, EnsureAutomationScheduleState
<1>. QED BY <1>1 DEF EnsureAutomationScheduleState, TypeOK, RunsTypeOK, runsVars, rowVars, wfVars

LEMMA EvaluateType ==
  ASSUME TypeOK, NEW s \in Schedulers, EvaluateAutomation(s)
  PROVE  TypeOK'
<1>1. next \in Times /\ NextOccurrence[clock] \in Nat /\ NoTime \in Nat
  BY DEF EvaluateAutomation, TypeOK, Times, NoTime
<1>2. CASE clock - next >= Grace
  <2>1. Evaluation(s, "complete", next, NextOccurrence[clock], Skipped)
    BY <1>2 DEF EvaluateAutomation
  <2>2. tick' \in [Schedulers -> [at : {"idle", "plan", "complete"}, instant : Times,
                                  nextAt : Nat, decision : Decisions]]
    BY <1>1, <2>1, ConstantDecisions, EvaluationType
  <2>. QED BY <2>2 DEF EvaluateAutomation, TypeOK, RunsTypeOK, runsVars, rowVars, wfVars, ledgerVars
<1>3. CASE ~(clock - next >= Grace)
  <2>1. Evaluation(s, "plan", next, NoTime, Undecided)
    BY <1>3 DEF EvaluateAutomation
  <2>2. tick' \in [Schedulers -> [at : {"idle", "plan", "complete"}, instant : Times,
                                  nextAt : Nat, decision : Decisions]]
    BY <1>1, <2>1, ConstantDecisions, EvaluationType
  <2>. QED BY <2>2 DEF EvaluateAutomation, TypeOK, RunsTypeOK, runsVars, rowVars, wfVars, ledgerVars
<1>. QED BY <1>2, <1>3

LEMMA PlanType ==
  ASSUME TypeOK, NEW s \in Schedulers, PlanScheduleRun(s)
  PROVE  TypeOK'
<1>. DEFINE t == tick[s].instant
<1>0. t \in Times /\ receipt[t] \in Decisions
  BY DEF TypeOK
<1>1. SUFFICES /\ status' \in [Runs -> RunStatuses]
               /\ receipt' \in [Times -> Decisions]
               /\ tick' \in [Schedulers -> [at : {"idle", "plan", "complete"}, instant : Times,
                                             nextAt : Nat, decision : Decisions]]
  BY DEF PlanScheduleRun, TypeOK, RunsTypeOK, wfVars
<1>2. CASE UNCHANGED <<status, receipt>> /\ (Done(s) \/ Decided(s, receipt[t]))
  BY <1>0, <1>2, DoneType, DecidedType DEF TypeOK, RunsTypeOK
<1>3. ASSUME NEW r \in Runs, NEW d, d \in Decisions,
             receipt' = [receipt EXCEPT ![t] = d], Decided(s, d),
             UNCHANGED status \/ CreateAuditRunDraft(r)
      PROVE  /\ status' \in [Runs -> RunStatuses]
             /\ receipt' \in [Times -> Decisions]
             /\ tick' \in [Schedulers -> [at : {"idle", "plan", "complete"}, instant : Times,
                                           nextAt : Nat, decision : Decisions]]
  <2>1. receipt' \in [Times -> Decisions]
    BY <1>3 DEF TypeOK
  <2>2. status' \in [Runs -> RunStatuses]
    BY <1>3, CreateType DEF TypeOK, RunsTypeOK
  <2>. QED BY <1>3, <2>1, <2>2, DecidedType
<1>4. CASE UNCHANGED status /\ \E r \in ActiveRuns :
             LET d == [outcome |-> "coalesced", run |-> r] IN
             receipt' = [receipt EXCEPT ![t] = d] /\ Decided(s, d)
  <2>1. PICK r \in ActiveRuns :
          /\ receipt' = [receipt EXCEPT ![t] = [outcome |-> "coalesced", run |-> r]]
          /\ Decided(s, [outcome |-> "coalesced", run |-> r])
    BY <1>4
  <2>2. r \in Runs /\ [outcome |-> "coalesced", run |-> r] \in Decisions
    BY DEF ActiveRuns, Decisions
  <2>. QED BY <1>3, <1>4, <2>1, <2>2
<1>5. CASE \E r \in Runs :
             LET d == [outcome |-> "created", run |-> r] IN
             /\ CreateAuditRunDraft(r)
             /\ receipt' = [receipt EXCEPT ![t] = d] /\ Decided(s, d)
  <2>1. PICK r \in Runs :
          /\ CreateAuditRunDraft(r)
          /\ receipt' = [receipt EXCEPT ![t] = [outcome |-> "created", run |-> r]]
          /\ Decided(s, [outcome |-> "created", run |-> r])
    BY <1>5
  <2>2. [outcome |-> "created", run |-> r] \in Decisions
    BY DEF Decisions
  <2>. QED BY <1>3, <2>1, <2>2
<1>. QED BY <1>2, <1>4, <1>5 DEF PlanScheduleRun

LEMMA CompleteType ==
  ASSUME TypeOK, NEW s \in Schedulers, CompleteWindow(s)
  PROVE  TypeOK'
<1>. DEFINE t == tick[s].instant
            d == tick[s].decision
<1>0. t \in Times /\ d \in Decisions /\ receipt[t] \in Decisions /\ tick[s].nextAt \in Nat
  BY DEF TypeOK
<1>1. Done(s) /\ UNCHANGED <<runsVars, clock, receipt>>
  BY DEF CompleteWindow
<1>2. CASE window' = [window EXCEPT ![t] = Recorded(t, d)] /\ next' = tick[s].nextAt
  <2>1. window' \in [Times -> Decisions] /\ next' \in Nat
    BY <1>0, <1>2 DEF TypeOK, Recorded
  <2>. QED BY <1>1, <2>1, DoneType DEF TypeOK, RunsTypeOK, runsVars, rowVars, wfVars
<1>3. CASE UNCHANGED <<window, next>>
  BY <1>1, <1>3, DoneType DEF TypeOK, RunsTypeOK, runsVars, rowVars, wfVars
<1>. QED BY <1>2, <1>3 DEF CompleteWindow

LEMMA GiveUpType ==
  ASSUME TypeOK, NEW s \in Schedulers, GiveUp(s)
  PROVE  TypeOK'
<1>1. faults' \in 0..MaxFaults
  BY FaultsType DEF GiveUp, TypeOK
<1>. QED BY <1>1, DoneType DEF GiveUp, TypeOK, RunsTypeOK, rowVars, wfVars, ledgerVars

LEMMA NextType ==
  ASSUME TypeOK, RowsInv, [Next]_vars
  PROVE  TypeOK'
<1>1. CASE RunsStep /\ UNCHANGED scheduleVars
  <2>1. RunsTypeOK'
    BY <1>1, RequestType, BootType DEF RunsStep, TypeOK
  <2>. QED BY <1>1, <2>1 DEF TypeOK, scheduleVars, ledgerVars
<1>2. CASE Executes
  BY <1>2, ExecutorType DEF Executes, TypeOK, scheduleVars, ledgerVars
<1>3. ASSUME NEW s \in Schedulers, SchedulerStep(s) \/ GiveUp(s) PROVE TypeOK'
  BY <1>3, EnsureType, EvaluateType, PlanType, CompleteType, GiveUpType DEF SchedulerStep
<1>4. CASE ProcessCrash
  <2>1. Host \in Schedulers
    BY DEF Schedulers
  <2>. QED BY <1>4, <2>1, CrashType, DoneType DEF ProcessCrash, TypeOK, ledgerVars
<1>5. CASE ClockAdvances
  BY <1>5 DEF ClockAdvances, TypeOK, RunsTypeOK, Times, runsVars, rowVars, wfVars, ledgerVars
<1>6. CASE UNCHANGED vars
  BY <1>6 DEF TypeOK, RunsTypeOK, vars, runsVars, rowVars, wfVars, scheduleVars, ledgerVars
<1>. QED BY <1>1, <1>2, <1>3, <1>4, <1>5, <1>6 DEF Next

-----------------------------------------------------------------------------
(* The rows.                                                               *)

LEMMA CreateRow ==
  ASSUME RunsTypeOK, RowsInv, NEW r \in Runs, CreateAuditRunDraft(r),
         UNCHANGED <<linked, wfVars, exec, up>>
  PROVE  RowsInv'
<1>1. status[r] = "none" /\ status' = [status EXCEPT ![r] = "created"]
  BY DEF CreateAuditRunDraft, IsNextRow
<1>2. \A q \in Runs : RowInv(q)'
  BY <1>1 DEF RunsTypeOK, RowsInv, RowInv, Outcomes, wfVars
<1>3. ExecInv'
  BY <1>1 DEF RunsTypeOK, RowsInv, ExecInv, wfVars
<1>. QED BY <1>2, <1>3 DEF RowsInv

LEMMA RequestRow ==
  ASSUME RunsTypeOK, RowsInv, ManualRun \/ SetAutomationEnabled
                              \/ \E r \in Runs : CancelAuditRun(r) \/ WorkflowEnds(r)
  PROVE  RowsInv'
<1>1. CASE ManualRun
  BY <1>1, CreateRow DEF ManualRun
<1>2. CASE SetAutomationEnabled
  BY <1>2 DEF SetAutomationEnabled, RowsInv, RowInv, ExecInv, rowVars, wfVars
<1>3. ASSUME NEW r \in Runs, CancelAuditRun(r) PROVE RowsInv'
  <2>1. \A q \in Runs : RowInv(q)'
    BY <1>3 DEF CancelAuditRun, RunsTypeOK, RowsInv, RowInv, Outcomes, wfVars
  <2>2. ExecInv'
    BY <1>3 DEF CancelAuditRun, RunsTypeOK, RowsInv, ExecInv, wfVars
  <2>. QED BY <2>1, <2>2 DEF RowsInv
<1>4. ASSUME NEW r \in Runs, WorkflowEnds(r) PROVE RowsInv'
  <2>1. PICK o \in Outcomes : wf' = [wf EXCEPT ![r] = o]
    BY <1>4 DEF WorkflowEnds
  <2>2. \A q \in Runs : RowInv(q)'
    BY <1>4, <2>1 DEF WorkflowEnds, RunsTypeOK, RowsInv, RowInv, Outcomes, rowVars
  <2>3. ExecInv'
    BY <1>4 DEF WorkflowEnds, RowsInv, ExecInv, rowVars
  <2>. QED BY <2>2, <2>3 DEF RowsInv
<1>. QED BY <1>1, <1>2, <1>3, <1>4

\* A sweep leaves every row as the workflow runs say, given that those moved
\* only from "running".
LEMMA ReconcileRow ==
  ASSUME RunsTypeOK, RowsInv, NEW F, NEW w \in WfType, wf' = w,
         \A r \in Runs : w[r] # wf[r] => (wf[r] = "running" /\ w[r] = "failed"),
         ReconcileInterruptedRuns(F, w), UNCHANGED <<linked, launches>>
  PROVE  \A r \in Runs : RowInv(r)'
<1>1. ASSUME NEW r \in Runs PROVE RowInv(r)'
  <2>1. CASE status'[r] = status[r]
    BY <1>1, <2>1 DEF RunsTypeOK, RowsInv, RowInv, Outcomes
  <2>2. CASE status'[r] # status[r]
    <3>1. status[r] \in {"queued", "running"} /\ status'[r] = Verdict(r, w)
      BY <1>1, <2>2 DEF ReconcileInterruptedRuns, Settling, Recoverable
    <3>. QED BY <1>1, <2>2, <3>1 DEF RunsTypeOK, RowsInv, RowInv, Outcomes, Verdict, WfType
  <2>. QED BY <2>1, <2>2
<1>. QED BY <1>1

LEMMA BootRow ==
  ASSUME RunsTypeOK, RowsInv, Boot
  PROVE  RowsInv'
<1>1. PICK waiting \in SUBSET {r \in Runs : wf[r] = "running"} :
        wf' = Interrupted(waiting) /\ ReconcileInterruptedRuns({}, Interrupted(waiting))
  BY DEF Boot, Interrupted
<1>2. Interrupted(waiting) \in WfType
  BY DEF Interrupted, WfType, RunsTypeOK, Outcomes
<1>3. \A r \in Runs : Interrupted(waiting)[r] # wf[r]
                      => (wf[r] = "running" /\ Interrupted(waiting)[r] = "failed")
  BY DEF Interrupted
<1>4. UNCHANGED <<linked, launches>>
  BY DEF Boot
<1>5. \A r \in Runs : RowInv(r)'
  BY <1>1, <1>2, <1>3, <1>4, ReconcileRow
<1>6. ExecInv'
  BY DEF Boot, RowsInv, ExecInv
<1>. QED BY <1>5, <1>6 DEF RowsInv

LEMMA TickRow ==
  ASSUME RunsTypeOK, RowsInv, Tick
  PROVE  RowsInv'
<1>1. PICK F : ReconcileInterruptedRuns(F, wf)
  BY DEF Tick
<1>2. wf' = wf /\ wf \in WfType /\ UNCHANGED <<linked, launches>>
  BY DEF Tick, RunsTypeOK, WfType, wfVars
<1>3. \A r \in Runs : RowInv(r)'
  BY <1>1, <1>2, ReconcileRow
<1>4. ExecInv'
  BY DEF Tick, Pass, ExecInv
<1>. QED BY <1>3, <1>4 DEF RowsInv

LEMMA MirrorRow ==
  ASSUME RunsTypeOK, RowsInv, MirrorInFlight
  PROVE  RowsInv'
<1>1. PICK F \in SUBSET Ended :
        status' = [r \in Runs |-> IF r \in Ended \ F THEN wf[r] ELSE status[r]]
  BY DEF MirrorInFlight
<1>2. \A r \in Runs : RowInv(r)'
  BY <1>1 DEF MirrorInFlight, Ended, RunsTypeOK, RowsInv, RowInv, Outcomes, wfVars
<1>3. ExecInv'
  BY DEF MirrorInFlight, IdleExec, ExecInv
<1>. QED BY <1>2, <1>3 DEF RowsInv

LEMMA ClaimsRow ==
  ASSUME RunsTypeOK, RowsInv, DrainClaims
  PROVE  RowsInv'
<1>1. PICK r \in exec.todo : Claim(r)
  BY DEF DrainClaims
<1>2. r \in Runs
  BY DEF RunsTypeOK
<1>3. CASE status[r] = "created" /\ status' = [status EXCEPT ![r] = "queued"]
           /\ Pass("launch", r, exec.todo \ {r})
  <2>1. \A q \in Runs : RowInv(q)'
    BY <1>2, <1>3 DEF DrainClaims, RunsTypeOK, RowsInv, RowInv, Outcomes, wfVars
  <2>2. ExecInv'
    BY <1>2, <1>3 DEF DrainClaims, Pass, RunsTypeOK, RowsInv, RowInv, ExecInv, wfVars
  <2>. QED BY <2>1, <2>2 DEF RowsInv
<1>4. CASE UNCHANGED status /\ Pass("drain", NoRun, exec.todo \ {r})
  BY <1>4 DEF DrainClaims, Pass, RowsInv, RowInv, ExecInv, wfVars
<1>. QED BY <1>1, <1>3, <1>4 DEF Claim

LEMMA LaunchRow ==
  ASSUME RunsTypeOK, RowsInv, LaunchRefused \/ Launch \/ LinkFailed \/ Link
  PROVE  RowsInv'
<1>1. exec.run \in Runs /\ RowInv(exec.run)
  BY DEF RowsInv, ExecInv, LaunchRefused, Launch, LinkFailed, Link
<1>2. CASE LaunchRefused
  <2>1. \A q \in Runs : RowInv(q)'
    BY <1>1, <1>2 DEF LaunchRefused, SettleFailed, RunsTypeOK, RowsInv, RowInv, Outcomes, wfVars
  <2>2. ExecInv'
    BY <1>2 DEF LaunchRefused, Pass, RowsInv, ExecInv
  <2>. QED BY <2>1, <2>2 DEF RowsInv
<1>3. CASE Launch
  <2>1. launches[exec.run] = 0 /\ status[exec.run] \in {"queued", "cancelled"}
    BY <1>3 DEF Launch, RowsInv, ExecInv
  <2>2. \A q \in Runs : RowInv(q)'
    BY <1>1, <1>3, <2>1 DEF Launch, RunsTypeOK, RowsInv, RowInv, Outcomes, rowVars
  <2>3. ExecInv'
    BY <1>1, <1>3, <2>1 DEF Launch, Pass, RunsTypeOK, RowsInv, RowInv, ExecInv, rowVars
  <2>. QED BY <2>2, <2>3 DEF RowsInv
<1>4. CASE LinkFailed
  <2>1. exec.run \notin linked /\ launches[exec.run] = 1
    BY <1>4 DEF LinkFailed, RowsInv, ExecInv
  <2>2. \A q \in Runs : RowInv(q)'
    BY <1>1, <1>4, <2>1 DEF LinkFailed, RunsTypeOK, RowsInv, RowInv, Outcomes, wfVars
  <2>3. ExecInv'
    BY <1>4 DEF LinkFailed, Pass, RowsInv, ExecInv
  <2>. QED BY <2>2, <2>3 DEF RowsInv
<1>5. CASE Link
  <2>1. launches[exec.run] = 1
    BY <1>5 DEF Link, RowsInv, ExecInv
  <2>2. \A q \in Runs : RowInv(q)'
    BY <1>1, <1>5, <2>1 DEF Link, RunsTypeOK, RowsInv, RowInv, Outcomes, rowVars, wfVars
  <2>3. ExecInv'
    BY <1>5 DEF Link, Pass, RowsInv, ExecInv
  <2>. QED BY <2>2, <2>3 DEF RowsInv
<1>. QED BY <1>2, <1>3, <1>4, <1>5

LEMMA NextRow ==
  ASSUME TypeOK, RowsInv, [Next]_vars
  PROVE  RowsInv'
<1>0. RunsTypeOK
  BY DEF TypeOK
<1>1. CASE RunsStep
  BY <1>0, <1>1, RequestRow, BootRow DEF RunsStep
<1>2. CASE Executes
  BY <1>0, <1>2, TickRow, MirrorRow, ClaimsRow, LaunchRow DEF Executes, ExecutorStep
<1>3. ASSUME NEW s \in Schedulers, PlanScheduleRun(s) PROVE RowsInv'
  <2>1. UNCHANGED <<linked, wfVars, exec, up>>
    BY <1>3 DEF PlanScheduleRun
  <2>2. CASE \E r \in Runs : CreateAuditRunDraft(r)
    BY <1>0, <2>1, <2>2, CreateRow
  <2>3. CASE UNCHANGED status
    BY <2>1, <2>3 DEF RowsInv, RowInv, ExecInv, wfVars
  <2>. QED BY <1>3, <2>2, <2>3 DEF PlanScheduleRun
<1>4. CASE UNCHANGED <<rowVars, wfVars, exec, up>>
  BY <1>4 DEF RowsInv, RowInv, ExecInv, rowVars, wfVars
<1>5. ASSUME NEW s \in Schedulers, SchedulerStep(s) \/ GiveUp(s) PROVE RowsInv'
  BY <1>3, <1>4, <1>5 DEF SchedulerStep, EnsureAutomationScheduleState, EvaluateAutomation,
                          CompleteWindow, GiveUp, runsVars
<1>6. CASE ProcessCrash
  BY <1>6 DEF ProcessCrash, Crash, IdleExec, RowsInv, RowInv, ExecInv, rowVars, wfVars
<1>7. CASE ClockAdvances \/ UNCHANGED vars
  BY <1>4, <1>7 DEF ClockAdvances, vars, runsVars
<1>. QED BY <1>1, <1>2, <1>5, <1>6, <1>7 DEF Next

-----------------------------------------------------------------------------
(* The ledger.                                                             *)

LEMMA PlanLedger ==
  ASSUME TypeOK, LedgerInv, NEW s \in Schedulers, PlanScheduleRun(s)
  PROVE  LedgerInv'
<1>. DEFINE t == tick[s].instant
<1>0. t \in Times /\ t # NoTime /\ TickInv(s) /\ UNCHANGED <<next, window>>
  BY DEF TypeOK, LedgerInv, TickInv, PlanScheduleRun
<1>1. ASSUME NEW d, Real(d), Decided(s, d)
      PROVE  \A u \in Schedulers : TickInv(u)'
  BY <1>0, <1>1 DEF TypeOK, LedgerInv, TickInv, Decided, Evaluation
<1>2. ASSUME Done(s) PROVE \A u \in Schedulers : TickInv(u)'
  BY <1>2 DEF TypeOK, LedgerInv, TickInv, Done, IdleTick
<1>3. CASE UNCHANGED receipt
  <2>1. receipt[t] # Undecided => Real(receipt[t])
    BY <1>0 DEF LedgerInv
  <2>2. \A r \in Runs, o \in {"created", "coalesced"} : Real([outcome |-> o, run |-> r])
    BY DEF Real, Decisions
  <2>3. \/ Done(s)
        \/ receipt[t] # Undecided /\ Decided(s, receipt[t])
        \/ \E r \in Runs, o \in {"created", "coalesced"} : Decided(s, [outcome |-> o, run |-> r])
    BY DEF PlanScheduleRun, ActiveRuns
  <2>4. \A u \in Schedulers : TickInv(u)'
    BY <1>1, <1>2, <2>1, <2>2, <2>3
  <2>. QED BY <1>0, <1>3, <2>4 DEF LedgerInv, ScheduleLedger
<1>4. CASE \E r \in Runs, o \in {"created", "coalesced"} :
             /\ receipt[t] = Undecided /\ next = t
             /\ receipt' = [receipt EXCEPT ![t] = [outcome |-> o, run |-> r]]
             /\ Decided(s, [outcome |-> o, run |-> r])
  <2>1. PICK r \in Runs, o \in {"created", "coalesced"} :
             /\ receipt[t] = Undecided /\ next = t
             /\ receipt' = [receipt EXCEPT ![t] = [outcome |-> o, run |-> r]]
             /\ Decided(s, [outcome |-> o, run |-> r])
    BY <1>4
  <2>2. Real([outcome |-> o, run |-> r])
    BY DEF Real, Decisions
  <2>3. \A u \in Schedulers : TickInv(u)'
    BY <1>1, <2>1, <2>2
  <2>4. window[t] = Undecided
    BY <1>0, <2>1 DEF LedgerInv, ScheduleLedger, TypeOK
  <2>5. \A u \in Times : receipt'[u] = IF u = t THEN [outcome |-> o, run |-> r] ELSE receipt[u]
    BY <1>0, <2>1 DEF TypeOK
  <2>6. ScheduleLedger'
    BY <1>0, <2>1, <2>4, <2>5 DEF LedgerInv, ScheduleLedger, Undecided, Skipped
  <2>. QED BY <1>0, <2>2, <2>3, <2>5, <2>6 DEF LedgerInv, Times, NoTime
<1>. QED BY <1>3, <1>4 DEF PlanScheduleRun, ActiveRuns

LEMMA CompleteLedger ==
  ASSUME TypeOK, LedgerInv, NEW s \in Schedulers, CompleteWindow(s)
  PROVE  LedgerInv'
<1>. DEFINE t == tick[s].instant
            d == tick[s].decision
<1>0. t \in Times /\ TickInv(s) /\ Done(s) /\ UNCHANGED receipt /\ tick[s].at = "complete"
  BY DEF TypeOK, LedgerInv, CompleteWindow
<1>1. \A u \in Schedulers : TickInv(u)'
  BY <1>0 DEF TypeOK, LedgerInv, TickInv, Done, IdleTick
<1>2. CASE UNCHANGED <<window, next>>
  BY <1>0, <1>1, <1>2 DEF LedgerInv, ScheduleLedger
<1>3. CASE /\ window[t] = Undecided /\ next = t
           /\ d # Skipped => receipt[t] = d
           /\ window' = [window EXCEPT ![t] = Recorded(t, d)]
           /\ next' = tick[s].nextAt
  <2>1. next' > t /\ next' \in Nat /\ t \in Nat
    BY <1>0, <1>3 DEF TickInv, TypeOK, Times
  <2>2. d = Skipped \/ Real(d)
    BY <1>0 DEF TickInv
  <2>3. /\ Recorded(t, d) = Skipped => receipt[t] = Undecided
        /\ Recorded(t, d) # Skipped => Recorded(t, d) = receipt[t]
        /\ Recorded(t, d) # Undecided
    BY <1>0, <1>3, <2>2 DEF Recorded, LedgerInv, Real, Skipped, Undecided
  <2>4. \A u \in Times : window'[u] = IF u = t THEN Recorded(t, d) ELSE window[u]
    BY <1>0, <1>3 DEF TypeOK
  <2>5. ASSUME NEW u \in Times
        PROVE  /\ window'[u] = Skipped => receipt[u] = Undecided
               /\ window'[u] \notin {Undecided, Skipped} => window'[u] = receipt[u]
               /\ receipt[u] # Undecided /\ window'[u] = Undecided => next' = u
               /\ window'[u] # Undecided => next' > u
    <3>1. CASE u = t
      BY <2>1, <2>3, <2>4, <3>1
    <3>2. CASE u # t
      BY <1>3, <2>1, <2>4, <2>5, <3>2 DEF LedgerInv, ScheduleLedger, Times
    <3>. QED BY <3>1, <3>2
  <2>6. ScheduleLedger'
    BY <1>0, <2>5 DEF ScheduleLedger
  <2>. QED BY <1>0, <1>1, <2>6 DEF LedgerInv
<1>. QED BY <1>2, <1>3 DEF CompleteWindow

LEMMA NextLedger ==
  ASSUME TypeOK, LedgerInv, [Next]_vars
  PROVE  LedgerInv'
<1>1. ASSUME UNCHANGED ledgerVars, NEW s \in Schedulers, Done(s) PROVE LedgerInv'
  <2>1. \A u \in Schedulers : TickInv(u)'
    BY <1>1 DEF TypeOK, LedgerInv, TickInv, Done, IdleTick
  <2>. QED BY <1>1, <2>1 DEF LedgerInv, ScheduleLedger, ledgerVars
<1>2. CASE UNCHANGED <<ledgerVars, tick>>
  BY <1>2 DEF LedgerInv, ScheduleLedger, TickInv, ledgerVars
<1>3. ASSUME NEW s \in Schedulers, EnsureAutomationScheduleState(s) PROVE LedgerInv'
  <2>1. \A t \in Times : window[t] = Undecided /\ receipt[t] = Undecided
    BY <1>3 DEF EnsureAutomationScheduleState, LedgerInv, ScheduleLedger, Times, NoTime
  <2>. QED BY <1>3, <2>1 DEF EnsureAutomationScheduleState, LedgerInv, ScheduleLedger, TickInv,
                             Undecided, Skipped
<1>4. ASSUME NEW s \in Schedulers, EvaluateAutomation(s) PROVE LedgerInv'
  <2>1. next \in Times /\ next # NoTime /\ NextOccurrence[clock] > next /\ UNCHANGED ledgerVars
    BY <1>4 DEF EvaluateAutomation, TypeOK, Times
  <2>2. \A u \in Schedulers : TickInv(u)'
    BY <1>4, <2>1 DEF EvaluateAutomation, Evaluation, TypeOK, LedgerInv, TickInv
  <2>. QED BY <2>1, <2>2 DEF LedgerInv, ScheduleLedger, ledgerVars
<1>5. ASSUME NEW s \in Schedulers, SchedulerStep(s) \/ GiveUp(s) PROVE LedgerInv'
  BY <1>1, <1>3, <1>4, <1>5, PlanLedger, CompleteLedger DEF SchedulerStep, GiveUp
<1>6. CASE ProcessCrash
  BY <1>1, <1>6 DEF ProcessCrash, Schedulers
<1>7. CASE (RunsStep /\ UNCHANGED scheduleVars) \/ Executes \/ ClockAdvances \/ UNCHANGED vars
  BY <1>2, <1>7 DEF Executes, ClockAdvances, vars, scheduleVars
<1>. QED BY <1>5, <1>6, <1>7 DEF Next

-----------------------------------------------------------------------------
(* Theorems.                                                               *)

LEMMA AuditInvariant == Spec => [](TypeOK /\ RowsInv /\ LedgerInv)
<1>1. Init => TypeOK /\ RowsInv /\ LedgerInv
  BY InitType, InitRows, InitLedger
<1>2. (TypeOK /\ RowsInv /\ LedgerInv) /\ [Next]_vars => (TypeOK /\ RowsInv /\ LedgerInv)'
  BY NextType, NextRow, NextLedger
<1>. QED BY <1>1, <1>2, PTL DEF Spec

\* Every variable keeps its type.
THEOREM AuditTypeCorrect == Spec => []TypeOK
<1>. QED BY AuditInvariant, PTL

\* The schedule's windows and receipts agree between any two transactions.
\* (scheduler.ts evaluateAutomation, store.ts completeAutomationScheduleWindow)
THEOREM ScheduleLedgerHolds == Spec => []ScheduleLedger
<1>1. LedgerInv => ScheduleLedger
  BY DEF LedgerInv
<1>. QED BY <1>1, AuditInvariant, PTL

\* No draft is launched twice.  (executor.ts: claim, launch and link)
THEOREM LaunchedOnceHolds == Spec => []LaunchedOnce
<1>1. RowsInv => LaunchedOnce
  BY DEF RowsInv, RowInv, LaunchedOnce
<1>. QED BY <1>1, AuditInvariant, PTL

\* A linked row ends as its workflow run did.  (executor.ts: the mirror pass
\* and the sweep at boot)
THEOREM OutcomeIsMirroredHolds == Spec => []OutcomeIsMirrored
<1>1. RowsInv => OutcomeIsMirrored
  BY DEF RowsInv, RowInv, OutcomeIsMirrored
<1>. QED BY <1>1, AuditInvariant, PTL

-----------------------------------------------------------------------------
(* AuditSchedule implements AuditContract.                                 *)

AuditInv == TypeOK /\ RowsInv /\ LedgerInv

\* How one step may move a row and its workflow run.
RowStep(r) ==
  \/ status'[r] = status[r]
  \/ status[r] = "created" /\ status'[r] = "queued"
  \/ status[r] \in {"created", "queued"} /\ status'[r] \in {"cancelled", "failed"}
  \/ status[r] = "queued" /\ status'[r] = "running" /\ wf[r] # "none"
  \/ status[r] = "running" /\ status'[r] = wf'[r] /\ wf'[r] \in Outcomes

WfStep(r) ==
  \/ wf'[r] = wf[r]
  \/ wf[r] = "none" /\ wf'[r] = "running" /\ status[r] # "none"
  \/ wf[r] = "running" /\ wf'[r] \in Outcomes

LEMMA StageMap ==
  /\ \A r \in Runs : Stages[r] = StageOf(r)
  /\ \A r \in Runs : Stages'[r] = StageOf(r)'
  BY DEF Stages

\* Steps that move rows one by one are progress.
LEMMA RowProgress ==
  ASSUME TypeOK, TypeOK', UNCHANGED <<enabled, receipt, window>>,
         \A r \in Runs : RowStep(r) /\ WfStep(r)
  PROVE  Contract!Progress
<1>1. Stages' \in [Runs -> Contract!Stages]
  <2>1. \A r \in Runs : StageOf(r)' \in Contract!Stages
    BY DEF StageOf, Contract!Stages, Contract!Verdicts, TypeOK, RunsTypeOK, RunStatuses,
           Active, Outcomes
  <2> QED BY <2>1 DEF Stages
<1>2. wf' \in [Runs -> Contract!Results]
  BY DEF TypeOK, RunsTypeOK, Contract!Results, Contract!Verdicts, Outcomes
<1>3. ASSUME NEW r \in Runs
      PROVE  Contract!RowMoves(r) /\ Contract!WorkflowMoves(r)
  <2>1. RowStep(r) /\ WfStep(r)
    OBVIOUS
  <2>2. Contract!RowMoves(r)
    BY <2>1, StageMap DEF RowStep, StageOf, Contract!RowMoves, Contract!Verdicts, Outcomes
  <2>3. Contract!WorkflowMoves(r)
    BY <2>1, StageMap DEF WfStep, StageOf, Contract!WorkflowMoves, Contract!Verdicts,
       Outcomes, TypeOK, RunsTypeOK, RunStatuses, Active
  <2> QED BY <2>2, <2>3
<1>4. UNCHANGED <<enabled, Answers>>
  BY DEF Answers, AnswerOf
<1> QED BY <1>1, <1>2, <1>3, <1>4 DEF Contract!Progress

\* A sweep follows the workflow runs.
LEMMA SweepSteps ==
  ASSUME RunsTypeOK, \A r \in Runs : RowInv(r), NEW F,
         wf' \in WfType, \A r \in Runs : WfStep(r), ReconcileInterruptedRuns(F, wf')
  PROVE  \A r \in Runs : RowStep(r)
<1> SUFFICES ASSUME NEW r \in Runs PROVE RowStep(r)
  OBVIOUS
<1>1. CASE r \notin Settling(wf') \ F
  BY <1>1 DEF ReconcileInterruptedRuns, RowStep
<1>2. CASE r \in Settling(wf') \ F
  <2>1. /\ status'[r] = Verdict(r, wf') /\ Verdict(r, wf') # status[r]
        /\ status[r] \in {"queued", "running"}
    BY <1>2 DEF ReconcileInterruptedRuns, Settling, Recoverable
  <2>2. CASE r \notin linked
    BY <2>1, <2>2 DEF Verdict, RowStep, RowInv
  <2>3. CASE r \in linked
    <3>1. status[r] = "running" /\ wf[r] # "none" /\ wf'[r] # "running"
      BY <2>1, <2>3 DEF Verdict, RowInv, Outcomes
    <3>2. status'[r] = wf'[r] /\ wf'[r] \in Outcomes
      BY <2>1, <2>3, <3>1 DEF Verdict, WfStep, WfType
    <3> QED BY <3>1, <3>2 DEF RowStep
  <2> QED BY <2>2, <2>3
<1> QED BY <1>1, <1>2

\* What requests, the workflow runtime and boot do to a row.
LEMMA RequestSteps ==
  ASSUME RunsTypeOK, RowsInv, Boot \/ \E r \in Runs : CancelAuditRun(r) \/ WorkflowEnds(r)
  PROVE  UNCHANGED enabled /\ \A r \in Runs : RowStep(r) /\ WfStep(r)
<1>1. ASSUME NEW r \in Runs, CancelAuditRun(r)
      PROVE  UNCHANGED enabled /\ \A q \in Runs : RowStep(q) /\ WfStep(q)
  BY <1>1 DEF CancelAuditRun, RowStep, WfStep, wfVars, RunsTypeOK
<1>2. ASSUME NEW r \in Runs, WorkflowEnds(r)
      PROVE  UNCHANGED enabled /\ \A q \in Runs : RowStep(q) /\ WfStep(q)
  BY <1>2 DEF WorkflowEnds, RowStep, WfStep, rowVars, RunsTypeOK
<1>3. CASE Boot
  <2>1. PICK waiting \in SUBSET {r \in Runs : wf[r] = "running"} :
          wf' = Interrupted(waiting) /\ ReconcileInterruptedRuns({}, Interrupted(waiting))
    BY <1>3 DEF Boot, Interrupted
  <2>2. wf' \in WfType /\ \A r \in Runs : WfStep(r)
    BY <2>1 DEF Interrupted, WfType, WfStep, RunsTypeOK, Outcomes
  <2>3. \A r \in Runs : RowStep(r)
    BY <2>1, <2>2, SweepSteps DEF RowsInv
  <2> QED BY <1>3, <2>2, <2>3 DEF Boot
<1> QED BY <1>1, <1>2, <1>3

\* What the executor does to a row.
LEMMA ExecutorSteps ==
  ASSUME RunsTypeOK, RowsInv, ExecutorStep
  PROVE  UNCHANGED enabled /\ \A r \in Runs : RowStep(r) /\ WfStep(r)
<1>0. \A r \in Runs : RowInv(r)
  BY DEF RowsInv
<1>1. CASE Tick
  <2>1. PICK F : ReconcileInterruptedRuns(F, wf)
    BY <1>1 DEF Tick
  <2>2. wf' = wf /\ wf \in WfType /\ enabled' = enabled
    BY <1>1 DEF Tick, wfVars, RunsTypeOK, WfType
  <2>3. \A r \in Runs : WfStep(r)
    BY <2>2 DEF WfStep
  <2> QED BY <1>0, <2>1, <2>2, <2>3, SweepSteps
<1>2. CASE DrainClaims
  <2>1. PICK r \in exec.todo : Claim(r)
    BY <1>2 DEF DrainClaims
  <2>2. \A q \in Runs : RowStep(q)
    BY <2>1 DEF Claim, RowStep, RunsTypeOK
  <2> QED BY <1>2, <2>2 DEF DrainClaims, WfStep, wfVars
<1>3. CASE LaunchRefused \/ LinkFailed
  <2>1. \A r \in Runs : RowStep(r)
    BY <1>3 DEF LaunchRefused, LinkFailed, SettleFailed, RowStep, RunsTypeOK
  <2> QED BY <1>3, <2>1 DEF LaunchRefused, LinkFailed, WfStep, wfVars
<1>4. CASE Launch
  <2>1. /\ exec.run \in Runs /\ wf[exec.run] = "none" /\ status[exec.run] # "none"
        /\ wf' = [wf EXCEPT ![exec.run] = "running"] /\ UNCHANGED <<enabled, status>>
    BY <1>0, <1>4 DEF Launch, RowsInv, ExecInv, RowInv, rowVars
  <2>2. \A r \in Runs : RowStep(r) /\ WfStep(r)
    BY <2>1 DEF RowStep, WfStep, RunsTypeOK
  <2> QED BY <2>1, <2>2
<1>5. CASE Link
  <2>1. /\ exec.run \in Runs /\ wf[exec.run] # "none" /\ UNCHANGED <<enabled, wf>>
        /\ \/ status' = status
           \/ /\ status[exec.run] = "queued"
              /\ status' = [status EXCEPT ![exec.run] = "running"]
    BY <1>0, <1>5 DEF Link, RowsInv, ExecInv, RowInv, rowVars, wfVars
  <2>2. \A r \in Runs : RowStep(r) /\ WfStep(r)
    BY <2>1 DEF RowStep, WfStep, RunsTypeOK
  <2> QED BY <2>1, <2>2
<1>6. CASE MirrorInFlight
  <2>1. PICK F \in SUBSET Ended :
          status' = [r \in Runs |-> IF r \in Ended \ F THEN wf[r] ELSE status[r]]
    BY <1>6 DEF MirrorInFlight
  <2>2. UNCHANGED <<enabled, wf>>
    BY <1>6 DEF MirrorInFlight, wfVars
  <2>3. \A r \in Runs : RowStep(r) /\ WfStep(r)
    BY <2>1, <2>2 DEF RowStep, WfStep, Ended
  <2> QED BY <2>2, <2>3
<1> QED BY <1>1, <1>2, <1>3, <1>4, <1>5, <1>6 DEF ExecutorStep

\* An answer is that of the window, or of the receipt that is not recorded yet;
\* what has one lies before every instant that may still get one.
LEMMA AnswerMap ==
  /\ \A t \in Times : Answers[t] = AnswerOf(t)
  /\ \A t \in Times : Answers'[t] = AnswerOf(t)'
  /\ Contract!Open = Undecided
  BY DEF Answers, Contract!Open, Contract!Answer, Undecided

LEMMA AnswersBehind ==
  ASSUME AuditInv, NEW t \in Times, next = t, receipt[t] = Undecided
  PROVE  /\ window[t] = Undecided /\ AnswerOf(t) = Undecided
         /\ \A u \in Times : Answers[u] # Contract!Open => u < t
<1>1. next \in Nat /\ Times \subseteq Nat
  BY DEF AuditInv, TypeOK, Times
<1>2. window[t] = Undecided
  BY <1>1 DEF AuditInv, LedgerInv, ScheduleLedger
<1>3. ASSUME NEW u \in Times, AnswerOf(u) # Undecided PROVE u < t
  <2>1. window[u] # Undecided \/ receipt[u] # Undecided
    BY <1>3 DEF AnswerOf
  <2>2. CASE window[u] # Undecided
    BY <1>1, <2>2 DEF AuditInv, LedgerInv, ScheduleLedger
  <2>3. CASE window[u] = Undecided /\ receipt[u] # Undecided
    BY <1>1, <2>3 DEF AuditInv, LedgerInv, ScheduleLedger
  <2> QED BY <2>1, <2>2, <2>3
<1> QED BY <1>2, <1>3, AnswerMap DEF AnswerOf

\* One instant gets its answer, from a receipt or from a window.
LEMMA AnswerOnce ==
  ASSUME AuditInv, NEW t \in Times, next = t, receipt[t] = Undecided,
         NEW d, d # Undecided,
         \/ receipt' = [receipt EXCEPT ![t] = d] /\ UNCHANGED window
         \/ window' = [window EXCEPT ![t] = d] /\ UNCHANGED receipt
  PROVE  Contract!Answered(t, d)
<1>1. /\ window[t] = Undecided /\ AnswerOf(t) = Undecided
      /\ \A u \in Times : Answers[u] # Contract!Open => u < t
  BY AnswersBehind
<1>2. window \in [Times -> Decisions] /\ receipt \in [Times -> Decisions]
  BY DEF AuditInv, TypeOK
<1>3. AnswerOf(t)' = d /\ \A u \in Times \ {t} : AnswerOf(u)' = AnswerOf(u)
  BY <1>1, <1>2 DEF AnswerOf
<1>4. Answers' = [Answers EXCEPT ![t] = d]
  BY <1>3, AnswerMap DEF Answers
<1> QED BY <1>1, <1>4, AnswerMap DEF Contract!Answered

LEMMA UnfinishedMap ==
  ASSUME TypeOK
  PROVE  Contract!Unfinished = ActiveRuns
<1>1. \A r \in Runs : StageOf(r) \in {"pending", "running"} <=> status[r] \in Active
  BY DEF StageOf, Active, TypeOK, RunsTypeOK, RunStatuses, Outcomes
<1> QED BY <1>1, StageMap DEF Contract!Unfinished, ActiveRuns

LEMMA DraftContract ==
  ASSUME TypeOK, NEW r \in Runs, CreateAuditRunDraft(r)
  PROVE  Contract!Drafted(r)
<1>1. /\ ActiveRuns = {} /\ status[r] = "none"
      /\ status' = [status EXCEPT ![r] = "created"]
      /\ status \in [Runs -> RunStatuses]
  BY DEF CreateAuditRunDraft, IsNextRow, TypeOK, RunsTypeOK
<1>2. Stages[r] = "absent"
  BY <1>1, StageMap DEF StageOf
<1>3. StageOf(r)' = "pending" /\ \A q \in Runs \ {r} : StageOf(q)' = StageOf(q)
  BY <1>1 DEF StageOf
<1>4. Stages' = [Stages EXCEPT ![r] = "pending"]
  BY <1>3 DEF Stages
<1> QED BY <1>1, <1>2, <1>4, UnfinishedMap DEF Contract!Drafted

LEMMA RowsStay == UNCHANGED status => UNCHANGED Stages
  BY DEF Stages, StageOf

LEMMA AnswersStay == UNCHANGED <<receipt, window>> => UNCHANGED Answers
  BY DEF Answers, AnswerOf

\* Planning answers an instant, unless a receipt or the schedule has.
LEMMA PlanContract ==
  ASSUME AuditInv, NEW s \in Schedulers, PlanScheduleRun(s)
  PROVE  [Contract!ContractNext]_(Contract!contractVars)
<1> PICK t \in Times : t = tick[s].instant
  BY DEF AuditInv, TypeOK
<1>0. UNCHANGED <<enabled, wf, window>> /\ TypeOK
  BY DEF PlanScheduleRun, wfVars, AuditInv, TypeOK
<1>1. CASE UNCHANGED <<status, receipt>>
  BY <1>0, <1>1, RowsStay, AnswersStay DEF Contract!contractVars
<1>2. ASSUME receipt[t] = Undecided, next = t, enabled, UNCHANGED status,
             NEW r \in ActiveRuns,
             receipt' = [receipt EXCEPT ![t] = [outcome |-> "coalesced", run |-> r]]
      PROVE  Contract!Joins(t, r)
  <2>1. Contract!Answered(t, [outcome |-> "coalesced", run |-> r])
    BY <1>0, <1>2, AnswerOnce DEF Undecided
  <2> QED BY <1>0, <1>2, <2>1, RowsStay, UnfinishedMap DEF Contract!Joins, Contract!Answer
<1>3. ASSUME receipt[t] = Undecided, next = t, enabled,
             NEW r \in Runs, CreateAuditRunDraft(r),
             receipt' = [receipt EXCEPT ![t] = [outcome |-> "created", run |-> r]]
      PROVE  Contract!Plans(t, r)
  <2>1. Contract!Answered(t, [outcome |-> "created", run |-> r])
    BY <1>0, <1>3, AnswerOnce DEF Undecided
  <2> QED BY <1>0, <1>3, <2>1, DraftContract DEF Contract!Plans, Contract!Answer
<1>4. \/ UNCHANGED <<status, receipt>>
      \/ /\ receipt[t] = Undecided /\ next = t /\ enabled /\ UNCHANGED status
         /\ \E r \in ActiveRuns :
              receipt' = [receipt EXCEPT ![t] = [outcome |-> "coalesced", run |-> r]]
      \/ /\ receipt[t] = Undecided /\ next = t /\ enabled
         /\ \E r \in Runs :
              /\ CreateAuditRunDraft(r)
              /\ receipt' = [receipt EXCEPT ![t] = [outcome |-> "created", run |-> r]]
  BY DEF PlanScheduleRun
<1> QED
  <2>1. ActiveRuns \subseteq Runs
    BY DEF ActiveRuns
  <2> QED BY <1>0, <1>1, <1>2, <1>3, <1>4, <2>1 DEF Contract!ContractNext

\* Completing records the answer there is, or answers with a skip.
LEMMA CompleteContract ==
  ASSUME AuditInv, NEW s \in Schedulers, CompleteWindow(s)
  PROVE  [Contract!ContractNext]_(Contract!contractVars)
<1> DEFINE d == tick[s].decision
<1> PICK t \in Times : t = tick[s].instant
  BY DEF AuditInv, TypeOK
<1>0. /\ UNCHANGED <<enabled, status, wf, receipt>>
      /\ window \in [Times -> Decisions]
      /\ d = Skipped \/ Real(d)
  BY DEF CompleteWindow, runsVars, rowVars, wfVars, AuditInv, TypeOK, LedgerInv, TickInv
<1>1. UNCHANGED Stages
  BY <1>0, RowsStay
<1>2. \/ UNCHANGED window
      \/ /\ window[t] = Undecided /\ next = t
         /\ d # Skipped => receipt[t] = d
         /\ window' = [window EXCEPT ![t] = Recorded(t, d)]
  BY DEF CompleteWindow
<1> HIDE DEF d
<1>3. CASE UNCHANGED window
  BY <1>0, <1>1, <1>3, AnswersStay DEF Contract!contractVars
<1>4. ASSUME window[t] = Undecided, window' = [window EXCEPT ![t] = receipt[t]]
      PROVE  UNCHANGED Answers
  <2>1. AnswerOf(t)' = AnswerOf(t) /\ \A u \in Times \ {t} : AnswerOf(u)' = AnswerOf(u)
    BY <1>0, <1>4 DEF AnswerOf
  <2> QED BY <2>1 DEF Answers
<1>5. CASE /\ window[t] = Undecided /\ next = t
           /\ d # Skipped => receipt[t] = d
           /\ window' = [window EXCEPT ![t] = Recorded(t, d)]
  <2>1. CASE receipt[t] # Undecided
    <3>1. Recorded(t, d) = receipt[t]
      BY <1>5, <2>1 DEF Recorded
    <3> QED BY <1>0, <1>1, <1>4, <1>5, <3>1 DEF Contract!contractVars
  <2>2. CASE receipt[t] = Undecided
    <3>1. d = Skipped /\ Recorded(t, d) = Skipped
      BY <1>0, <1>5, <2>2 DEF Recorded, Real, Undecided
    <3>2. Contract!Answered(t, Skipped)
      BY <1>0, <1>5, <2>2, <3>1, AnswerOnce DEF Skipped, Undecided
    <3>3. Contract!Skips(t)
      BY <1>0, <1>1, <3>2 DEF Contract!Skips, Contract!Answer, Skipped
    <3> QED BY <1>0, <3>3 DEF Contract!ContractNext
  <2> QED BY <2>1, <2>2
<1> QED BY <1>2, <1>3, <1>5

LEMMA AuditContractStep ==
  ASSUME AuditInv, AuditInv', [Next]_vars
  PROVE  [Contract!ContractNext]_(Contract!contractVars)
<1>0. TypeOK /\ TypeOK' /\ RunsTypeOK /\ RowsInv
  BY DEF AuditInv, TypeOK
<1>1. CASE RunsStep /\ UNCHANGED scheduleVars
  <2>0. UNCHANGED <<receipt, window>> /\ UNCHANGED Answers
    BY <1>1, AnswersStay DEF scheduleVars, ledgerVars
  <2>1. CASE ManualRun
    <3>1. PICK r \in Runs : CreateAuditRunDraft(r)
      BY <2>1 DEF ManualRun
    <3>2. Contract!Requested(r)
      BY <1>0, <2>0, <2>1, <3>1, DraftContract DEF ManualRun, wfVars, Contract!Requested
    <3> QED BY <3>2 DEF Contract!ContractNext
  <2>2. CASE SetAutomationEnabled
    <3>1. Contract!Toggled
      BY <2>0, <2>2, RowsStay DEF SetAutomationEnabled, rowVars, wfVars, Contract!Toggled
    <3> QED BY <3>1 DEF Contract!ContractNext
  <2>3. CASE Boot \/ \E r \in Runs : CancelAuditRun(r) \/ WorkflowEnds(r)
    BY <1>0, <2>0, <2>3, RequestSteps, RowProgress DEF Contract!ContractNext
  <2> QED BY <1>1, <2>1, <2>2, <2>3 DEF RunsStep
<1>2. CASE Executes
  <2>1. UNCHANGED <<receipt, window>>
    BY <1>2 DEF Executes, scheduleVars, ledgerVars
  <2> QED BY <1>0, <1>2, <2>1, ExecutorSteps, RowProgress DEF Executes, Contract!ContractNext
<1>3. CASE UNCHANGED <<enabled, receipt, window, status, wf>>
  BY <1>3, RowsStay, AnswersStay DEF Contract!contractVars
<1>4. ASSUME NEW s \in Schedulers,
             EnsureAutomationScheduleState(s) \/ EvaluateAutomation(s) \/ GiveUp(s)
      PROVE  UNCHANGED <<enabled, receipt, window, status, wf>>
  BY <1>4 DEF EnsureAutomationScheduleState, EvaluateAutomation, GiveUp, runsVars, rowVars,
              wfVars, ledgerVars
<1>5. ProcessCrash \/ ClockAdvances \/ UNCHANGED vars =>
        UNCHANGED <<enabled, receipt, window, status, wf>>
  BY DEF ProcessCrash, Crash, ClockAdvances, vars, runsVars, rowVars, wfVars, scheduleVars,
         ledgerVars
<1>6. \/ RunsStep /\ UNCHANGED scheduleVars
      \/ Executes
      \/ \E s \in Schedulers : PlanScheduleRun(s) \/ CompleteWindow(s)
      \/ \E s \in Schedulers :
           EnsureAutomationScheduleState(s) \/ EvaluateAutomation(s) \/ GiveUp(s)
      \/ ProcessCrash \/ ClockAdvances \/ UNCHANGED vars
  BY DEF Next, SchedulerStep
<1> QED BY <1>1, <1>2, <1>3, <1>4, <1>5, <1>6, PlanContract, CompleteContract

LEMMA AuditContractStart == Init => Contract!ContractInit
<1> SUFFICES ASSUME Init PROVE Contract!ContractInit
  OBVIOUS
<1>1. Answers = [t \in Times |-> Contract!Open]
  BY AnswerMap DEF Init, Answers, AnswerOf
<1>2. Stages = [r \in Runs |-> "absent"]
  BY DEF Init, RunsInit, Stages, StageOf
<1> QED BY <1>1, <1>2 DEF Init, RunsInit, Contract!ContractInit

\* Two transactions of any number of schedulers, the executor and restarts
\* amount to AuditContract: one answer for each instant, for good and in
\* order, and rows that follow their workflow runs.  (store.ts, executor.ts)
THEOREM AuditImplementsContract == Spec => ImplementsAuditContract
<1>1. Init => AuditInv
  BY InitType, InitRows, InitLedger DEF AuditInv
<1>2. Spec => []AuditInv
  BY AuditInvariant, PTL DEF AuditInv
<1>3. AuditInv /\ AuditInv' /\ [Next]_vars => [Contract!ContractNext]_(Contract!contractVars)
  BY AuditContractStep
<1> QED BY <1>2, <1>3, AuditContractStart, PTL
    DEF Spec, ImplementsAuditContract, Contract!ContractSpec

=============================================================================
