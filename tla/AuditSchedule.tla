--------------------------- MODULE AuditSchedule ---------------------------
(***************************************************************************)
(* The automation scheduler on top of AuditRuns: cron windows planned into *)
(* drafts by one transaction and recorded by another, possibly by several  *)
(* processes that share the database.                                      *)
(*                                                                         *)
(* Durable: nextScheduledAt (next), the planning receipts and the recorded *)
(* windows, by instant.  Volatile: each scheduler's evaluation (tick),     *)
(* which dies with its process.  Host is the daemon whose executor is on;  *)
(* Others schedule, and take requests, with theirs off.                    *)
(*                                                                         *)
(* Instants are numbers; NextOccurrence[t] is the first cron occurrence    *)
(* after t.  The trigger of an automation never changes (updateAutomation  *)
(* has no caller), so a schedule state is either missing or current.       *)
(***************************************************************************)
EXTENDS AuditRuns

CONSTANTS Host, Others, MaxTime, NextOccurrence, Grace

Schedulers == {Host} \cup Others
Times      == 0..MaxTime
NoTime     == 0

ASSUME AuditScheduleAssumption ==
  /\ {MaxTime, Grace} \subseteq Nat /\ Grace > 0
  /\ NextOccurrence \in [Times -> Nat]
  /\ \A t \in Times : NextOccurrence[t] > t

VARIABLES
  clock,
  next,       \* nextScheduledAt, NoTime before there is a schedule state
  receipt,    \* the planning receipt of an instant
  window,     \* the recorded window of an instant
  tick        \* each scheduler's evaluation

ledgerVars   == <<next, receipt, window>>
scheduleVars == <<clock, ledgerVars, tick>>
vars         == <<runsVars, scheduleVars>>

Decisions == [outcome : {"none", "skipped", "created", "coalesced"}, run : Runs \cup {NoRun}]
Undecided == [outcome |-> "none", run |-> NoRun]
Skipped   == [outcome |-> "skipped", run |-> NoRun]
IdleTick  == [at |-> "idle", instant |-> NoTime, nextAt |-> NoTime, decision |-> Undecided]

TypeOK ==
  /\ RunsTypeOK
  /\ clock   \in Times
  /\ next    \in Nat
  /\ receipt \in [Times -> Decisions]
  /\ window  \in [Times -> Decisions]
  /\ tick    \in [Schedulers -> [at : {"idle", "plan", "complete"}, instant : Times,
                                 nextAt : Nat, decision : Decisions]]

Init ==
  /\ RunsInit
  /\ clock   = 0
  /\ next    = NoTime
  /\ receipt = [t \in Times |-> Undecided]
  /\ window  = [t \in Times |-> Undecided]
  /\ tick    = [s \in Schedulers |-> IdleTick]

\* A process runs one thing at a time: the daemon evaluates its schedules
\* while its executor is idle or waits for a launch.
Alive(s) == s = Host => up /\ exec.at # "drain"

Evaluation(s, at, t, n, d) ==
  tick' = [tick EXCEPT ![s] = [at |-> at, instant |-> t, nextAt |-> n, decision |-> d]]

Done(s) == tick' = [tick EXCEPT ![s] = IdleTick]

-----------------------------------------------------------------------------

\* The first evaluation only writes the schedule state.
EnsureAutomationScheduleState(s) ==
  /\ Alive(s) /\ tick[s].at = "idle"
  /\ enabled /\ next = NoTime
  /\ next' = NextOccurrence[clock]
  /\ UNCHANGED <<runsVars, clock, receipt, window, tick>>

\* Mutant: a window that is late is left alone.
EvaluateInGrace(s) ==
  /\ Alive(s) /\ tick[s].at = "idle"
  /\ enabled /\ next # NoTime /\ next <= clock /\ clock - next < Grace
  /\ Evaluation(s, "plan", next, NoTime, Undecided)
  /\ UNCHANGED <<runsVars, clock, ledgerVars>>

\* A due window; one that is a whole grace period late will be skipped, and
\* so is every occurrence up to now.
EvaluateAutomation(s) ==
  /\ Alive(s) /\ tick[s].at = "idle"
  /\ enabled /\ next # NoTime /\ next <= clock
  /\ IF clock - next >= Grace
     THEN Evaluation(s, "complete", next, NextOccurrence[clock], Skipped)
     ELSE Evaluation(s, "plan", next, NoTime, Undecided)
  /\ UNCHANGED <<runsVars, clock, ledgerVars>>

\* The window is to be recorded under the decision d.
Decided(s, d) ==
  LET t == tick[s].instant IN Evaluation(s, "complete", t, NextOccurrence[t], d)

\* planAuditRunDraft, one transaction: a receipt is replayed; a paused
\* automation and a window that has moved on are refused; with a run active
\* the window joins it, otherwise it gets a draft.
PlanScheduleRun(s) ==
  LET t == tick[s].instant IN
  /\ Alive(s) /\ tick[s].at = "plan"
  /\ \/ /\ receipt[t] # Undecided
        /\ Decided(s, receipt[t])
        /\ UNCHANGED <<status, receipt>>
     \/ /\ receipt[t] = Undecided
        /\ ~enabled \/ next # t
        /\ Done(s)
        /\ UNCHANGED <<status, receipt>>
     \/ /\ receipt[t] = Undecided
        /\ enabled /\ next = t
        /\ \E r \in ActiveRuns :
             LET d == [outcome |-> "coalesced", run |-> r] IN
             receipt' = [receipt EXCEPT ![t] = d] /\ Decided(s, d)
        /\ UNCHANGED status
     \/ /\ receipt[t] = Undecided
        /\ enabled /\ next = t
        /\ \E r \in Runs :
             LET d == [outcome |-> "created", run |-> r] IN
             /\ CreateAuditRunDraft(r)
             /\ receipt' = [receipt EXCEPT ![t] = d] /\ Decided(s, d)
  /\ UNCHANGED <<enabled, linked, wfVars, exec, up, crashes, faults, clock, next, window>>

\* Mutant: a skip is recorded as it was decided.
RecordedAsAsked(t, d) == d

\* A receipt beats a skip.
Recorded(t, d) == IF d = Skipped /\ receipt[t] # Undecided THEN receipt[t] ELSE d

\* completeAutomationScheduleWindow, one transaction: a recorded window is
\* returned, a window that is no longer the next one is stale, and a decision
\* other than a skip must be the receipt's.
CompleteWindow(s) ==
  LET t == tick[s].instant
      d == tick[s].decision
  IN /\ Alive(s) /\ tick[s].at = "complete"
     /\ \/ /\ window[t] = Undecided /\ next = t
           /\ d # Skipped => receipt[t] = d
           /\ window' = [window EXCEPT ![t] = Recorded(t, d)]
           /\ next' = tick[s].nextAt
        \/ /\ \/ window[t] # Undecided
              \/ next # t
              \/ d # Skipped /\ receipt[t] # d
           /\ UNCHANGED <<window, next>>
     /\ Done(s)
     /\ UNCHANGED <<runsVars, clock, receipt>>

\* The database throws, or the process of another scheduler dies.
GiveUp(s) ==
  /\ tick[s].at # "idle"
  /\ Throws(1)
  /\ Done(s)
  /\ UNCHANGED <<enabled, rowVars, wfVars, exec, up, crashes, clock, ledgerVars>>

ProcessCrash == Crash /\ Done(Host) /\ UNCHANGED <<clock, ledgerVars>>

ClockAdvances ==
  /\ clock < MaxTime
  /\ clock' = clock + 1
  /\ UNCHANGED <<runsVars, ledgerVars, tick>>

SchedulerStep(s) ==
  \/ EnsureAutomationScheduleState(s) \/ EvaluateAutomation(s)
  \/ PlanScheduleRun(s) \/ CompleteWindow(s)

Executes == tick[Host].at = "idle" /\ ExecutorStep /\ UNCHANGED scheduleVars

Next ==
  \/ RunsStep /\ UNCHANGED scheduleVars
  \/ Executes
  \/ \E s \in Schedulers : SchedulerStep(s) \/ GiveUp(s)
  \/ ProcessCrash
  \/ ClockAdvances

Spec == Init /\ [][Next]_vars

\* Both loops run on intervals of one process, and each gets its turn when the
\* other is done; the daemon is started again; workflow runs end.
FairSpec ==
  /\ Spec
  /\ SF_vars(Executes)
  /\ WF_vars(Boot /\ UNCHANGED scheduleVars)
  /\ SF_vars(SchedulerStep(Host))
  /\ \A r \in Runs : WF_vars(WorkflowEnds(r) /\ UNCHANGED scheduleVars)

-----------------------------------------------------------------------------
(* Properties.                                                             *)

\* The ledger of the schedule is coherent between any two transactions of
\* any scheduler: a window that has a draft is recorded with it and never as
\* skipped, however late; a receipt that is not recorded yet is that of the
\* next window, so no draft is ever lost to the schedule; and what is recorded
\* lies behind the next window.  (scheduler.ts: planning and completion are
\* two transactions; store.ts: completeAutomationScheduleWindow)
ScheduleLedger ==
  \A t \in Times :
    /\ window[t] = Skipped => receipt[t] = Undecided
    /\ window[t] \notin {Undecided, Skipped} => window[t] = receipt[t]
    /\ receipt[t] # Undecided /\ window[t] = Undecided => next = t
    /\ window[t] # Undecided => next > t

\* What an instant was answered, as soon as either transaction says so, and a
\* row as its owner sees it.
AnswerOf(t) == IF window[t] # Undecided THEN window[t] ELSE receipt[t]
StageOf(r) ==
  CASE status[r] = "none" -> "absent"
    [] status[r] \in {"created", "queued"} -> "pending"
    [] OTHER -> status[r]

Answers == [t \in Times |-> AnswerOf(t)]
Stages  == [r \in Runs |-> StageOf(r)]

Contract == INSTANCE AuditContract WITH
  Instants <- Times, None <- NoRun, on <- enabled, answer <- Answers,
  stage <- Stages, result <- wf

\* Whatever several schedulers, the executor, requests and restarts do between
\* two writes, the automation keeps AuditContract: one final answer for each
\* instant, in order; one workflow run at most for each row, which ends as
\* that does; and no status that is left again once it is final.
\* (store.ts: planAuditRunDraft, completeAutomationScheduleWindow and the
\* guarded updates of audit_runs)
ImplementsAuditContract == Contract!ContractSpec

\* A window that is due is recorded, unless the automation is paused.
\* (scheduler.ts: the interval, retrying what a crash or an error cut short)
DueIsAnswered ==
  \A t \in Times \ {NoTime} :
    (next = t /\ clock >= t) ~> (window[t] # Undecided \/ ~enabled)

\* A draft reaches a terminal status, whatever throws or dies on the way.
\* (executor.ts: reconcile, launch and mirror, all retried by the next pass)
AuditRunEnds ==
  \A r \in Runs : status[r] \in Active ~> status[r] \notin Active

=============================================================================
