----------------------------- MODULE AuditRuns -----------------------------
(***************************************************************************)
(* Audit runs: the drafts that planning creates, and the executor that     *)
(* launches each draft as a workflow run and mirrors how that one ends.    *)
(*                                                                         *)
(* Durable: the rows of audit_runs (status, linked) and the enabled flag   *)
(* of the automation.  Volatile: the executor's pass (exec).  The workflow *)
(* run launched for a row is its status alone (wf); WorkflowRun is the     *)
(* model of how it comes about.                                            *)
(*                                                                         *)
(* One automation, mapped to a workflow definition: the rows of different  *)
(* automations never meet.  Rows are numbered in the order of created_at.  *)
(*                                                                         *)
(* Bounds on the environment: MaxRuns, MaxCrashes, MaxFaults (database     *)
(* writes that throw), MaxManual (manual drafts are made while fewer rows   *)
(* than that exist, which leaves rows for the drafts of the schedule).     *)
(***************************************************************************)
EXTENDS Naturals, FiniteSets

CONSTANTS MaxRuns, MaxManual, MaxCrashes, MaxFaults

ASSUME AuditRunsAssumption ==
  {MaxRuns, MaxManual, MaxCrashes, MaxFaults} \subseteq Nat

Runs  == 1..MaxRuns
NoRun == 0

VARIABLES
  enabled,    \* automations.enabled
  status,     \* audit_runs.status, "none" before the row exists
  linked,     \* rows that have a workflow_runtime_run_id
  wf,         \* status of the workflow run launched for a row
  launches,   \* how many workflow runs were launched for a row
  exec,       \* the executor's pass: where it is, its row, candidates left
  up,         \* the daemon is up
  crashes, faults

rowVars  == <<status, linked>>
wfVars   == <<wf, launches>>
runsVars == <<enabled, rowVars, wfVars, exec, up, crashes, faults>>

Active      == {"created", "queued", "running"}
Outcomes    == {"succeeded", "failed"}
RunStatuses == {"none", "cancelled"} \cup Active \cup Outcomes
Phases      == {"idle", "drain", "launch", "link"}

RunsTypeOK ==
  /\ enabled  \in BOOLEAN
  /\ status   \in [Runs -> RunStatuses]
  /\ linked   \subseteq Runs
  /\ wf       \in [Runs -> {"none", "running"} \cup Outcomes]
  /\ launches \in [Runs -> Nat]
  /\ exec     \in [at : Phases, run : Runs \cup {NoRun}, todo : SUBSET Runs]
  /\ up       \in BOOLEAN
  /\ crashes  \in 0..MaxCrashes
  /\ faults   \in 0..MaxFaults

IdleExec == [at |-> "idle", run |-> NoRun, todo |-> {}]

RunsInit ==
  /\ enabled \in BOOLEAN
  /\ status   = [r \in Runs |-> "none"] /\ linked = {}
  /\ wf       = [r \in Runs |-> "none"] /\ launches = [r \in Runs |-> 0]
  /\ exec     = IdleExec
  /\ up       = TRUE
  /\ crashes  = 0 /\ faults = 0

Works     == UNCHANGED faults
Throws(n) == faults + n <= MaxFaults /\ faults' = faults + n

-----------------------------------------------------------------------------
(* Drafts.                                                                 *)

ActiveRuns == {r \in Runs : status[r] \in Active}

IsNextRow(r) == /\ r \in Runs /\ status[r] = "none"
                /\ \A q \in 1..(r - 1) : status[q] # "none"

CreateAuditRunDraft(r) ==
  /\ ActiveRuns = {}
  /\ IsNextRow(r)
  /\ status' = [status EXCEPT ![r] = "created"]

\* A manual run of the automation, or a draft made over HTTP.  With a run
\* active the first is coalesced with it and the second refused.
ManualRun ==
  /\ up
  /\ \E r \in Runs : r <= MaxManual /\ CreateAuditRunDraft(r)
  /\ UNCHANGED <<enabled, linked, wfVars, exec, up, crashes, faults>>

SetAutomationEnabled ==
  /\ up
  /\ enabled' = ~enabled
  /\ UNCHANGED <<rowVars, wfVars, exec, up, crashes, faults>>

\* Mutant: a row that runs can be cancelled too.
CancelAuditRunRunning(r) ==
  /\ up
  /\ status[r] \in Active
  /\ status' = [status EXCEPT ![r] = "cancelled"]
  /\ UNCHANGED <<enabled, linked, wfVars, exec, up, crashes, faults>>

CancelAuditRun(r) ==
  /\ up
  /\ status[r] \in {"created", "queued"}
  /\ status' = [status EXCEPT ![r] = "cancelled"]
  /\ UNCHANGED <<enabled, linked, wfVars, exec, up, crashes, faults>>

-----------------------------------------------------------------------------
(* The executor.  One pass at a time: reconcile, drain the drafts, mirror. *)

\* Mutant: only rows with a link are looked at.
RecoverableLinked == {r \in linked : status[r] \in {"queued", "running"}}

Recoverable == {r \in Runs : status[r] \in {"queued", "running"}}

\* What reconcileInterruptedRuns makes of a row, given how the workflow runs
\* stand.
Verdict(r, w) ==
  IF r \notin linked THEN "failed"
  ELSE IF w[r] = "running" THEN status[r] ELSE w[r]

\* The rows that are written.
Settling(w) == {r \in Recoverable : Verdict(r, w) # status[r]}

\* Each on its own; those of F stay, as the write throws.
ReconcileInterruptedRuns(F, w) ==
  status' = [r \in Runs |-> IF r \in Settling(w) \ F THEN Verdict(r, w) ELSE status[r]]

Pass(at, run, todo) == exec' = [at |-> at, run |-> run, todo |-> todo]

Tick ==
  /\ up /\ exec.at = "idle"
  /\ \E F \in SUBSET Settling(wf) :
       /\ Throws(Cardinality(F))
       /\ ReconcileInterruptedRuns(F, wf)
       /\ Pass("drain", NoRun, {r \in Runs : status[r] = "created"})
  /\ UNCHANGED <<enabled, linked, wfVars, up, crashes>>

\* markRunQueued is the fence: a candidate that has been cancelled since it
\* was listed is passed over.
Claim(r) ==
  \/ /\ status[r] = "created"
     /\ status' = [status EXCEPT ![r] = "queued"]
     /\ Pass("launch", r, exec.todo \ {r})
  \/ /\ status[r] # "created"
     /\ Pass("drain", NoRun, exec.todo \ {r})
     /\ UNCHANGED status

DrainClaims ==
  /\ exec.at = "drain"
  /\ \E r \in exec.todo : (\A q \in exec.todo : r <= q) /\ Claim(r)
  /\ UNCHANGED <<enabled, linked, wfVars, up, crashes, faults>>

\* A row that left the queue is somebody else's; a queued one fails, unless
\* that write throws too and it stays for the next reconcile.
SettleFailed(r) ==
  \/ /\ Works
     /\ status' = [status EXCEPT ![r] = IF @ = "queued" THEN "failed" ELSE @]
  \/ /\ status[r] = "queued" /\ Throws(1)
     /\ UNCHANGED status

\* The host refuses the launch before there is a workflow run: no mapping,
\* not a local repository, no validated revision, no readable HEAD, no model.
LaunchRefused ==
  /\ exec.at = "launch"
  /\ SettleFailed(exec.run)
  /\ Pass("drain", NoRun, exec.todo)
  /\ UNCHANGED <<enabled, linked, wfVars, up, crashes>>

\* The row of the workflow run is committed and its execution begins.
Launch ==
  /\ exec.at = "launch"
  /\ wf' = [wf EXCEPT ![exec.run] = "running"]
  /\ launches' = [launches EXCEPT ![exec.run] = @ + 1]
  /\ Pass("link", exec.run, exec.todo)
  /\ UNCHANGED <<enabled, rowVars, up, crashes, faults>>

\* Mutant: a failed write puts the row back among the drafts.
LinkFailedRequeues ==
  /\ exec.at = "link"
  /\ status[exec.run] = "queued" /\ Throws(1)
  /\ status' = [status EXCEPT ![exec.run] = "created"]
  /\ Pass("drain", NoRun, exec.todo)
  /\ UNCHANGED <<enabled, linked, wfVars, up, crashes>>

\* markRunRunning throws, and the row is settled without the link.
LinkFailed ==
  /\ exec.at = "link"
  /\ status[exec.run] = "queued"
  /\ \/ /\ Throws(1)
        /\ status' = [status EXCEPT ![exec.run] = "failed"]
     \/ Throws(2) /\ UNCHANGED status
  /\ Pass("drain", NoRun, exec.todo)
  /\ UNCHANGED <<enabled, linked, wfVars, up, crashes>>

\* markRunRunning moves the row and writes the link; a row that was
\* cancelled during the launch is only reported.
Link ==
  /\ exec.at = "link"
  /\ \/ /\ status[exec.run] = "queued"
        /\ status' = [status EXCEPT ![exec.run] = "running"]
        /\ linked' = linked \cup {exec.run}
     \/ status[exec.run] # "queued" /\ UNCHANGED rowVars
  /\ Pass("drain", NoRun, exec.todo)
  /\ UNCHANGED <<enabled, wfVars, up, crashes, faults>>

\* Mutant: everything that has a link is mirrored as a success.
MirrorInFlightOptimist ==
  /\ exec.at = "drain" /\ exec.todo = {}
  /\ status' = [r \in Runs |->
       IF r \in linked /\ status[r] = "running" THEN "succeeded" ELSE status[r]]
  /\ exec' = IdleExec
  /\ UNCHANGED <<enabled, linked, wfVars, up, crashes, faults>>

\* The running rows whose workflow run is over.
Ended == {r \in linked : status[r] = "running" /\ wf[r] \in Outcomes}

\* Rows whose write throws (F) stay for the next pass.
MirrorInFlight ==
  /\ exec.at = "drain" /\ exec.todo = {}
  /\ \E F \in SUBSET Ended :
       /\ Throws(Cardinality(F))
       /\ status' = [r \in Runs |-> IF r \in Ended \ F THEN wf[r] ELSE status[r]]
  /\ exec' = IdleExec
  /\ UNCHANGED <<enabled, linked, wfVars, up, crashes>>

-----------------------------------------------------------------------------
(* The workflow runtime, process death and boot.                           *)

WorkflowEnds(r) ==
  /\ up
  /\ wf[r] = "running"
  /\ \E o \in Outcomes : wf' = [wf EXCEPT ![r] = o]
  /\ UNCHANGED <<enabled, rowVars, launches, exec, up, crashes, faults>>

Crash ==
  /\ up /\ crashes < MaxCrashes
  /\ up' = FALSE
  /\ crashes' = crashes + 1
  /\ exec' = IdleExec
  /\ UNCHANGED <<enabled, rowVars, wfVars, faults>>

\* The host fails its interrupted runs first (those that wait for a human
\* stay), so the sweep that follows resolves links to what they became.
Boot ==
  /\ ~up
  /\ up' = TRUE
  /\ \E waiting \in SUBSET {r \in Runs : wf[r] = "running"} :
       LET w == [r \in Runs |-> IF wf[r] = "running" /\ r \notin waiting THEN "failed" ELSE wf[r]]
       IN wf' = w /\ ReconcileInterruptedRuns({}, w)
  /\ UNCHANGED <<enabled, linked, launches, exec, crashes, faults>>

ExecutorStep == Tick \/ DrainClaims \/ LaunchRefused \/ Launch \/ LinkFailed
                \/ Link \/ MirrorInFlight

\* Requests, which any process may take, the workflow runtime, and boot.
RunsStep ==
  \/ ManualRun \/ SetAutomationEnabled
  \/ \E r \in Runs : CancelAuditRun(r) \/ WorkflowEnds(r)
  \/ Boot

-----------------------------------------------------------------------------
(* Properties.                                                             *)

\* A draft is launched at most once, whatever throws or dies around the
\* launch, and a row that may still be launched never was.  (executor.ts:
\* the claim, the settling of failed launches and links, the sweep at boot)
LaunchedOnce ==
  \A r \in Runs :
    /\ launches[r] <= 1
    /\ status[r] \in {"none", "created"} => launches[r] = 0

\* A row with a link ends exactly as its workflow run ended, and not before;
\* only a row without one may fail on its own or be cancelled.  (executor.ts:
\* the mirror pass and the sweep at boot, against cancellation)
OutcomeIsMirrored ==
  \A r \in Runs :
    /\ r \in linked => status[r] \in {"running"} \cup Outcomes
    /\ r \in linked /\ status[r] \in Outcomes => wf[r] = status[r]
    /\ status[r] \in {"running", "succeeded"} => r \in linked

=============================================================================
