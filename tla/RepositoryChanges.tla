------------------------- MODULE RepositoryChanges -------------------------
(***************************************************************************)
(* From a change in a working tree to a workflow run: the repository       *)
(* supervisor, its sink, the trigger planner and the trigger executor.     *)
(*                                                                         *)
(* One repository.  A key is what an event is deduplicated by: the head    *)
(* and the digest of the configuration, which is here the set of enabled   *)
(* on_change bindings.  Keys, not changes, have events: a second change at *)
(* the same key makes none.                                                *)
(*                                                                         *)
(* Durable: bindings, events, the keys whose audit drafts are planned, and *)
(* trigger plans.  Volatile, lost with the process: the supervisor's       *)
(* runtime (scan, seen, pending, emitted), the sink in progress and the    *)
(* executor's plan.  The tree belongs to the user.                         *)
(*                                                                         *)
(* Bounds on the environment: MaxEdits of the tree, MaxToggles of          *)
(* bindings, MaxCrashes, MaxFaults (probes and database writes that fail). *)
(***************************************************************************)
EXTENDS Naturals

CONSTANTS Heads, Diffs, Bindings, Clean, None, MaxEdits, MaxToggles, MaxCrashes, MaxFaults

ASSUME RepositoryChangesAssumption ==
  /\ Clean \notin Diffs /\ None \notin Diffs \cup Heads /\ Clean # None
  /\ {MaxEdits, MaxToggles, MaxCrashes, MaxFaults} \subseteq Nat

Trees        == [head : Heads, diff : Diffs \cup {Clean}]
Keys         == [head : Heads, config : SUBSET Bindings]
Observations == [head : Heads, config : SUBSET Bindings, diff : Diffs]
Plans        == Keys \X Bindings

VARIABLES
  tree,
  bound,      \* enabled on_change bindings, and the registration made of them
  event,      \* the diff that the event of a key carries
  audited,    \* keys whose event went through the audit planner
  plan,       \* status of a trigger plan
  launches,   \* workflow runs created for a plan
  scan,       \* the probe in flight and what it has read so far
  seen,       \* lastObservationDigest
  pending,    \* pendingChange; its debounce timer is armed exactly while it is set
  emitted,    \* emittedDedupeKeys
  sink,       \* the event the sink works on, and its next step
  exec,       \* the plan the executor holds
  up,
  edits, toggles, crashes, faults

durableVars    == <<event, audited, plan, launches>>
supervisorVars == <<scan, seen, pending, emitted>>
budgets        == <<edits, toggles, crashes, faults>>
vars           == <<tree, bound, durableVars, supervisorVars, sink, exec, up, budgets>>

PlanStatuses == {"none", "pending", "executing", "succeeded", "skipped", "failed"}

TypeOK ==
  /\ tree     \in Trees
  /\ bound    \subseteq Bindings
  /\ event    \in [Keys -> Diffs \cup {None}]
  /\ audited  \subseteq Keys
  /\ plan     \in [Plans -> PlanStatuses]
  /\ launches \in [Plans -> Nat]
  /\ scan     \in [at : {"idle", "probing"}, head : Heads \cup {None},
                   diff : Diffs \cup {Clean, None}]
  /\ seen     \in Observations \cup {None}
  /\ pending  \in Observations \cup {None}
  /\ emitted  \subseteq Keys
  /\ sink     \in [at : {"idle", "save", "audit", "plan"}, change : Observations \cup {None}]
  /\ exec     \in [at : {"idle", "execute", "complete"}, plan : Plans \cup {None}]
  /\ up       \in BOOLEAN
  /\ edits \in 0..MaxEdits /\ toggles \in 0..MaxToggles
  /\ crashes \in 0..MaxCrashes /\ faults \in 0..MaxFaults

IdleScan == [at |-> "idle", head |-> None, diff |-> None]
IdleSink == [at |-> "idle", change |-> None]
IdleExec == [at |-> "idle", plan |-> None]

Init ==
  /\ tree \in {t \in Trees : t.diff = Clean}
  /\ bound = Bindings
  /\ event = [k \in Keys |-> None] /\ audited = {}
  /\ plan = [p \in Plans |-> "none"] /\ launches = [p \in Plans |-> 0]
  /\ scan = IdleScan /\ seen = None /\ pending = None /\ emitted = {}
  /\ sink = IdleSink /\ exec = IdleExec
  /\ up = TRUE
  /\ edits = 0 /\ toggles = 0 /\ crashes = 0 /\ faults = 0

Works     == UNCHANGED faults
Throws(n) == faults + n <= MaxFaults /\ faults' = faults + n

\* repositoryEventDedupeKey
KeyOf(o) == [head |-> o.head, config |-> o.config]

\* The sink is synchronous: nothing else of the process runs under it.
Free == up /\ sink.at = "idle"

-----------------------------------------------------------------------------
(* The user.                                                               *)

Edit ==
  /\ edits < MaxEdits /\ edits' = edits + 1
  /\ tree' \in Trees \ {tree}
  /\ UNCHANGED <<bound, durableVars, supervisorVars, sink, exec, up, toggles, crashes, faults>>

\* A binding is enabled, disabled or removed, and the supervisor reconciled: a
\* new runtime takes over, which inherits only the keys already emitted; the
\* observation of a probe in flight is dropped.
SetBinding(b) ==
  /\ Free
  /\ toggles < MaxToggles /\ toggles' = toggles + 1
  /\ bound' = IF b \in bound THEN bound \ {b} ELSE bound \cup {b}
  /\ scan' = IdleScan /\ seen' = None /\ pending' = None
  /\ UNCHANGED <<tree, durableVars, emitted, sink, exec, up, edits, crashes, faults>>

-----------------------------------------------------------------------------
(* The supervisor.  A probe reads the head and the diff in either order.   *)

BeginScan ==
  /\ Free /\ scan.at = "idle"
  /\ scan' = [scan EXCEPT !.at = "probing"]
  /\ UNCHANGED <<tree, bound, durableVars, seen, pending, emitted, sink, exec, up, budgets>>

Probe ==
  /\ up /\ scan.at = "probing"
  /\ \/ scan.head = None /\ scan' = [scan EXCEPT !.head = tree.head]
     \/ scan.diff = None /\ scan' = [scan EXCEPT !.diff = tree.diff]
  /\ UNCHANGED <<tree, bound, durableVars, seen, pending, emitted, sink, exec, up, budgets>>

ProbeFails ==
  /\ Free /\ scan.at = "probing"
  /\ Throws(1)
  /\ scan' = IdleScan
  /\ UNCHANGED <<tree, bound, durableVars, seen, pending, emitted, sink, exec, up,
                 edits, toggles, crashes>>

\* Mutant: a clean tree drops the pending change but not what was seen.
ObserveKeepsSeen ==
  /\ Free /\ scan.at = "probing" /\ scan.head # None /\ scan.diff # None
  /\ \/ scan.diff = Clean /\ pending' = None /\ UNCHANGED seen
     \/ /\ scan.diff # Clean
        /\ LET o == [head |-> scan.head, config |-> bound, diff |-> scan.diff] IN
           \/ o = seen /\ UNCHANGED <<seen, pending>>
           \/ o # seen /\ seen' = o /\ pending' = o
  /\ scan' = IdleScan
  /\ UNCHANGED <<tree, bound, durableVars, emitted, sink, exec, up, budgets>>

\* A clean tree forgets everything, a known change is no news, and a new one
\* replaces the pending change and starts the debounce again.
ObserveWorkingTree ==
  /\ Free /\ scan.at = "probing" /\ scan.head # None /\ scan.diff # None
  /\ \/ scan.diff = Clean /\ seen' = None /\ pending' = None
     \/ /\ scan.diff # Clean
        /\ LET o == [head |-> scan.head, config |-> bound, diff |-> scan.diff] IN
           \/ o = seen /\ UNCHANGED <<seen, pending>>
           \/ o # seen /\ seen' = o /\ pending' = o
  /\ scan' = IdleScan
  /\ UNCHANGED <<tree, bound, durableVars, emitted, sink, exec, up, budgets>>

\* The debounce timer.  A key that this process has emitted is not offered
\* again, whatever the change.
FlushChange ==
  /\ Free /\ pending # None
  /\ pending' = None
  /\ sink' = IF KeyOf(pending) \in emitted THEN IdleSink ELSE [at |-> "save", change |-> pending]
  /\ UNCHANGED <<tree, bound, durableVars, scan, seen, emitted, exec, up, budgets>>

-----------------------------------------------------------------------------
(* The sink: three writes, in this order.                                  *)

At(step) == up /\ sink.at = step
Key      == KeyOf(sink.change)
Go(step) == sink' = [sink EXCEPT !.at = step]

\* The failure is reported; the key may be offered again, the change may not.
SinkFails == sink' = IdleSink /\ UNCHANGED emitted

\* Mutant: the key is marked before its event is stored and planned.
SaveMarksKey ==
  /\ At("save")
  /\ event[Key] \in {None, sink.change.diff}
  /\ event' = [event EXCEPT ![Key] = sink.change.diff]
  /\ emitted' = emitted \cup {Key}
  /\ Go("audit")
  /\ UNCHANGED <<tree, bound, audited, plan, launches, scan, seen, pending, exec, up, budgets>>

\* The key is unique: the event it has is returned if it carries the same
\* change, and is a conflict otherwise.
SaveRepositoryEvent ==
  /\ At("save")
  /\ \/ /\ event[Key] \in {None, sink.change.diff} /\ Works
        /\ event' = [event EXCEPT ![Key] = sink.change.diff]
        /\ Go("audit") /\ UNCHANGED emitted
     \/ /\ event[Key] \notin {None, sink.change.diff} /\ Works
        /\ SinkFails /\ UNCHANGED event
     \/ Throws(1) /\ SinkFails /\ UNCHANGED event
  /\ UNCHANGED <<tree, bound, audited, plan, launches, scan, seen, pending, exec, up,
                 edits, toggles, crashes>>

\* The audit planner is idempotent; when it throws, the triggers are not planned.
PlanAuditRuns ==
  /\ At("audit")
  /\ \/ Works /\ audited' = audited \cup {Key} /\ Go("plan") /\ UNCHANGED emitted
     \/ Throws(1) /\ SinkFails /\ UNCHANGED audited
  /\ UNCHANGED <<tree, bound, event, plan, launches, scan, seen, pending, exec, up,
                 edits, toggles, crashes>>

\* One plan for each binding, unless it is there.  A write that throws ends
\* the loop (after the plans of B) and is only logged: the key counts as
\* emitted all the same.
PlanTriggers ==
  /\ At("plan")
  /\ \E B \in SUBSET bound :
       /\ IF B = bound THEN Works \/ Throws(1) ELSE Throws(1)
       /\ plan' = [p \in Plans |->
            IF p[1] = Key /\ p[2] \in B /\ plan[p] = "none" THEN "pending" ELSE plan[p]]
  /\ emitted' = emitted \cup {Key}
  /\ sink' = IdleSink
  /\ UNCHANGED <<tree, bound, event, audited, launches, scan, seen, pending, exec, up,
                 edits, toggles, crashes>>

-----------------------------------------------------------------------------
(* The trigger executor: one plan at a time, one attempt each.             *)

executorFrame == <<tree, bound, event, audited, supervisorVars, sink, up, edits, toggles, crashes>>

Settle(p, s) == plan' = [plan EXCEPT ![p] = s] /\ exec' = IdleExec

ClaimTriggerPlan(p) ==
  /\ Free /\ exec.at = "idle"
  /\ plan[p] = "pending"
  /\ plan' = [plan EXCEPT ![p] = "executing"]
  /\ exec' = [at |-> "execute", plan |-> p]
  /\ UNCHANGED <<executorFrame, launches, faults>>

\* The gates of triggerBinding: a binding that is gone makes the plan skipped,
\* whatever else the host refuses makes it failed.
Refused ==
  /\ Free /\ exec.at = "execute"
  /\ Settle(exec.plan, IF exec.plan[2] \notin bound THEN "skipped" ELSE "failed")
  /\ UNCHANGED <<executorFrame, launches, faults>>

Trigger ==
  /\ Free /\ exec.at = "execute"
  /\ exec.plan[2] \in bound
  /\ launches' = [launches EXCEPT ![exec.plan] = @ + 1]
  /\ exec' = [exec EXCEPT !.at = "complete"]
  /\ UNCHANGED <<executorFrame, plan, faults>>

\* When recording the success throws, the plan is recorded as failed; when
\* that throws too nobody catches it, and the process ends (Crash).
CompleteTriggerPlan ==
  /\ Free /\ exec.at = "complete"
  /\ \/ Works /\ Settle(exec.plan, "succeeded")
     \/ Throws(1) /\ Settle(exec.plan, "failed")
  /\ UNCHANGED <<executorFrame, launches>>

-----------------------------------------------------------------------------
(* Process death and boot.                                                 *)

Crash ==
  /\ up /\ crashes < MaxCrashes
  /\ up' = FALSE /\ crashes' = crashes + 1
  /\ scan' = IdleScan /\ seen' = None /\ pending' = None /\ emitted' = {}
  /\ sink' = IdleSink /\ exec' = IdleExec
  /\ UNCHANGED <<tree, bound, durableVars, edits, toggles, faults>>

\* Mutant: an interrupted plan gets another attempt.
BootRetries ==
  /\ ~up /\ up' = TRUE
  /\ plan' = [p \in Plans |-> IF plan[p] = "executing" THEN "pending" ELSE plan[p]]
  /\ UNCHANGED <<tree, bound, event, audited, launches, supervisorVars, sink, exec, budgets>>

\* recoverInterruptedTriggerPlans
Boot ==
  /\ ~up /\ up' = TRUE
  /\ plan' = [p \in Plans |-> IF plan[p] = "executing" THEN "failed" ELSE plan[p]]
  /\ UNCHANGED <<tree, bound, event, audited, launches, supervisorVars, sink, exec, budgets>>

WriteChangeEvent == SaveRepositoryEvent \/ PlanAuditRuns \/ PlanTriggers
Execute == (\E p \in Plans : ClaimTriggerPlan(p)) \/ Refused \/ Trigger \/ CompleteTriggerPlan

Next ==
  \/ Edit \/ \E b \in Bindings : SetBinding(b)
  \/ BeginScan \/ Probe \/ ProbeFails \/ ObserveWorkingTree
  \/ FlushChange \/ WriteChangeEvent
  \/ Execute
  \/ Crash \/ Boot

Spec == Init /\ [][Next]_vars

\* The poll interval, the debounce timer, the executor's interval and the
\* restart of the daemon.
FairSpec ==
  /\ Spec
  /\ SF_vars(BeginScan) /\ WF_vars(Probe) /\ SF_vars(ObserveWorkingTree)
  /\ SF_vars(FlushChange) /\ WF_vars(WriteChangeEvent)
  /\ SF_vars(Execute)
  /\ WF_vars(Boot)

-----------------------------------------------------------------------------
(* Properties.                                                             *)

\* What a process remembers as emitted, and will never offer again, is stored
\* and went through both planners: only a write that threw leaves a binding
\* of the key without its plan.  (repositorySupervisor.ts flushChange against
\* the sink in server.ts, over crashes, reconfiguration and errors)
EmittedIsPlanned ==
  \A k \in emitted :
    /\ event[k] # None /\ k \in audited
    /\ faults = 0 => \A b \in k.config : plan[<<k, b>>] # "none"

\* However often the change of a key is offered (after a restart, after an
\* error) and wherever the process dies, each binding runs at most once for
\* it, only if the key's configuration names the binding, and a plan that
\* has not run says so.  (triggers.ts, store.ts: the unique plan, the claim,
\* recovery at boot; docs/workflow-runtime.md "At most once per event")
TriggeredOnce ==
  \A p \in Plans :
    /\ launches[p] <= 1
    /\ launches[p] = 1 => plan[p] \in {"executing", "succeeded", "failed"}
    /\ plan[p] = "succeeded" => launches[p] = 1
    /\ plan[p] # "none" => p[2] \in p[1].config /\ event[p[1]] # None /\ p[1] \in audited

\* A change that stays in the tree gets the event of its key, even over
\* restarts, and unless the process dies on the way a settled plan for every
\* binding, as long as no write or probe fails.  (the scan, debounce and
\* executor timers)
ChangeIsAnswered ==
  \A t \in {u \in Trees : u.diff # Clean}, B \in SUBSET Bindings :
    LET k == [head |-> t.head, config |-> B] IN
    [](faults = 0) /\ <>[](tree = t /\ bound = B)
      => <>(/\ event[k] # None
            /\ crashes = 0 => \A b \in B : plan[<<k, b>>] \in {"succeeded", "skipped", "failed"})

=============================================================================
