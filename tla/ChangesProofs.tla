--------------------------- MODULE ChangesProofs ---------------------------
(***************************************************************************)
(* Proofs about RepositoryChanges: type correctness, that what a process   *)
(* remembers as emitted is stored and planned, and that each binding runs  *)
(* at most once for the event of a key, for all heads, changes, bindings   *)
(* and bounds.                                                             *)
(*                                                                         *)
(* The argument follows the change from the pending slot through the sink  *)
(* (SinkInv: it still belongs to the registered configuration, and the     *)
(* earlier writes of the sink are durable) and a plan through the executor *)
(* (ExecInv: the plan it holds is claimed, and launched only once it is    *)
(* to be completed).                                                       *)
(***************************************************************************)
EXTENDS RepositoryChanges, TLAPS

SinkInv ==
  /\ pending # None => pending \in Observations /\ pending.config = bound
  /\ sink.at # "idle" => sink.change \in Observations /\ sink.change.config = bound
  /\ sink.at \in {"audit", "plan"} => event[KeyOf(sink.change)] # None
  /\ sink.at = "plan" => KeyOf(sink.change) \in audited
  /\ ~up => sink.at = "idle"

PlanInv(p) ==
  /\ launches[p] <= 1
  /\ launches[p] = 1 => plan[p] \in {"executing", "succeeded", "failed"}
  /\ plan[p] = "succeeded" => launches[p] = 1
  /\ plan[p] # "none" => p[2] \in p[1].config /\ event[p[1]] # None /\ p[1] \in audited

ExecInv ==
  /\ exec.at # "idle" => exec.plan \in Plans /\ plan[exec.plan] = "executing"
  /\ exec.at = "execute" => launches[exec.plan] = 0
  /\ exec.at = "complete" => launches[exec.plan] = 1
  /\ ~up => exec.at = "idle"

PlansInv == \A p \in Plans : PlanInv(p)

Inv == TypeOK /\ SinkInv /\ PlansInv /\ ExecInv /\ EmittedIsPlanned

USE RepositoryChangesAssumption DEF RepositoryChangesAssumption

-----------------------------------------------------------------------------

LEMMA KeyType == \A o \in Observations : KeyOf(o) \in Keys /\ KeyOf(o).config = o.config
  BY DEF KeyOf, Keys, Observations

LEMMA InitInv == Init => Inv
<1>. SUFFICES ASSUME Init PROVE Inv
  OBVIOUS
<1>1. TypeOK
  BY DEF Init, TypeOK, Trees, IdleScan, IdleSink, IdleExec, PlanStatuses
<1>2. SinkInv /\ PlansInv /\ ExecInv /\ EmittedIsPlanned
  BY DEF Init, SinkInv, PlansInv, PlanInv, ExecInv, EmittedIsPlanned, IdleSink, IdleExec
<1>. QED BY <1>1, <1>2 DEF Inv

-----------------------------------------------------------------------------
(* The user and the supervisor: the durable state stays.                   *)

\* What a step that writes nothing durable has to show.
LEMMA Quiet ==
  ASSUME Inv, TypeOK', SinkInv', ExecInv',
         UNCHANGED <<durableVars, faults>>, emitted' \subseteq emitted
  PROVE  Inv'
<1>1. PlansInv'
  BY DEF Inv, PlansInv, PlanInv, durableVars
<1>2. EmittedIsPlanned'
  BY DEF Inv, EmittedIsPlanned, durableVars
<1>. QED BY <1>1, <1>2 DEF Inv

LEMMA EditInv == ASSUME Inv, Edit PROVE Inv'
<1>1. TypeOK'
  BY DEF Inv, TypeOK, Edit, durableVars, supervisorVars
<1>2. SinkInv' /\ ExecInv'
  BY DEF Inv, SinkInv, ExecInv, Edit, durableVars, supervisorVars
<1>. QED BY <1>1, <1>2, Quiet DEF Edit, supervisorVars

LEMMA SetBindingInv == ASSUME Inv, NEW b \in Bindings, SetBinding(b) PROVE Inv'
<1>1. TypeOK'
  BY DEF Inv, TypeOK, SetBinding, durableVars, IdleScan
<1>2. SinkInv' /\ ExecInv'
  BY DEF Inv, SinkInv, ExecInv, SetBinding, Free, durableVars
<1>. QED BY <1>1, <1>2, Quiet DEF SetBinding

LEMMA ScanInv ==
  ASSUME Inv, BeginScan \/ Probe \/ ProbeFails PROVE Inv'
<1>1. scan' \in [at : {"idle", "probing"}, head : Heads \cup {None}, diff : Diffs \cup {Clean, None}]
  BY DEF Inv, TypeOK, Trees, BeginScan, Probe, ProbeFails, IdleScan
<1>2. UNCHANGED <<tree, bound, durableVars, seen, pending, emitted, sink, exec, up,
                  edits, toggles, crashes>>
  BY DEF BeginScan, Probe, ProbeFails, budgets
<1>3. faults' \in 0..MaxFaults /\ faults' >= faults
  BY DEF Inv, TypeOK, BeginScan, Probe, ProbeFails, Throws, budgets
<1>4. TypeOK'
  BY <1>1, <1>2, <1>3 DEF Inv, TypeOK, durableVars
<1>5. SinkInv' /\ ExecInv' /\ PlansInv'
  BY <1>2 DEF Inv, SinkInv, ExecInv, PlansInv, PlanInv, durableVars
<1>6. EmittedIsPlanned'
  BY <1>2, <1>3 DEF Inv, TypeOK, EmittedIsPlanned, durableVars
<1>. QED BY <1>4, <1>5, <1>6 DEF Inv

LEMMA ObserveInv == ASSUME Inv, ObserveWorkingTree PROVE Inv'
<1>. DEFINE o == [head |-> scan.head, config |-> bound, diff |-> scan.diff]
<1>1. scan.diff # Clean => o \in Observations
  BY DEF Inv, TypeOK, ObserveWorkingTree, Observations
<1>2. /\ pending' \in Observations \cup {None} /\ seen' \in Observations \cup {None}
      /\ pending' # None => pending' \in Observations /\ pending'.config = bound
  BY <1>1 DEF Inv, TypeOK, SinkInv, ObserveWorkingTree
<1>3. TypeOK'
  BY <1>2 DEF Inv, TypeOK, ObserveWorkingTree, durableVars, budgets, IdleScan
<1>4. SinkInv' /\ ExecInv'
  BY <1>2 DEF Inv, SinkInv, ExecInv, ObserveWorkingTree, durableVars
<1>. QED BY <1>3, <1>4, Quiet DEF ObserveWorkingTree, budgets

LEMMA FlushInv == ASSUME Inv, FlushChange PROVE Inv'
<1>1. pending \in Observations /\ pending.config = bound
  BY DEF Inv, SinkInv, FlushChange
<1>2. TypeOK'
  BY <1>1 DEF Inv, TypeOK, FlushChange, durableVars, budgets, IdleSink
<1>3. SinkInv'
  BY <1>1 DEF Inv, SinkInv, FlushChange, Free, durableVars, IdleSink
<1>4. ExecInv'
  BY DEF Inv, ExecInv, FlushChange, durableVars
<1>. QED BY <1>2, <1>3, <1>4, Quiet DEF FlushChange, budgets

-----------------------------------------------------------------------------
(* The sink.                                                               *)

sinkFrame == <<tree, bound, launches, scan, seen, pending, exec, up, edits, toggles, crashes>>

\* A step of the sink adds events, audited keys and pending plans, and takes
\* nothing back.
LEMMA SinkStep ==
  ASSUME Inv, up, UNCHANGED sinkFrame, faults' \in {faults, faults + 1}, faults' <= MaxFaults,
         event' \in [Keys -> Diffs \cup {None}], plan' \in [Plans -> PlanStatuses],
         sink' \in [at : {"idle", "save", "audit", "plan"}, change : Observations \cup {None}],
         audited \subseteq audited', audited' \subseteq Keys,
         \A k \in Keys : event[k] # None => event'[k] # None,
         \A p \in Plans : plan'[p] # plan[p] => /\ plan[p] = "none" /\ plan'[p] = "pending"
                                               /\ p[2] \in p[1].config
                                               /\ event[p[1]] # None /\ p[1] \in audited,
         SinkInv', EmittedIsPlanned', emitted' \subseteq Keys
  PROVE  Inv'
<1>1. faults' \in 0..MaxFaults
  BY DEF Inv, TypeOK
<1>2. TypeOK'
  BY <1>1 DEF Inv, TypeOK, sinkFrame
<1>3. PlansInv'
  <2>1. ASSUME NEW p \in Plans PROVE PlanInv(p)'
    <3>1. p[1] \in Keys /\ launches[p] \in Nat /\ PlanInv(p) /\ launches'[p] = launches[p]
      BY <2>1 DEF Plans, Inv, TypeOK, PlansInv, sinkFrame
    <3>2. CASE plan'[p] = plan[p]
      BY <3>1, <3>2 DEF PlanInv
    <3>3. CASE plan'[p] # plan[p]
      BY <3>1, <3>3 DEF PlanInv
    <3>. QED BY <3>2, <3>3
  <2>. QED BY <2>1 DEF PlansInv
<1>4. ExecInv'
  BY DEF Inv, ExecInv, sinkFrame
<1>. QED BY <1>2, <1>3, <1>4 DEF Inv

LEMMA Offered ==
  ASSUME Inv, sink.at # "idle"
  PROVE  /\ sink.change \in Observations /\ Key \in Keys /\ Key.config = bound
         /\ Key = KeyOf(sink.change) /\ sink.change.diff \in Diffs
BY KeyType DEF Inv, SinkInv, Key, Observations

LEMMA SaveInv == ASSUME Inv, SaveRepositoryEvent PROVE Inv'
<1>0. up /\ sink.at = "save" /\ UNCHANGED <<sinkFrame, audited, plan, emitted>>
  BY DEF SaveRepositoryEvent, At, SinkFails, sinkFrame
<1>1. sink.change \in Observations /\ Key \in Keys /\ sink.change.config = bound
      /\ sink.change.diff \in Diffs /\ Key = KeyOf(sink.change)
  BY <1>0, Offered DEF Inv, SinkInv
<1>2. faults' \in {faults, faults + 1} /\ faults' <= MaxFaults
  BY DEF SaveRepositoryEvent, Works, Throws, Inv, TypeOK
<1>3. CASE event' = [event EXCEPT ![Key] = sink.change.diff] /\ Go("audit")
  <2>1. /\ event' \in [Keys -> Diffs \cup {None}]
        /\ \A k \in Keys : event[k] # None => event'[k] # None
        /\ event'[Key] # None
    BY <1>1, <1>3 DEF Inv, TypeOK
  <2>2. sink' = [at |-> "audit", change |-> sink.change]
    BY <1>3 DEF Go, Inv, TypeOK
  <2>3. SinkInv'
    BY <1>0, <1>1, <2>1, <2>2 DEF Inv, SinkInv, sinkFrame
  <2>4. EmittedIsPlanned'
    BY <1>0, <1>2, <2>1 DEF Inv, TypeOK, EmittedIsPlanned
  <2>. QED BY <1>0, <1>1, <1>2, <2>1, <2>2, <2>3, <2>4, SinkStep DEF Inv, TypeOK
<1>4. CASE UNCHANGED event /\ SinkFails
  <2>1. sink' = IdleSink
    BY <1>4 DEF SinkFails
  <2>2. SinkInv'
    BY <1>0, <2>1 DEF Inv, SinkInv, IdleSink, sinkFrame
  <2>3. EmittedIsPlanned'
    BY <1>0, <1>2, <1>4 DEF Inv, TypeOK, EmittedIsPlanned
  <2>. QED BY <1>0, <1>2, <1>4, <2>1, <2>2, <2>3, SinkStep DEF Inv, TypeOK, IdleSink
<1>. QED BY <1>3, <1>4 DEF SaveRepositoryEvent

LEMMA AuditInv == ASSUME Inv, PlanAuditRuns PROVE Inv'
<1>0. up /\ sink.at = "audit" /\ UNCHANGED <<sinkFrame, event, plan, emitted>>
  BY DEF PlanAuditRuns, At, SinkFails, sinkFrame
<1>1. /\ sink.change \in Observations /\ Key \in Keys /\ sink.change.config = bound
      /\ Key = KeyOf(sink.change) /\ event[Key] # None
  BY <1>0, Offered DEF Inv, SinkInv
<1>2. faults' \in {faults, faults + 1} /\ faults' <= MaxFaults
  BY DEF PlanAuditRuns, Works, Throws, Inv, TypeOK
<1>3. CASE audited' = audited \cup {Key} /\ Go("plan")
  <2>1. sink' = [at |-> "plan", change |-> sink.change]
    BY <1>3 DEF Go, Inv, TypeOK
  <2>2. SinkInv'
    BY <1>0, <1>1, <1>3, <2>1 DEF Inv, SinkInv, sinkFrame
  <2>3. EmittedIsPlanned'
    BY <1>0, <1>2, <1>3 DEF Inv, TypeOK, EmittedIsPlanned
  <2>. QED BY <1>0, <1>1, <1>2, <1>3, <2>1, <2>2, <2>3, SinkStep DEF Inv, TypeOK
<1>4. CASE UNCHANGED audited /\ SinkFails
  <2>1. sink' = IdleSink
    BY <1>4 DEF SinkFails
  <2>2. SinkInv'
    BY <1>0, <2>1 DEF Inv, SinkInv, IdleSink, sinkFrame
  <2>3. EmittedIsPlanned'
    BY <1>0, <1>2, <1>4 DEF Inv, TypeOK, EmittedIsPlanned
  <2>. QED BY <1>0, <1>2, <1>4, <2>1, <2>2, <2>3, SinkStep DEF Inv, TypeOK, IdleSink
<1>. QED BY <1>3, <1>4 DEF PlanAuditRuns

LEMMA PlanTriggersInv == ASSUME Inv, PlanTriggers PROVE Inv'
<1>0. /\ up /\ sink.at = "plan" /\ UNCHANGED <<sinkFrame, event, audited>>
      /\ emitted' = emitted \cup {Key} /\ sink' = IdleSink
  BY DEF PlanTriggers, At, sinkFrame
<1>1. Key \in Keys /\ Key.config = bound /\ event[Key] # None /\ Key \in audited
  BY <1>0, Offered DEF Inv, SinkInv
<1>2. PICK B \in SUBSET bound :
        /\ IF B = bound THEN Works \/ Throws(1) ELSE Throws(1)
        /\ plan' = [p \in Plans |->
             IF p[1] = Key /\ p[2] \in B /\ plan[p] = "none" THEN "pending" ELSE plan[p]]
  BY DEF PlanTriggers
<1>3. faults' \in {faults, faults + 1} /\ faults' <= MaxFaults /\ (faults' = 0 => B = bound)
  BY <1>2 DEF Works, Throws, Inv, TypeOK
<1>4. plan' \in [Plans -> PlanStatuses]
  BY <1>2 DEF Inv, TypeOK, PlanStatuses
<1>5. \A p \in Plans : plan'[p] # plan[p] => /\ plan[p] = "none" /\ plan'[p] = "pending"
                                             /\ p[2] \in p[1].config
                                             /\ event[p[1]] # None /\ p[1] \in audited
  BY <1>1, <1>2
<1>6. EmittedIsPlanned'
  <2>1. ASSUME NEW k \in emitted'
        PROVE  event[k] # None /\ k \in audited
    BY <1>0, <1>1, <2>1 DEF Inv, EmittedIsPlanned
  <2>2. ASSUME NEW k \in emitted', faults' = 0, NEW b \in k.config
        PROVE  plan'[<<k, b>>] # "none"
    <3>0. k \in Keys /\ b \in Bindings /\ <<k, b>> \in Plans
      BY <1>0, <1>1, <2>2 DEF Inv, TypeOK, Keys, Plans
    <3>1. CASE k = Key
      BY <1>1, <1>2, <1>3, <2>2, <3>0, <3>1
    <3>2. CASE k \in emitted
      <4>1. faults = 0
        BY <1>3, <2>2 DEF Inv, TypeOK
      <4>2. plan[<<k, b>>] # "none"
        BY <2>2, <3>2, <4>1 DEF Inv, EmittedIsPlanned
      <4>. QED BY <1>2, <3>0, <4>2
    <3>. QED BY <1>0, <2>2, <3>1, <3>2
  <2>. QED BY <1>0, <2>1, <2>2 DEF EmittedIsPlanned
<1>7. SinkInv'
  BY <1>0 DEF Inv, SinkInv, IdleSink, sinkFrame
<1>. QED BY <1>0, <1>1, <1>3, <1>4, <1>5, <1>6, <1>7, SinkStep DEF Inv, TypeOK, IdleSink

-----------------------------------------------------------------------------
(* The executor.                                                           *)

\* A step of the executor changes the plan and the launches of p alone, which
\* is claimed or being claimed.
LEMMA ExecutorStep ==
  ASSUME Inv, UNCHANGED executorFrame, NEW p \in Plans, plan[p] # "none",
         plan' \in [Plans -> PlanStatuses], launches' \in [Plans -> Nat],
         \A q \in Plans : q # p => plan'[q] = plan[q] /\ launches'[q] = launches[q],
         plan'[p] # "none", PlanInv(p)',
         exec' \in [at : {"idle", "execute", "complete"}, plan : Plans \cup {None}],
         faults' \in {faults, faults + 1}, faults' <= MaxFaults, ExecInv'
  PROVE  Inv'
<1>1. TypeOK'
  <2>1. faults' \in 0..MaxFaults
    BY DEF Inv, TypeOK
  <2>. QED BY <2>1 DEF Inv, TypeOK, executorFrame, supervisorVars
<1>2. SinkInv'
  BY DEF Inv, SinkInv, executorFrame, supervisorVars
<1>3. PlansInv'
  <2>1. ASSUME NEW q \in Plans, q # p PROVE PlanInv(q)'
    BY <2>1 DEF Inv, PlansInv, PlanInv, executorFrame
  <2>. QED BY <2>1 DEF PlansInv
<1>4. EmittedIsPlanned'
  <2>1. UNCHANGED <<event, audited, emitted>>
    BY DEF executorFrame, supervisorVars
  <2>2. ASSUME NEW k \in emitted, NEW b \in k.config, plan[<<k, b>>] # "none"
        PROVE  plan'[<<k, b>>] # "none"
    BY <2>2 DEF Inv, TypeOK, Keys, Plans
  <2>3. faults' = 0 => faults = 0
    BY DEF Inv, TypeOK
  <2>. QED BY <2>1, <2>2, <2>3 DEF Inv, EmittedIsPlanned
<1>. QED BY <1>1, <1>2, <1>3, <1>4 DEF Inv

LEMMA ClaimInv == ASSUME Inv, NEW p \in Plans, ClaimTriggerPlan(p) PROVE Inv'
<1>1. PlanInv(p) /\ plan[p] = "pending" /\ launches[p] = 0
  BY DEF Inv, TypeOK, PlansInv, PlanInv, ClaimTriggerPlan
<1>2. /\ plan' \in [Plans -> PlanStatuses] /\ plan'[p] = "executing"
      /\ launches' = launches /\ launches \in [Plans -> Nat]
      /\ \A q \in Plans : q # p => plan'[q] = plan[q]
  BY DEF ClaimTriggerPlan, Inv, TypeOK, PlanStatuses
<1>3. exec' = [at |-> "execute", plan |-> p] /\ UNCHANGED <<executorFrame, faults>> /\ up
  BY DEF ClaimTriggerPlan, Free
<1>4. ExecInv'
  BY <1>1, <1>2, <1>3 DEF ExecInv, executorFrame
<1>5. PlanInv(p)'
  BY <1>1, <1>2, <1>3 DEF PlanInv, executorFrame
<1>6. faults <= MaxFaults
  BY DEF Inv, TypeOK
<1>. QED BY <1>1, <1>2, <1>3, <1>4, <1>5, <1>6, ExecutorStep

LEMMA RunInv == ASSUME Inv, Refused \/ Trigger \/ CompleteTriggerPlan PROVE Inv'
<1>0. PICK p \in Plans : p = exec.plan
  BY DEF Inv, ExecInv, Refused, Trigger, CompleteTriggerPlan
<1>1. /\ p \in Plans /\ plan[p] = "executing" /\ launches[p] \in Nat /\ up
      /\ PlanInv(p) /\ UNCHANGED executorFrame
  BY <1>0 DEF Inv, TypeOK, PlansInv, ExecInv, Refused, Trigger, CompleteTriggerPlan, Free
<1>2. faults' \in {faults, faults + 1} /\ faults' <= MaxFaults
  BY DEF Inv, TypeOK, Refused, Trigger, CompleteTriggerPlan, Works, Throws
<1>3. ASSUME NEW s \in {"skipped", "succeeded", "failed"}, Settle(p, s), UNCHANGED launches,
             s = "skipped" => launches[p] = 0, s = "succeeded" => launches[p] = 1
      PROVE  Inv'
  <2>1. /\ plan' \in [Plans -> PlanStatuses] /\ plan'[p] = s /\ launches \in [Plans -> Nat]
        /\ \A q \in Plans : q # p => plan'[q] = plan[q]
    BY <1>1, <1>3 DEF Settle, Inv, TypeOK, PlanStatuses
  <2>2. exec' = IdleExec
    BY <1>3 DEF Settle
  <2>3. ExecInv'
    BY <2>2 DEF ExecInv, IdleExec
  <2>4. PlanInv(p)'
    BY <1>1, <1>3, <2>1 DEF PlanInv, executorFrame
  <2>5. exec' \in [at : {"idle", "execute", "complete"}, plan : Plans \cup {None}]
    BY <2>2 DEF IdleExec
  <2>6. \A q \in Plans : launches'[q] = launches[q]
    BY <1>3
  <2>. QED BY <1>1, <1>2, <1>3, <2>1, <2>3, <2>4, <2>5, <2>6, ExecutorStep
<1>4. CASE Refused
  BY <1>0, <1>3, <1>4 DEF Refused, Inv, ExecInv
<1>5. CASE CompleteTriggerPlan
  BY <1>0, <1>3, <1>5 DEF CompleteTriggerPlan, Inv, ExecInv
<1>6. CASE Trigger
  <2>1. launches[p] = 0 /\ launches' = [launches EXCEPT ![p] = @ + 1] /\ UNCHANGED plan
    BY <1>0, <1>6 DEF Trigger, Inv, ExecInv
  <2>2. /\ launches' \in [Plans -> Nat] /\ launches'[p] = 1 /\ plan \in [Plans -> PlanStatuses]
        /\ \A q \in Plans : q # p => plan'[q] = plan[q] /\ launches'[q] = launches[q]
    BY <1>1, <2>1 DEF Inv, TypeOK
  <2>3. exec' = [at |-> "complete", plan |-> p]
    BY <1>0, <1>6 DEF Trigger, Inv, TypeOK
  <2>4. ExecInv'
    BY <1>1, <2>1, <2>2, <2>3 DEF ExecInv, executorFrame
  <2>5. PlanInv(p)'
    BY <1>1, <2>1, <2>2 DEF PlanInv, executorFrame
  <2>6. exec' \in [at : {"idle", "execute", "complete"}, plan : Plans \cup {None}]
    BY <1>1, <2>3
  <2>. QED BY <1>1, <1>2, <2>1, <2>2, <2>4, <2>5, <2>6, ExecutorStep
<1>. QED BY <1>4, <1>5, <1>6

-----------------------------------------------------------------------------
(* Process death and boot, and the theorems.                               *)

LEMMA CrashInv == ASSUME Inv, Crash PROVE Inv'
<1>1. crashes' \in 0..MaxCrashes
  BY DEF Inv, TypeOK, Crash
<1>2. TypeOK'
  BY <1>1 DEF Inv, TypeOK, Crash, durableVars, IdleScan, IdleSink, IdleExec
<1>3. SinkInv' /\ ExecInv'
  BY DEF SinkInv, ExecInv, Crash, IdleSink, IdleExec
<1>. QED BY <1>2, <1>3, Quiet DEF Crash

LEMMA BootInv == ASSUME Inv, Boot PROVE Inv'
<1>1. plan' \in [Plans -> PlanStatuses]
  BY DEF Inv, TypeOK, Boot, PlanStatuses
<1>2. TypeOK'
  BY <1>1 DEF Inv, TypeOK, Boot, supervisorVars, budgets
<1>3. SinkInv' /\ ExecInv'
  BY DEF Inv, SinkInv, ExecInv, Boot, supervisorVars
<1>4. PlansInv'
  BY DEF Inv, PlansInv, PlanInv, Boot
<1>5. EmittedIsPlanned'
  <2>1. \A p \in Plans : plan[p] # "none" => plan'[p] # "none"
    BY DEF Boot
  <2>2. ASSUME NEW k \in emitted, NEW b \in k.config PROVE <<k, b>> \in Plans
    BY <2>2 DEF Inv, TypeOK, Keys, Plans
  <2>. QED BY <2>1, <2>2 DEF Inv, EmittedIsPlanned, Boot, supervisorVars, budgets
<1>. QED BY <1>2, <1>3, <1>4, <1>5 DEF Inv

LEMMA StutterInv == ASSUME Inv, UNCHANGED vars PROVE Inv'
<1>1. TypeOK'
  BY DEF Inv, TypeOK, vars, durableVars, supervisorVars, budgets
<1>2. SinkInv' /\ ExecInv'
  BY DEF Inv, SinkInv, ExecInv, vars, durableVars, supervisorVars
<1>. QED BY <1>1, <1>2, Quiet DEF vars, supervisorVars, budgets

LEMMA ChangesInvariant == Spec => []Inv
<1>1. Inv /\ [Next]_vars => Inv'
  BY EditInv, SetBindingInv, ScanInv, ObserveInv, FlushInv, SaveInv, AuditInv, PlanTriggersInv,
     ClaimInv, RunInv, CrashInv, BootInv, StutterInv DEF Next, WriteChangeEvent, Execute
<1>. QED BY <1>1, InitInv, PTL DEF Spec

\* Every variable keeps its type.
THEOREM ChangesTypeCorrect == Spec => []TypeOK
<1>1. Inv => TypeOK
  BY DEF Inv
<1>. QED BY <1>1, ChangesInvariant, PTL

\* A key is remembered as emitted only when its event is stored and planned.
\* (repositorySupervisor.ts flushChange, the sink in server.ts)
THEOREM EmittedIsPlannedHolds == Spec => []EmittedIsPlanned
<1>1. Inv => EmittedIsPlanned
  BY DEF Inv
<1>. QED BY <1>1, ChangesInvariant, PTL

\* Each binding runs at most once for the event of a key.  (triggers.ts, and
\* recovery at boot in store.ts)
THEOREM TriggeredOnceHolds == Spec => []TriggeredOnce
<1>1. Inv => TriggeredOnce
  BY DEF Inv, PlansInv, PlanInv, TriggeredOnce
<1>. QED BY <1>1, ChangesInvariant, PTL

=============================================================================
