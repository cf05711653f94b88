---------------------------- MODULE WorkflowRun ----------------------------
(***************************************************************************)
(* One workflow definition and its runs: the host launches a run, the      *)
(* executor takes its steps through a leg, a human gate pauses it, a crash *)
(* interrupts it, and `continue` lets a successor run reuse what the       *)
(* interrupted run had finished.                                           *)
(*                                                                         *)
(* Durable: the run row (life, reason), the ledger of step events, the     *)
(* checkpoint (header, cited), the approval rows.  Volatile: the legs and  *)
(* the request being handled.  Every database write is a step of its own   *)
(* and may throw; the process may die between any two.                     *)
(*                                                                         *)
(* A payload is abstracted to the fact that it exists: a checkpoint row is *)
(* the sequence number it cites, and all rows that exist validate.  The    *)
(* repository's HEAD and the model configuration are a choice to refuse.   *)
(* Runs are numbered in the order of created_at.                           *)
(*                                                                         *)
(* Bounds on the environment: MaxRuns, MaxTriggers (runs that continue no  *)
(* other), MaxCrashes, MaxFaults (writes that throw).  MaxTries is the     *)
(* retry limit of the steps that cost nothing.                             *)
(***************************************************************************)
EXTENDS Integers, Sequences, FiniteSets

CONSTANTS Steps, Plans, MaxTries,
          MaxRuns, MaxTriggers, MaxCrashes, MaxFaults

Runs     == 1..MaxRuns
NoRun    == 0
Kinds    == {"analyzer", "verifier", "llm"}
PlanType == [kind : [Steps -> Kinds], deps : [Steps -> SUBSET Steps],
             gates : SUBSET Steps, conditional : SUBSET Steps, width : Nat]

ASSUME WorkflowAssumption ==
  /\ IsFiniteSet(Steps) /\ Steps \subseteq Nat \ {0}
  /\ Plans \subseteq PlanType
  /\ MaxTries \in Nat \ {0}
  /\ {MaxRuns, MaxTriggers, MaxCrashes, MaxFaults} \subseteq Nat

VARIABLES
  plan,        \* the compiled plan of the pinned revision
  life,        \* lifecycle_state of each run, "none" before it is launched
  reason,      \* terminal_reason
  ledger,      \* its step events, in the order of seq
  header,      \* recovery_state of its checkpoint header
  cited,       \* the seq its checkpoint row of a step cites, 0 for no row
  approval,    \* decision on each gate, "none" when there is no request
  expired,     \* runs whose approval request is past expires_at
  pred,        \* the run a successor was launched to continue
  up,          \* "down", "boot" (initialize runs) or "ready"
  live,        \* runs a leg executes
  leg,         \* executeWorkflowPlan's local state
  claimed,     \* approved continuations that await the HEAD check
  handler,     \* the request (or scan step) between two of its writes
  sent,        \* provider calls of each paid step
  crashes, faults

rowVars    == <<life, reason>>
factVars   == <<ledger, header, cited>>
gateVars   == <<approval, expired>>
legVars    == <<live, leg>>
vars == <<plan, rowVars, factVars, gateVars, pred, up, legVars, claimed,
          handler, sent, crashes, faults>>

Terminal  == {"succeeded", "degraded", "failed"}
Lives     == {"none", "running", "awaiting_input"} \cup Terminal
Reasons   == {"none", "completed", "degraded_coverage", "result_unavailable",
              "fatal_error", "interrupted", "user_cancelled"}
Decisions == {"none", "pending", "approved", "rejected"}
NodeStates == {"todo", "intent", "sent", "done", "retry", "settled"}

LegType == [node : [Steps -> NodeStates], tries : [Steps -> 0..MaxTries],
            seq : [Steps -> Nat], restored : SUBSET Steps, failed : BOOLEAN,
            degraded : {"no", "step_contract", "result_not_persisted"}]

Event == [kind : {"started", "succeeded", "failed"}, step : Steps]

TypeOK ==
  /\ plan     \in Plans
  /\ life     \in [Runs -> Lives]
  /\ reason   \in [Runs -> Reasons]
  /\ ledger   \in [Runs -> Seq(Event)]
  /\ header   \in [Runs -> {"none", "active", "interrupted"}]
  /\ cited    \in [Runs -> [Steps -> Nat]]
  /\ approval \in [Runs -> [Steps -> Decisions]]
  /\ expired  \subseteq Runs
  /\ pred     \in [Runs -> Runs \cup {NoRun}]
  /\ up       \in {"down", "boot", "ready"}
  /\ live     \subseteq Runs
  /\ leg      \in [Runs -> LegType]
  /\ claimed  \subseteq Runs
  /\ handler  \in [doing : {"none", "approved", "rejected", "continue", "mark"},
                   run : Runs \cup {NoRun}, step : Steps \cup {0},
                   restored : SUBSET Steps]
  /\ sent     \in [Runs -> [Steps -> Nat]]
  /\ crashes  \in 0..MaxCrashes
  /\ faults   \in 0..MaxFaults

NoHandler == [doing |-> "none", run |-> NoRun, step |-> 0, restored |-> {}]

Leg(restored) ==
  [node |-> [s \in Steps |-> "todo"], tries |-> [s \in Steps |-> 0],
   seq |-> [s \in Steps |-> 0], restored |-> restored,
   failed |-> FALSE, degraded |-> "no"]

Init ==
  /\ plan \in Plans
  /\ life = [r \in Runs |-> "none"] /\ reason = [r \in Runs |-> "none"]
  /\ ledger = [r \in Runs |-> <<>>]
  /\ header = [r \in Runs |-> "none"]
  /\ cited = [r \in Runs |-> [s \in Steps |-> 0]]
  /\ approval = [r \in Runs |-> [s \in Steps |-> "none"]] /\ expired = {}
  /\ pred = [r \in Runs |-> NoRun]
  /\ up = "ready"
  /\ live = {} /\ leg = [r \in Runs |-> Leg({})]
  /\ claimed = {} /\ handler = NoHandler
  /\ sent = [r \in Runs |-> [s \in Steps |-> 0]]
  /\ crashes = 0 /\ faults = 0

-----------------------------------------------------------------------------
(* Writes, and the thread that makes them.                                 *)

Works     == UNCHANGED faults
Throws(n) == /\ faults + n <= MaxFaults
             /\ faults' = faults + n

Free == up = "ready" /\ handler.doing = "none"
Open(r) == life[r] \in {"running", "awaiting_input"}

Record(r, kind, s) ==
  ledger' = [ledger EXCEPT ![r] = Append(@, [kind |-> kind, step |-> s])]

(* A terminal verdict on a run that already has one is refused.            *)
RecordTerminal(r, l, why) ==
  IF Open(r)
  THEN /\ life'   = [life EXCEPT ![r] = l]
       /\ reason' = [reason EXCEPT ![r] = why]
  ELSE UNCHANGED rowVars

StartLeg(r, restored) ==
  /\ live' = live \cup {r}
  /\ leg'  = [leg EXCEPT ![r] = Leg(restored)]

EndLeg(r) ==
  /\ live' = live \ {r}
  /\ leg'  = [leg EXCEPT ![r] = Leg({})]

IsNextRun(n) == /\ n \in Runs /\ life[n] = "none"
                /\ \A m \in Runs : m < n => life[m] # "none"

Restorable(r) == {s \in Steps : cited[r][s] # 0}

-----------------------------------------------------------------------------
(* The executor: one leg of a run.                                         *)

(* No branch may be in flight when a gate pauses the run.                  *)
Width == IF plan.gates # {} THEN 1
         ELSE IF plan.width < 1 THEN 1 ELSE plan.width

InFlight(r) == {s \in Steps : leg[r].node[s] \notin {"todo", "settled"}}

Startable(r, s) ==
  /\ r \in live /\ ~leg[r].failed
  /\ leg[r].node[s] = "todo"
  /\ \A d \in plan.deps[s] : leg[r].node[d] = "settled"
  /\ Cardinality(InFlight(r)) < Width

IsTurn(r, s) == /\ Free /\ Startable(r, s)
                /\ \A t \in Steps : t < s => ~Startable(r, t)

SetNode(r, s, state) == leg' = [leg EXCEPT ![r].node[s] = state]
FailNode(r, s) == leg' = [leg EXCEPT ![r].node[s] = "settled",
                                     ![r].failed  = TRUE]

(* A step whose condition does not hold is recorded as succeeded.          *)
SkipStep(r, s) ==
  /\ IsTurn(r, s) /\ s \in plan.conditional
  /\ \/ Works /\ Record(r, "succeeded", s) /\ SetNode(r, s, "settled")
     \/ Throws(1) /\ FailNode(r, s) /\ UNCHANGED ledger
  /\ UNCHANGED <<plan, rowVars, header, cited, gateVars, pred, up, live,
                 claimed, handler, sent, crashes>>

GateVerdict(r, s) ==
  IF s \notin plan.gates THEN "proceed"
  ELSE IF approval[r][s] = "none" THEN "ask"
  ELSE IF approval[r][s] = "rejected" \/ r \in expired THEN "rejected"
  ELSE IF life[r] = "running" THEN "proceed" ELSE "wait"

(* The request and the wait are one transaction.  A run that already asked *)
(* for another step is refused, decided or not.                            *)
AskApproval(r, s) ==
  /\ IsTurn(r, s) /\ GateVerdict(r, s) = "ask"
  /\ \/ /\ Open(r) /\ \A t \in Steps : approval[r][t] = "none"
        /\ Works
        /\ approval' = [approval EXCEPT ![r][s] = "pending"]
        /\ life' = [life EXCEPT ![r] = "awaiting_input"]
        /\ EndLeg(r)
     \/ /\ Open(r) /\ \A t \in Steps : approval[r][t] = "none"
        /\ Throws(1)
        /\ FailNode(r, s) /\ UNCHANGED <<approval, life, live>>
     \/ /\ ~Open(r) \/ \E t \in Steps : approval[r][t] # "none"
        /\ Works
        /\ FailNode(r, s) /\ UNCHANGED <<approval, life, live>>
  /\ UNCHANGED <<plan, reason, factVars, expired, pred, up, claimed, handler,
                 sent, crashes>>

GateHolds(r, s) ==
  /\ IsTurn(r, s) /\ GateVerdict(r, s) \in {"rejected", "wait"}
  /\ IF GateVerdict(r, s) = "wait"
     THEN EndLeg(r)
     ELSE FailNode(r, s) /\ UNCHANGED live
  /\ UNCHANGED <<plan, rowVars, factVars, gateVars, pred, up, claimed, handler,
                 sent, crashes, faults>>

(* Flush before dispatch: step_started must be durable, or nothing is sent *)
(* and the run stops; step_failed is then written if the store allows it.  *)
StartStep(r, s) ==
  /\ \/ IsTurn(r, s) /\ GateVerdict(r, s) = "proceed"
     \/ Free /\ r \in live /\ leg[r].node[s] = "retry"
  /\ \/ /\ Works /\ Record(r, "started", s)
        /\ leg' = [leg EXCEPT ![r].node[s] = "intent", ![r].tries[s] = @ + 1]
     \/ Throws(1) /\ Record(r, "failed", s) /\ FailNode(r, s)
     \/ Throws(2) /\ FailNode(r, s) /\ UNCHANGED ledger
  /\ UNCHANGED <<plan, rowVars, header, cited, gateVars, pred, up, live,
                 claimed, handler, sent, crashes>>

(* A restored step applies its stored result instead of calling anyone.    *)
Dispatch(r, s) ==
  /\ Free /\ r \in live /\ leg[r].node[s] = "intent"
  /\ SetNode(r, s, "sent")
  /\ sent' = IF plan.kind[s] = "llm" /\ s \notin leg[r].restored
             THEN [sent EXCEPT ![r][s] = @ + 1] ELSE sent
  /\ UNCHANGED <<plan, rowVars, factVars, gateVars, pred, up, live, claimed,
                 handler, crashes, faults>>

(* The analyzer and the model verifier have a result to save.              *)
Succeed(r, s) ==
  /\ Free /\ r \in live /\ leg[r].node[s] = "sent"
  /\ Works /\ Record(r, "succeeded", s)
  /\ leg' = [leg EXCEPT ![r].seq[s] = Len(ledger[r]) + 1,
                        ![r].node[s] = IF plan.kind[s] = "verifier"
                                       THEN "settled" ELSE "done"]
  /\ UNCHANGED <<plan, rowVars, header, cited, gateVars, pred, up, live,
                 claimed, handler, sent, crashes>>

(* A model call that failed or answered nonsense: the step fails, the run  *)
(* goes on.                                                                *)
Degrade(r, s) ==
  /\ Free /\ r \in live /\ leg[r].node[s] = "sent"
  /\ plan.kind[s] = "llm" /\ s \notin leg[r].restored
  /\ Works /\ Record(r, "failed", s)
  /\ leg' = [leg EXCEPT ![r].node[s] = "settled",
                        ![r].degraded = IF @ = "no" THEN "step_contract" ELSE @]
  /\ UNCHANGED <<plan, rowVars, header, cited, gateVars, pred, up, live,
                 claimed, handler, sent, crashes>>

TriesOf(r, s) ==
  IF plan.kind[s] = "llm" \/ s \in leg[r].restored THEN 1 ELSE MaxTries

(* The body throws, or its outcome could not be written: the failure is    *)
(* recorded and the step retried or the run failed.  An agent that had     *)
(* succeeded cannot be woken for a retry.  Without a record the outcome    *)
(* stays unknown and there is no retry.                                    *)
FailStep(r, s) ==
  /\ Free /\ r \in live /\ leg[r].node[s] = "sent"
  /\ \/ /\ Works /\ Record(r, "failed", s)
        /\ \/ leg[r].tries[s] < TriesOf(r, s) /\ SetNode(r, s, "retry")
           \/ FailNode(r, s)
     \/ Throws(1) /\ FailNode(r, s) /\ UNCHANGED ledger
  /\ UNCHANGED <<plan, rowVars, header, cited, gateVars, pred, up, live,
                 claimed, handler, sent, crashes>>

\* Mutant: a write of the reusable result that throws is swallowed.
SaveResultBestEffort(r, s) ==
  /\ Free /\ r \in live /\ leg[r].node[s] = "done"
  /\ \/ /\ Works
        /\ cited'  = [cited EXCEPT ![r][s] = leg[r].seq[s]]
        /\ header' = [header EXCEPT ![r] = IF @ = "none" THEN "active" ELSE @]
     \/ Throws(1) /\ UNCHANGED <<cited, header>>
  /\ SetNode(r, s, "settled")
  /\ UNCHANGED <<plan, rowVars, ledger, gateVars, pred, up, live, claimed,
                 handler, sent, crashes>>

(* The reusable result; losing it degrades the run.                        *)
SaveResult(r, s) ==
  /\ Free /\ r \in live /\ leg[r].node[s] = "done"
  /\ \/ /\ Works
        /\ cited'  = [cited EXCEPT ![r][s] = leg[r].seq[s]]
        /\ header' = [header EXCEPT ![r] = IF @ = "none" THEN "active" ELSE @]
        /\ SetNode(r, s, "settled")
     \/ /\ Throws(1)
        /\ leg' = [leg EXCEPT ![r].node[s] = "settled",
                              ![r].degraded = "result_not_persisted"]
        /\ UNCHANGED <<cited, header>>
  /\ UNCHANGED <<plan, rowVars, ledger, gateVars, pred, up, live, claimed,
                 handler, sent, crashes>>

Facts(r) ==
  IF leg[r].failed THEN [l |-> "failed", why |-> "fatal_error"]
  ELSE IF leg[r].degraded = "no" THEN [l |-> "succeeded", why |-> "completed"]
  ELSE [l |-> "degraded",
        why |-> IF leg[r].degraded = "step_contract"
                THEN "degraded_coverage" ELSE "result_unavailable"]

\* Mutant: a failure ends the run without draining what is in flight.
FinishLegAtOnce(r) ==
  /\ Free /\ r \in live
  /\ leg[r].failed \/ \A s \in Steps : leg[r].node[s] = "settled"
  /\ Works /\ RecordTerminal(r, Facts(r).l, Facts(r).why)
  /\ EndLeg(r)
  /\ UNCHANGED <<plan, factVars, gateVars, pred, up, claimed, handler, sent,
                 crashes>>

\* Mutant: only a leg that settled every step is finished.
FinishLegSettled(r) ==
  /\ Free /\ r \in live
  /\ \A s \in Steps : leg[r].node[s] = "settled"
  /\ Works /\ RecordTerminal(r, Facts(r).l, Facts(r).why)
  /\ EndLeg(r)
  /\ UNCHANGED <<plan, factVars, gateVars, pred, up, claimed, handler, sent,
                 crashes>>

(* What is in flight is drained first.  When the terminal write throws the *)
(* host tries to fail the run, and may find the store down again.          *)
FinishLeg(r) ==
  /\ Free /\ r \in live /\ InFlight(r) = {}
  /\ leg[r].failed \/ \A s \in Steps : leg[r].node[s] = "settled"
  /\ \/ Works /\ RecordTerminal(r, Facts(r).l, Facts(r).why)
     \/ Throws(1) /\ RecordTerminal(r, "failed", "fatal_error")
     \/ Throws(2) /\ UNCHANGED rowVars
  /\ EndLeg(r)
  /\ UNCHANGED <<plan, factVars, gateVars, pred, up, claimed, handler, sent,
                 crashes>>

-----------------------------------------------------------------------------
(* The host: launch, approval, recovery.                                   *)

(* trigger, and rerun, which launches a run that reuses nothing.           *)
Trigger(n) ==
  /\ Free /\ IsNextRun(n)
  /\ Cardinality({r \in Runs : life[r] # "none" /\ pred[r] = NoRun}) < MaxTriggers
  /\ life' = [life EXCEPT ![n] = "running"]
  /\ StartLeg(n, {})
  /\ UNCHANGED <<plan, reason, factVars, gateVars, pred, up, claimed, handler,
                 sent, crashes, faults>>

Expire(r) ==
  /\ Open(r) /\ r \notin expired
  /\ \E s \in Steps : approval[r][s] # "none"
  /\ expired' = expired \cup {r}
  /\ UNCHANGED <<plan, rowVars, factVars, approval, pred, up, legVars, claimed,
                 handler, sent, crashes, faults>>

Decide(r, s, d) ==
  /\ Free
  /\ approval[r][s] = "pending" /\ r \notin expired
  /\ life[r] = "awaiting_input"
  /\ approval' = [approval EXCEPT ![r][s] = d]
  /\ handler' = [NoHandler EXCEPT !.doing = d, !.run = r, !.step = s]
  /\ UNCHANGED <<plan, rowVars, factVars, expired, pred, up, legVars, claimed,
                 sent, crashes, faults>>

Reject ==
  /\ up = "ready" /\ handler.doing = "rejected"
  /\ \/ Works /\ RecordTerminal(handler.run, "failed", "user_cancelled")
     \/ Throws(1) /\ UNCHANGED rowVars
  /\ handler' = NoHandler
  /\ UNCHANGED <<plan, factVars, gateVars, pred, up, legVars, claimed, sent,
                 crashes>>

(* claimApprovedContinuation: one UPDATE guarded by the lifecycle.         *)
ClaimApproval ==
  /\ up = "ready" /\ handler.doing = "approved"
  /\ \/ /\ Works
        /\ IF /\ life[handler.run] = "awaiting_input"
              /\ approval[handler.run][handler.step] = "approved"
           THEN /\ life' = [life EXCEPT ![handler.run] = "running"]
                /\ claimed' = claimed \cup {handler.run}
           ELSE UNCHANGED <<life, claimed>>
     \/ Throws(1) /\ UNCHANGED <<life, claimed>>
  /\ handler' = NoHandler
  /\ UNCHANGED <<plan, reason, factVars, gateVars, pred, up, legVars, sent,
                 crashes>>

\* Mutant: a resume may be retried, the claim is not consumed by it.
ResumeApprovedAgain(r) ==
  /\ Free /\ r \in claimed
  /\ StartLeg(r, Restorable(r)) \/ UNCHANGED legVars
  /\ UNCHANGED <<plan, rowVars, factVars, gateVars, pred, up, claimed, handler,
                 sent, crashes, faults>>

(* #resumeApprovedRun after its awaits; any check may refuse, and then the *)
(* run keeps the claim and has no leg.                                     *)
ResumeApproved(r) ==
  /\ Free /\ r \in claimed
  /\ claimed' = claimed \ {r}
  /\ StartLeg(r, Restorable(r)) \/ UNCHANGED legVars
  /\ UNCHANGED <<plan, rowVars, factVars, gateVars, pred, up, handler, sent,
                 crashes, faults>>

(* #foldRecoverySteps and the blockers of getRunRecoveryPlan.              *)
Events(r, kinds, s) ==
  {i \in DOMAIN ledger[r] : ledger[r][i].kind \in kinds /\ ledger[r][i].step = s}
Started(r, s) == Events(r, {"started"}, s)
Ended(r, s)   == Events(r, {"succeeded", "failed"}, s)

Unsettled(r, s) == \E i \in Started(r, s) : \A j \in Ended(r, s) : j < i

EndedAs(r, kind, s) == \E i \in Events(r, {kind}, s) :
                         \A j \in Ended(r, s) : j <= i

Outcome(r, s) ==
  CASE Unsettled(r, s) -> "outcome_unknown"
    [] ~Unsettled(r, s) /\ EndedAs(r, "succeeded", s) -> "succeeded"
    [] ~Unsettled(r, s) /\ EndedAs(r, "failed", s) -> "failed"
    [] OTHER -> IF cited[r][s] # 0 THEN "succeeded" ELSE "outcome_unknown"

(* A checkpoint row must cite a success of its step, a paid one the latest *)
(* end of the step, after every dispatch of it.                            *)
Corresponds(r, s) ==
  /\ cited[r][s] \in Events(r, {"succeeded"}, s)
  /\ plan.kind[s] = "llm" =>
       /\ \A i \in Ended(r, s) : i <= cited[r][s]
       /\ Started(r, s) # {} /\ \A i \in Started(r, s) : i < cited[r][s]
  /\ ~Unsettled(r, s)
  /\ ~EndedAs(r, "failed", s)

Reusable(r, s) == cited[r][s] # 0 /\ Corresponds(r, s)

HasFacts(r, s) == Events(r, {"started", "succeeded", "failed"}, s) # {}
                    \/ cited[r][s] # 0

\* Mutant: a dispatch without an outcome does not block.
BlocksOnFailure(r, s) ==
  /\ HasFacts(r, s)
  /\ \/ cited[r][s] # 0 /\ ~Corresponds(r, s)
     \/ Outcome(r, s) = "failed"

(* The kind of a step is known from its dispatch or its checkpoint row.    *)
Blocks(r, s) ==
  /\ HasFacts(r, s)
  /\ \/ cited[r][s] # 0 /\ ~Corresponds(r, s)
     \/ Outcome(r, s) \in {"outcome_unknown", "failed"}
     \/ /\ plan.kind[s] = "llm" /\ (Started(r, s) # {} \/ cited[r][s] # 0)
        /\ ~Reusable(r, s)

CanContinue(r) == header[r] = "interrupted" /\ \A s \in Steps : ~Blocks(r, s)

\* Mutant: the claim is read and not consumed.
ContinueRunAgain(p) ==
  /\ Free /\ CanContinue(p)
  /\ \E n \in Runs : IsNextRun(n)
  /\ handler' = [NoHandler EXCEPT !.doing = "continue", !.run = p,
                                  !.restored = Restorable(p)]
  /\ UNCHANGED <<plan, rowVars, factVars, gateVars, pred, up, legVars, claimed,
                 sent, crashes, faults>>

(* #executeContinue: the final plan and the one-shot claim.                *)
ContinueRun(p) ==
  /\ Free /\ CanContinue(p)
  /\ \E n \in Runs : IsNextRun(n)
  /\ header'  = [header EXCEPT ![p] = "active"]
  /\ handler' = [NoHandler EXCEPT !.doing = "continue", !.run = p,
                                  !.restored = Restorable(p)]
  /\ UNCHANGED <<plan, rowVars, ledger, cited, gateVars, pred, up, legVars,
                 claimed, sent, crashes, faults>>

(* The successor's row, then its header, then its leg; a write that throws *)
(* ends the request there.                                                 *)
LaunchSuccessor(n) ==
  /\ up = "ready" /\ handler.doing = "continue" /\ IsNextRun(n)
  /\ \/ /\ Works
        /\ life' = [life EXCEPT ![n] = "running"]
        /\ pred' = [pred EXCEPT ![n] = handler.run]
        /\ header' = [header EXCEPT ![n] = "active"]
        /\ StartLeg(n, handler.restored)
     \/ /\ Throws(1)
        /\ life' = [life EXCEPT ![n] = "running"]
        /\ pred' = [pred EXCEPT ![n] = handler.run]
        /\ UNCHANGED <<header, legVars>>
     \/ Throws(1) /\ UNCHANGED <<life, pred, header, legVars>>
  /\ handler' = NoHandler
  /\ UNCHANGED <<plan, reason, ledger, cited, gateVars, up, claimed, sent,
                 crashes>>

-----------------------------------------------------------------------------
(* Crash and restart: initialize() runs before the server listens.         *)

Die == /\ up' = "down"
       /\ live' = {} /\ leg' = [r \in Runs |-> Leg({})]
       /\ claimed' = {} /\ handler' = NoHandler

Crash ==
  /\ up # "down" /\ crashes < MaxCrashes
  /\ crashes' = crashes + 1
  /\ Die
  /\ UNCHANGED <<plan, rowVars, factVars, gateVars, pred, sent, faults>>

Restart ==
  /\ up = "down"
  /\ up' = "boot"
  /\ UNCHANGED <<plan, rowVars, factVars, gateVars, pred, legVars, claimed,
                 handler, sent, crashes, faults>>

\* Mutant: only a run that has a checkpoint header is recovered.
ScannedWithHeader(r) == r \in Runs /\ life[r] = "running" /\ header[r] # "none"

Scanned(r) == r \in Runs /\ life[r] = "running"

(* The scan fails what is still running, but not what waits for a human.   *)
Interrupt(r) ==
  /\ up = "boot" /\ handler.doing = "none"
  /\ Scanned(r) /\ \A m \in Runs : m < r => ~Scanned(m)
  /\ \/ /\ Works /\ RecordTerminal(r, "failed", "interrupted")
        /\ handler' = [NoHandler EXCEPT !.doing = "mark", !.run = r]
        /\ UNCHANGED <<up, legVars, claimed>>
     \/ Throws(1) /\ Die /\ UNCHANGED rowVars
  /\ UNCHANGED <<plan, factVars, gateVars, pred, sent, crashes>>

(* markInterrupted, a second transaction.                                  *)
MarkInterrupted ==
  /\ up = "boot" /\ handler.doing = "mark"
  /\ \/ /\ Works
        /\ header' = [header EXCEPT ![handler.run] = "interrupted"]
        /\ handler' = NoHandler /\ UNCHANGED <<up, legVars, claimed>>
     \/ Throws(1) /\ Die /\ UNCHANGED header
  /\ UNCHANGED <<plan, rowVars, ledger, cited, gateVars, pred, sent, crashes>>

Listen ==
  /\ up = "boot" /\ handler.doing = "none"
  /\ \A r \in Runs : ~Scanned(r)
  /\ up' = "ready"
  /\ UNCHANGED <<plan, rowVars, factVars, gateVars, pred, legVars, claimed,
                 handler, sent, crashes, faults>>

-----------------------------------------------------------------------------
NodeStep(r, s) ==
  \/ SkipStep(r, s) \/ AskApproval(r, s) \/ GateHolds(r, s) \/ StartStep(r, s)
  \/ Dispatch(r, s) \/ Succeed(r, s) \/ Degrade(r, s) \/ FailStep(r, s)
  \/ SaveResult(r, s)

LegStep(r) == FinishLeg(r) \/ \E s \in Steps : NodeStep(r, s)

HostStep ==
  \/ Reject \/ ClaimApproval
  \/ \E r \in Runs : LaunchSuccessor(r) \/ ResumeApproved(r)

BootStep == MarkInterrupted \/ Listen \/ Restart \/ \E r \in Runs : Interrupt(r)

Next ==
  \/ \E r \in Runs : \/ LegStep(r) \/ Trigger(r) \/ ContinueRun(r) \/ Expire(r)
                     \/ \E s \in Steps, d \in {"approved", "rejected"} :
                          Decide(r, s, d)
  \/ HostStep \/ BootStep \/ Crash

Spec == Init /\ [][Next]_vars

(* A leg is driven by its own promises, and every request returns.         *)
FairSpec == /\ Spec
            /\ \A r \in Runs : WF_vars(LegStep(r))
            /\ WF_vars(HostStep) /\ WF_vars(BootStep)

-----------------------------------------------------------------------------
(* Host continue (host.ts:1630): until a human approval resumes it, a      *)
(* successor never calls a provider for a step its predecessor had called  *)
(* one for; an unknown, failed or lost outcome has blocked the claim.      *)
ContinueNeverRepays ==
  \A r \in Runs, s \in Steps :
    /\ pred[r] # NoRun /\ sent[pred[r]][s] > 0
    /\ \A t \in Steps : approval[r][t] # "approved"
    => sent[r][s] = 0

(* Gate and claim (host.ts:1269, store.ts:1047): a paid step behind a gate *)
(* is called only after its own approval, and once per run whatever        *)
(* repeats, expiry, restarts or failing writes come in between.            *)
ApprovalAuthorizesOnce ==
  \A r \in Runs : \A s \in plan.gates :
    sent[r][s] <= IF approval[r][s] = "approved" THEN 1 ELSE 0

(* Checkpoint policy (executor.ts:725): a run reported as succeeded has a  *)
(* success of every step and a result that could be reused for each that   *)
(* has one, also when an earlier leg was paused or lost a write.           *)
SucceededIsReusable ==
  \A r \in Runs : life[r] = "succeeded" =>
    \A s \in Steps :
      /\ EndedAs(r, "succeeded", s)
      /\ plan.kind[s] # "verifier" /\ s \notin plan.conditional => Reusable(r, s)

(* Failure propagation (executor.ts:804): a run ends only after everything *)
(* in flight has an outcome; only a crash or a failed write leaves one     *)
(* unknown.                                                                *)
NoAbandonedCall ==
  faults = 0 => \A r \in Runs :
    life[r] \in Terminal /\ reason[r] # "interrupted" =>
      \A s \in Steps : ~Unsettled(r, s)

(* Startup scan (host.ts:493): a run the process died under is given a     *)
(* verdict, also when the scan itself throws or dies and starts over.      *)
SweepComplete ==
  \A r \in Runs : up # "ready" /\ life[r] = "running" ~> life[r] \in Terminal

(* Executor loop (executor.ts:771): every leg comes to an end, by a        *)
(* terminal write, a wait or a crash.                                      *)
LegSettles == \A r \in Runs : r \in live ~> r \notin live

(* A run as its owner sees it.                                             *)
StageOf(r) ==
  CASE life[r] = "none" -> "absent"
    [] life[r] = "running" -> "working"
    [] life[r] = "awaiting_input" -> "waiting"
    [] OTHER -> life[r]

Stages   == [r \in Runs |-> StageOf(r)]
Consents == [r \in Runs |-> {s \in Steps : approval[r][s] = "approved"}]

Contract == INSTANCE RunContract WITH
  None <- NoRun, gates <- plan.gates, stage <- Stages, consent <- Consents,
  calls <- sent, after <- pred

(* One-shot claims (host.ts:1733, store.ts:1047): whatever crashes, fails  *)
(* to be written or is asked twice, each run keeps RunContract: one        *)
(* verdict, at most one wait and one successor, and a call only while it   *)
(* works, a gated one once and by its consent.                             *)
ImplementsRunContract == Contract!ContractSpec

(* The runs a run continues, nearest first.                                *)
Ancestors(r) ==
  LET anc[n \in 0..MaxRuns] ==
        IF n = 0 THEN {} ELSE LET p == pred[n] IN
          IF p = NoRun \/ p >= n THEN {} ELSE {p} \cup anc[p]
  IN anc[r]

(* executor.ts:37 and host.ts:1407: a completed model call is never billed *)
(* twice, however many restarts a chain of continues goes through.         *)
CompletedCallNeverBilledTwice ==
  \A r \in Runs : \A a \in Ancestors(r), s \in Steps :
    plan.kind[s] = "llm" /\ Reusable(a, s) => sent[r][s] = 0

(* executor.ts:609: an ambiguous model outcome is never turned into an     *)
(* automatic second paid dispatch of the run.                              *)
AmbiguousCallNeverRepeated == \A r \in Runs, s \in Steps : sent[r][s] <= 1
=============================================================================
