--------------------------- MODULE WorkflowProofs ---------------------------
(***************************************************************************)
(* Theorems of WorkflowRun, for every plan, any number of runs, crashes    *)
(* and failing writes.                                                     *)
(*                                                                         *)
(* The invariants are stacked, each one using those before it:             *)
(*   TypeInv    types, attempts within their limit;                        *)
(*   Lifecycle  who holds a run, and that an ended run stays ended;        *)
(*   Recorded   a provider call has its durable step_started;              *)
(*   Licence    a successor's leg was given every result its predecessor   *)
(*              had paid for, and only an approval starts another leg;     *)
(*   Gated      a run asks once, and a gated step is in hand only when     *)
(*              approved and not yet paid for;                             *)
(*   Settling   what the ledger already says of each node of a live leg;   *)
(*   Accounted  while no write has failed, a call without an outcome has   *)
(*              an owner or an interrupted run to explain it;              *)
(*   Succession a run that may still be continued has failed and has no    *)
(*              successor.                                                 *)
(* Together they give each property of WorkflowRun, and that WorkflowRun   *)
(* implements RunContract.                                                 *)
(***************************************************************************)
EXTENDS WorkflowRun, FiniteSetTheorems, TLAPS

-----------------------------------------------------------------------------
(* Types.                                                                  *)

\* A node that has not been tried has used no attempt, one that is in hand
\* has used one, and only a step that costs nothing is tried again.
GoodLeg(L, kind) ==
  /\ L \in LegType
  /\ \A s \in Steps :
       /\ L.node[s] = "todo" => L.tries[s] = 0
       /\ L.node[s] \in {"intent", "sent"} => L.tries[s] > 0
       /\ L.node[s] = "retry" => L.tries[s] < MaxTries /\ kind[s] # "llm"

Attempts == \A r \in Runs : GoodLeg(leg[r], plan.kind)

\* A request that is being handled is about a run.
Handled == handler.doing # "none" => handler.run \in Runs

TypeInv == TypeOK /\ Attempts /\ Handled

LEMMA FreshLeg ==
  ASSUME NEW restored \in SUBSET Steps, NEW kind
  PROVE  GoodLeg(Leg(restored), kind)
BY WorkflowAssumption DEF WorkflowAssumption, Leg, LegType, NodeStates, GoodLeg

\* A node moves on, and its leg stays good.
LEMMA NodeMoves ==
  ASSUME NEW L, NEW kind, GoodLeg(L, kind), NEW s \in Steps,
         NEW state \in NodeStates \ {"todo"},
         /\ state \in {"intent", "sent"} => L.tries[s] > 0
         /\ state = "retry" => L.tries[s] < MaxTries /\ kind[s] # "llm"
  PROVE  GoodLeg([L EXCEPT !.node[s] = state], kind)
<1> PICK M : M = [L EXCEPT !.node[s] = state]
  OBVIOUS
<1>1. L \in LegType
  BY DEF GoodLeg
<1>2. /\ M.node = [L.node EXCEPT ![s] = state] /\ M.tries = L.tries
      /\ M \in LegType
  BY <1>1 DEF LegType
<1>3. /\ M.node[s] = state
      /\ \A t \in Steps \ {s} : M.node[t] = L.node[t]
  BY <1>1, <1>2 DEF LegType
<1>4. GoodLeg(M, kind)
  BY <1>2, <1>3 DEF GoodLeg
<1> QED BY <1>4

LEMMA NodeFails ==
  ASSUME NEW L, NEW kind, GoodLeg(L, kind), NEW s \in Steps
  PROVE  GoodLeg([L EXCEPT !.node[s] = "settled", !.failed = TRUE], kind)
<1> PICK M : M = [L EXCEPT !.node[s] = "settled", !.failed = TRUE]
  OBVIOUS
<1>1. L \in LegType
  BY DEF GoodLeg
<1>2. /\ M.node = [L.node EXCEPT ![s] = "settled"] /\ M.tries = L.tries
      /\ M \in LegType
  BY <1>1 DEF LegType, NodeStates
<1>3. /\ M.node[s] = "settled"
      /\ \A t \in Steps \ {s} : M.node[t] = L.node[t]
  BY <1>1, <1>2 DEF LegType
<1>4. GoodLeg(M, kind)
  BY <1>2, <1>3 DEF GoodLeg
<1> QED BY <1>4

LEMMA NodeEnds ==
  ASSUME NEW L, NEW kind, GoodLeg(L, kind), NEW s \in Steps,
         NEW state \in {"done", "settled"}, NEW n \in Nat,
         NEW why \in {"no", "step_contract", "result_not_persisted"}
  PROVE  /\ GoodLeg([L EXCEPT !.seq[s] = n, !.node[s] = state], kind)
         /\ GoodLeg([L EXCEPT !.node[s] = state, !.degraded = why], kind)
<1>1. L \in LegType
  BY DEF GoodLeg
<1>2. ASSUME NEW M, \/ M = [L EXCEPT !.seq[s] = n, !.node[s] = state]
                    \/ M = [L EXCEPT !.node[s] = state, !.degraded = why]
      PROVE  GoodLeg(M, kind)
  <2>1. /\ M.node = [L.node EXCEPT ![s] = state] /\ M.tries = L.tries
        /\ M \in LegType
    <3>1. CASE M = [L EXCEPT !.seq[s] = n, !.node[s] = state]
      BY <1>1, <3>1 DEF LegType, NodeStates
    <3>2. CASE M = [L EXCEPT !.node[s] = state, !.degraded = why]
      BY <1>1, <3>2 DEF LegType, NodeStates
    <3> QED BY <1>2, <3>1, <3>2
  <2>2. /\ M.node[s] \in {"done", "settled"}
        /\ \A t \in Steps \ {s} : M.node[t] = L.node[t]
    BY <1>1, <2>1 DEF LegType
  <2> QED BY <2>1, <2>2 DEF GoodLeg
<1> QED BY <1>2

LEMMA NodeStarts ==
  ASSUME NEW L, NEW kind, GoodLeg(L, kind), NEW s \in Steps,
         L.node[s] \in {"todo", "retry"}
  PROVE  GoodLeg([L EXCEPT !.node[s] = "intent", !.tries[s] = @ + 1], kind)
<1> PICK M : M = [L EXCEPT !.node[s] = "intent", !.tries[s] = @ + 1]
  OBVIOUS
<1>1. L.tries[s] \in 0..MaxTries /\ L.tries[s] < MaxTries
  BY WorkflowAssumption DEF WorkflowAssumption, GoodLeg, LegType
<1>2. L.tries[s] + 1 \in 0..MaxTries /\ L.tries[s] + 1 > 0
  BY <1>1, WorkflowAssumption DEF WorkflowAssumption
<1>3. L \in LegType
  BY DEF GoodLeg
<1>4. /\ M \in LegType /\ M.node = [L.node EXCEPT ![s] = "intent"]
      /\ M.tries = [L.tries EXCEPT ![s] = L.tries[s] + 1]
  BY <1>2, <1>3 DEF LegType, NodeStates
<1>5. /\ M.node[s] = "intent" /\ M.tries[s] > 0
      /\ \A t \in Steps \ {s} :
           M.node[t] = L.node[t] /\ M.tries[t] = L.tries[t]
  BY <1>2, <1>3, <1>4 DEF LegType
<1>6. GoodLeg(M, kind)
  BY <1>4, <1>5 DEF GoodLeg
<1> QED BY <1>6

LEMMA RunsAreNumbers == \A r \in Runs : r \in Nat /\ r # NoRun
BY WorkflowAssumption DEF WorkflowAssumption, Runs, NoRun

LEMMA TypeInit == Init => TypeInv
<1> SUFFICES ASSUME Init PROVE TypeInv
  OBVIOUS
<1>1. GoodLeg(Leg({}), plan.kind)
  BY FreshLeg
<1>2. Attempts
  BY <1>1 DEF Init, Attempts
<1>3. leg \in [Runs -> LegType]
  BY <1>1 DEF Init, GoodLeg
<1>4. ledger \in [Runs -> Seq(Event)]
  BY DEF Init
<1>5. TypeOK
  BY <1>3, <1>4, WorkflowAssumption
  DEF WorkflowAssumption, Init, TypeOK, Lives, Reasons, Decisions, NoHandler, Runs, NoRun
<1> QED BY <1>2, <1>5 DEF TypeInv, Handled, Init, NoHandler

\* One leg changes, and the kinds of the steps do not.
LEMMA LegChange ==
  ASSUME TypeInv, plan' = plan, NEW r \in Runs,
         \/ leg' = leg
         \/ \E L : GoodLeg(L, plan.kind) /\ leg' = [leg EXCEPT ![r] = L]
  PROVE  leg' \in [Runs -> LegType] /\ Attempts'
<1>1. leg \in [Runs -> LegType] /\ \A q \in Runs : GoodLeg(leg[q], plan.kind)
  BY DEF TypeInv, TypeOK, Attempts
<1>2. CASE leg' = leg
  BY <1>1, <1>2 DEF Attempts
<1>3. CASE \E L : GoodLeg(L, plan.kind) /\ leg' = [leg EXCEPT ![r] = L]
  <2> PICK L : GoodLeg(L, plan.kind) /\ leg' = [leg EXCEPT ![r] = L]
    BY <1>3
  <2>1. L \in LegType
    BY DEF GoodLeg
  <2>2. \A q \in Runs : GoodLeg(leg'[q], plan.kind)
    BY <1>1
  <2> QED BY <1>1, <2>1, <2>2 DEF Attempts
<1> QED BY <1>2, <1>3

LEMMA LegForms ==
  ASSUME TypeInv, plan' = plan, NEW r \in Runs, NEW s \in Steps,
         \/ UNCHANGED leg
         \/ EndLeg(r)
         \/ \E R \in SUBSET Steps : StartLeg(r, R)
         \/ FailNode(r, s)
         \/ SetNode(r, s, "settled")
         \/ \E state \in {"done", "settled"}, n \in Nat :
              leg' = [leg EXCEPT ![r].seq[s] = n, ![r].node[s] = state]
         \/ \E why \in {"no", "step_contract", "result_not_persisted"} :
              leg' = [leg EXCEPT ![r].node[s] = "settled", ![r].degraded = why]
         \/ /\ leg[r].node[s] = "intent" /\ SetNode(r, s, "sent")
         \/ /\ leg[r].node[s] = "sent" /\ leg[r].tries[s] < TriesOf(r, s)
            /\ SetNode(r, s, "retry")
         \/ /\ leg[r].node[s] \in {"todo", "retry"}
            /\ leg' = [leg EXCEPT ![r].node[s] = "intent", ![r].tries[s] = @ + 1]
  PROVE  leg' \in [Runs -> LegType] /\ Attempts'
<1>1. leg \in [Runs -> LegType] /\ GoodLeg(leg[r], plan.kind)
  BY DEF TypeInv, TypeOK, Attempts
<1>2. CASE UNCHANGED leg
  BY <1>2, LegChange
<1>3. CASE EndLeg(r) \/ \E R \in SUBSET Steps : StartLeg(r, R)
  BY <1>3, LegChange, FreshLeg DEF EndLeg, StartLeg
<1>4. CASE FailNode(r, s)
  <2>1. leg' = [leg EXCEPT ![r] = [leg[r] EXCEPT !.node[s] = "settled", !.failed = TRUE]]
    BY <1>4 DEF FailNode
  <2> QED BY <1>1, <2>1, NodeFails, LegChange
<1>5. ASSUME NEW state \in NodeStates \ {"todo"}, SetNode(r, s, state),
             state \in {"intent", "sent"} => leg[r].tries[s] > 0,
             state = "retry" => leg[r].tries[s] < MaxTries /\ plan.kind[s] # "llm"
      PROVE  leg' \in [Runs -> LegType] /\ Attempts'
  <2>1. leg' = [leg EXCEPT ![r] = [leg[r] EXCEPT !.node[s] = state]]
    BY <1>5 DEF SetNode
  <2>2. GoodLeg([leg[r] EXCEPT !.node[s] = state], plan.kind)
    BY <1>1, <1>5, NodeMoves
  <2> QED BY <2>1, <2>2, LegChange
<1>6. CASE SetNode(r, s, "settled")
  BY <1>5, <1>6 DEF NodeStates
<1>10. CASE \E state \in {"done", "settled"}, n \in Nat :
              leg' = [leg EXCEPT ![r].seq[s] = n, ![r].node[s] = state]
  <2> SUFFICES ASSUME NEW state \in {"done", "settled"}, NEW n \in Nat,
                      leg' = [leg EXCEPT ![r].seq[s] = n, ![r].node[s] = state]
               PROVE  leg' \in [Runs -> LegType] /\ Attempts'
    BY <1>10
  <2>0. leg[r] \in LegType
    BY <1>1
  <2>1. leg' = [leg EXCEPT ![r] = [leg[r] EXCEPT !.seq[s] = n, !.node[s] = state]]
    <3>1. leg'[r] = [leg[r] EXCEPT !.seq[s] = n, !.node[s] = state]
      BY <1>1 DEF LegType
    <3>2. \A q \in Runs \ {r} : leg'[q] = leg[q]
      BY <1>1
    <3>3. leg' = [q \in Runs |-> leg'[q]]
      BY <1>1
    <3> QED BY <1>1, <3>1, <3>2, <3>3
  <2>2. GoodLeg([leg[r] EXCEPT !.seq[s] = n, !.node[s] = state], plan.kind)
    BY <1>1, NodeEnds
  <2> QED BY <2>1, <2>2, LegChange
<1>11. CASE \E why \in {"no", "step_contract", "result_not_persisted"} :
              leg' = [leg EXCEPT ![r].node[s] = "settled", ![r].degraded = why]
  <2> PICK why \in {"no", "step_contract", "result_not_persisted"} :
        leg' = [leg EXCEPT ![r].node[s] = "settled", ![r].degraded = why]
    BY <1>11
  <2>1. leg' = [leg EXCEPT ![r] = [leg[r] EXCEPT !.node[s] = "settled",
                                                 !.degraded = why]]
    OBVIOUS
  <2>2. GoodLeg([leg[r] EXCEPT !.node[s] = "settled", !.degraded = why], plan.kind)
    BY <1>1, NodeEnds
  <2> QED BY <2>1, <2>2, LegChange
<1>7. CASE leg[r].node[s] = "intent" /\ SetNode(r, s, "sent")
  BY <1>1, <1>5, <1>7 DEF NodeStates, GoodLeg
<1>8. CASE /\ leg[r].node[s] = "sent" /\ leg[r].tries[s] < TriesOf(r, s)
           /\ SetNode(r, s, "retry")
  <2>1. leg[r].tries[s] \in Nat /\ leg[r].tries[s] > 0
    BY <1>1, <1>8 DEF GoodLeg, LegType
  <2>2. leg[r].tries[s] < MaxTries /\ plan.kind[s] # "llm"
    BY <1>8, <2>1 DEF TriesOf
  <2> QED BY <1>5, <1>8, <2>2 DEF NodeStates
<1>9. CASE /\ leg[r].node[s] \in {"todo", "retry"}
           /\ leg' = [leg EXCEPT ![r].node[s] = "intent", ![r].tries[s] = @ + 1]
  <2>1. leg' = [leg EXCEPT ![r] = [leg[r] EXCEPT !.node[s] = "intent",
                                                 !.tries[s] = @ + 1]]
    BY <1>9
  <2>2. GoodLeg([leg[r] EXCEPT !.node[s] = "intent", !.tries[s] = @ + 1], plan.kind)
    BY <1>1, <1>9, NodeStarts
  <2> QED BY <2>1, <2>2, LegChange
<1> QED BY <1>2, <1>3, <1>4, <1>6, <1>7, <1>8, <1>9, <1>10, <1>11

LEMMA LedgerGrows ==
  ASSUME TypeOK, NEW r \in Runs, NEW s \in Steps,
         UNCHANGED ledger \/ \E kind \in {"started", "succeeded", "failed"} :
                               Record(r, kind, s)
  PROVE  ledger' \in [Runs -> Seq(Event)]
<1>1. ASSUME NEW kind \in {"started", "succeeded", "failed"}, Record(r, kind, s)
      PROVE  ledger' \in [Runs -> Seq(Event)]
  <2>1. [kind |-> kind, step |-> s] \in Event
    BY DEF Event
  <2>2. Append(ledger[r], [kind |-> kind, step |-> s]) \in Seq(Event)
    BY <2>1 DEF TypeOK
  <2> QED BY <1>1, <2>2 DEF TypeOK, Record
<1> QED BY <1>1 DEF TypeOK

LEMMA FaultBudget ==
  ASSUME TypeOK, UNCHANGED faults \/ Works \/ Throws(1) \/ Throws(2)
  PROVE  faults' \in 0..MaxFaults
BY WorkflowAssumption DEF WorkflowAssumption, TypeOK, Works, Throws

LEMMA NodeType ==
  ASSUME TypeInv, NEW r \in Runs, NEW s \in Steps, NodeStep(r, s)
  PROVE  TypeInv'
<1>1. leg' \in [Runs -> LegType] /\ Attempts'
  <2>1. plan' = plan
    BY DEF NodeStep, SkipStep, AskApproval, GateHolds, StartStep, Dispatch,
           Succeed, Degrade, FailStep, SaveResult
  <2>2. CASE SkipStep(r, s)
    BY <2>1, <2>2, LegForms DEF SkipStep
  <2>3. CASE AskApproval(r, s)
    BY <2>1, <2>3, LegForms DEF AskApproval
  <2>4. CASE GateHolds(r, s)
    BY <2>1, <2>4, LegForms DEF GateHolds
  <2>5. CASE StartStep(r, s)
    <3>1. leg[r].node[s] \in {"todo", "retry"}
      BY <2>5 DEF StartStep, IsTurn, Startable
    <3> QED BY <2>1, <2>5, <3>1, LegForms DEF StartStep
  <2>6. CASE Dispatch(r, s)
    BY <2>1, <2>6, LegForms DEF Dispatch
  <2>7. CASE Succeed(r, s)
    <3>1. Len(ledger[r]) + 1 \in Nat
      BY DEF TypeInv, TypeOK
    <3>2. \E state \in {"done", "settled"}, n \in Nat :
            leg' = [leg EXCEPT ![r].seq[s] = n, ![r].node[s] = state]
      BY <2>7, <3>1 DEF Succeed
    <3> QED BY <2>1, <3>2, LegForms
  <2>9. CASE Degrade(r, s)
    <3>1. leg[r].degraded \in {"no", "step_contract", "result_not_persisted"}
      BY DEF TypeInv, TypeOK, LegType
    <3>2. \E why \in {"no", "step_contract", "result_not_persisted"} :
            leg' = [leg EXCEPT ![r].node[s] = "settled", ![r].degraded = why]
      BY <2>9, <3>1 DEF Degrade
    <3> QED BY <2>1, <3>2, LegForms
  <2>10. CASE SaveResult(r, s)
    BY <2>1, <2>10, LegForms DEF SaveResult
  <2>8. CASE FailStep(r, s)
    BY <2>1, <2>8, LegForms DEF FailStep
  <2> QED BY <2>2, <2>3, <2>4, <2>5, <2>6, <2>7, <2>8, <2>9, <2>10
      DEF NodeStep
<1>2. ledger' \in [Runs -> Seq(Event)]
  BY LedgerGrows
  DEF TypeInv, NodeStep, SkipStep, AskApproval, GateHolds, StartStep, Dispatch,
      Succeed, Degrade, FailStep, SaveResult, factVars
<1>3. faults' \in 0..MaxFaults
  BY FaultBudget
  DEF TypeInv, NodeStep, SkipStep, AskApproval, GateHolds, StartStep, Dispatch,
      Succeed, Degrade, FailStep, SaveResult
<1>4. CASE AskApproval(r, s)
  <2>1. approval' \in [Runs -> [Steps -> Decisions]]
    <3>1. approval' = approval \/ approval' = [approval EXCEPT ![r][s] = "pending"]
      BY <1>4 DEF AskApproval
    <3>2. approval \in [Runs -> [Steps -> Decisions]]
      BY DEF TypeInv, TypeOK
    <3>3. [approval EXCEPT ![r][s] = "pending"]
            \in [Runs -> [Steps -> Decisions]]
      BY <3>2 DEF Decisions
    <3> QED BY <3>1, <3>2, <3>3
  <2>2. /\ life' \in [Runs -> Lives]
        /\ live' \subseteq Runs
    BY <1>4 DEF AskApproval, TypeInv, TypeOK, EndLeg, Lives
  <2> QED BY <1>1, <1>2, <1>3, <1>4, <2>1, <2>2
    DEF AskApproval, TypeInv, TypeOK, Handled, factVars
<1>5. CASE SkipStep(r, s) \/ StartStep(r, s) \/ Succeed(r, s) \/ Degrade(r, s)
             \/ FailStep(r, s)
  BY <1>1, <1>2, <1>3, <1>5
  DEF SkipStep, StartStep, Succeed, Degrade, FailStep, TypeInv, TypeOK,
      Handled, rowVars, gateVars
<1>6. CASE GateHolds(r, s)
  BY <1>1, <1>2, <1>3, <1>6
  DEF GateHolds, EndLeg, TypeInv, TypeOK, Handled, rowVars, factVars, gateVars
<1>7. CASE Dispatch(r, s)
  <2>1. sent' \in [Runs -> [Steps -> Nat]]
    <3>1. sent' = sent \/ sent' = [sent EXCEPT ![r][s] = @ + 1]
      BY <1>7 DEF Dispatch
    <3>2. sent \in [Runs -> [Steps -> Nat]]
      BY DEF TypeInv, TypeOK
    <3> QED BY <3>1, <3>2
  <2> QED BY <1>1, <1>2, <1>3, <1>7, <2>1
    DEF Dispatch, TypeInv, TypeOK, Handled, rowVars, factVars, gateVars
<1>8. CASE SaveResult(r, s)
  <2>1. leg[r].seq[s] \in Nat
    BY DEF TypeInv, TypeOK, LegType
  <2>2. cited' \in [Runs -> [Steps -> Nat]]
    <3>1. cited' = cited \/ cited' = [cited EXCEPT ![r][s] = leg[r].seq[s]]
      BY <1>8 DEF SaveResult
    <3>2. cited \in [Runs -> [Steps -> Nat]]
      BY DEF TypeInv, TypeOK
    <3>3. [cited EXCEPT ![r][s] = leg[r].seq[s]] \in [Runs -> [Steps -> Nat]]
      BY <2>1, <3>2
    <3> QED BY <3>1, <3>2, <3>3
  <2>3. header' \in [Runs -> {"none", "active", "interrupted"}]
    <3>1. header \in [Runs -> {"none", "active", "interrupted"}]
      BY DEF TypeInv, TypeOK
    <3> QED BY <3>1, <1>8 DEF SaveResult
  <2> QED BY <1>1, <1>2, <1>3, <1>8, <2>2, <2>3
    DEF SaveResult, TypeInv, TypeOK, Handled, rowVars, gateVars
<1> QED BY <1>4, <1>5, <1>6, <1>7, <1>8 DEF NodeStep

LEMMA RowsType ==
  ASSUME TypeOK, NEW r,
         NEW l \in Lives, NEW why \in Reasons,
         RecordTerminal(r, l, why)
  PROVE  /\ life' \in [Runs -> Lives]
         /\ reason' \in [Runs -> Reasons]
<1> life \in [Runs -> Lives] /\ reason \in [Runs -> Reasons]
  BY DEF TypeOK
<1>1. CASE Open(r)
  BY <1>1 DEF RecordTerminal
<1>2. CASE ~Open(r)
  BY <1>2 DEF RecordTerminal, rowVars
<1> QED BY <1>1, <1>2

LEMMA FinishType ==
  ASSUME TypeInv, NEW r \in Runs, FinishLeg(r)
  PROVE  TypeInv'
<1>1. /\ life' \in [Runs -> Lives]
      /\ reason' \in [Runs -> Reasons]
  <2>1. CASE RecordTerminal(r, Facts(r).l, Facts(r).why)
    BY <2>1, RowsType DEF Facts, Lives, Terminal, Reasons, TypeInv
  <2>2. CASE RecordTerminal(r, "failed", "fatal_error")
    BY <2>2, RowsType DEF Lives, Terminal, Reasons, TypeInv
  <2>3. CASE UNCHANGED rowVars
    BY <2>3 DEF rowVars, TypeInv, TypeOK
  <2> QED BY <2>1, <2>2, <2>3 DEF FinishLeg
<1>2. faults' \in 0..MaxFaults
  BY FaultBudget DEF FinishLeg, TypeInv
<1>3. leg' \in [Runs -> LegType] /\ Attempts' /\ live' \subseteq Runs
  <2>1. Leg({}) \in LegType /\ GoodLeg(Leg({}), plan.kind)
    BY FreshLeg DEF GoodLeg
  <2> QED BY <2>1, LegChange DEF FinishLeg, EndLeg, TypeInv, TypeOK
<1> QED BY <1>1, <1>2, <1>3
  DEF FinishLeg, TypeInv, TypeOK, Handled, factVars, gateVars

\* The host's steps that leave the legs alone.
LEMMA HostType ==
  ASSUME TypeInv,
         \/ Reject \/ ClaimApproval \/ MarkInterrupted \/ Listen \/ Restart
         \/ Crash \/ \E r \in Runs : Interrupt(r)
  PROVE  TypeInv'
<1>1. Attempts /\ leg \in [Runs -> LegType]
  BY DEF TypeInv, TypeOK
<1>2. [r \in Runs |-> Leg({})] \in [Runs -> LegType]
      /\ \A r \in Runs : GoodLeg([q \in Runs |-> Leg({})][r], plan.kind)
  BY FreshLeg DEF GoodLeg
<1>3. CASE Reject
  <2>1. faults' \in 0..MaxFaults
    BY <1>3, FaultBudget DEF Reject, TypeInv
  <2>2. RecordTerminal(handler.run, "failed", "user_cancelled") \/ UNCHANGED rowVars
    BY <1>3 DEF Reject
  <2>3. /\ life' \in [Runs -> Lives]
        /\ reason' \in [Runs -> Reasons]
    BY <2>2, RowsType DEF TypeInv, TypeOK, Lives, Terminal, Reasons, rowVars
  <2> QED BY <1>1, <1>3, <2>1, <2>3
    DEF Reject, TypeInv, TypeOK, Attempts, Handled, NoHandler, factVars,
        gateVars, legVars
<1>4. CASE ClaimApproval
  <2>1. faults' \in 0..MaxFaults
    BY <1>4, FaultBudget DEF ClaimApproval, TypeInv
  <2>2. /\ life' \in [Runs -> Lives]
        /\ claimed' \subseteq Runs
    <3>1. CASE UNCHANGED <<life, claimed>>
      BY <3>1 DEF TypeInv, TypeOK
    <3>2. CASE /\ life[handler.run] = "awaiting_input"
               /\ life' = [life EXCEPT ![handler.run] = "running"]
               /\ claimed' = claimed \cup {handler.run}
      BY <1>4, <3>2 DEF ClaimApproval, TypeInv, TypeOK, Handled, Lives
    <3> QED BY <1>4, <3>1, <3>2 DEF ClaimApproval
  <2> QED BY <1>1, <1>4, <2>1, <2>2
    DEF ClaimApproval, TypeInv, TypeOK, Attempts, Handled, NoHandler,
        factVars, gateVars, legVars
<1>5. CASE MarkInterrupted
  <2>1. faults' \in 0..MaxFaults
    BY <1>5, FaultBudget DEF MarkInterrupted, TypeInv
  <2>2. header' \in [Runs -> {"none", "active", "interrupted"}]
    BY <1>5 DEF MarkInterrupted, TypeInv, TypeOK
  <2>3. leg' \in [Runs -> LegType] /\ Attempts'
    BY <1>1, <1>2, <1>5 DEF MarkInterrupted, Die, Attempts, legVars
  <2> QED BY <1>5, <2>1, <2>2, <2>3
    DEF MarkInterrupted, TypeInv, TypeOK, Handled, NoHandler, Die, rowVars,
        gateVars, legVars
<1>6. CASE Listen \/ Restart
  BY <1>1, <1>6
  DEF Listen, Restart, TypeInv, TypeOK, Attempts, Handled, rowVars, factVars,
      gateVars, legVars
<1>7. CASE Crash
  <2>1. leg' \in [Runs -> LegType] /\ Attempts'
    BY <1>2, <1>7 DEF Crash, Die, Attempts
  <2>2. crashes' \in 0..MaxCrashes
    BY <1>7, WorkflowAssumption DEF Crash, TypeInv, TypeOK, WorkflowAssumption
  <2> QED BY <1>7, <2>1, <2>2
    DEF Crash, Die, TypeInv, TypeOK, Handled, NoHandler, rowVars, factVars, gateVars
<1>8. CASE \E r \in Runs : Interrupt(r)
  <2> PICK r \in Runs : Interrupt(r)
    BY <1>8
  <2>1. faults' \in 0..MaxFaults
    BY FaultBudget DEF Interrupt, TypeInv
  <2>2. /\ life' \in [Runs -> Lives]
        /\ reason' \in [Runs -> Reasons]
    BY RowsType
    DEF Interrupt, TypeInv, TypeOK, Lives, Terminal, Reasons, rowVars
  <2>3. leg' \in [Runs -> LegType] /\ Attempts'
    BY <1>1, <1>2 DEF Interrupt, Die, Attempts, legVars, factVars
  <2>5. CASE handler' = [NoHandler EXCEPT !.doing = "mark", !.run = r]
             /\ UNCHANGED <<up, legVars, claimed>>
    BY <2>1, <2>2, <2>3, <2>5
    DEF Interrupt, TypeInv, TypeOK, Handled, NoHandler, factVars, gateVars, legVars
  <2>6. CASE Die
    BY <2>1, <2>2, <2>3, <2>6
    DEF Interrupt, TypeInv, TypeOK, Handled, NoHandler, Die, factVars, gateVars
  <2> QED BY <2>5, <2>6 DEF Interrupt
<1> QED BY <1>3, <1>4, <1>5, <1>6, <1>7, <1>8

LEMMA LaunchType ==
  ASSUME TypeInv, NEW r \in Runs,
         \/ Trigger(r) \/ ResumeApproved(r) \/ LaunchSuccessor(r)
  PROVE  TypeInv'
<1>1. \A R \in SUBSET Steps : GoodLeg(Leg(R), plan.kind)
  BY FreshLeg
<1>2. CASE Trigger(r)
  <2>1. leg' \in [Runs -> LegType] /\ Attempts'
    BY <1>1, <1>2, LegChange DEF Trigger, StartLeg
  <2> QED BY <1>2, <2>1
    DEF Trigger, StartLeg, TypeInv, TypeOK, Handled, Lives, factVars, gateVars
<1>3. CASE ResumeApproved(r)
  <2>1. Restorable(r) \in SUBSET Steps
    BY DEF Restorable
  <2>2. leg' \in [Runs -> LegType] /\ Attempts' /\ live' \subseteq Runs
    BY <1>1, <1>3, <2>1, LegChange
    DEF ResumeApproved, StartLeg, legVars, TypeInv, TypeOK
  <2> QED BY <1>3, <2>2
    DEF ResumeApproved, TypeInv, TypeOK, Handled, rowVars, factVars, gateVars
<1>4. CASE LaunchSuccessor(r)
  <2>1. handler.restored \in SUBSET Steps /\ handler.run \in Runs
    BY <1>4 DEF LaunchSuccessor, TypeInv, TypeOK, Handled
  <2>2. leg' \in [Runs -> LegType] /\ Attempts' /\ live' \subseteq Runs
    BY <1>1, <1>4, <2>1, LegChange
    DEF LaunchSuccessor, StartLeg, legVars, TypeInv, TypeOK
  <2>3. faults' \in 0..MaxFaults
    BY <1>4, FaultBudget DEF LaunchSuccessor, TypeInv
  <2>4. /\ life' \in [Runs -> Lives]
        /\ pred' \in [Runs -> Runs \cup {NoRun}]
        /\ header' \in [Runs -> {"none", "active", "interrupted"}]
    BY <1>4, <2>1 DEF LaunchSuccessor, TypeInv, TypeOK, Lives, legVars
  <2> QED BY <1>4, <2>2, <2>3, <2>4
    DEF LaunchSuccessor, TypeInv, TypeOK, Handled, NoHandler, gateVars
<1> QED BY <1>2, <1>3, <1>4

LEMMA RequestType ==
  ASSUME TypeInv, NEW r \in Runs,
         \/ ContinueRun(r) \/ Expire(r)
         \/ \E s \in Steps, d \in {"approved", "rejected"} : Decide(r, s, d)
  PROVE  TypeInv'
<1>1. CASE ContinueRun(r)
  BY <1>1
  DEF ContinueRun, TypeInv, TypeOK, Attempts, Handled, NoHandler, Restorable,
      rowVars, gateVars, legVars
<1>2. CASE Expire(r)
  BY <1>2
  DEF Expire, TypeInv, TypeOK, Attempts, Handled, rowVars, factVars, legVars
<1>3. CASE \E s \in Steps, d \in {"approved", "rejected"} : Decide(r, s, d)
  <2> PICK s \in Steps, d \in {"approved", "rejected"} : Decide(r, s, d)
    BY <1>3
  <2>1. approval \in [Runs -> [Steps -> Decisions]]
    BY DEF TypeInv, TypeOK
  <2>2. approval' \in [Runs -> [Steps -> Decisions]]
    <3>1. /\ approval' = [approval EXCEPT ![r][s] = d]
          /\ d \in Decisions
      BY DEF Decide, Decisions
    <3>2. [approval[r] EXCEPT ![s] = d] \in [Steps -> Decisions]
      BY <2>1, <3>1
    <3> QED BY <2>1, <3>1, <3>2
  <2>3. /\ handler' = [doing |-> d, run |-> r, step |-> s, restored |-> {}]
        /\ d \in {"approved", "rejected"}
    BY DEF Decide, NoHandler
  <2>4. UNCHANGED <<plan, rowVars, factVars, expired, pred, up, legVars, claimed,
                    sent, crashes, faults>>
    BY DEF Decide
  <2>5. Attempts' /\ Handled'
    BY <2>3, <2>4 DEF TypeInv, Attempts, Handled, legVars
  <2>6. handler' \in [doing : {"none", "approved", "rejected", "continue", "mark"},
                      run : Runs \cup {NoRun}, step : Steps \cup {0},
                      restored : SUBSET Steps]
    BY <2>3
  <2> QED BY <2>2, <2>4, <2>5, <2>6
    DEF TypeInv, TypeOK, rowVars, factVars, legVars
<1> QED BY <1>1, <1>2, <1>3

LEMMA TypeStep == TypeInv /\ [Next]_vars => TypeInv'
<1> SUFFICES ASSUME TypeInv, [Next]_vars PROVE TypeInv'
  OBVIOUS
<1>1. CASE UNCHANGED vars
  BY <1>1
  DEF vars, TypeInv, TypeOK, Attempts, Handled, rowVars, factVars, gateVars, legVars
<1>2. CASE Next
  BY <1>2, NodeType, FinishType, HostType, LaunchType, RequestType
  DEF Next, LegStep, HostStep, BootStep
<1> QED BY <1>1, <1>2

\* Every reachable state is well typed, for every plan: attempts, faults and
\* crashes stay within their bounds.
THEOREM TypeOKHolds == Spec => []TypeOK
<1>1. TypeInv => TypeOK
  BY DEF TypeInv
<1> QED BY <1>1, TypeInit, TypeStep, PTL DEF Spec

-----------------------------------------------------------------------------
(* Lives.                                                                  *)

\* Who holds a run, and what is final: a leg and a claim belong to a running
\* run, a recovery marker, a successor and a recovery request to a run that
\* has ended, and a run that has not been launched has no facts.
Lifecycle ==
  /\ \A r \in live \cup claimed : life[r] = "running"
  /\ live \cap claimed = {}
  /\ up # "ready" => live = {} /\ claimed = {}
  /\ \A r \in Runs : header[r] = "interrupted" => life[r] \in Terminal
  /\ \A r \in Runs : pred[r] # NoRun => life[pred[r]] \in Terminal
  /\ handler.doing \in {"continue", "mark"} => life[handler.run] \in Terminal
  /\ handler.doing \in {"approved", "rejected"} =>
       life[handler.run] = "awaiting_input"
  /\ \A r \in Runs : life[r] = "none" => pred[r] = NoRun
  /\ \A r \in Runs : life[r] = "none" =>
       \A s \in Steps : sent[r][s] = 0 /\ approval[r][s] = "none"

LEMMA LifecycleInit == Init => Lifecycle
BY DEF Init, Lifecycle, NoHandler, NoRun, Runs

\* Steps of a leg.
LEMMA NodeLifecycle ==
  ASSUME TypeInv, Lifecycle, NEW r \in Runs, NEW s \in Steps, NodeStep(r, s)
  PROVE  Lifecycle'
<1>1. CASE SkipStep(r, s) \/ StartStep(r, s) \/ Succeed(r, s) \/ Degrade(r, s)
             \/ FailStep(r, s)
  BY <1>1
  DEF SkipStep, StartStep, Succeed, Degrade, FailStep, Lifecycle, rowVars, gateVars
<1>2. CASE GateHolds(r, s)
  BY <1>2 DEF GateHolds, EndLeg, Lifecycle, rowVars, factVars, gateVars
<1>3. CASE Dispatch(r, s)
  <2>1. life[r] = "running" /\ \A q \in Runs \ {r} : sent'[q] = sent[q]
    BY <1>3 DEF Dispatch, Lifecycle, TypeInv, TypeOK
  <2> QED BY <1>3, <2>1 DEF Dispatch, Lifecycle, rowVars, factVars, gateVars
<1>4. CASE SaveResult(r, s)
  <2>1. \A q \in Runs : header'[q] = "interrupted" => header[q] = "interrupted"
    BY <1>4 DEF SaveResult, TypeInv, TypeOK
  <2> QED BY <1>4, <2>1 DEF SaveResult, Lifecycle, rowVars, gateVars
<1>5. CASE AskApproval(r, s)
  <2>1. r \in live /\ handler.doing = "none" /\ up = "ready"
    BY <1>5 DEF AskApproval, IsTurn, Free, Startable
  <2>2. life[r] = "running" /\ r \notin claimed
    BY <2>1 DEF Lifecycle
  <2>3. /\ \A q \in Runs \ {r} : life'[q] = life[q] /\ approval'[q] = approval[q]
        /\ life'[r] \in {"running", "awaiting_input"}
        /\ live' \subseteq live
        /\ r \in live' => life' = life
    BY <1>5, <2>2 DEF AskApproval, EndLeg, TypeInv, TypeOK
  <2>4. \A q \in Runs : life[q] \in Terminal => life'[q] \in Terminal
    BY <2>2, <2>3 DEF Terminal
  <2>5. /\ UNCHANGED <<header, pred, up, claimed, handler, sent>>
        /\ pred \in [Runs -> Runs \cup {NoRun}] /\ live \subseteq Runs
    BY <1>5 DEF AskApproval, factVars, TypeInv, TypeOK
  <2>6. \A q \in Runs : pred[q] # NoRun => life'[pred[q]] \in Terminal
    BY <2>4, <2>5 DEF Lifecycle
  <2>7. \A q \in live' \cup claimed' : life'[q] = "running"
    BY <2>2, <2>3, <2>5 DEF Lifecycle, TypeInv, TypeOK
  <2>8. \A q \in Runs : life'[q] = "none" =>
          \A t \in Steps : sent'[q][t] = 0 /\ approval'[q][t] = "none"
    BY <2>3, <2>5 DEF Lifecycle
  <2> QED BY <2>1, <2>3, <2>4, <2>5, <2>6, <2>7, <2>8 DEF Lifecycle
<1> QED BY <1>1, <1>2, <1>3, <1>4, <1>5 DEF NodeStep

\* What a terminal write does to the lives.
LEMMA TerminalWrite ==
  ASSUME TypeOK, NEW r \in Runs, NEW l \in Terminal, NEW why,
         RecordTerminal(r, l, why)
  PROVE  /\ \A q \in Runs \ {r} : life'[q] = life[q]
         /\ Open(r) => life'[r] = l
         /\ ~Open(r) => life' = life
         /\ life[r] # "none" => life'[r] \in Terminal
         /\ \A q \in Runs : life'[q] = "none" <=> life[q] = "none"
BY DEF RecordTerminal, TypeOK, rowVars, Open, Terminal, Lives

LEMMA FinishLifecycle ==
  ASSUME TypeInv, Lifecycle, NEW r \in Runs, FinishLeg(r)
  PROVE  Lifecycle'
<1>1. r \in live /\ handler.doing = "none" /\ up = "ready"
  BY DEF FinishLeg, Free
<1>2. life[r] = "running" /\ r \notin claimed
  BY <1>1 DEF Lifecycle
<1>3. /\ \A q \in Runs \ {r} : life'[q] = life[q]
      /\ life'[r] \in Terminal \cup {"running"}
  BY <1>2, TerminalWrite
  DEF FinishLeg, Facts, TypeInv, TypeOK, rowVars, Terminal
<1>4. \A q \in Runs : life[q] \in Terminal => life'[q] = life[q]
  BY <1>2, <1>3 DEF Terminal
<1>5. \A q \in live' \cup claimed' : life'[q] = life[q]
  BY <1>2, <1>3 DEF FinishLeg, EndLeg, TypeInv, TypeOK
<1>6. \A q \in Runs : life'[q] = "none" => life[q] = "none"
  BY <1>2, <1>3 DEF Terminal
<1> QED BY <1>1, <1>2, <1>3, <1>4, <1>5, <1>6
  DEF FinishLeg, EndLeg, Lifecycle, factVars, gateVars, TypeInv, TypeOK

LEMMA HostLifecycle ==
  ASSUME TypeInv, Lifecycle, HostStep \/ \E r \in Runs : Trigger(r)
  PROVE  Lifecycle'
<1> USE DEF Lifecycle
<1>1. CASE Reject
  <2>1. handler.run \in Runs /\ life[handler.run] = "awaiting_input"
    BY <1>1 DEF Reject, TypeInv, Handled
  <2>2. /\ \A q \in Runs \ {handler.run} : life'[q] = life[q]
        /\ life'[handler.run] \in Terminal \cup {"awaiting_input"}
    BY <1>1, <2>1, TerminalWrite DEF Reject, TypeInv, Terminal, rowVars
  <2>3. \A q \in Runs : life[q] \in Terminal => life'[q] \in Terminal
    BY <2>1, <2>2 DEF Terminal
  <2>4. \A q \in live \cup claimed : q \in Runs \ {handler.run}
    BY <2>1 DEF TypeInv, TypeOK
  <2>5. \A q \in Runs : life'[q] = "none" => life[q] = "none"
    BY <2>1, <2>2 DEF Terminal
  <2>6. pred \in [Runs -> Runs \cup {NoRun}]
    BY DEF TypeInv, TypeOK
  <2> QED BY <1>1, <2>2, <2>3, <2>4, <2>5, <2>6
    DEF Reject, NoHandler, factVars, gateVars, legVars
<1>2. CASE ClaimApproval
  <2>1. handler.run \in Runs /\ up = "ready"
        /\ life[handler.run] = "awaiting_input"
    BY <1>2 DEF ClaimApproval, TypeInv, Handled
  <2>2. /\ \A q \in Runs \ {handler.run} : life'[q] = life[q]
        /\ \/ life'[handler.run] = "running" /\ claimed' = claimed \cup {handler.run}
           \/ UNCHANGED <<life, claimed>>
    BY <1>2, <2>1 DEF ClaimApproval, TypeInv, TypeOK
  <2>3. \A q \in Runs : life[q] \in Terminal => life'[q] \in Terminal
    BY <2>1, <2>2 DEF Terminal
  <2>4. \A q \in live \cup claimed : q \in Runs \ {handler.run}
    BY <2>1 DEF TypeInv, TypeOK
  <2>5. \A q \in Runs : life'[q] = "none" => life[q] = "none"
    BY <2>1, <2>2
  <2>6. pred \in [Runs -> Runs \cup {NoRun}]
    BY DEF TypeInv, TypeOK
  <2> QED BY <1>2, <2>1, <2>2, <2>3, <2>4, <2>5, <2>6
    DEF ClaimApproval, NoHandler, factVars, gateVars, legVars
<1>3. ASSUME NEW n \in Runs, LaunchSuccessor(n) PROVE Lifecycle'
  <2>1. /\ handler.run \in Runs /\ up = "ready" /\ life[n] = "none"
        /\ life[handler.run] \in Terminal
    BY <1>3 DEF LaunchSuccessor, IsNextRun, TypeInv, Handled
  <2>2. /\ \A q \in Runs \ {n} : life'[q] = life[q] /\ pred'[q] = pred[q]
                                /\ header'[q] = header[q]
        /\ \/ life'[n] = "running" /\ pred'[n] = handler.run
           \/ life' = life /\ pred' = pred
        /\ header'[n] \in {"active", header[n]}
        /\ \/ live' = live
           \/ live' = live \cup {n} /\ life'[n] = "running"
    <3>1. /\ life \in [Runs -> Lives] /\ pred \in [Runs -> Runs \cup {NoRun}]
          /\ header \in [Runs -> {"none", "active", "interrupted"}]
      BY DEF TypeInv, TypeOK
    <3>2. CASE /\ life' = [life EXCEPT ![n] = "running"]
               /\ pred' = [pred EXCEPT ![n] = handler.run]
               /\ header' = [header EXCEPT ![n] = "active"]
               /\ StartLeg(n, handler.restored)
      BY <3>1, <3>2 DEF StartLeg
    <3>3. CASE /\ life' = [life EXCEPT ![n] = "running"]
               /\ pred' = [pred EXCEPT ![n] = handler.run]
               /\ UNCHANGED <<header, legVars>>
      BY <3>1, <3>3 DEF legVars
    <3>4. CASE UNCHANGED <<life, pred, header, legVars>>
      BY <3>4 DEF legVars
    <3> QED BY <1>3, <3>2, <3>3, <3>4 DEF LaunchSuccessor
  <2>3. /\ n \notin live \cup claimed /\ header[n] # "interrupted"
        /\ n # handler.run
    BY <2>1 DEF Terminal
  <2>4. \A q \in Runs : life[q] \in Terminal => life'[q] \in Terminal
    BY <2>1, <2>2 DEF Terminal
  <2>5. pred \in [Runs -> Runs \cup {NoRun}] /\ live \subseteq Runs
        /\ claimed \subseteq Runs
    BY DEF TypeInv, TypeOK
  <2>6. \A q \in Runs : pred'[q] # NoRun => life'[pred'[q]] \in Terminal
    BY <2>1, <2>2, <2>4, <2>5
  <2>7. \A q \in Runs : header'[q] = "interrupted" => life'[q] \in Terminal
    BY <2>2, <2>3, <2>4
  <2>8. \A q \in live' \cup claimed : life'[q] = "running"
    BY <2>2, <2>3, <2>5
  <2>9. \A q \in Runs : life'[q] = "none" => life[q] = "none"
    BY <2>2
  <2> QED BY <1>3, <2>1, <2>2, <2>3, <2>6, <2>7, <2>8, <2>9
    DEF LaunchSuccessor, NoHandler, gateVars
<1>4. ASSUME NEW q \in Runs, ResumeApproved(q) PROVE Lifecycle'
  <2>1. /\ q \in claimed /\ claimed' = claimed \ {q} /\ up = "ready"
        /\ live' = live \/ live' = live \cup {q}
    BY <1>4 DEF ResumeApproved, StartLeg, legVars, Free
  <2> QED BY <1>4, <2>1 DEF ResumeApproved, rowVars, factVars, gateVars
<1>5. ASSUME NEW r \in Runs, Trigger(r) PROVE Lifecycle'
  <2>1. /\ life[r] = "none" /\ up = "ready" /\ handler.doing = "none"
        /\ life'[r] = "running" /\ \A q \in Runs \ {r} : life'[q] = life[q]
        /\ live' = live \cup {r}
    BY <1>5 DEF Trigger, IsNextRun, StartLeg, Free, TypeInv, TypeOK
  <2>2. r \notin live \cup claimed
    BY <2>1
  <2>3. \A q \in Runs : life[q] \in Terminal => life'[q] \in Terminal
    BY <2>1 DEF Terminal
  <2>4. pred \in [Runs -> Runs \cup {NoRun}] /\ live \subseteq Runs
        /\ claimed \subseteq Runs
    BY DEF TypeInv, TypeOK
  <2>5. \A q \in live' \cup claimed : life'[q] = "running"
    BY <2>1, <2>2, <2>4
  <2>6. \A q \in Runs : pred[q] # NoRun => life'[pred[q]] \in Terminal
    BY <2>3, <2>4
  <2> QED BY <1>5, <2>1, <2>2, <2>3, <2>5, <2>6 DEF Trigger, factVars, gateVars
<1> QED BY <1>1, <1>2, <1>3, <1>4, <1>5 DEF HostStep

LEMMA BootLifecycle ==
  ASSUME TypeInv, Lifecycle, BootStep \/ Crash
  PROVE  Lifecycle'
<1> USE DEF Lifecycle
<1>1. CASE MarkInterrupted
  <2>1. up = "boot" /\ life[handler.run] \in Terminal /\ handler.run \in Runs
    BY <1>1 DEF MarkInterrupted, TypeInv, Handled
  <2>2. \A q \in Runs : header'[q] = "interrupted" =>
          header[q] = "interrupted" \/ q = handler.run
    BY <1>1, <2>1 DEF MarkInterrupted, TypeInv, TypeOK
  <2> QED BY <1>1, <2>1, <2>2
    DEF MarkInterrupted, Die, NoHandler, rowVars, gateVars, legVars
<1>2. CASE Listen \/ Restart
  BY <1>2 DEF Listen, Restart, rowVars, factVars, gateVars, legVars
<1>3. CASE Crash
  BY <1>3 DEF Crash, Die, NoHandler, rowVars, factVars, gateVars
<1>4. ASSUME NEW q \in Runs, Interrupt(q) PROVE Lifecycle'
  <2>1. up = "boot" /\ life[q] = "running" /\ live = {} /\ claimed = {}
    BY <1>4 DEF Interrupt, Scanned
  <2>2. /\ \A p \in Runs \ {q} : life'[p] = life[p]
        /\ life'[q] \in Terminal \cup {"running"}
    BY <1>4, <2>1, TerminalWrite
    DEF Interrupt, Die, TypeInv, rowVars, Terminal
  <2>3. \A p \in Runs : life[p] \in Terminal => life'[p] \in Terminal
    BY <2>1, <2>2 DEF Terminal
  <2>4. \A p \in Runs : life'[p] = "none" => life[p] = "none"
    BY <2>1, <2>2 DEF Terminal
  <2>5. pred \in [Runs -> Runs \cup {NoRun}]
    BY DEF TypeInv, TypeOK
  <2>6. \A p \in Runs : pred[p] # NoRun => life'[pred[p]] \in Terminal
    BY <2>3, <2>5
  <2>7. live' = {} /\ claimed' = {} /\ up' # "ready"
    BY <1>4, <2>1 DEF Interrupt, Die, legVars
  <2>8. \/ handler'.doing = "none"
        \/ handler'.doing = "mark" /\ handler'.run = q /\ life'[q] \in Terminal
    <3>1. CASE handler' = [NoHandler EXCEPT !.doing = "mark", !.run = q]
               /\ RecordTerminal(q, "failed", "interrupted")
      <4>1. life'[q] \in Terminal
        BY <2>1, <3>1, TerminalWrite DEF TypeInv, Terminal
      <4> QED BY <3>1, <4>1 DEF NoHandler
    <3>2. CASE Die
      BY <3>2 DEF Die, NoHandler
    <3> QED BY <1>4, <3>1, <3>2 DEF Interrupt
  <2> QED BY <1>4, <2>3, <2>4, <2>6, <2>7, <2>8
    DEF Interrupt, factVars, gateVars
<1> QED BY <1>1, <1>2, <1>3, <1>4 DEF BootStep

LEMMA RequestLifecycle ==
  ASSUME TypeInv, Lifecycle, NEW r \in Runs,
         \/ ContinueRun(r) \/ Expire(r)
         \/ \E s \in Steps, d \in {"approved", "rejected"} : Decide(r, s, d)
  PROVE  Lifecycle'
<1> USE DEF Lifecycle
<1>1. CASE ContinueRun(r)
  <2>1. life[r] \in Terminal /\ up = "ready"
    BY <1>1 DEF ContinueRun, CanContinue, Free
  <2>2. \A q \in Runs : header'[q] = "interrupted" => header[q] = "interrupted"
    BY <1>1 DEF ContinueRun, TypeInv, TypeOK
  <2> QED BY <1>1, <2>1, <2>2 DEF ContinueRun, NoHandler, rowVars, gateVars, legVars
<1>2. CASE Expire(r)
  BY <1>2 DEF Expire, rowVars, factVars, legVars
<1>3. CASE \E s \in Steps, d \in {"approved", "rejected"} : Decide(r, s, d)
  <2> PICK s \in Steps, d \in {"approved", "rejected"} : Decide(r, s, d)
    BY <1>3
  <2>1. life[r] = "awaiting_input" /\ up = "ready"
    BY DEF Decide, Free
  <2>2. \A q \in Runs \ {r} : approval'[q] = approval[q]
    <3>1. approval \in [Runs -> [Steps -> Decisions]]
      BY DEF TypeInv, TypeOK
    <3>2. approval' = [approval EXCEPT ![r][s] = d]
      BY DEF Decide
    <3> QED BY <3>1, <3>2
  <2>3. handler'.doing = d /\ handler'.run = r
    BY DEF Decide, NoHandler
  <2>4. /\ UNCHANGED <<life, header, pred, up, live, claimed, sent>>
        /\ handler'.doing \notin {"continue", "mark"}
    BY <2>3 DEF Decide, rowVars, factVars, legVars
  <2>5. \A q \in Runs : life[q] = "none" =>
          \A t \in Steps : sent'[q][t] = 0 /\ approval'[q][t] = "none"
    BY <2>1, <2>2, <2>4
  <2>6. handler'.doing \in {"approved", "rejected"} =>
          life'[handler'.run] = "awaiting_input"
    BY <2>1, <2>3, <2>4
  <2> QED BY <2>4, <2>5, <2>6
<1> QED BY <1>1, <1>2, <1>3

LEMMA LifecycleStep == TypeInv /\ Lifecycle /\ [Next]_vars => Lifecycle'
<1> SUFFICES ASSUME TypeInv, Lifecycle, [Next]_vars PROVE Lifecycle'
  OBVIOUS
<1>1. CASE UNCHANGED vars
  BY <1>1 DEF Lifecycle, vars, rowVars, factVars, gateVars, legVars
<1>2. CASE Next
  BY <1>2, NodeLifecycle, FinishLifecycle, HostLifecycle, BootLifecycle,
     RequestLifecycle
  DEF Next, LegStep
<1> QED BY <1>1, <1>2

-----------------------------------------------------------------------------
(* What a step of a leg changes.                                           *)

\* The node of s in the leg of r becomes state, and the rest stays.
NodeBecomes(r, s, state) ==
  /\ leg'[r].restored = leg[r].restored
  /\ leg'[r].node[s] = state
  /\ \A t \in Steps \ {s} : leg'[r].node[t] = leg[r].node[t]

LEMMA NodeSet ==
  ASSUME TypeInv, NEW r \in Runs, NEW s \in Steps, NEW state \in NodeStates,
         SetNode(r, s, state)
  PROVE  NodeBecomes(r, s, state)
<1>1. leg \in [Runs -> LegType] /\ leg[r] \in LegType
  BY DEF TypeInv, TypeOK
<1>2. leg'[r] = [leg[r] EXCEPT !.node[s] = state]
  BY <1>1 DEF SetNode
<1> QED BY <1>1, <1>2 DEF NodeBecomes, LegType

LEMMA NodeFailed ==
  ASSUME TypeInv, NEW r \in Runs, NEW s \in Steps, FailNode(r, s)
  PROVE  NodeBecomes(r, s, "settled")
<1>1. leg \in [Runs -> LegType] /\ leg[r] \in LegType
  BY DEF TypeInv, TypeOK
<1>2. leg'[r] = [leg[r] EXCEPT !.node[s] = "settled", !.failed = TRUE]
  BY <1>1 DEF FailNode
<1> QED BY <1>1, <1>2 DEF NodeBecomes, LegType

LEMMA NodeEnded ==
  ASSUME TypeInv, NEW r \in Runs, NEW s \in Steps,
         Succeed(r, s) \/ Degrade(r, s) \/ SaveResult(r, s)
  PROVE  NodeBecomes(r, s, "settled") \/ NodeBecomes(r, s, "done")
<1>1. leg \in [Runs -> LegType] /\ leg[r] \in LegType
  BY DEF TypeInv, TypeOK
<1>2. CASE Succeed(r, s)
  <2> PICK state : state = IF plan.kind[s] = "verifier" THEN "settled" ELSE "done"
    OBVIOUS
  <2> PICK n : n = Len(ledger[r]) + 1
    OBVIOUS
  <2>1. leg' = [leg EXCEPT ![r].seq[s] = n, ![r].node[s] = state]
    BY <1>2 DEF Succeed
  <2>2. leg'[r] = [leg[r] EXCEPT !.seq[s] = n, !.node[s] = state]
    BY <1>1, <2>1 DEF LegType
  <2>3. NodeBecomes(r, s, state)
    BY <1>1, <2>2 DEF NodeBecomes, LegType
  <2> QED BY <2>3
<1>3. CASE Degrade(r, s)
  <2> PICK why : why = IF leg[r].degraded = "no" THEN "step_contract"
                       ELSE leg[r].degraded
    OBVIOUS
  <2>1. leg' = [leg EXCEPT ![r].node[s] = "settled", ![r].degraded = why]
    BY <1>1, <1>3 DEF Degrade, LegType
  <2>2. leg'[r] = [leg[r] EXCEPT !.node[s] = "settled", !.degraded = why]
    BY <1>1, <2>1
  <2>3. NodeBecomes(r, s, "settled")
    BY <1>1, <2>2 DEF NodeBecomes, LegType
  <2> QED BY <2>3
<1>4. CASE SaveResult(r, s)
  <2>1. CASE SetNode(r, s, "settled")
    BY <2>1, NodeSet DEF NodeStates
  <2>2. CASE leg' = [leg EXCEPT ![r].node[s] = "settled",
                                ![r].degraded = "result_not_persisted"]
    <3>1. leg'[r] = [leg[r] EXCEPT !.node[s] = "settled",
                                   !.degraded = "result_not_persisted"]
      BY <1>1, <2>2
    <3> QED BY <1>1, <3>1 DEF NodeBecomes, LegType
  <2> QED BY <1>4, <2>1, <2>2 DEF SaveResult
<1> QED BY <1>2, <1>3, <1>4

LEMMA NodeStarted ==
  ASSUME TypeInv, NEW r \in Runs, NEW s \in Steps,
         leg' = [leg EXCEPT ![r].node[s] = "intent", ![r].tries[s] = @ + 1]
  PROVE  NodeBecomes(r, s, "intent")
<1>1. leg \in [Runs -> LegType] /\ leg[r] \in LegType
  BY DEF TypeInv, TypeOK
<1> PICK k : k = leg[r].tries[s] + 1
  OBVIOUS
<1>2. leg'[r] = [leg[r] EXCEPT !.node[s] = "intent", !.tries[s] = k]
  BY <1>1 DEF LegType
<1> QED BY <1>1, <1>2 DEF NodeBecomes, LegType

LEMMA LegEffect ==
  ASSUME TypeInv, NEW r \in Runs, NEW s \in Steps, NodeStep(r, s)
  PROVE  /\ \A q \in Runs \ {r} : leg'[q] = leg[q]
         /\ leg'[r].restored = leg[r].restored \/ r \notin live'
         /\ \A t \in Steps : leg'[r].node[t] = "intent" =>
              leg[r].node[t] = "intent" \/ (t = s /\ Record(r, "started", s))
<1>1. leg \in [Runs -> LegType] /\ leg[r] \in LegType
  BY DEF TypeInv, TypeOK
<1>2. \A q \in Runs \ {r} : leg'[q] = leg[q]
  BY <1>1
  DEF NodeStep, SkipStep, AskApproval, GateHolds, StartStep, Dispatch, Succeed,
      Degrade, FailStep, SaveResult, FailNode, SetNode, EndLeg, legVars
<1>3. ASSUME NEW state, state # "intent", NodeBecomes(r, s, state)
      PROVE  /\ leg'[r].restored = leg[r].restored
             /\ \A t \in Steps : leg'[r].node[t] = "intent" =>
                  leg[r].node[t] = "intent"
  BY <1>3 DEF NodeBecomes
<1>4. ASSUME \/ FailNode(r, s) \/ SetNode(r, s, "settled")
             \/ SetNode(r, s, "retry") \/ SetNode(r, s, "sent")
      PROVE  /\ leg'[r].restored = leg[r].restored
             /\ \A t \in Steps : leg'[r].node[t] = "intent" =>
                  leg[r].node[t] = "intent"
  BY <1>3, <1>4, NodeFailed, NodeSet DEF NodeStates
<1>5. CASE AskApproval(r, s) \/ GateHolds(r, s)
  <2>1. CASE EndLeg(r)
    <3>1. leg'[r] = Leg({}) /\ live' = live \ {r}
      BY <1>1, <2>1 DEF EndLeg
    <3> QED BY <1>2, <3>1 DEF Leg
  <2> QED BY <1>2, <1>4, <1>5, <2>1 DEF AskApproval, GateHolds
<1>6. CASE StartStep(r, s)
  <2>1. CASE /\ Record(r, "started", s)
             /\ leg' = [leg EXCEPT ![r].node[s] = "intent", ![r].tries[s] = @ + 1]
    <3>1. NodeBecomes(r, s, "intent")
      BY <2>1, NodeStarted
    <3> QED BY <1>2, <2>1, <3>1 DEF NodeBecomes
  <2> QED BY <1>2, <1>4, <1>6, <2>1 DEF StartStep
<1>7. CASE SkipStep(r, s) \/ Dispatch(r, s) \/ FailStep(r, s)
  BY <1>2, <1>4, <1>7 DEF SkipStep, Dispatch, FailStep
<1>8. CASE Succeed(r, s) \/ Degrade(r, s) \/ SaveResult(r, s)
  BY <1>2, <1>3, <1>8, NodeEnded
<1> QED BY <1>5, <1>6, <1>7, <1>8 DEF NodeStep

LEMMA NodeEffect ==
  ASSUME TypeInv, NEW r \in Runs, NEW s \in Steps, NodeStep(r, s)
  PROVE  /\ UNCHANGED <<plan, pred, claimed, handler, up>>
         /\ r \in live /\ live' \subseteq live /\ handler.doing = "none"
         /\ \A q \in Runs, t \in Steps :
              sent'[q][t] = sent[q][t]
                \/ /\ q = r /\ t = s /\ leg[r].node[s] = "intent"
                   /\ plan.kind[s] = "llm" /\ s \notin leg[r].restored
         /\ \A q \in Runs, t \in Steps :
              approval[q][t] = "approved" => approval'[q][t] = "approved"
<1>1. /\ UNCHANGED <<plan, pred, claimed, handler, up>>
      /\ r \in live /\ live' \subseteq live /\ handler.doing = "none"
  BY DEF NodeStep, SkipStep, AskApproval, GateHolds, StartStep, Dispatch,
         Succeed, Degrade, FailStep, SaveResult, IsTurn, Startable, Free, EndLeg
<1>2. \A q \in Runs, t \in Steps :
        sent'[q][t] = sent[q][t]
          \/ /\ q = r /\ t = s /\ leg[r].node[s] = "intent"
             /\ plan.kind[s] = "llm" /\ s \notin leg[r].restored
  <2>1. CASE Dispatch(r, s)
    BY <2>1 DEF Dispatch, TypeInv, TypeOK
  <2> QED BY <2>1
    DEF NodeStep, SkipStep, AskApproval, GateHolds, StartStep, Succeed,
        Degrade, FailStep, SaveResult
<1>3. \A q \in Runs, t \in Steps :
        approval[q][t] = "approved" => approval'[q][t] = "approved"
  <2>1. CASE AskApproval(r, s)
    <3>1. approval \in [Runs -> [Steps -> Decisions]]
      BY DEF TypeInv, TypeOK
    <3>2. \/ approval' = approval
          \/ /\ approval' = [approval EXCEPT ![r][s] = "pending"]
             /\ \A t \in Steps : approval[r][t] = "none"
      BY <2>1 DEF AskApproval
    <3> QED BY <3>1, <3>2
  <2> QED BY <2>1
    DEF NodeStep, SkipStep, Dispatch, GateHolds, StartStep, Succeed,
        Degrade, FailStep, SaveResult, gateVars
<1> QED BY <1>1, <1>2, <1>3

-----------------------------------------------------------------------------
(* The ledger remembers every call.                                        *)

\* Flush before dispatch: a call that went out has a durable step_started.
Recorded ==
  \A r \in Runs, s \in Steps :
    /\ sent[r][s] > 0 => plan.kind[s] = "llm" /\ Started(r, s) # {}
    /\ leg[r].node[s] = "intent" => Started(r, s) # {}

LEMMA RecordedInit == Init => Recorded
BY DEF Init, Recorded, Leg

LEMMA LedgerRemembers ==
  ASSUME TypeOK, NEW r \in Runs, NEW s \in Steps,
         UNCHANGED ledger \/ \E kind : Record(r, kind, s)
  PROVE  /\ \A q \in Runs, t \in Steps : Started(q, t) # {} => (Started(q, t) # {})'
         /\ Record(r, "started", s) => (Started(r, s) # {})'
<1>1. UNCHANGED ledger => \A q \in Runs, t \in Steps :
                              Started(q, t) # {} => (Started(q, t) # {})'
  BY DEF Started, Events
<1>2. ASSUME NEW kind, Record(r, kind, s)
      PROVE  /\ \A q \in Runs, t \in Steps :
                  Started(q, t) # {} => (Started(q, t) # {})'
             /\ kind = "started" => (Started(r, s) # {})'
  <2>1. /\ ledger[r] \in Seq(Event)
        /\ \A q \in Runs \ {r} : ledger'[q] = ledger[q]
        /\ ledger'[r] = Append(ledger[r], [kind |-> kind, step |-> s])
    BY <1>2 DEF Record, TypeOK
  <2>2. /\ \A i \in DOMAIN ledger[r] :
              i \in DOMAIN ledger'[r] /\ ledger'[r][i] = ledger[r][i]
        /\ Len(ledger[r]) + 1 \in DOMAIN ledger'[r]
        /\ ledger'[r][Len(ledger[r]) + 1] = [kind |-> kind, step |-> s]
    BY <2>1
  <2>3. \A q \in Runs, t \in Steps : Started(q, t) # {} => (Started(q, t) # {})'
    <3> SUFFICES ASSUME NEW q \in Runs, NEW t \in Steps, Started(q, t) # {}
                 PROVE  (Started(q, t) # {})'
      OBVIOUS
    <3>1. PICK i \in DOMAIN ledger[q] :
            ledger[q][i].kind \in {"started"} /\ ledger[q][i].step = t
      BY DEF Started, Events
    <3>2. i \in DOMAIN ledger'[q] /\ ledger'[q][i] = ledger[q][i]
      BY <2>1, <2>2
    <3> QED BY <3>1, <3>2 DEF Started, Events
  <2>4. kind = "started" => (Started(r, s) # {})'
    BY <2>2 DEF Started, Events
  <2> QED BY <2>3, <2>4
<1> QED BY <1>1, <1>2

\* Steps that are not a node's reset legs or leave them alone, and neither
\* write to the ledger nor call a provider.
LEMMA OtherEffect ==
  ASSUME TypeInv, [Next]_vars,
         ~ \E r \in Runs, s \in Steps : NodeStep(r, s)
  PROVE  /\ UNCHANGED <<plan, ledger, sent>>
         /\ \A q \in Runs, t \in Steps :
              leg'[q].node[t] = "intent" => leg[q].node[t] = "intent"
<1>1. UNCHANGED <<plan, ledger, sent>>
  <2>1. CASE UNCHANGED vars
    BY <2>1 DEF vars, factVars
  <2>2. CASE Next
    BY <2>2
    DEF Next, LegStep, HostStep, BootStep, FinishLeg, Trigger, ContinueRun,
        Expire, Decide, Reject, ClaimApproval, LaunchSuccessor, ResumeApproved,
        MarkInterrupted, Listen, Restart, Interrupt, Crash, factVars
  <2> QED BY <2>1, <2>2
<1>2. leg \in [Runs -> LegType]
  BY DEF TypeInv, TypeOK
<1>3. ASSUME NEW r \in Runs, NEW R, EndLeg(r) \/ StartLeg(r, R)
      PROVE  \A q \in Runs, t \in Steps :
               leg'[q].node[t] = "intent" => leg[q].node[t] = "intent"
  BY <1>2, <1>3 DEF EndLeg, StartLeg, Leg
<1>4. ASSUME Die
      PROVE  \A q \in Runs, t \in Steps : leg'[q].node[t] = "todo"
  BY <1>4 DEF Die, Leg
<1>5. \/ leg' = leg \/ Die
      \/ \E r \in Runs : EndLeg(r) \/ \E R : StartLeg(r, R)
  <2>1. CASE UNCHANGED vars
    BY <2>1 DEF vars, legVars
  <2>2. CASE Next
    BY <2>2
    DEF Next, LegStep, HostStep, BootStep, FinishLeg, Trigger, ContinueRun,
        Expire, Decide, Reject, ClaimApproval, LaunchSuccessor, ResumeApproved,
        MarkInterrupted, Listen, Restart, Interrupt, Crash, legVars
  <2> QED BY <2>1, <2>2
<1> QED BY <1>1, <1>3, <1>4, <1>5

LEMMA RecordedStep == TypeInv /\ Recorded /\ [Next]_vars => Recorded'
<1> SUFFICES ASSUME TypeInv, Recorded, [Next]_vars PROVE Recorded'
  OBVIOUS
<1>1. ASSUME NEW r \in Runs, NEW s \in Steps, NodeStep(r, s)
      PROVE  Recorded'
  <2>1. UNCHANGED ledger \/ \E kind : Record(r, kind, s)
    BY <1>1
    DEF NodeStep, SkipStep, AskApproval, GateHolds, StartStep, Dispatch,
        Succeed, Degrade, FailStep, SaveResult, factVars
  <2>2. /\ \A q \in Runs, t \in Steps :
             Started(q, t) # {} => (Started(q, t) # {})'
        /\ Record(r, "started", s) => (Started(r, s) # {})'
    BY <2>1, LedgerRemembers DEF TypeInv
  <2>3. \A q \in Runs, t \in Steps : leg'[q].node[t] = "intent" =>
          (Started(q, t) # {})'
    <3> SUFFICES ASSUME NEW q \in Runs, NEW t \in Steps,
                        leg'[q].node[t] = "intent"
                 PROVE  (Started(q, t) # {})'
      OBVIOUS
    <3>1. leg[q].node[t] = "intent"
            \/ (q = r /\ t = s /\ Record(r, "started", s))
      BY <1>1, LegEffect
    <3> QED BY <2>2, <3>1 DEF Recorded
  <2>4. \A q \in Runs, t \in Steps : sent'[q][t] > 0 =>
          plan'.kind[t] = "llm" /\ (Started(q, t) # {})'
    <3> SUFFICES ASSUME NEW q \in Runs, NEW t \in Steps, sent'[q][t] > 0
                 PROVE  plan'.kind[t] = "llm" /\ (Started(q, t) # {})'
      OBVIOUS
    <3>1. /\ plan' = plan
          /\ \/ sent'[q][t] = sent[q][t]
             \/ leg[q].node[t] = "intent" /\ plan.kind[t] = "llm"
      BY <1>1, NodeEffect
    <3> QED BY <2>2, <3>1 DEF Recorded
  <2> QED BY <2>3, <2>4 DEF Recorded
<1>2. CASE ~ \E r \in Runs, s \in Steps : NodeStep(r, s)
  <2>1. /\ UNCHANGED <<plan, ledger, sent>>
        /\ \A q \in Runs, t \in Steps :
             leg'[q].node[t] = "intent" => leg[q].node[t] = "intent"
    BY <1>2, OtherEffect
  <2> QED BY <2>1 DEF Recorded, Started, Events
<1> QED BY <1>1, <1>2

-----------------------------------------------------------------------------
(* What a successor may reuse.                                             *)

Unapproved(r) == \A t \in Steps : approval[r][t] # "approved"

\* What the predecessor had paid for is what the successor was given to
\* reuse, from the claim to the end of its leg; only an approval starts
\* another leg of a run.
Licence ==
  /\ handler.doing = "continue" =>
       \A s \in Steps : sent[handler.run][s] > 0 => s \in handler.restored
  /\ handler.doing = "approved" => handler.step \in Steps
  /\ \A r \in claimed : ~Unapproved(r)
  /\ \A r \in live : pred[r] # NoRun /\ Unapproved(r) =>
       \A s \in Steps : sent[pred[r]][s] > 0 => s \in leg[r].restored
  /\ ContinueNeverRepays

LEMMA LicenceInit == Init => Licence
BY DEF Init, Licence, ContinueNeverRepays, NoHandler, NoRun

\* The blockers of the recovery plan leave no paid step without a result.
LEMMA ContinueCoversCalls ==
  ASSUME TypeInv, Recorded, NEW p \in Runs, CanContinue(p), NEW s \in Steps,
         sent[p][s] > 0
  PROVE  s \in Restorable(p)
<1>1. plan.kind[s] = "llm" /\ Started(p, s) # {}
  BY DEF Recorded
<1>2. HasFacts(p, s)
  BY <1>1 DEF HasFacts, Started, Events
<1>3. Reusable(p, s)
  BY <1>1, <1>2 DEF CanContinue, Blocks
<1> QED BY <1>3 DEF Reusable, Restorable

LEMMA NodeLicence ==
  ASSUME TypeInv, Lifecycle, Licence, NEW r \in Runs, NEW s \in Steps,
         NodeStep(r, s)
  PROVE  Licence'
<1>1. /\ UNCHANGED <<plan, pred, claimed, handler, up>>
      /\ r \in live /\ live' \subseteq live /\ handler.doing = "none"
      /\ pred \in [Runs -> Runs \cup {NoRun}]
      /\ live \subseteq Runs /\ claimed \subseteq Runs
  BY NodeEffect DEF TypeInv, TypeOK
<1>2. \A q \in Runs : pred[q] # r
  <2>1. life[r] = "running"
    BY <1>1 DEF Lifecycle
  <2> QED BY <1>1, <2>1, RunsAreNumbers DEF Lifecycle, Terminal
<1>3. \A q \in Runs : (Unapproved(q))' => Unapproved(q)
  BY NodeEffect DEF Unapproved
<1>4. \A q \in Runs : pred[q] # NoRun =>
        \A t \in Steps : sent'[pred[q]][t] = sent[pred[q]][t]
  BY <1>1, <1>2, NodeEffect
<1>5. \A q \in live' : leg'[q].restored = leg[q].restored
  BY <1>1, LegEffect
<1>6. ContinueNeverRepays'
  <2> SUFFICES ASSUME NEW q \in Runs, NEW t \in Steps,
                      pred[q] # NoRun, sent[pred[q]][t] > 0, Unapproved(q)
               PROVE  sent'[q][t] = 0
    BY <1>1, <1>3, <1>4 DEF ContinueNeverRepays, Unapproved
  <2>1. sent[q][t] = 0
    BY DEF Licence, ContinueNeverRepays, Unapproved
  <2>2. q = r => t \in leg[r].restored
    BY <1>1 DEF Licence
  <2> QED BY <2>1, <2>2, NodeEffect
<1>7. \A q \in live' : pred'[q] # NoRun /\ (Unapproved(q))' =>
        \A t \in Steps : sent'[pred'[q]][t] > 0 => t \in leg'[q].restored
  BY <1>1, <1>3, <1>4, <1>5 DEF Licence
<1>8. \A q \in claimed' : ~(Unapproved(q))'
  BY <1>1, <1>3 DEF Licence
<1> QED BY <1>1, <1>6, <1>7, <1>8 DEF Licence

\* A step that calls nobody and launches nothing keeps what is licensed, if
\* it neither takes an approval back nor hands out another claim.
LEMMA QuietLicence ==
  ASSUME TypeInv, Licence, UNCHANGED <<plan, pred, sent>>,
         \A q \in Runs : (Unapproved(q))' => Unapproved(q),
         live' \subseteq live,
         \A q \in live' : leg'[q] = leg[q],
         claimed' \subseteq claimed,
         \/ handler' = handler
         \/ handler'.doing \notin {"continue", "approved"}
  PROVE  Licence'
<1>1. live \subseteq Runs /\ claimed \subseteq Runs
  BY DEF TypeInv, TypeOK
<1>2. ContinueNeverRepays'
  <2>1. \A q \in Runs, t \in Steps :
          pred[q] # NoRun /\ sent[pred[q]][t] > 0 /\ Unapproved(q)
            => sent[q][t] = 0
    BY DEF Licence, ContinueNeverRepays, Unapproved
  <2> QED BY <2>1 DEF ContinueNeverRepays, Unapproved
<1>3. \A q \in live' : pred'[q] # NoRun /\ (Unapproved(q))' =>
        \A t \in Steps : sent'[pred'[q]][t] > 0 => t \in leg'[q].restored
  BY <1>1 DEF Licence
<1>4. \A q \in claimed' : ~(Unapproved(q))'
  BY <1>1 DEF Licence
<1> QED BY <1>2, <1>3, <1>4 DEF Licence

LEMMA HostLicence ==
  ASSUME TypeInv, Lifecycle, Licence, HostStep
  PROVE  Licence'
<1>0. /\ leg \in [Runs -> LegType] /\ pred \in [Runs -> Runs \cup {NoRun}]
      /\ live \subseteq Runs /\ claimed \subseteq Runs
  BY DEF TypeInv, TypeOK
<1>1. CASE Reject
  <2>1. /\ UNCHANGED <<plan, pred, sent, approval, live, leg, claimed>>
        /\ handler'.doing = "none"
    BY <1>1 DEF Reject, NoHandler, gateVars, legVars
  <2> QED BY <2>1, QuietLicence DEF Unapproved
<1>2. CASE ClaimApproval
  <2>1. /\ UNCHANGED <<plan, pred, sent, approval, live, leg>>
        /\ handler'.doing = "none" /\ handler.run \in Runs
        /\ handler.step \in Steps
        /\ \/ claimed' = claimed
           \/ /\ claimed' = claimed \cup {handler.run}
              /\ approval[handler.run][handler.step] = "approved"
    BY <1>2 DEF ClaimApproval, NoHandler, gateVars, legVars, Licence, TypeInv,
                Handled
  <2>2. \A q \in claimed' : ~(Unapproved(q))'
    BY <2>1 DEF Licence, Unapproved
  <2>3. \A q \in live' : pred'[q] # NoRun /\ (Unapproved(q))' =>
          \A t \in Steps : sent'[pred'[q]][t] > 0 => t \in leg'[q].restored
    BY <2>1 DEF Licence, Unapproved
  <2>4. ContinueNeverRepays'
    BY <2>1 DEF Licence, ContinueNeverRepays
  <2> QED BY <2>1, <2>2, <2>3, <2>4 DEF Licence
<1>3. ASSUME NEW q \in Runs, ResumeApproved(q) PROVE Licence'
  <2>1. /\ UNCHANGED <<plan, pred, sent, approval, handler>>
        /\ q \in claimed /\ claimed' = claimed \ {q}
        /\ live' = live \/ live' = live \cup {q}
        /\ \A p \in Runs \ {q} : leg'[p] = leg[p]
    BY <1>0, <1>3 DEF ResumeApproved, StartLeg, gateVars, legVars
  <2>2. ~Unapproved(q)
    BY <2>1 DEF Licence
  <2>3. \A p \in live' : pred'[p] # NoRun /\ (Unapproved(p))' =>
          \A t \in Steps : sent'[pred'[p]][t] > 0 => t \in leg'[p].restored
    BY <1>0, <2>1, <2>2 DEF Licence, Unapproved
  <2>4. \A p \in claimed' : ~(Unapproved(p))'
    BY <2>1 DEF Licence, Unapproved
  <2>5. ContinueNeverRepays'
    BY <2>1 DEF Licence, ContinueNeverRepays
  <2> QED BY <2>1, <2>3, <2>4, <2>5 DEF Licence
<1>4. ASSUME NEW n \in Runs, LaunchSuccessor(n) PROVE Licence'
  <2>1. /\ UNCHANGED <<plan, sent, approval, claimed>>
        /\ handler'.doing = "none" /\ handler.doing = "continue"
        /\ handler.run \in Runs /\ life[n] = "none"
    BY <1>4 DEF LaunchSuccessor, IsNextRun, NoHandler, gateVars, TypeInv, Handled
  <2>2. \A t \in Steps : sent[n][t] = 0
    BY <2>1 DEF Lifecycle
  <2>3. /\ n \notin live
        /\ \A t \in Steps : sent[handler.run][t] > 0 => t \in handler.restored
    BY <2>1 DEF Lifecycle, Licence
  <2>4. /\ \A q \in Runs \ {n} : pred'[q] = pred[q] /\ leg'[q] = leg[q]
        /\ \/ live' = live
           \/ /\ live' = live \cup {n} /\ pred'[n] = handler.run
              /\ leg'[n] = Leg(handler.restored)
    BY <1>0, <1>4 DEF LaunchSuccessor, StartLeg, legVars
  <2>5. Leg(handler.restored).restored = handler.restored
    BY DEF Leg
  <2>6. \A q \in live' : pred'[q] # NoRun /\ (Unapproved(q))' =>
          \A t \in Steps : sent'[pred'[q]][t] > 0 => t \in leg'[q].restored
    <3> SUFFICES ASSUME NEW q \in live', pred'[q] # NoRun, Unapproved(q),
                        NEW t \in Steps, sent[pred'[q]][t] > 0
                 PROVE  t \in leg'[q].restored
      BY <2>1 DEF Unapproved
    <3>1. CASE q = n
      BY <2>3, <2>4, <2>5, <3>1
    <3>2. CASE q # n
      BY <1>0, <2>4, <3>2 DEF Licence
    <3> QED BY <3>1, <3>2
  <2>7. ContinueNeverRepays'
    <3> SUFFICES ASSUME NEW q \in Runs, NEW t \in Steps,
                        pred'[q] # NoRun, sent[pred'[q]][t] > 0,
                        \A u \in Steps : approval[q][u] # "approved"
                 PROVE  sent[q][t] = 0
      BY <2>1 DEF ContinueNeverRepays
    <3>1. q # n => pred'[q] = pred[q]
      BY <2>4
    <3> QED BY <2>2, <3>1 DEF Licence, ContinueNeverRepays
  <2> QED BY <2>1, <2>6, <2>7 DEF Licence, Unapproved
<1> QED BY <1>1, <1>2, <1>3, <1>4 DEF HostStep

LEMMA RequestLicence ==
  ASSUME TypeInv, Lifecycle, Recorded, Licence, NEW r \in Runs,
         \/ FinishLeg(r) \/ Trigger(r) \/ ContinueRun(r) \/ Expire(r)
         \/ \E s \in Steps, d \in {"approved", "rejected"} : Decide(r, s, d)
  PROVE  Licence'
<1>0. /\ leg \in [Runs -> LegType] /\ pred \in [Runs -> Runs \cup {NoRun}]
      /\ approval \in [Runs -> [Steps -> Decisions]]
      /\ live \subseteq Runs /\ claimed \subseteq Runs
  BY DEF TypeInv, TypeOK
<1>1. CASE FinishLeg(r)
  <2>1. /\ UNCHANGED <<plan, pred, sent, approval, claimed, handler>>
        /\ live' = live \ {r} /\ \A q \in Runs \ {r} : leg'[q] = leg[q]
    BY <1>0, <1>1 DEF FinishLeg, EndLeg, gateVars
  <2> QED BY <1>0, <2>1, QuietLicence DEF Unapproved
<1>2. CASE Trigger(r)
  <2>1. /\ UNCHANGED <<plan, pred, sent, approval, claimed, handler>>
        /\ live' = live \cup {r} /\ \A q \in Runs \ {r} : leg'[q] = leg[q]
        /\ pred[r] = NoRun
    BY <1>0, <1>2 DEF Trigger, StartLeg, IsNextRun, gateVars, Lifecycle
  <2>2. \A q \in live' : pred'[q] # NoRun /\ (Unapproved(q))' =>
          \A t \in Steps : sent'[pred'[q]][t] > 0 => t \in leg'[q].restored
    BY <1>0, <2>1 DEF Licence, Unapproved
  <2>3. ContinueNeverRepays' /\ \A q \in claimed' : ~(Unapproved(q))'
    BY <2>1 DEF Licence, ContinueNeverRepays, Unapproved
  <2> QED BY <2>1, <2>2, <2>3 DEF Licence
<1>3. CASE ContinueRun(r)
  <2>1. /\ UNCHANGED <<plan, pred, sent, approval, live, leg, claimed>>
        /\ handler'.doing = "continue" /\ handler'.run = r
        /\ handler'.restored = Restorable(r) /\ CanContinue(r)
    BY <1>3 DEF ContinueRun, NoHandler, gateVars, legVars
  <2>2. \A t \in Steps : sent[r][t] > 0 => t \in Restorable(r)
    BY <2>1, ContinueCoversCalls
  <2> QED BY <2>1, <2>2 DEF Licence, ContinueNeverRepays, Unapproved
<1>4. CASE Expire(r)
  <2>1. UNCHANGED <<plan, pred, sent, approval, live, leg, claimed, handler>>
    BY <1>4 DEF Expire, legVars
  <2> QED BY <2>1, QuietLicence DEF Unapproved
<1>5. CASE \E s \in Steps, d \in {"approved", "rejected"} : Decide(r, s, d)
  <2> PICK s \in Steps, d \in {"approved", "rejected"} : Decide(r, s, d)
    BY <1>5
  <2>1. /\ UNCHANGED <<plan, pred, sent, live, leg, claimed>>
        /\ handler'.doing = d /\ handler'.step = s
        /\ approval' = [approval EXCEPT ![r][s] = d]
        /\ approval[r][s] = "pending"
    BY DEF Decide, NoHandler, legVars
  <2>2. \A q \in Runs, t \in Steps :
          approval[q][t] = "approved" => approval'[q][t] = "approved"
    BY <1>0, <2>1
  <2>3. \A q \in Runs : (Unapproved(q))' => Unapproved(q)
    BY <2>2 DEF Unapproved
  <2>4. ContinueNeverRepays'
    BY <2>1, <2>2 DEF Licence, ContinueNeverRepays
  <2>5. \A q \in live' : pred'[q] # NoRun /\ (Unapproved(q))' =>
          \A t \in Steps : sent'[pred'[q]][t] > 0 => t \in leg'[q].restored
    BY <1>0, <2>1, <2>3 DEF Licence
  <2>6. \A q \in claimed' : ~(Unapproved(q))'
    BY <1>0, <2>1, <2>3 DEF Licence
  <2> QED BY <2>1, <2>4, <2>5, <2>6 DEF Licence
<1> QED BY <1>1, <1>2, <1>3, <1>4, <1>5

LEMMA BootLicence ==
  ASSUME TypeInv, Licence, BootStep \/ Crash
  PROVE  Licence'
<1>1. /\ UNCHANGED <<plan, pred, sent, approval>>
      /\ \/ UNCHANGED legVars \/ live' = {}
      /\ claimed' = claimed \/ claimed' = {}
      /\ handler' = handler \/ handler'.doing \in {"none", "mark"}
  <2>1. CASE MarkInterrupted
    BY <2>1 DEF MarkInterrupted, Die, NoHandler, gateVars, legVars
  <2>2. CASE Listen \/ Restart \/ Crash
    BY <2>2 DEF Listen, Restart, Crash, Die, NoHandler, gateVars, legVars
  <2>3. ASSUME NEW r \in Runs, Interrupt(r)
        PROVE  /\ UNCHANGED <<plan, pred, sent, approval>>
               /\ UNCHANGED <<leg, live, claimed>> \/ Die
               /\ handler'.doing \in {"none", "mark"}
    <3>1. handler'.doing \in {"none", "mark"}
      <4>1. CASE handler' = [NoHandler EXCEPT !.doing = "mark", !.run = r]
        BY <4>1 DEF NoHandler
      <4>2. CASE handler' = NoHandler
        BY <4>2 DEF NoHandler
      <4> QED BY <2>3, <4>1, <4>2 DEF Interrupt, Die
    <3> QED BY <2>3, <3>1 DEF Interrupt, gateVars, legVars
  <2> QED BY <2>1, <2>2, <2>3 DEF BootStep, Die, legVars
<1> QED BY <1>1, QuietLicence DEF legVars, Unapproved

LEMMA LicenceStep ==
  TypeInv /\ Lifecycle /\ Recorded /\ Licence /\ [Next]_vars => Licence'
<1> SUFFICES ASSUME TypeInv, Lifecycle, Recorded, Licence, [Next]_vars
             PROVE  Licence'
  OBVIOUS
<1>1. CASE UNCHANGED vars
  <2>1. UNCHANGED <<plan, pred, sent, approval, live, leg, claimed, handler>>
    BY <1>1 DEF vars, gateVars, legVars
  <2> QED BY <2>1, QuietLicence DEF Unapproved
<1>2. CASE Next
  BY <1>2, NodeLicence, HostLicence, RequestLicence, BootLicence
  DEF Next, LegStep
<1> QED BY <1>1, <1>2

\* Until an approval resumes it, a successor run (host.ts #executeContinue)
\* never calls a provider for a step its predecessor had called one for: for
\* every plan, every schedule, any number of crashes and failing writes.
THEOREM ContinueNeverRepaysHolds == Spec => []ContinueNeverRepays
<1> DEFINE Inv == TypeInv /\ Lifecycle /\ Recorded /\ Licence
<1>1. Init => Inv
  BY TypeInit, LifecycleInit, RecordedInit, LicenceInit
<1>2. Inv /\ [Next]_vars => Inv'
  BY TypeStep, LifecycleStep, RecordedStep, LicenceStep
<1>3. Inv => ContinueNeverRepays
  BY DEF Licence
<1> QED BY <1>1, <1>2, <1>3, PTL DEF Spec

-----------------------------------------------------------------------------
(* The gate.                                                               *)

\* A run asks for one approval in its life, and does not run while it waits.
OneRequest ==
  \A r \in Runs : \A s \in Steps :
    /\ approval[r][s] # "none" =>
         \A t \in Steps \ {s} : approval[r][t] = "none"
    /\ approval[r][s] = "pending" => life[r] # "running"

\* A gated step is in hand only when approved, and is not yet paid for as
\* long as it can still be dispatched.
GateFence ==
  \A r \in Runs : \A s \in plan.gates :
    /\ r \in live /\ leg[r].node[s] \notin {"todo", "settled"} =>
         approval[r][s] = "approved"
    /\ r \in live /\ leg[r].node[s] \in {"todo", "intent"} => sent[r][s] = 0
    /\ r \in claimed \/ life[r] = "awaiting_input" => sent[r][s] = 0

Gated == OneRequest /\ GateFence /\ ApprovalAuthorizesOnce

LEMMA GatedSteps == ASSUME TypeInv PROVE plan.gates \subseteq Steps
BY WorkflowAssumption DEF WorkflowAssumption, PlanType, TypeInv, TypeOK

LEMMA GatedInit == Init => Gated
<1> SUFFICES ASSUME Init PROVE Gated
  OBVIOUS
<1>1. plan.gates \subseteq Steps
  BY WorkflowAssumption DEF WorkflowAssumption, PlanType, Init
<1> QED BY <1>1
  DEF Init, Gated, OneRequest, GateFence, ApprovalAuthorizesOnce

\* A step that leaves approvals and calls alone, ends legs and claims only,
\* and sets no run running or waiting.
LEMMA QuietGated ==
  ASSUME TypeInv, Gated, UNCHANGED <<plan, sent, approval>>,
         live' \subseteq live,
         \A q \in live' : leg'[q] = leg[q],
         claimed' \subseteq claimed,
         \A q \in Runs :
           life'[q] \in {"running", "awaiting_input"} => life'[q] = life[q]
  PROVE  Gated'
<1>1. OneRequest'
  BY DEF Gated, OneRequest
<1>2. GateFence'
  BY DEF Gated, GateFence
<1>3. ApprovalAuthorizesOnce'
  BY DEF Gated, ApprovalAuthorizesOnce
<1> QED BY <1>1, <1>2, <1>3 DEF Gated

\* Where a node can go.
LEMMA NodePath ==
  ASSUME TypeInv, NEW r \in Runs, NEW s \in Steps, NodeStep(r, s)
  PROVE  \/ r \notin live'
         \/ \E state \in NodeStates \ {"todo"} :
              /\ NodeBecomes(r, s, state)
              /\ state = "intent" => StartStep(r, s)
              /\ state \notin {"settled", "intent"} =>
                   leg[r].node[s] \notin {"todo", "settled"}
<1> USE DEF NodeStates
<1>1. CASE SkipStep(r, s)
  BY <1>1, NodeSet, NodeFailed DEF SkipStep
<1>2. CASE AskApproval(r, s) \/ GateHolds(r, s)
  BY <1>2, NodeFailed DEF AskApproval, GateHolds, EndLeg
<1>3. CASE StartStep(r, s)
  BY <1>3, NodeStarted, NodeFailed DEF StartStep
<1>4. CASE Dispatch(r, s)
  BY <1>4, NodeSet DEF Dispatch
<1>5. CASE FailStep(r, s)
  BY <1>5, NodeSet, NodeFailed DEF FailStep
<1>6. CASE Succeed(r, s) \/ Degrade(r, s) \/ SaveResult(r, s)
  <2>1. leg[r].node[s] \notin {"todo", "settled"}
    BY <1>6 DEF Succeed, Degrade, SaveResult
  <2> QED BY <1>6, <2>1, NodeEnded
<1> QED BY <1>1, <1>2, <1>3, <1>4, <1>5, <1>6 DEF NodeStep

\* A gated step is started only when approved, and before it was paid for.
LEMMA StartIsApproved ==
  ASSUME TypeInv, Lifecycle, Recorded, Gated, NEW r \in Runs,
         NEW s \in plan.gates, StartStep(r, s)
  PROVE  approval[r][s] = "approved" /\ sent[r][s] = 0
<1>1. /\ r \in live /\ life[r] = "running" /\ s \in Steps
      /\ sent[r][s] \in Nat
      /\ approval[r][s] \in Decisions
  BY GatedSteps
  DEF StartStep, IsTurn, Startable, Lifecycle, TypeInv, TypeOK
<1>2. CASE IsTurn(r, s) /\ GateVerdict(r, s) = "proceed"
  <2>1. leg[r].node[s] = "todo"
    BY <1>2 DEF IsTurn, Startable
  <2>2. approval[r][s] \notin {"none", "rejected"}
    BY <1>2 DEF GateVerdict
  <2>3. approval[r][s] # "pending"
    BY <1>1 DEF Gated, OneRequest
  <2> QED BY <1>1, <2>1, <2>2, <2>3 DEF Gated, GateFence, Decisions
<1>3. CASE leg[r].node[s] = "retry"
  <2>1. plan.kind[s] # "llm"
    BY <1>1, <1>3 DEF TypeInv, Attempts, GoodLeg
  <2>2. ~(sent[r][s] > 0)
    BY <1>1, <2>1 DEF Recorded
  <2> QED BY <1>1, <1>3, <2>2 DEF Gated, GateFence
<1> QED BY <1>2, <1>3 DEF StartStep

LEMMA NodeGated ==
  ASSUME TypeInv, Lifecycle, Recorded, Gated, NEW r \in Runs, NEW s \in Steps,
         NodeStep(r, s)
  PROVE  Gated'
<1>0. /\ approval \in [Runs -> [Steps -> Decisions]]
      /\ sent \in [Runs -> [Steps -> Nat]] /\ life \in [Runs -> Lives]
      /\ plan.gates \subseteq Steps /\ live \subseteq Runs
  BY GatedSteps DEF TypeInv, TypeOK
<1>1. /\ UNCHANGED <<plan, claimed>> /\ r \in live /\ live' \subseteq live
      /\ life[r] = "running" /\ r \notin claimed
  BY NodeEffect DEF Lifecycle
<1>2. CASE AskApproval(r, s) /\ approval' # approval
  <2>1. /\ \A t \in Steps : approval[r][t] = "none"
        /\ approval' = [approval EXCEPT ![r][s] = "pending"]
        /\ life' = [life EXCEPT ![r] = "awaiting_input"]
        /\ live' = live \ {r} /\ sent' = sent
        /\ \A q \in Runs \ {r} : leg'[q] = leg[q]
    BY <1>2, LegEffect DEF AskApproval, EndLeg
  <2>2. \A t \in plan.gates : sent[r][t] = 0
    BY <1>0, <2>1 DEF Gated, ApprovalAuthorizesOnce
  <2>3. /\ approval'[r][s] = "pending"
        /\ \A t \in Steps \ {s} : approval'[r][t] = "none"
        /\ \A q \in Runs \ {r} : approval'[q] = approval[q] /\ life'[q] = life[q]
        /\ life'[r] = "awaiting_input"
    BY <1>0, <2>1
  <2>4. OneRequest'
    BY <2>3 DEF Gated, OneRequest
  <2>5. GateFence'
    <3> SUFFICES ASSUME NEW q \in Runs, NEW t \in plan.gates
                 PROVE  /\ q \in live' /\ leg'[q].node[t] \notin {"todo", "settled"}
                             => approval'[q][t] = "approved"
                        /\ q \in live' /\ leg'[q].node[t] \in {"todo", "intent"}
                             => sent[q][t] = 0
                        /\ q \in claimed \/ life'[q] = "awaiting_input"
                             => sent[q][t] = 0
      BY <1>1, <2>1 DEF GateFence
    <3>1. CASE q = r
      BY <2>1, <2>2, <3>1
    <3>2. CASE q # r
      BY <2>1, <2>3, <3>2 DEF Gated, GateFence
    <3> QED BY <3>1, <3>2
  <2>6. ApprovalAuthorizesOnce'
    <3>1. \A q \in Runs : \A t \in plan.gates :
            sent[q][t] <= IF approval'[q][t] = "approved" THEN 1 ELSE 0
      BY <1>0, <2>2, <2>3 DEF Gated, ApprovalAuthorizesOnce
    <3> QED BY <1>1, <2>1, <3>1 DEF ApprovalAuthorizesOnce
  <2> QED BY <2>4, <2>5, <2>6 DEF Gated
<1>3. CASE approval' = approval
  <2>1. /\ \A q \in Runs :
             life'[q] \in {"running", "awaiting_input"} => life'[q] = life[q]
        /\ \A q \in Runs \ {r} : leg'[q] = leg[q]
    <3>1. CASE AskApproval(r, s)
      BY <1>0, <1>3, <3>1, LegEffect DEF AskApproval
    <3> QED BY <3>1, LegEffect
      DEF NodeStep, SkipStep, GateHolds, StartStep, Dispatch, Succeed, Degrade,
          FailStep, SaveResult, rowVars
  <2>2. OneRequest'
    BY <1>3, <2>1 DEF Gated, OneRequest
  <2>3. CASE r \notin live'
    <3>1. UNCHANGED <<plan, sent, approval>>
      BY <1>1, <1>3, <2>3
      DEF NodeStep, SkipStep, AskApproval, GateHolds, StartStep, Dispatch,
          Succeed, Degrade, FailStep, SaveResult
    <3>2. /\ live' \subseteq live /\ \A q \in live' : leg'[q] = leg[q]
          /\ claimed' \subseteq claimed
      BY <1>0, <1>1, <2>1, <2>3
    <3> QED BY <2>1, <3>1, <3>2, QuietGated
  <2>4. ASSUME NEW state \in NodeStates \ {"todo"}, NodeBecomes(r, s, state),
               state = "intent" => StartStep(r, s),
               state \notin {"settled", "intent"} =>
                 leg[r].node[s] \notin {"todo", "settled"}
        PROVE  Gated'
    <3>1. /\ leg'[r].node[s] = state
          /\ \A t \in Steps \ {s} : leg'[r].node[t] = leg[r].node[t]
      BY <2>4 DEF NodeBecomes
    <3>2. CASE Dispatch(r, s)
      <4>1. leg[r].node[s] = "intent" /\ leg'[r].node[s] = "sent"
        BY <3>2, NodeSet DEF Dispatch, NodeBecomes, NodeStates
      <4>2. /\ \A q \in Runs \ {r} : sent'[q] = sent[q]
            /\ \A t \in Steps \ {s} : sent'[r][t] = sent[r][t]
            /\ sent'[r][s] \in {sent[r][s], sent[r][s] + 1}
        BY <1>0, <3>2 DEF Dispatch
      <4>3. s \in plan.gates => approval[r][s] = "approved" /\ sent[r][s] = 0
        BY <1>1, <4>1 DEF Gated, GateFence
      <4>4. GateFence'
        <5> SUFFICES ASSUME NEW q \in Runs, NEW t \in plan.gates
                     PROVE  /\ q \in live' /\ leg'[q].node[t] \notin {"todo", "settled"}
                                 => approval[q][t] = "approved"
                            /\ q \in live' /\ leg'[q].node[t] \in {"todo", "intent"}
                                 => sent'[q][t] = 0
                            /\ q \in claimed' \/ life'[q] = "awaiting_input"
                                 => sent'[q][t] = 0
          BY <1>1, <1>3 DEF GateFence
        <5>1. CASE q = r /\ t = s
          BY <1>1, <2>1, <4>1, <4>3, <5>1
        <5>2. CASE q = r /\ t # s
          BY <1>0, <1>1, <2>1, <3>1, <4>2, <5>2 DEF Gated, GateFence
        <5>3. CASE q # r
          BY <1>1, <2>1, <4>2, <5>3 DEF Gated, GateFence
        <5> QED BY <5>1, <5>2, <5>3
      <4>5. ApprovalAuthorizesOnce'
        <5> SUFFICES ASSUME NEW q \in Runs, NEW t \in plan.gates
                     PROVE  sent'[q][t] <= IF approval[q][t] = "approved" THEN 1 ELSE 0
          BY <1>1, <1>3 DEF ApprovalAuthorizesOnce
        <5>1. CASE q = r /\ t = s
          BY <4>2, <4>3, <5>1
        <5>2. CASE ~(q = r /\ t = s)
          <6>1. sent'[q][t] = sent[q][t]
            BY <1>0, <4>2, <5>2
          <6> QED BY <6>1 DEF Gated, ApprovalAuthorizesOnce
        <5> QED BY <5>1, <5>2
      <4> QED BY <2>2, <4>4, <4>5 DEF Gated
    <3>3. CASE sent' = sent
      <4>1. ApprovalAuthorizesOnce'
        BY <1>1, <1>3, <3>3 DEF Gated, ApprovalAuthorizesOnce
      <4>2. state = "intent" /\ s \in plan.gates =>
              approval[r][s] = "approved" /\ sent[r][s] = 0
        BY <2>4, StartIsApproved
      <4>3. ASSUME NEW t \in plan.gates
            PROVE  /\ leg'[r].node[t] \notin {"todo", "settled"} =>
                        approval[r][t] = "approved"
                   /\ leg'[r].node[t] \in {"todo", "intent"} => sent[r][t] = 0
        <5>1. CASE t = s
          <6>1. state \notin {"settled", "intent"} => approval[r][s] = "approved"
            BY <1>1, <2>4, <5>1 DEF Gated, GateFence
          <6> QED BY <3>1, <4>2, <5>1, <6>1
        <5>2. CASE t # s
          BY <1>0, <1>1, <3>1, <5>2 DEF Gated, GateFence
        <5> QED BY <5>1, <5>2
      <4>4. GateFence'
        <5> SUFFICES ASSUME NEW q \in Runs, NEW t \in plan.gates
                     PROVE  /\ q \in live' /\ leg'[q].node[t] \notin {"todo", "settled"}
                                 => approval[q][t] = "approved"
                            /\ q \in live' /\ leg'[q].node[t] \in {"todo", "intent"}
                                 => sent[q][t] = 0
                            /\ q \in claimed' \/ life'[q] = "awaiting_input"
                                 => sent[q][t] = 0
          BY <1>1, <1>3, <3>3 DEF GateFence
        <5>1. CASE q = r
          BY <1>1, <2>1, <4>3, <5>1 DEF Gated, GateFence
        <5>2. CASE q # r
          BY <1>1, <2>1, <5>2 DEF Gated, GateFence
        <5> QED BY <5>1, <5>2
      <4> QED BY <2>2, <4>1, <4>4 DEF Gated
    <3> QED BY <3>2, <3>3
      DEF NodeStep, SkipStep, AskApproval, GateHolds, StartStep, Succeed,
          Degrade, FailStep, SaveResult
  <2> QED BY <2>3, <2>4, NodePath
<1> QED BY <1>2, <1>3
  DEF NodeStep, SkipStep, GateHolds, StartStep, Dispatch, Succeed, Degrade,
      FailStep, SaveResult, gateVars

LEMMA FreshNodes ==
  ASSUME NEW R, NEW t \in Steps PROVE Leg(R).node[t] = "todo"
BY DEF Leg

LEMMA OtherGated ==
  ASSUME TypeInv, Lifecycle, Licence, Gated, NEW r,
         \/ /\ r \in Runs
            /\ \/ FinishLeg(r) \/ Trigger(r) \/ ContinueRun(r) \/ Expire(r)
               \/ LaunchSuccessor(r) \/ ResumeApproved(r) \/ Interrupt(r)
               \/ \E s \in Steps, d \in {"approved", "rejected"} : Decide(r, s, d)
         \/ Reject \/ ClaimApproval \/ MarkInterrupted \/ Listen \/ Restart
         \/ Crash
  PROVE  Gated'
<1>0. /\ approval \in [Runs -> [Steps -> Decisions]]
      /\ leg \in [Runs -> LegType] /\ life \in [Runs -> Lives]
      /\ plan.gates \subseteq Steps /\ live \subseteq Runs /\ claimed \subseteq Runs
  BY GatedSteps DEF TypeInv, TypeOK
<1>1. CASE r \in Runs /\ FinishLeg(r)
  <2>1. /\ UNCHANGED <<plan, sent, approval, claimed>>
        /\ live' = live \ {r} /\ \A q \in Runs \ {r} : leg'[q] = leg[q]
    BY <1>0, <1>1 DEF FinishLeg, EndLeg, gateVars
  <2>2. \A q \in Runs :
          life'[q] \in {"running", "awaiting_input"} => life'[q] = life[q]
    BY <1>0, <1>1 DEF FinishLeg, RecordTerminal, Facts, rowVars
  <2> QED BY <1>0, <2>1, <2>2, QuietGated
<1>2. CASE ContinueRun(r) \/ Expire(r) \/ MarkInterrupted \/ Listen \/ Restart
             \/ Crash
  <2>1. /\ UNCHANGED <<plan, sent, approval, life>>
        /\ live' = {} \/ UNCHANGED <<live, leg>>
        /\ claimed' = {} \/ UNCHANGED claimed
    BY <1>2 DEF ContinueRun, Expire, MarkInterrupted, Listen, Restart, Crash,
                Die, rowVars, gateVars, legVars
  <2> QED BY <2>1, QuietGated
<1>3. CASE r \in Runs /\ Interrupt(r)
  <2>1. /\ UNCHANGED <<plan, sent, approval>>
        /\ live' = {} \/ UNCHANGED <<live, leg>>
        /\ claimed' = {} \/ UNCHANGED claimed
    BY <1>3 DEF Interrupt, Die, gateVars, legVars
  <2>2. \A q \in Runs :
          life'[q] \in {"running", "awaiting_input"} => life'[q] = life[q]
    BY <1>0, <1>3 DEF Interrupt, RecordTerminal, rowVars
  <2> QED BY <2>1, <2>2, QuietGated
<1>4. CASE Reject
  <2>1. UNCHANGED <<plan, sent, approval, live, leg, claimed>>
    BY <1>4 DEF Reject, gateVars, legVars
  <2>2. \A q \in Runs :
          life'[q] \in {"running", "awaiting_input"} => life'[q] = life[q]
    BY <1>0, <1>4 DEF Reject, RecordTerminal, rowVars
  <2> QED BY <2>1, <2>2, QuietGated
<1>5. CASE r \in Runs /\ (Trigger(r) \/ LaunchSuccessor(r))
  <2>1. /\ UNCHANGED <<plan, sent, approval, claimed>>
        /\ r \in Runs /\ life[r] = "none"
        /\ \A q \in Runs \ {r} : leg'[q] = leg[q] /\ life'[q] = life[q]
        /\ live' \in {live, live \cup {r}}
        /\ life'[r] \in {"none", "running"}
    BY <1>0, <1>5
    DEF Trigger, LaunchSuccessor, IsNextRun, StartLeg, gateVars, legVars
  <2>2. \A t \in Steps : sent[r][t] = 0 /\ approval[r][t] = "none"
    BY <2>1 DEF Lifecycle
  <2>3. r \notin live /\ r \notin claimed
    BY <2>1 DEF Lifecycle
  <2>4. r \in live' => \A t \in Steps : leg'[r].node[t] = "todo"
    <3>1. r \in live' => \E R : leg'[r] = Leg(R)
      BY <1>0, <1>5, <2>3 DEF Trigger, LaunchSuccessor, StartLeg, legVars
    <3> QED BY <3>1, FreshNodes
  <2>5. OneRequest'
    BY <2>1, <2>2 DEF Gated, OneRequest
  <2>6. GateFence'
    BY <1>0, <2>1, <2>2, <2>3, <2>4 DEF Gated, GateFence
  <2>7. ApprovalAuthorizesOnce'
    BY <2>1 DEF Gated, ApprovalAuthorizesOnce
  <2> QED BY <2>5, <2>6, <2>7 DEF Gated
<1>6. CASE r \in Runs /\ ResumeApproved(r)
  <2>1. /\ UNCHANGED <<plan, sent, approval, life>>
        /\ r \in Runs /\ r \in claimed /\ claimed' = claimed \ {r}
        /\ \A q \in Runs \ {r} : leg'[q] = leg[q]
        /\ live' \in {live, live \cup {r}}
    BY <1>0, <1>6 DEF ResumeApproved, StartLeg, rowVars, gateVars, legVars
  <2>2. r \notin live /\ \A t \in plan.gates : sent[r][t] = 0
    BY <1>0, <2>1 DEF Lifecycle, Gated, GateFence
  <2>3. r \in live' => \A t \in Steps : leg'[r].node[t] = "todo"
    <3>1. r \in live' => \E R : leg'[r] = Leg(R)
      BY <1>0, <1>6, <2>2 DEF ResumeApproved, StartLeg, legVars
    <3> QED BY <3>1, FreshNodes
  <2>4. OneRequest' /\ ApprovalAuthorizesOnce'
    BY <2>1 DEF Gated, OneRequest, ApprovalAuthorizesOnce
  <2>5. GateFence'
    BY <1>0, <2>1, <2>2, <2>3 DEF Gated, GateFence
  <2> QED BY <2>4, <2>5 DEF Gated
<1>7. CASE ClaimApproval
  <2> PICK p \in Runs : p = handler.run
    BY <1>7 DEF ClaimApproval, TypeInv, Handled
  <2>1. /\ UNCHANGED <<plan, sent, approval, live, leg>> /\ handler.step \in Steps
        /\ \/ UNCHANGED <<life, claimed>>
           \/ /\ life[p] = "awaiting_input"
              /\ approval[p][handler.step] = "approved"
              /\ life' = [life EXCEPT ![p] = "running"]
              /\ claimed' = claimed \cup {p}
    BY <1>7 DEF ClaimApproval, gateVars, legVars, Licence
  <2>2. CASE UNCHANGED <<life, claimed>>
    BY <2>1, <2>2, QuietGated
  <2>3. CASE ~UNCHANGED <<life, claimed>>
    <3>1. /\ \A q \in Runs \ {p} : life'[q] = life[q]
          /\ life'[p] = "running" /\ claimed' = claimed \cup {p}
          /\ \A t \in Steps : approval[p][t] # "pending"
          /\ \A t \in plan.gates : sent[p][t] = 0
      <4>1. \A t \in Steps \ {handler.step} : approval[p][t] = "none"
        BY <2>1, <2>3 DEF Gated, OneRequest
      <4>2. \A t \in plan.gates : sent[p][t] = 0
        BY <1>0, <2>1, <2>3 DEF Gated, GateFence
      <4>3. \A t \in Steps : approval[p][t] # "pending"
        BY <2>1, <2>3, <4>1
      <4> QED BY <1>0, <2>1, <2>3, <4>2, <4>3
    <3>2. OneRequest'
      BY <2>1, <3>1 DEF Gated, OneRequest
    <3>3. GateFence'
      BY <1>0, <2>1, <3>1 DEF Gated, GateFence
    <3>4. ApprovalAuthorizesOnce'
      BY <2>1 DEF Gated, ApprovalAuthorizesOnce
    <3> QED BY <3>2, <3>3, <3>4 DEF Gated
  <2> QED BY <2>2, <2>3
<1>8. CASE /\ r \in Runs
           /\ \E s \in Steps, d \in {"approved", "rejected"} : Decide(r, s, d)
  <2> PICK s \in Steps, d \in {"approved", "rejected"} : Decide(r, s, d)
    BY <1>8
  <2>1. /\ UNCHANGED <<plan, sent, live, leg, claimed, life>>
        /\ approval' = [approval EXCEPT ![r][s] = d]
        /\ approval[r][s] = "pending"
    BY DEF Decide, rowVars, legVars
  <2>2. /\ \A q \in Runs \ {r} : approval'[q] = approval[q]
        /\ \A t \in Steps \ {s} : approval'[r][t] = approval[r][t]
        /\ approval'[r][s] = d
    BY <1>0, <1>8, <2>1
  <2>3. \A q \in Runs, t \in Steps : /\ approval'[q][t] = "none" <=> approval[q][t] = "none"
                                     /\ approval'[q][t] = "pending" => approval[q][t] = "pending"
                                     /\ approval[q][t] = "approved" => approval'[q][t] = "approved"
    BY <2>1, <2>2
  <2>4. OneRequest'
    BY <2>1, <2>3 DEF Gated, OneRequest
  <2>5. GateFence'
    BY <1>0, <2>1, <2>3 DEF Gated, GateFence
  <2>6. ApprovalAuthorizesOnce'
    <3> SUFFICES ASSUME NEW q \in Runs, NEW t \in plan.gates
                 PROVE  sent[q][t] <= IF approval'[q][t] = "approved" THEN 1 ELSE 0
      BY <2>1 DEF ApprovalAuthorizesOnce
    <3>1. sent[q][t] <= IF approval[q][t] = "approved" THEN 1 ELSE 0
      BY DEF Gated, ApprovalAuthorizesOnce
    <3>2. sent[q][t] \in Nat
      BY <1>0 DEF TypeInv, TypeOK
    <3> QED BY <1>0, <2>3, <3>1, <3>2
  <2> QED BY <2>4, <2>5, <2>6 DEF Gated
<1> QED BY <1>1, <1>2, <1>3, <1>4, <1>5, <1>6, <1>7, <1>8

LEMMA GatedStep ==
  TypeInv /\ Lifecycle /\ Recorded /\ Licence /\ Gated /\ [Next]_vars => Gated'
<1> SUFFICES ASSUME TypeInv, Lifecycle, Recorded, Licence, Gated, [Next]_vars
             PROVE  Gated'
  OBVIOUS
<1>1. CASE UNCHANGED vars
  <2>1. UNCHANGED <<plan, sent, approval, live, leg, claimed, life>>
    BY <1>1 DEF vars, rowVars, gateVars, legVars
  <2> QED BY <2>1, QuietGated
<1>2. CASE \E r \in Runs, s \in Steps : NodeStep(r, s)
  BY <1>2, NodeGated
<1>3. CASE Next /\ ~ \E r \in Runs, s \in Steps : NodeStep(r, s)
  BY <1>3, OtherGated DEF Next, LegStep, HostStep, BootStep
<1> QED BY <1>1, <1>2, <1>3

\* A paid step behind a gate (executor.ts gateApproval, store.ts
\* claimApprovedContinuation) is called at most once in a run, and only after
\* its own approval: for every plan, every schedule of decisions, expiries,
\* crashes and failing writes.
THEOREM ApprovalAuthorizesOnceHolds == Spec => []ApprovalAuthorizesOnce
<1> DEFINE Inv == TypeInv /\ Lifecycle /\ Recorded /\ Licence /\ Gated
<1>1. Init => Inv
  BY TypeInit, LifecycleInit, RecordedInit, LicenceInit, GatedInit
<1>2. Inv /\ [Next]_vars => Inv'
  BY TypeStep, LifecycleStep, RecordedStep, LicenceStep, GatedStep
<1>3. Inv => ApprovalAuthorizesOnce
  BY DEF Gated
<1> QED BY <1>1, <1>2, <1>3, PTL DEF Spec
-----------------------------------------------------------------------------
(* What the ledger says of a step.                                         *)

\* The ledger tells the same of step t of run q as before.
SameEvents(q, t) ==
  /\ (Started(q, t))' = Started(q, t)
  /\ (Ended(q, t))' = Ended(q, t)
  /\ (Events(q, {"succeeded"}, t))' = Events(q, {"succeeded"}, t)
  /\ (Events(q, {"failed"}, t))' = Events(q, {"failed"}, t)

\* The last thing that happened to the step is its success at n.
LastSuccess(r, s, n) ==
  /\ n \in Events(r, {"succeeded"}, s)
  /\ \A i \in Ended(r, s) : i <= n
  /\ \A i \in Started(r, s) : i < n

LEMMA UnchangedEvents ==
  ASSUME UNCHANGED ledger, NEW q, NEW t
  PROVE  SameEvents(q, t)
BY DEF SameEvents, Started, Ended, Events

\* An event is about one step of one run.
LEMMA OtherEvents ==
  ASSUME TypeOK, NEW r \in Runs, NEW s \in Steps, NEW kind, Record(r, kind, s),
         NEW q \in Runs, NEW t \in Steps, q # r \/ t # s
  PROVE  SameEvents(q, t)
<1>1. /\ ledger \in [Runs -> Seq(Event)] /\ ledger[r] \in Seq(Event)
      /\ ledger' = [ledger EXCEPT ![r] = Append(ledger[r], [kind |-> kind, step |-> s])]
  BY DEF Record, TypeOK
<1>2. CASE q # r
  <2>1. ledger'[q] = ledger[q]
    BY <1>1, <1>2
  <2> QED BY <2>1 DEF SameEvents, Started, Ended, Events
<1>3. CASE q = r /\ t # s
  <2>1. /\ ledger'[r] = Append(ledger[r], [kind |-> kind, step |-> s])
    BY <1>1
  <2>2. /\ DOMAIN ledger'[r] = DOMAIN ledger[r] \cup {Len(ledger[r]) + 1}
        /\ ledger'[r][Len(ledger[r]) + 1].step = s
        /\ \A i \in DOMAIN ledger[r] : ledger'[r][i] = ledger[r][i]
    BY <1>1, <2>1
  <2>3. \A K : {i \in DOMAIN ledger'[r] : ledger'[r][i].kind \in K /\ ledger'[r][i].step = t}
                 = {i \in DOMAIN ledger[r] : ledger[r][i].kind \in K /\ ledger[r][i].step = t}
    BY <1>3, <2>2
  <2>4. \A K : (Events(r, K, t))' = Events(r, K, t)
    BY <2>3 DEF Events
  <2> QED BY <1>3, <2>4 DEF SameEvents, Started, Ended
<1> QED BY <1>2, <1>3

\* What a new event adds to what the ledger says of its own step.
LEMMA OwnEvents ==
  ASSUME TypeOK, NEW r \in Runs, NEW s \in Steps,
         NEW kind \in {"started", "succeeded", "failed"}, Record(r, kind, s),
         NEW n, n = Len(ledger[r]) + 1
  PROVE  /\ n \in Nat \ {0}
         /\ \A i \in Started(r, s) \cup Ended(r, s) : i \in Nat /\ i < n
         /\ kind = "started" =>
              (Started(r, s))' = Started(r, s) \cup {n} /\ (Ended(r, s))' = Ended(r, s)
         /\ kind # "started" =>
              (Started(r, s))' = Started(r, s) /\ (Ended(r, s))' = Ended(r, s) \cup {n}
         /\ kind = "succeeded" => n \in (Events(r, {"succeeded"}, s))'
         /\ kind # "started" => ~(Unsettled(r, s))'
<1>1. /\ ledger \in [Runs -> Seq(Event)] /\ ledger[r] \in Seq(Event)
      /\ ledger'[r] = Append(ledger[r], [kind |-> kind, step |-> s])
  BY DEF Record, TypeOK
<1>2. /\ DOMAIN ledger'[r] = DOMAIN ledger[r] \cup {n}
      /\ ledger'[r][n] = [kind |-> kind, step |-> s]
      /\ \A i \in DOMAIN ledger[r] : ledger'[r][i] = ledger[r][i]
      /\ \A i \in DOMAIN ledger[r] : i \in Nat /\ i < n
      /\ n \in Nat \ {0}
  BY <1>1
<1>3. \A K : {i \in DOMAIN ledger'[r] : ledger'[r][i].kind \in K /\ ledger'[r][i].step = s}
               = {i \in DOMAIN ledger[r] : ledger[r][i].kind \in K /\ ledger[r][i].step = s}
                   \cup {i \in {n} : kind \in K}
  BY <1>2
<1>4. (Started(r, s))' = Started(r, s) \cup {i \in {n} : kind \in {"started"}}
  BY <1>3 DEF Started, Events
<1>5. (Ended(r, s))' = Ended(r, s) \cup {i \in {n} : kind \in {"succeeded", "failed"}}
  BY <1>3 DEF Ended, Events
<1>6. kind = "succeeded" => n \in (Events(r, {"succeeded"}, s))'
  BY <1>2 DEF Events
<1>7. \A i \in Started(r, s) \cup Ended(r, s) : i \in Nat /\ i < n
  BY <1>2 DEF Started, Ended, Events
<1>8. kind # "started" => ~(Unsettled(r, s))'
  BY <1>2, <1>4, <1>5, <1>7 DEF Unsettled
<1> QED BY <1>2, <1>4, <1>5, <1>6, <1>7, <1>8

\* A recorded success is the last thing that happened to its step.
LEMMA SuccessRecorded ==
  ASSUME TypeOK, NEW r \in Runs, NEW s \in Steps, Record(r, "succeeded", s),
         NEW n, n = Len(ledger[r]) + 1
  PROVE  (LastSuccess(r, s, n))' /\ ~(Unsettled(r, s))'
<1> DEFINE kind == "succeeded"
<1>0. kind \in {"started", "succeeded", "failed"} /\ kind # "started" /\ Record(r, kind, s)
  OBVIOUS
<1> HIDE DEF kind
<1>1. /\ n \in Nat \ {0}
      /\ \A i \in Started(r, s) \cup Ended(r, s) : i \in Nat /\ i < n
      /\ (Started(r, s))' = Started(r, s) /\ (Ended(r, s))' = Ended(r, s) \cup {n}
      /\ n \in (Events(r, {"succeeded"}, s))'
  <2>1. kind = "succeeded"
    BY DEF kind
  <2> QED BY <1>0, <2>1, OwnEvents, Zenon
<1>2. ~(Unsettled(r, s))'
  BY <1>0, OwnEvents, Zenon
<1> QED BY <1>1, <1>2 DEF LastSuccess

\* A recorded failure settles its step.
LEMMA FailureRecorded ==
  ASSUME TypeOK, NEW r \in Runs, NEW s \in Steps, Record(r, "failed", s)
  PROVE  ~(Unsettled(r, s))'
<1> DEFINE kind == "failed"
<1>0. kind \in {"started", "succeeded", "failed"} /\ kind # "started" /\ Record(r, kind, s)
  OBVIOUS
<1> HIDE DEF kind
<1>1. ASSUME NEW n, n = Len(ledger[r]) + 1 PROVE ~(Unsettled(r, s))'
  BY <1>0, <1>1, OwnEvents, Zenon
<1> QED BY <1>1

LEMMA SameFacts ==
  ASSUME NEW q, NEW t, SameEvents(q, t)
  PROVE  /\ (Unsettled(q, t))' <=> Unsettled(q, t)
         /\ (EndedAs(q, "succeeded", t))' <=> EndedAs(q, "succeeded", t)
         /\ (EndedAs(q, "failed", t))' <=> EndedAs(q, "failed", t)
         /\ \A n : (LastSuccess(q, t, n))' <=> LastSuccess(q, t, n)
BY DEF SameEvents, Unsettled, EndedAs, LastSuccess

\* A step whose last event is a success, and whose checkpoint row cites it,
\* may be reused.
LEMMA LastSuccessReusable ==
  ASSUME TypeOK, NEW r \in Runs, NEW s \in Steps, NEW n, LastSuccess(r, s, n)
  PROVE  /\ EndedAs(r, "succeeded", s)
         /\ ~Unsettled(r, s)
         /\ cited[r][s] = n /\ Started(r, s) # {} => Reusable(r, s)
<1>1. /\ n \in Ended(r, s) /\ n \in DOMAIN ledger[r] /\ ledger[r][n].kind = "succeeded"
      /\ \A i \in Ended(r, s) \cup Started(r, s) : i \in Nat
      /\ n \in Nat \ {0}
  BY DEF LastSuccess, Ended, Started, Events, TypeOK
<1>2. EndedAs(r, "succeeded", s)
  BY DEF EndedAs, LastSuccess
<1>3. ~Unsettled(r, s)
  <2> SUFFICES ASSUME NEW i \in Started(r, s), \A j \in Ended(r, s) : j < i
               PROVE  FALSE
    BY DEF Unsettled
  <2>1. n < i /\ i < n /\ i \in Nat /\ n \in Nat
    BY <1>1 DEF LastSuccess
  <2> QED BY <2>1
<1>4. ~EndedAs(r, "failed", s)
  <2> SUFFICES ASSUME NEW i \in Events(r, {"failed"}, s), \A j \in Ended(r, s) : j <= i
               PROVE  FALSE
    BY DEF EndedAs
  <2>1. i \in Ended(r, s) /\ ledger[r][i].kind = "failed"
    BY DEF Ended, Events
  <2>2. i <= n /\ n <= i /\ i \in Nat
    BY <1>1, <2>1 DEF LastSuccess
  <2>3. i = n
    BY <1>1, <2>2
  <2> QED BY <1>1, <2>1, <2>3
<1>5. cited[r][s] = n /\ Started(r, s) # {} => Corresponds(r, s)
  BY <1>3, <1>4 DEF Corresponds, LastSuccess
<1> QED BY <1>1, <1>2, <1>3, <1>5 DEF Reusable

-----------------------------------------------------------------------------
(* How a node of a leg changes.                                            *)

\* The node of s becomes state with its success at n, the leg's failure flag
\* and what degraded it are as given, and the other nodes stay.
NodeFields(r, s, state, n, failed, why) ==
  /\ leg'[r].node[s] = state /\ leg'[r].seq[s] = n
  /\ \A t \in Steps \ {s} :
       leg'[r].node[t] = leg[r].node[t] /\ leg'[r].seq[t] = leg[r].seq[t]
  /\ leg'[r].failed = failed /\ leg'[r].degraded = why

LEMMA SetNodeFields ==
  ASSUME TypeInv, NEW r \in Runs, NEW s \in Steps, NEW state, SetNode(r, s, state)
  PROVE  NodeFields(r, s, state, leg[r].seq[s], leg[r].failed, leg[r].degraded)
<1>1. leg \in [Runs -> LegType] /\ leg[r] \in LegType
  BY DEF TypeInv, TypeOK
<1>2. leg'[r] = [leg[r] EXCEPT !.node[s] = state]
  BY <1>1 DEF SetNode
<1> QED BY <1>1, <1>2 DEF NodeFields, LegType

LEMMA FailNodeFields ==
  ASSUME TypeInv, NEW r \in Runs, NEW s \in Steps, FailNode(r, s)
  PROVE  NodeFields(r, s, "settled", leg[r].seq[s], TRUE, leg[r].degraded)
<1>1. leg \in [Runs -> LegType] /\ leg[r] \in LegType
  BY DEF TypeInv, TypeOK
<1>2. leg'[r] = [leg[r] EXCEPT !.node[s] = "settled", !.failed = TRUE]
  BY <1>1 DEF FailNode
<1> QED BY <1>1, <1>2 DEF NodeFields, LegType

LEMMA StartNodeFields ==
  ASSUME TypeInv, NEW r \in Runs, NEW s \in Steps,
         leg' = [leg EXCEPT ![r].node[s] = "intent", ![r].tries[s] = @ + 1]
  PROVE  NodeFields(r, s, "intent", leg[r].seq[s], leg[r].failed, leg[r].degraded)
<1>1. leg \in [Runs -> LegType] /\ leg[r] \in LegType
  BY DEF TypeInv, TypeOK
<1> PICK k : k = leg[r].tries[s] + 1
  OBVIOUS
<1>2. leg'[r] = [leg[r] EXCEPT !.node[s] = "intent", !.tries[s] = k]
  BY <1>1 DEF LegType
<1> QED BY <1>1, <1>2 DEF NodeFields, LegType

LEMMA SucceedFields ==
  ASSUME TypeInv, NEW r \in Runs, NEW s \in Steps, Succeed(r, s),
         NEW n, n = Len(ledger[r]) + 1
  PROVE  NodeFields(r, s, IF plan.kind[s] = "verifier" THEN "settled" ELSE "done",
                    n, leg[r].failed, leg[r].degraded)
<1>1. leg \in [Runs -> LegType] /\ leg[r] \in LegType
  BY DEF TypeInv, TypeOK
<1> PICK state : state = IF plan.kind[s] = "verifier" THEN "settled" ELSE "done"
  OBVIOUS
<1>2. leg' = [leg EXCEPT ![r].seq[s] = n, ![r].node[s] = state]
  BY DEF Succeed
<1>3. leg'[r] = [leg[r] EXCEPT !.seq[s] = n, !.node[s] = state]
  BY <1>1, <1>2 DEF LegType
<1>4. NodeFields(r, s, state, n, leg[r].failed, leg[r].degraded)
  BY <1>1, <1>3 DEF NodeFields, LegType
<1> QED BY <1>4

LEMMA DegradeFields ==
  ASSUME TypeInv, NEW r \in Runs, NEW s \in Steps, NEW why,
         leg' = [leg EXCEPT ![r].node[s] = "settled", ![r].degraded = why]
  PROVE  NodeFields(r, s, "settled", leg[r].seq[s], leg[r].failed, why)
<1>1. leg \in [Runs -> LegType] /\ leg[r] \in LegType
  BY DEF TypeInv, TypeOK
<1>2. leg'[r] = [leg[r] EXCEPT !.node[s] = "settled", !.degraded = why]
  BY <1>1
<1> QED BY <1>1, <1>2 DEF NodeFields, LegType

\* The node of s becomes state with its success at n, the other nodes stay,
\* and what is wrong with the leg stays wrong.
Moves(r, s, state, n) ==
  /\ leg'[r].node[s] = state /\ leg'[r].seq[s] = n
  /\ \A t \in Steps \ {s} :
       leg'[r].node[t] = leg[r].node[t] /\ leg'[r].seq[t] = leg[r].seq[t]
  /\ leg[r].failed => leg'[r].failed
  /\ leg[r].degraded # "no" => leg'[r].degraded # "no"

\* What a step of a leg does to its node while the leg goes on: state is the
\* node's next state and n the success it remembers.
Outcomes(r, s, state, n) ==
  \/ state = "settled" /\ (leg'[r].failed \/ leg'[r].degraded # "no")
  \/ state = "intent" /\ Record(r, "started", s)
  \/ state = "sent" /\ leg[r].node[s] = "intent" /\ UNCHANGED ledger
  \/ state = "retry"
  \/ /\ leg[r].node[s] = "sent" /\ Record(r, "succeeded", s)
     /\ n = Len(ledger[r]) + 1
     /\ state = IF plan.kind[s] = "verifier" THEN "settled" ELSE "done"
  \/ state = "settled" /\ s \in plan.conditional /\ Record(r, "succeeded", s)
  \/ /\ state = "settled" /\ leg[r].node[s] = "done"
     /\ cited'[r][s] = leg[r].seq[s] /\ UNCHANGED ledger

LEMMA NodeOutcome ==
  ASSUME TypeInv, NEW r \in Runs, NEW s \in Steps, NodeStep(r, s), r \in live'
  PROVE  \E state, n : Moves(r, s, state, n) /\ Outcomes(r, s, state, n)
<1>0. /\ leg[r] \in LegType /\ cited \in [Runs -> [Steps -> Nat]]
      /\ leg[r].failed \in BOOLEAN
  BY DEF TypeInv, TypeOK, LegType
<1> DEFINE Out == \E state, n : Moves(r, s, state, n) /\ Outcomes(r, s, state, n)
<1>1. ASSUME FailNode(r, s) PROVE Out
  <2>1. Moves(r, s, "settled", leg[r].seq[s]) /\ leg'[r].failed
    BY <1>1, FailNodeFields DEF Moves, NodeFields
  <2> QED BY <2>1 DEF Outcomes
<1>2. CASE SkipStep(r, s)
  <2>1. CASE Record(r, "succeeded", s) /\ SetNode(r, s, "settled")
    <3>1. Moves(r, s, "settled", leg[r].seq[s])
      BY <2>1, SetNodeFields DEF Moves, NodeFields
    <3> QED BY <1>2, <2>1, <3>1 DEF SkipStep, Outcomes
  <2> QED BY <1>1, <1>2, <2>1 DEF SkipStep
<1>3. CASE AskApproval(r, s) \/ GateHolds(r, s)
  BY <1>1, <1>3 DEF AskApproval, GateHolds, EndLeg
<1>4. CASE StartStep(r, s)
  <2>1. CASE /\ Record(r, "started", s)
             /\ leg' = [leg EXCEPT ![r].node[s] = "intent", ![r].tries[s] = @ + 1]
    <3>1. Moves(r, s, "intent", leg[r].seq[s])
      BY <2>1, StartNodeFields DEF Moves, NodeFields
    <3>2. Record(r, "started", s)
      BY <2>1
    <3> QED BY <3>1, <3>2 DEF Outcomes
  <2> QED BY <1>1, <1>4, <2>1 DEF StartStep
<1>5. CASE Dispatch(r, s)
  <2>1. Moves(r, s, "sent", leg[r].seq[s])
    BY <1>5, SetNodeFields DEF Dispatch, Moves, NodeFields
  <2> QED BY <1>5, <2>1 DEF Dispatch, Outcomes, factVars
<1>6. CASE Succeed(r, s)
  <2> PICK state : state = IF plan.kind[s] = "verifier" THEN "settled" ELSE "done"
    OBVIOUS
  <2>1. Moves(r, s, state, Len(ledger[r]) + 1)
    BY <1>6, SucceedFields DEF Moves, NodeFields
  <2>2. leg[r].node[s] = "sent" /\ Record(r, "succeeded", s)
    BY <1>6 DEF Succeed
  <2> QED BY <2>1, <2>2 DEF Outcomes
<1>7. CASE Degrade(r, s)
  <2> PICK why : why = IF leg[r].degraded = "no" THEN "step_contract"
                       ELSE leg[r].degraded
    OBVIOUS
  <2>1. leg' = [leg EXCEPT ![r].node[s] = "settled", ![r].degraded = why]
    BY <1>0, <1>7 DEF Degrade, LegType
  <2>2. NodeFields(r, s, "settled", leg[r].seq[s], leg[r].failed, why)
    BY <2>1, DegradeFields, Zenon
  <2>3. Moves(r, s, "settled", leg[r].seq[s]) /\ leg'[r].degraded # "no"
    BY <2>2 DEF Moves, NodeFields
  <2> QED BY <2>3 DEF Outcomes
<1>8. CASE FailStep(r, s)
  <2>1. CASE SetNode(r, s, "retry")
    <3>1. Moves(r, s, "retry", leg[r].seq[s])
      BY <2>1, SetNodeFields DEF Moves, NodeFields
    <3> QED BY <3>1 DEF Outcomes
  <2> QED BY <1>1, <1>8, <2>1 DEF FailStep
<1>9. CASE SaveResult(r, s)
  <2>1. CASE /\ cited' = [cited EXCEPT ![r][s] = leg[r].seq[s]]
             /\ SetNode(r, s, "settled")
    <3>1. cited'[r][s] = leg[r].seq[s]
      BY <1>0, <2>1
    <3>2. Moves(r, s, "settled", leg[r].seq[s])
      BY <2>1, SetNodeFields DEF Moves, NodeFields
    <3> QED BY <1>9, <3>1, <3>2 DEF SaveResult, Outcomes
  <2>2. CASE leg' = [leg EXCEPT ![r].node[s] = "settled",
                                ![r].degraded = "result_not_persisted"]
    <3>1. NodeFields(r, s, "settled", leg[r].seq[s], leg[r].failed,
                     "result_not_persisted")
      BY <2>2, DegradeFields, Zenon
    <3>2. Moves(r, s, "settled", leg[r].seq[s]) /\ leg'[r].degraded # "no"
      BY <3>1 DEF Moves, NodeFields
    <3> QED BY <3>2 DEF Outcomes
  <2> QED BY <1>9, <2>1, <2>2 DEF SaveResult
<1> QED BY <1>2, <1>3, <1>4, <1>5, <1>6, <1>7, <1>8, <1>9 DEF NodeStep

\* What a step of a leg leaves alone.
LEMMA OtherNodes ==
  ASSUME TypeInv, NEW r \in Runs, NEW s \in Steps, NodeStep(r, s),
         NEW q \in Runs, NEW t \in Steps, q # r \/ t # s
  PROVE  /\ SameEvents(q, t) /\ cited'[q][t] = cited[q][t]
         /\ q \in live' =>
              /\ leg'[q].node[t] = leg[q].node[t] /\ leg'[q].seq[t] = leg[q].seq[t]
              /\ leg[q].failed => leg'[q].failed
              /\ leg[q].degraded # "no" => leg'[q].degraded # "no"
<1>1. SameEvents(q, t)
  <2>1. UNCHANGED ledger \/ \E kind : Record(r, kind, s)
    BY DEF NodeStep, SkipStep, AskApproval, GateHolds, StartStep, Dispatch,
           Succeed, Degrade, FailStep, SaveResult, factVars
  <2> QED BY <2>1, UnchangedEvents, OtherEvents DEF TypeInv
<1>2. cited'[q][t] = cited[q][t]
  <2>1. cited \in [Runs -> [Steps -> Nat]]
    BY DEF TypeInv, TypeOK
  <2>2. cited' = cited \/ cited' = [cited EXCEPT ![r][s] = leg[r].seq[s]]
    BY DEF NodeStep, SkipStep, AskApproval, GateHolds, StartStep, Dispatch,
           Succeed, Degrade, FailStep, SaveResult, factVars
  <2> QED BY <2>1, <2>2
<1>3. q # r => leg'[q] = leg[q]
  BY LegEffect
<1>4. q = r /\ r \in live' =>
        /\ leg'[r].node[t] = leg[r].node[t] /\ leg'[r].seq[t] = leg[r].seq[t]
        /\ leg[r].failed => leg'[r].failed
        /\ leg[r].degraded # "no" => leg'[r].degraded # "no"
  BY NodeOutcome DEF Moves
<1> QED BY <1>1, <1>2, <1>3, <1>4

-----------------------------------------------------------------------------
(* What a leg has settled.                                                 *)

\* A step whose result is stored for reuse.
Kept(s) == plan.kind[s] # "verifier" /\ s \notin plan.conditional

\* A node in hand has been dispatched, a node that is done remembers its
\* success, and what a leg without a failure or a loss has settled succeeded
\* last and, if its result is kept, has the checkpoint row that cites it.
NodeSettling(r, s) ==
  /\ leg[r].node[s] \in {"intent", "sent", "done"} => Started(r, s) # {}
  /\ leg[r].node[s] = "done" => LastSuccess(r, s, leg[r].seq[s])
  /\ leg[r].node[s] = "settled" /\ ~leg[r].failed /\ leg[r].degraded = "no" =>
       \E n \in DOMAIN ledger[r] :
         /\ LastSuccess(r, s, n)
         /\ Kept(s) => cited[r][s] = n /\ Started(r, s) # {}

Settling == \A r \in live : \A s \in Steps : NodeSettling(r, s)

LEMMA SettlingInit == Init => Settling
BY DEF Init, Settling

\* A node nobody touched is as settled as before.
LEMMA SettlingKept ==
  ASSUME NEW q \in Runs, NEW t \in Steps, NodeSettling(q, t),
         SameEvents(q, t), plan' = plan, cited'[q][t] = cited[q][t],
         leg'[q].node[t] = leg[q].node[t], leg'[q].seq[t] = leg[q].seq[t],
         leg[q].failed => leg'[q].failed,
         leg[q].degraded # "no" => leg'[q].degraded # "no"
  PROVE  (NodeSettling(q, t))'
<1>1. \A n : (LastSuccess(q, t, n))' <=> LastSuccess(q, t, n)
  BY SameFacts
<1>2. (Started(q, t))' = Started(q, t)
  BY DEF SameEvents
<1>3. /\ leg'[q].node[t] \in {"intent", "sent", "done"} => (Started(q, t) # {})'
      /\ leg'[q].node[t] = "done" => (LastSuccess(q, t, leg[q].seq[t]))'
  <2>1. (LastSuccess(q, t, leg[q].seq[t]))' <=> LastSuccess(q, t, leg[q].seq[t])
    BY <1>1, <1>2 DEF LastSuccess, SameEvents
  <2> QED BY <1>2, <2>1 DEF NodeSettling
<1>4. ASSUME leg'[q].node[t] = "settled", ~leg'[q].failed, leg'[q].degraded = "no"
      PROVE  \E n \in DOMAIN ledger'[q] :
               /\ (LastSuccess(q, t, n))'
               /\ (Kept(t))' => cited'[q][t] = n /\ (Started(q, t) # {})'
  <2>1. PICK n \in DOMAIN ledger[q] :
          /\ LastSuccess(q, t, n)
          /\ Kept(t) => cited[q][t] = n /\ Started(q, t) # {}
    BY <1>4 DEF NodeSettling
  <2>2. (LastSuccess(q, t, n))'
    BY <1>1, <2>1
  <2>3. n \in DOMAIN ledger'[q]
    BY <2>2 DEF LastSuccess, Events
  <2> QED BY <1>2, <2>1, <2>2, <2>3 DEF Kept
<1> QED BY <1>3, <1>4 DEF NodeSettling

\* The node a step of its leg was about.
LEMMA SettlingMoved ==
  ASSUME TypeInv, NEW r \in Runs, NEW s \in Steps, NodeStep(r, s),
         r \in live', NodeSettling(r, s)
  PROVE  (NodeSettling(r, s))'
<1>0. plan' = plan
  BY NodeEffect
<1>1. PICK state, n : Moves(r, s, state, n) /\ Outcomes(r, s, state, n)
  BY NodeOutcome
<1>2. leg'[r].node[s] = state /\ leg'[r].seq[s] = n
  BY <1>1 DEF Moves
<1>3. CASE state = "settled" /\ (leg'[r].failed \/ leg'[r].degraded # "no")
  BY <1>2, <1>3 DEF NodeSettling
<1>4. CASE state = "intent" /\ Record(r, "started", s)
  <2>1. (Started(r, s) # {})'
    BY <1>4, LedgerRemembers DEF TypeInv
  <2> QED BY <1>2, <1>4, <2>1 DEF NodeSettling
<1>5. CASE state = "sent" /\ leg[r].node[s] = "intent" /\ UNCHANGED ledger
  <2>1. (Started(r, s) # {})'
    BY <1>5 DEF NodeSettling, Started, Events
  <2> QED BY <1>2, <1>5, <2>1 DEF NodeSettling
<1>6. CASE state = "retry"
  BY <1>2, <1>6 DEF NodeSettling
<1>7. CASE /\ leg[r].node[s] = "sent" /\ Record(r, "succeeded", s)
           /\ n = Len(ledger[r]) + 1
           /\ state = IF plan.kind[s] = "verifier" THEN "settled" ELSE "done"
  <2>1. (LastSuccess(r, s, n))'
    BY <1>7, SuccessRecorded DEF TypeInv
  <2>2. (Started(r, s) # {})'
    BY <1>7, LedgerRemembers DEF NodeSettling, TypeInv
  <2>3. n \in DOMAIN ledger'[r]
    BY <2>1 DEF LastSuccess, Events
  <2>4. state = "settled" => ~(Kept(s))'
    BY <1>0, <1>7 DEF Kept
  <2>5. (LastSuccess(r, s, leg[r].seq[s]))'
    BY <1>2, <2>1 DEF LastSuccess
  <2>6. leg'[r].node[s] \in {"settled", "done"}
    BY <1>2, <1>7
  <2> QED BY <1>2, <2>1, <2>2, <2>3, <2>4, <2>5, <2>6 DEF NodeSettling
<1>8. CASE state = "settled" /\ s \in plan.conditional /\ Record(r, "succeeded", s)
  <2> PICK k : k = Len(ledger[r]) + 1
    OBVIOUS
  <2>1. (LastSuccess(r, s, k))'
    BY <1>8, SuccessRecorded DEF TypeInv
  <2>2. k \in DOMAIN ledger'[r]
    BY <2>1 DEF LastSuccess, Events
  <2>3. ~(Kept(s))'
    BY <1>0, <1>8 DEF Kept
  <2> QED BY <1>2, <1>8, <2>1, <2>2, <2>3 DEF NodeSettling
<1>9. CASE /\ state = "settled" /\ leg[r].node[s] = "done"
           /\ cited'[r][s] = leg[r].seq[s] /\ UNCHANGED ledger
  <2> PICK k : k = leg[r].seq[s]
    OBVIOUS
  <2>1. LastSuccess(r, s, k) /\ Started(r, s) # {} /\ SameEvents(r, s)
    BY <1>9, UnchangedEvents DEF NodeSettling
  <2>2. (LastSuccess(r, s, k))'
    BY <2>1, SameFacts
  <2>3. k \in DOMAIN ledger'[r] /\ (Started(r, s) # {})'
    BY <2>1, <2>2 DEF LastSuccess, Events, SameEvents
  <2> QED BY <1>2, <1>9, <2>2, <2>3 DEF NodeSettling
<1> QED BY <1>1, <1>3, <1>4, <1>5, <1>6, <1>7, <1>8, <1>9 DEF Outcomes

LEMMA NodeSettles ==
  ASSUME TypeInv, Settling, NEW r \in Runs, NEW s \in Steps, NodeStep(r, s)
  PROVE  Settling'
<1> SUFFICES ASSUME NEW q \in live', NEW t \in Steps PROVE (NodeSettling(q, t))'
  BY DEF Settling
<1>1. /\ plan' = plan /\ q \in Runs /\ q \in live /\ NodeSettling(q, t)
  BY NodeEffect DEF Settling, TypeInv, TypeOK
<1>2. CASE q = r /\ t = s
  BY <1>1, <1>2, SettlingMoved
<1>3. CASE q # r \/ t # s
  BY <1>1, <1>3, OtherNodes, SettlingKept
<1> QED BY <1>2, <1>3

\* Steps that are not a node's write no facts, and a leg they start is fresh.
LEMMA OtherLegs ==
  ASSUME TypeInv, [Next]_vars,
         ~ \E r \in Runs, s \in Steps : NodeStep(r, s)
  PROVE  /\ UNCHANGED <<plan, ledger, cited>>
         /\ \A q \in live' : \/ q \in live /\ leg'[q] = leg[q]
                             \/ \A t \in Steps : leg'[q].node[t] = "todo"
<1>1. UNCHANGED <<plan, ledger, cited>>
  <2>1. CASE UNCHANGED vars
    BY <2>1 DEF vars, factVars
  <2>2. CASE Next
    BY <2>2
    DEF Next, LegStep, HostStep, BootStep, FinishLeg, Trigger, ContinueRun,
        Expire, Decide, Reject, ClaimApproval, LaunchSuccessor, ResumeApproved,
        MarkInterrupted, Listen, Restart, Interrupt, Crash, factVars
  <2> QED BY <2>1, <2>2
<1>2. leg \in [Runs -> LegType]
  BY DEF TypeInv, TypeOK
<1>3. ASSUME NEW r \in Runs, NEW R, EndLeg(r) \/ StartLeg(r, R)
      PROVE  \A q \in live' : \/ q \in live /\ leg'[q] = leg[q]
                              \/ \A t \in Steps : leg'[q].node[t] = "todo"
  <2>1. live \subseteq Runs
    BY DEF TypeInv, TypeOK
  <2>2. CASE EndLeg(r)
    BY <1>2, <2>1, <2>2 DEF EndLeg
  <2>3. CASE StartLeg(r, R)
    <3>1. leg'[r] = Leg(R) /\ live' = live \cup {r}
          /\ \A q \in Runs \ {r} : leg'[q] = leg[q]
      BY <1>2, <2>3 DEF StartLeg
    <3>2. \A t \in Steps : leg'[r].node[t] = "todo"
      BY <3>1, FreshNodes
    <3> QED BY <2>1, <3>1, <3>2
  <2> QED BY <1>3, <2>2, <2>3
<1>4. \/ leg' = leg /\ live' = live
      \/ live' = {}
      \/ \E r \in Runs : EndLeg(r) \/ \E R : StartLeg(r, R)
  <2>1. CASE UNCHANGED vars
    BY <2>1 DEF vars, legVars
  <2>2. CASE Next
    BY <2>2
    DEF Next, LegStep, HostStep, BootStep, FinishLeg, Trigger, ContinueRun,
        Expire, Decide, Reject, ClaimApproval, LaunchSuccessor, ResumeApproved,
        MarkInterrupted, Listen, Restart, Interrupt, Crash, Die, legVars
  <2> QED BY <2>1, <2>2
<1> QED BY <1>1, <1>3, <1>4

LEMMA SettlingStep == TypeInv /\ Settling /\ [Next]_vars => Settling'
<1> SUFFICES ASSUME TypeInv, Settling, [Next]_vars PROVE Settling'
  OBVIOUS
<1>1. CASE \E r \in Runs, s \in Steps : NodeStep(r, s)
  BY <1>1, NodeSettles
<1>2. CASE ~ \E r \in Runs, s \in Steps : NodeStep(r, s)
  <2> SUFFICES ASSUME NEW q \in live', NEW t \in Steps PROVE (NodeSettling(q, t))'
    BY DEF Settling
  <2>1. /\ UNCHANGED <<plan, ledger, cited>>
        /\ \/ q \in live /\ leg'[q] = leg[q]
           \/ leg'[q].node[t] = "todo"
    BY <1>2, OtherLegs
  <2>2. CASE q \in live /\ leg'[q] = leg[q]
    <3>1. q \in Runs /\ SameEvents(q, t) /\ NodeSettling(q, t)
      BY <2>1, <2>2, UnchangedEvents DEF Settling, TypeInv, TypeOK
    <3> QED BY <2>1, <2>2, <3>1, SettlingKept
  <2>3. CASE leg'[q].node[t] = "todo"
    BY <2>3 DEF NodeSettling
  <2> QED BY <2>1, <2>2, <2>3
<1> QED BY <1>1, <1>2

-----------------------------------------------------------------------------
(* A run that succeeded.                                                   *)

LEMMA SameReuse ==
  ASSUME NEW q \in Runs, NEW t \in Steps, SameEvents(q, t), plan' = plan,
         cited'[q][t] = cited[q][t]
  PROVE  /\ (EndedAs(q, "succeeded", t))' <=> EndedAs(q, "succeeded", t)
         /\ (Reusable(q, t))' <=> Reusable(q, t)
<1>1. /\ (Unsettled(q, t))' <=> Unsettled(q, t)
      /\ (EndedAs(q, "succeeded", t))' <=> EndedAs(q, "succeeded", t)
      /\ (EndedAs(q, "failed", t))' <=> EndedAs(q, "failed", t)
  BY SameFacts
<1>2. (Corresponds(q, t))' <=> Corresponds(q, t)
  BY <1>1 DEF Corresponds, SameEvents
<1> QED BY <1>1, <1>2 DEF Reusable

\* What a step of a leg leaves alone in the rows of the other runs.
LEMMA OtherRuns ==
  ASSUME TypeInv, NEW r \in Runs, NEW s \in Steps, NodeStep(r, s),
         NEW q \in Runs, q # r
  PROVE  life'[q] = life[q] /\ reason'[q] = reason[q] /\ (q \in live' <=> q \in live)
BY DEF NodeStep, SkipStep, AskApproval, GateHolds, StartStep, Dispatch, Succeed,
       Degrade, FailStep, SaveResult, EndLeg, rowVars, TypeInv, TypeOK

\* The leg that reports a success has settled every step.
LEMMA FinishSucceeds ==
  ASSUME TypeInv, Settling, NEW r \in Runs, FinishLeg(r),
         life[r] # "succeeded", life'[r] = "succeeded", NEW t \in Steps
  PROVE  EndedAs(r, "succeeded", t) /\ (Kept(t) => Reusable(r, t))
<1>1. /\ r \in live /\ Facts(r).l = "succeeded"
      /\ leg[r].failed \/ \A s \in Steps : leg[r].node[s] = "settled"
  BY DEF FinishLeg, RecordTerminal, rowVars, TypeInv, TypeOK
<1>2. ~leg[r].failed /\ leg[r].degraded = "no"
  BY <1>1 DEF Facts
<1>3. PICK n \in DOMAIN ledger[r] :
        /\ LastSuccess(r, t, n)
        /\ Kept(t) => cited[r][t] = n /\ Started(r, t) # {}
  BY <1>1, <1>2 DEF Settling, NodeSettling
<1> QED BY <1>3, LastSuccessReusable DEF TypeInv

LEMMA OtherSuccess ==
  ASSUME TypeInv, [Next]_vars,
         ~ \E r \in Runs, s \in Steps : NodeStep(r, s),
         NEW q \in Runs, life'[q] = "succeeded"
  PROVE  life[q] = "succeeded" \/ FinishLeg(q)
<1>0. life \in [Runs -> Lives]
  BY DEF TypeInv, TypeOK
<1>1. ASSUME NEW r, NEW l, NEW why, RecordTerminal(r, l, why), l # "succeeded"
      PROVE  life[q] = "succeeded"
  BY <1>0, <1>1 DEF RecordTerminal, rowVars
<1>2. CASE UNCHANGED <<life>>
  BY <1>2
<1>3. ASSUME NEW r, life' = [life EXCEPT ![r] = "running"]
      PROVE  life[q] = "succeeded"
  BY <1>0, <1>3
<1>4. ASSUME NEW r \in Runs, FinishLeg(r), r # q PROVE life[q] = "succeeded"
  BY <1>0, <1>4 DEF FinishLeg, RecordTerminal, rowVars
<1>5. CASE UNCHANGED vars
  BY <1>2, <1>5 DEF vars, rowVars
<1>6. CASE \E r \in Runs : FinishLeg(r)
  BY <1>4, <1>6
<1>7. CASE \E r \in Runs : \/ Trigger(r) \/ ContinueRun(r) \/ Expire(r)
                           \/ LaunchSuccessor(r) \/ ResumeApproved(r)
                           \/ Interrupt(r)
                           \/ \E s \in Steps, d \in {"approved", "rejected"} :
                                Decide(r, s, d)
  BY <1>1, <1>2, <1>3, <1>7
  DEF Trigger, ContinueRun, Expire, LaunchSuccessor, ResumeApproved, Interrupt,
      Decide, rowVars
<1>8. CASE Reject \/ ClaimApproval \/ MarkInterrupted \/ Listen \/ Restart
             \/ Crash
  BY <1>1, <1>2, <1>3, <1>8
  DEF Reject, ClaimApproval, MarkInterrupted, Listen, Restart, Crash, rowVars
<1> QED BY <1>5, <1>6, <1>7, <1>8 DEF Next, LegStep, HostStep, BootStep

LEMMA ReusableStep ==
  TypeInv /\ Lifecycle /\ Settling /\ SucceededIsReusable /\ [Next]_vars
    => SucceededIsReusable'
<1> SUFFICES ASSUME TypeInv, Lifecycle, Settling, SucceededIsReusable,
                    [Next]_vars, NEW q \in Runs, life'[q] = "succeeded",
                    NEW t \in Steps
             PROVE  /\ (EndedAs(q, "succeeded", t))'
                    /\ (Kept(t) => Reusable(q, t))'
  BY DEF SucceededIsReusable, Kept
<1>1. life[q] = "succeeded" => /\ EndedAs(q, "succeeded", t)
                               /\ Kept(t) => Reusable(q, t)
  BY DEF SucceededIsReusable, Kept
<1>2. CASE \E r \in Runs, s \in Steps : NodeStep(r, s)
  <2> PICK r \in Runs, s \in Steps : NodeStep(r, s)
    BY <1>2
  <2>1. life[r] = "running" /\ plan' = plan
    BY NodeEffect DEF Lifecycle
  <2>2. q # r
    <3>1. life'[r] \in {"running", "awaiting_input"}
      BY <2>1 DEF NodeStep, SkipStep, AskApproval, GateHolds, StartStep, Dispatch,
                  Succeed, Degrade, FailStep, SaveResult, rowVars, TypeInv, TypeOK
    <3> QED BY <3>1
  <2>3. life[q] = "succeeded" /\ SameEvents(q, t) /\ cited'[q][t] = cited[q][t]
    BY <2>2, OtherRuns, OtherNodes
  <2> QED BY <1>1, <2>1, <2>3, SameReuse DEF Kept
<1>3. CASE ~ \E r \in Runs, s \in Steps : NodeStep(r, s)
  <2>1. /\ UNCHANGED <<plan, ledger, cited>> /\ SameEvents(q, t)
    BY <1>3, OtherLegs, UnchangedEvents
  <2>2. EndedAs(q, "succeeded", t) /\ (Kept(t) => Reusable(q, t))
    BY <1>1, <1>3, OtherSuccess, FinishSucceeds
  <2> QED BY <2>1, <2>2, SameReuse DEF Kept
<1> QED BY <1>2, <1>3

\* The checkpoint policy of the executor (executor.ts:725): a run that is
\* reported as succeeded has a success of every step, and a checkpoint row its
\* successor may reuse for every step that has a result, for every plan and
\* however often the run was paused or lost a write.
THEOREM SucceededIsReusableHolds == Spec => []SucceededIsReusable
<1> DEFINE Inv == TypeInv /\ Lifecycle /\ Settling /\ SucceededIsReusable
<1>1. Init => Inv
  <2>1. Init => SucceededIsReusable
    BY DEF Init, SucceededIsReusable
  <2> QED BY <2>1, TypeInit, LifecycleInit, SettlingInit
<1>2. Inv /\ [Next]_vars => Inv'
  BY TypeStep, LifecycleStep, SettlingStep, ReusableStep
<1> QED BY <1>1, <1>2, PTL DEF Spec

-----------------------------------------------------------------------------
(* Calls without an outcome.                                               *)

\* Who still owes a dispatched step its outcome, or why nobody will give it.
Explained(r, s) ==
  \/ r \in live /\ leg[r].node[s] \in {"intent", "sent"}
  \/ up # "ready" /\ life[r] = "running"
  \/ life[r] \in Terminal /\ reason[r] = "interrupted"

\* While no write has failed, every dispatch without an outcome is explained.
Accounted == faults = 0 => \A r \in Runs, s \in Steps :
                             Unsettled(r, s) => Explained(r, s)

LEMMA AccountedInit == Init => Accounted
BY DEF Init, Accounted, Unsettled, Started, Events

LEMMA FaultsGrow ==
  ASSUME TypeInv, [Next]_vars, faults' = 0
  PROVE  faults = 0 /\ ~Throws(1) /\ ~Throws(2)
<1>1. faults \in Nat
  BY WorkflowAssumption DEF TypeInv, TypeOK, WorkflowAssumption
<1>2. ~Throws(1) /\ ~Throws(2)
  BY <1>1 DEF Throws
<1>3. UNCHANGED faults
  <2>1. CASE UNCHANGED vars
    BY <2>1 DEF vars
  <2>2. ASSUME NEW r \in Runs, NEW s \in Steps, NodeStep(r, s)
        PROVE  UNCHANGED faults
    BY <1>2, <2>2
    DEF NodeStep, SkipStep, AskApproval, GateHolds, StartStep, Dispatch,
        Succeed, Degrade, FailStep, SaveResult, Works
  <2>3. ASSUME NEW r \in Runs,
               \/ FinishLeg(r) \/ Trigger(r) \/ ContinueRun(r) \/ Expire(r)
               \/ LaunchSuccessor(r) \/ ResumeApproved(r) \/ Interrupt(r)
               \/ \E s \in Steps, d \in {"approved", "rejected"} : Decide(r, s, d)
        PROVE  UNCHANGED faults
    BY <1>2, <2>3
    DEF FinishLeg, Trigger, ContinueRun, Expire, Decide, LaunchSuccessor,
        ResumeApproved, Interrupt, Works
  <2>4. CASE Reject \/ ClaimApproval \/ MarkInterrupted \/ Listen \/ Restart
               \/ Crash
    BY <1>2, <2>4
    DEF Reject, ClaimApproval, MarkInterrupted, Listen, Restart, Crash, Works
  <2> QED BY <2>1, <2>2, <2>3, <2>4 DEF Next, LegStep, HostStep, BootStep
<1> QED BY <1>2, <1>3

\* A gate is reached by a leg that has nothing in flight.
LEMMA GateQuiet ==
  ASSUME TypeInv, NEW r \in Runs, NEW s \in Steps, IsTurn(r, s),
         GateVerdict(r, s) # "proceed"
  PROVE  InFlight(r) = {}
<1>1. s \in plan.gates
  BY DEF GateVerdict
<1>2. Width = 1
  BY <1>1 DEF Width
<1>3. IsFiniteSet(InFlight(r))
  BY FS_Subset, WorkflowAssumption DEF InFlight, WorkflowAssumption
<1>4. Cardinality(InFlight(r)) \in Nat /\ Cardinality(InFlight(r)) < 1
  BY <1>2, <1>3, FS_CardinalityType DEF IsTurn, Startable
<1>5. Cardinality(InFlight(r)) = 0
  BY <1>4
<1> QED BY <1>3, <1>5, FS_EmptySet

\* The step a node's step was about, while its leg goes on.
LEMMA AccountedMoved ==
  ASSUME TypeInv, Lifecycle, Accounted, faults = 0, ~Throws(1), ~Throws(2),
         NEW r \in Runs, NEW s \in Steps, NodeStep(r, s), r \in live',
         (Unsettled(r, s))'
  PROVE  leg'[r].node[s] \in {"intent", "sent"}
<1>0. r \in live /\ life[r] = "running" /\ up = "ready" /\ plan' = plan
  <2>1. up = "ready"
    BY DEF NodeStep, SkipStep, AskApproval, GateHolds, StartStep, Dispatch,
           Succeed, Degrade, FailStep, SaveResult, IsTurn, Free
  <2> QED BY <2>1, NodeEffect DEF Lifecycle
<1>1. Unsettled(r, s) => leg[r].node[s] \in {"intent", "sent"}
  BY <1>0 DEF Accounted, Explained, Terminal
<1>2. UNCHANGED ledger => leg[r].node[s] \in {"intent", "sent"}
  BY <1>1, UnchangedEvents, SameFacts
<1>3. ~Record(r, "succeeded", s) /\ ~Record(r, "failed", s)
  <2>1. ASSUME NEW n, n = Len(ledger[r]) + 1, Record(r, "succeeded", s) PROVE FALSE
    BY <2>1, SuccessRecorded DEF TypeInv
  <2> QED BY <2>1, FailureRecorded DEF TypeInv
<1>4. CASE SkipStep(r, s) \/ Succeed(r, s) \/ Degrade(r, s) \/ FailStep(r, s)
  BY <1>3, <1>4 DEF SkipStep, Succeed, Degrade, FailStep
<1>5. CASE AskApproval(r, s) \/ GateHolds(r, s)
  <2>1. leg[r].node[s] = "todo" /\ UNCHANGED ledger
    BY <1>5 DEF AskApproval, GateHolds, IsTurn, Startable, factVars
  <2> QED BY <1>2, <2>1
<1>6. CASE StartStep(r, s)
  <2>1. leg' = [leg EXCEPT ![r].node[s] = "intent", ![r].tries[s] = @ + 1]
    BY <1>6 DEF StartStep
  <2> QED BY <2>1, StartNodeFields DEF NodeFields
<1>7. CASE Dispatch(r, s)
  BY <1>7, SetNodeFields DEF Dispatch, NodeFields
<1>8. CASE SaveResult(r, s)
  BY <1>2, <1>8 DEF SaveResult
<1> QED BY <1>4, <1>5, <1>6, <1>7, <1>8 DEF NodeStep

\* A leg that stops at a gate leaves nothing unsettled.
LEMMA AccountedStopped ==
  ASSUME TypeInv, Lifecycle, Accounted, faults = 0,
         NEW r \in Runs, NEW s \in Steps, NodeStep(r, s), r \notin live',
         NEW t \in Steps
  PROVE  ~(Unsettled(r, t))'
<1>1. /\ AskApproval(r, s) \/ GateHolds(r, s)
      /\ UNCHANGED ledger
  BY NodeEffect
  DEF NodeStep, SkipStep, AskApproval, GateHolds, StartStep, Dispatch, Succeed,
      Degrade, FailStep, SaveResult, factVars
<1>2. /\ IsTurn(r, s) /\ GateVerdict(r, s) # "proceed"
      /\ up = "ready" /\ life[r] = "running"
  BY <1>1, NodeEffect DEF AskApproval, GateHolds, IsTurn, Free, Lifecycle
<1>3. leg[r].node[t] \notin {"intent", "sent"}
  BY <1>2, GateQuiet DEF InFlight
<1>4. ~Unsettled(r, t)
  BY <1>2, <1>3 DEF Accounted, Explained, Terminal
<1> QED BY <1>1, <1>4, UnchangedEvents, SameFacts

LEMMA NodeAccounted ==
  ASSUME TypeInv, Lifecycle, Accounted, faults = 0, ~Throws(1), ~Throws(2),
         NEW r \in Runs, NEW s \in Steps, NodeStep(r, s)
  PROVE  Accounted'
<1> SUFFICES ASSUME NEW q \in Runs, NEW t \in Steps, (Unsettled(q, t))'
             PROVE  (Explained(q, t))'
  BY DEF Accounted
<1>1. up' = up /\ life[r] = "running" /\ up = "ready"
  <2>1. up = "ready"
    BY DEF NodeStep, SkipStep, AskApproval, GateHolds, StartStep, Dispatch,
           Succeed, Degrade, FailStep, SaveResult, IsTurn, Free
  <2> QED BY <2>1, NodeEffect DEF Lifecycle
<1>2. CASE q = r /\ r \notin live'
  BY <1>2, AccountedStopped
<1>3. CASE q = r /\ t = s /\ r \in live'
  BY <1>3, AccountedMoved DEF Explained
<1>4. CASE q = r /\ t # s /\ r \in live'
  <2>1. Unsettled(q, t)
    BY <1>4, OtherNodes, SameFacts
  <2>2. leg[q].node[t] \in {"intent", "sent"}
    BY <1>1, <1>4, <2>1 DEF Accounted, Explained, Terminal
  <2>3. leg'[q].node[t] = leg[q].node[t]
    BY <1>4, OtherNodes
  <2> QED BY <1>4, <2>2, <2>3 DEF Explained
<1>5. CASE q # r
  <2>1. Unsettled(q, t)
    BY <1>5, OtherNodes, SameFacts
  <2>2. life'[q] = life[q] /\ reason'[q] = reason[q] /\ (q \in live' <=> q \in live)
    BY <1>5, OtherRuns
  <2>3. leg'[q] = leg[q]
    BY <1>5, LegEffect
  <2> QED BY <1>1, <2>1, <2>2, <2>3 DEF Accounted, Explained
<1> QED BY <1>2, <1>3, <1>4, <1>5

\* A run is explained as before when its rows and its leg stay.
LEMMA StillExplained ==
  ASSUME NEW q, NEW t, Explained(q, t),
         life'[q] = life[q], reason'[q] = reason[q],
         up # "ready" => up' # "ready",
         q \in live => q \in live' /\ leg'[q] = leg[q]
  PROVE  (Explained(q, t))'
BY DEF Explained

LEMMA OtherAccounted ==
  ASSUME TypeInv, Lifecycle, Accounted, faults = 0, ~Throws(1), ~Throws(2),
         Next, ~ \E r \in Runs, s \in Steps : NodeStep(r, s),
         NEW q \in Runs, NEW t \in Steps, Explained(q, t)
  PROVE  (Explained(q, t))'
<1>0. /\ leg \in [Runs -> LegType] /\ life \in [Runs -> Lives]
      /\ reason \in [Runs -> Reasons]
  BY DEF TypeInv, TypeOK
<1>1. ASSUME NEW r \in Runs, FinishLeg(r) PROVE (Explained(q, t))'
  <2>1. /\ r \in live /\ InFlight(r) = {} /\ life[r] = "running" /\ up = "ready"
        /\ live' = live \ {r} /\ up' = up
        /\ \A p \in Runs \ {r} : leg'[p] = leg[p]
    BY <1>0, <1>1 DEF FinishLeg, Free, EndLeg, Lifecycle
  <2>2. q # r
    BY <2>1 DEF Explained, InFlight, Terminal
  <2>3. life'[q] = life[q] /\ reason'[q] = reason[q]
    BY <1>0, <1>1, <2>2 DEF FinishLeg, RecordTerminal, rowVars
  <2> QED BY <2>1, <2>2, <2>3, StillExplained
<1>2. ASSUME NEW r \in Runs, Trigger(r) \/ LaunchSuccessor(r) PROVE (Explained(q, t))'
  <2>1. /\ life[r] = "none" /\ up = "ready" /\ up' = up /\ reason' = reason
        /\ live \subseteq live' /\ \A p \in Runs \ {r} : leg'[p] = leg[p]
        /\ \A p \in Runs \ {r} : life'[p] = life[p]
    BY <1>0, <1>2
    DEF Trigger, LaunchSuccessor, IsNextRun, Free, StartLeg, legVars
  <2>2. q # r
    BY <2>1 DEF Explained, Lifecycle, Terminal
  <2> QED BY <2>1, <2>2, StillExplained
<1>3. ASSUME NEW r \in Runs, ResumeApproved(r) PROVE (Explained(q, t))'
  <2>1. /\ life[r] = "running" /\ r \notin live /\ up = "ready" /\ up' = up
        /\ UNCHANGED <<life, reason>>
        /\ live \subseteq live' /\ \A p \in Runs \ {r} : leg'[p] = leg[p]
    BY <1>0, <1>3
    DEF ResumeApproved, Free, StartLeg, legVars, rowVars, Lifecycle
  <2>2. q # r
    BY <2>1 DEF Explained, Terminal
  <2> QED BY <2>1, <2>2, StillExplained
<1>4. ASSUME NEW r \in Runs,
             \/ ContinueRun(r) \/ Expire(r)
             \/ \E s \in Steps, d \in {"approved", "rejected"} : Decide(r, s, d)
      PROVE  (Explained(q, t))'
  <2>1. UNCHANGED <<life, reason, up, live, leg>>
    BY <1>4 DEF ContinueRun, Expire, Decide, rowVars, legVars
  <2> QED BY <2>1, StillExplained
<1>5. CASE Reject \/ ClaimApproval
  <2>1. /\ up = "ready" /\ handler.doing \in {"approved", "rejected"}
        /\ handler.run \in Runs /\ life[handler.run] = "awaiting_input"
        /\ UNCHANGED <<up, live, leg>>
    BY <1>5 DEF Reject, ClaimApproval, legVars, Lifecycle, TypeInv, Handled
  <2>2. q # handler.run
    BY <2>1 DEF Explained, Lifecycle, Terminal
  <2>3. life'[q] = life[q] /\ reason'[q] = reason[q]
    BY <1>0, <1>5, <2>2 DEF Reject, ClaimApproval, RecordTerminal, rowVars
  <2> QED BY <2>1, <2>3, StillExplained
<1>6. CASE MarkInterrupted \/ Restart
  <2>1. UNCHANGED <<life, reason, live, leg>> /\ up' # "ready"
    BY <1>6 DEF MarkInterrupted, Restart, rowVars, legVars
  <2> QED BY <2>1, StillExplained
<1>7. CASE Listen
  <2>1. UNCHANGED <<life, reason, live, leg>> /\ life[q] # "running" /\ live = {}
    BY <1>7 DEF Listen, Scanned, rowVars, legVars, Lifecycle
  <2> QED BY <2>1 DEF Explained
<1>8. CASE Crash
  <2>1. UNCHANGED <<life, reason>> /\ up' # "ready"
    BY <1>8 DEF Crash, Die, rowVars
  <2>2. q \in live => life[q] = "running"
    BY DEF Lifecycle
  <2> QED BY <2>1, <2>2 DEF Explained
<1>9. ASSUME NEW r \in Runs, Interrupt(r) PROVE (Explained(q, t))'
  <2>1. /\ RecordTerminal(r, "failed", "interrupted") /\ life[r] = "running"
        /\ UNCHANGED <<up, live, leg>>
    BY <1>9 DEF Interrupt, Scanned, legVars
  <2>2. /\ life'[r] = "failed" /\ reason'[r] = "interrupted"
        /\ \A p \in Runs \ {r} : life'[p] = life[p] /\ reason'[p] = reason[p]
    BY <1>0, <2>1 DEF RecordTerminal, Open
  <2>3. CASE q = r
    BY <2>2, <2>3 DEF Explained, Terminal
  <2>4. CASE q # r
    BY <2>1, <2>2, <2>4, StillExplained
  <2> QED BY <2>3, <2>4
<1> QED BY <1>1, <1>2, <1>3, <1>4, <1>5, <1>6, <1>7, <1>8, <1>9
    DEF Next, LegStep, HostStep, BootStep

LEMMA AccountedStep == TypeInv /\ Lifecycle /\ Accounted /\ [Next]_vars => Accounted'
<1> SUFFICES ASSUME TypeInv, Lifecycle, Accounted, [Next]_vars, faults' = 0
             PROVE  Accounted'
  BY DEF Accounted
<1>1. faults = 0 /\ ~Throws(1) /\ ~Throws(2)
  BY FaultsGrow
<1>2. CASE \E r \in Runs, s \in Steps : NodeStep(r, s)
  BY <1>1, <1>2, NodeAccounted
<1>3. CASE ~ \E r \in Runs, s \in Steps : NodeStep(r, s)
  <2> SUFFICES ASSUME NEW q \in Runs, NEW t \in Steps, (Unsettled(q, t))'
               PROVE  (Explained(q, t))'
    BY DEF Accounted
  <2>1. Unsettled(q, t)
    BY <1>3, OtherLegs, UnchangedEvents, SameFacts
  <2>2. Explained(q, t)
    BY <1>1, <2>1 DEF Accounted
  <2>3. CASE UNCHANGED vars
    BY <2>2, <2>3 DEF Explained, vars, rowVars, legVars
  <2>4. CASE Next
    BY <1>1, <1>3, <2>2, <2>4, OtherAccounted
  <2> QED BY <2>3, <2>4
<1> QED BY <1>2, <1>3

\* Failure propagation and the drain of what is in flight (executor.ts:804): a
\* run that ends on its own, with every write made, leaves no dispatch without
\* an outcome; only a crash, and then the scan's verdict says so, or a failed
\* write may.
THEOREM NoAbandonedCallHolds == Spec => []NoAbandonedCall
<1> DEFINE Inv == TypeInv /\ Lifecycle /\ Accounted
<1>1. Init => Inv
  BY TypeInit, LifecycleInit, AccountedInit
<1>2. Inv /\ [Next]_vars => Inv'
  BY TypeStep, LifecycleStep, AccountedStep
<1>3. Inv => NoAbandonedCall
  BY DEF Accounted, NoAbandonedCall, Explained, Lifecycle, Terminal
<1> QED BY <1>1, <1>2, <1>3, PTL DEF Spec

-----------------------------------------------------------------------------
(* One successor.                                                          *)

\* The recovery marker, the request that holds it and the successor exclude
\* each other: a run that is marked, or whose continue is being handled, has
\* failed and has no successor yet.  A rejection that is being handled has
\* been recorded.
Succession ==
  /\ \A p \in Runs : header[p] = "interrupted" =>
       life[p] = "failed" /\ \A n \in Runs : pred[n] # p
  /\ handler.doing \in {"continue", "mark"} =>
       life[handler.run] = "failed" /\ \A n \in Runs : pred[n] # handler.run
  /\ handler.doing = "continue" => header[handler.run] # "interrupted"
  /\ handler.doing = "rejected" =>
       /\ handler.step \in Steps
       /\ approval[handler.run][handler.step] = "rejected"

LEMMA SuccessionInit == Init => Succession
BY DEF Init, Succession, NoHandler

\* A verdict stays.
LEMMA VerdictStays ==
  ASSUME TypeInv, Lifecycle, [Next]_vars, NEW p \in Runs, life[p] \in Terminal
  PROVE  life'[p] = life[p]
<1>0. life \in [Runs -> Lives]
  BY DEF TypeInv, TypeOK
<1>1. ASSUME NEW r, NEW l, NEW why, RecordTerminal(r, l, why)
      PROVE  life'[p] = life[p]
  BY <1>0, <1>1 DEF RecordTerminal, Open, Terminal, rowVars
<1>2. CASE UNCHANGED life
  BY <1>2
<1>3. ASSUME NEW r \in Runs, life[r] \in {"none", "running", "awaiting_input"},
             NEW l, life' = [life EXCEPT ![r] = l]
      PROVE  life'[p] = life[p]
  BY <1>0, <1>3 DEF Terminal
<1>4. CASE UNCHANGED vars
  BY <1>4 DEF vars, rowVars
<1>5. ASSUME NEW r \in Runs, NEW s \in Steps, NodeStep(r, s)
      PROVE  life'[p] = life[p]
  <2>1. p # r
    BY <1>5, NodeEffect DEF Lifecycle, Terminal
  <2> QED BY <1>5, <2>1, OtherRuns
<1>6. ASSUME NEW r \in Runs,
             \/ FinishLeg(r) \/ Trigger(r) \/ ContinueRun(r) \/ Expire(r)
             \/ LaunchSuccessor(r) \/ ResumeApproved(r) \/ Interrupt(r)
             \/ \E s \in Steps, d \in {"approved", "rejected"} : Decide(r, s, d)
      PROVE  life'[p] = life[p]
  <2>1. CASE FinishLeg(r) \/ Interrupt(r)
    BY <1>1, <2>1 DEF FinishLeg, Interrupt, rowVars
  <2>2. CASE Trigger(r) \/ LaunchSuccessor(r)
    BY <1>3, <2>2 DEF Trigger, LaunchSuccessor, IsNextRun
  <2>3. CASE \/ ContinueRun(r) \/ Expire(r) \/ ResumeApproved(r)
             \/ \E s \in Steps, d \in {"approved", "rejected"} : Decide(r, s, d)
    BY <2>3 DEF ContinueRun, Expire, ResumeApproved, Decide, rowVars
  <2> QED BY <1>6, <2>1, <2>2, <2>3
<1>7. CASE Reject
  BY <1>1, <1>7 DEF Reject, rowVars
<1>8. CASE ClaimApproval
  <2>1. handler.run \in Runs
    BY <1>8 DEF ClaimApproval, TypeInv, Handled
  <2> QED BY <1>3, <1>8, <2>1 DEF ClaimApproval
<1>9. CASE MarkInterrupted \/ Listen \/ Restart \/ Crash
  BY <1>9 DEF MarkInterrupted, Listen, Restart, Crash, rowVars
<1> QED BY <1>4, <1>5, <1>6, <1>7, <1>8, <1>9
    DEF Next, LegStep, HostStep, BootStep

\* A step that marks no run, launches no successor and starts no request
\* about either.
LEMMA QuietSuccession ==
  ASSUME Succession, UNCHANGED pred,
         \A p \in Runs : life[p] = "failed" => life'[p] = "failed",
         \A p \in Runs : header'[p] = "interrupted" => header[p] = "interrupted",
         \/ handler'.doing \notin {"continue", "mark", "rejected"}
         \/ handler' = handler /\ UNCHANGED <<header, approval, life>>
  PROVE  Succession'
BY DEF Succession

LEMMA SuccessionStep ==
  TypeInv /\ Lifecycle /\ Succession /\ [Next]_vars => Succession'
<1> SUFFICES ASSUME TypeInv, Lifecycle, Succession, [Next]_vars
             PROVE  Succession'
  OBVIOUS
<1>0. /\ header \in [Runs -> {"none", "active", "interrupted"}]
      /\ pred \in [Runs -> Runs \cup {NoRun}]
      /\ approval \in [Runs -> [Steps -> Decisions]]
      /\ life \in [Runs -> Lives]
      /\ \A p \in Runs : life[p] = "failed" => life'[p] = "failed"
  BY VerdictStays DEF TypeInv, TypeOK, Terminal
<1>1. ASSUME NEW r \in Runs, NEW s \in Steps, NodeStep(r, s) PROVE Succession'
  <2>1. pred' = pred /\ handler' = handler /\ handler.doing = "none"
    BY <1>1, NodeEffect
  <2>2. \A p \in Runs : header'[p] = "interrupted" => header[p] = "interrupted"
    BY <1>0, <1>1
    DEF NodeStep, SkipStep, AskApproval, GateHolds, StartStep, Dispatch, Succeed,
        Degrade, FailStep, SaveResult, factVars
  <2> QED BY <1>0, <2>1, <2>2, QuietSuccession
<1>2. ASSUME NEW r \in Runs,
             FinishLeg(r) \/ Trigger(r) \/ ResumeApproved(r)
      PROVE  Succession'
  <2>1. UNCHANGED <<pred, header, handler>> /\ handler.doing = "none"
    BY <1>2 DEF FinishLeg, Trigger, ResumeApproved, Free, factVars
  <2> QED BY <1>0, <2>1, QuietSuccession
<1>3. ASSUME NEW r \in Runs, ContinueRun(r) PROVE Succession'
  <2>1. /\ header[r] = "interrupted" /\ header' = [header EXCEPT ![r] = "active"]
        /\ handler'.doing = "continue" /\ handler'.run = r
        /\ UNCHANGED <<pred, life>>
    BY <1>3 DEF ContinueRun, CanContinue, NoHandler, rowVars
  <2> QED BY <1>0, <2>1 DEF Succession
<1>4. ASSUME NEW r \in Runs, Expire(r) PROVE Succession'
  <2>1. UNCHANGED <<pred, life, header, handler, approval>>
    BY <1>4 DEF Expire, rowVars, factVars
  <2> QED BY <2>1, QuietSuccession
<1>5. ASSUME NEW r \in Runs, NEW s \in Steps, NEW d \in {"approved", "rejected"},
             Decide(r, s, d)
      PROVE  Succession'
  <2>1. /\ UNCHANGED <<pred, life, header>>
        /\ approval' = [approval EXCEPT ![r][s] = d]
        /\ handler'.doing = d /\ handler'.run = r /\ handler'.step = s
    BY <1>5 DEF Decide, NoHandler, rowVars, factVars
  <2>2. approval'[r][s] = d
    BY <1>0, <2>1
  <2> QED BY <2>1, <2>2 DEF Succession
<1>6. CASE Reject \/ ClaimApproval
  <2>1. UNCHANGED <<pred, header>> /\ handler'.doing = "none"
    BY <1>6 DEF Reject, ClaimApproval, NoHandler, factVars
  <2> QED BY <1>0, <2>1, QuietSuccession
<1>7. ASSUME NEW n \in Runs, LaunchSuccessor(n) PROVE Succession'
  <2>1. /\ handler.doing = "continue" /\ handler'.doing = "none"
        /\ header[handler.run] # "interrupted"
    BY <1>7 DEF LaunchSuccessor, NoHandler, Succession
  <2>2. /\ \A q \in Runs : pred'[q] \in {pred[q], handler.run}
        /\ \A q \in Runs : header'[q] = "interrupted" => header[q] = "interrupted"
    BY <1>0, <1>7 DEF LaunchSuccessor
  <2> QED BY <1>0, <2>1, <2>2 DEF Succession
<1>8. CASE MarkInterrupted
  <2>1. /\ handler.doing = "mark" /\ handler.run \in Runs /\ handler'.doing = "none"
        /\ UNCHANGED <<pred, life>>
    BY <1>8 DEF MarkInterrupted, Die, NoHandler, TypeInv, Handled, rowVars
  <2>2. \A q \in Runs : header'[q] = "interrupted" =>
          header[q] = "interrupted" \/ q = handler.run
    BY <1>0, <1>8, <2>1 DEF MarkInterrupted
  <2> QED BY <2>1, <2>2 DEF Succession
<1>9. CASE Listen \/ Restart
  <2>1. UNCHANGED <<pred, life, header, handler, approval>>
    BY <1>9 DEF Listen, Restart, rowVars, factVars, gateVars
  <2> QED BY <2>1, QuietSuccession
<1>10. CASE Crash
  <2>1. UNCHANGED <<pred, life, header>> /\ handler'.doing = "none"
    BY <1>10 DEF Crash, Die, NoHandler, rowVars, factVars
  <2> QED BY <2>1, QuietSuccession
<1>11. ASSUME NEW q \in Runs, Interrupt(q) PROVE Succession'
  <2>1. UNCHANGED <<pred, header>> /\ life[q] = "running"
    BY <1>11 DEF Interrupt, Scanned, factVars
  <2>2. \A n \in Runs : pred[n] # q
    BY <2>1, RunsAreNumbers DEF Lifecycle, Terminal
  <2>3. CASE Die
    <3>1. handler'.doing = "none"
      BY <2>3 DEF Die, NoHandler
    <3> QED BY <1>0, <2>1, <3>1, QuietSuccession
  <2>4. CASE /\ RecordTerminal(q, "failed", "interrupted")
             /\ handler' = [NoHandler EXCEPT !.doing = "mark", !.run = q]
    <3>1. handler'.doing = "mark" /\ handler'.run = q
      BY <2>4 DEF NoHandler
    <3>2. life'[q] = "failed"
      BY <1>0, <2>1, <2>4 DEF RecordTerminal, Open
    <3> QED BY <1>0, <2>1, <2>2, <3>1, <3>2 DEF Succession
  <2> QED BY <1>11, <2>3, <2>4 DEF Interrupt
<1>12. CASE UNCHANGED vars
  <2>1. UNCHANGED <<pred, life, header, handler, approval>>
    BY <1>12 DEF vars, rowVars, factVars, gateVars
  <2> QED BY <2>1, QuietSuccession
<1> QED BY <1>1, <1>2, <1>3, <1>4, <1>5, <1>6, <1>7, <1>8, <1>9, <1>10, <1>11, <1>12
    DEF Next, LegStep, HostStep, BootStep

-----------------------------------------------------------------------------
(* WorkflowRun implements RunContract.                                     *)

LEMMA MappedValues ==
  /\ \A r \in Runs : Stages[r] = StageOf(r)
  /\ \A r \in Runs : Consents[r] = {s \in Steps : approval[r][s] = "approved"}
BY DEF Stages, Consents

\* A step that changes one life moves one run of the contract.
LEMMA StageMoves ==
  ASSUME TypeOK, NEW r \in Runs, NEW l, life' = [life EXCEPT ![r] = l],
         NEW from, StageOf(r) = from,
         NEW to, to = CASE l = "none" -> "absent" [] l = "running" -> "working"
                        [] l = "awaiting_input" -> "waiting" [] OTHER -> l
  PROVE  Contract!Moves(r, from, to)
<1>1. life'[r] = l /\ \A q \in Runs \ {r} : life'[q] = life[q]
  BY DEF TypeOK
<1>2. (StageOf(r))' = to
  BY <1>1 DEF StageOf
<1>3. \A q \in Runs \ {r} : (StageOf(q))' = StageOf(q)
  BY <1>1 DEF StageOf
<1>4. Stages' = [Stages EXCEPT ![r] = to]
  BY <1>2, <1>3 DEF Stages
<1> QED BY <1>4, MappedValues DEF Contract!Moves

LEMMA StagesStay ==
  ASSUME UNCHANGED life PROVE UNCHANGED Stages
BY DEF Stages, StageOf

LEMMA ConsentsStay ==
  ASSUME \A q \in Runs, t \in Steps :
           approval'[q][t] = "approved" <=> approval[q][t] = "approved"
  PROVE  UNCHANGED Consents
BY DEF Consents

\* A request being made grants nothing.
LEMMA AskedConsents ==
  ASSUME TypeOK, NEW r \in Runs, NEW s \in Steps, NEW d \in {"pending", "rejected"},
         approval' = [approval EXCEPT ![r][s] = d], approval[r][s] # "approved"
  PROVE  UNCHANGED Consents
<1>1. approval \in [Runs -> [Steps -> Decisions]]
  BY DEF TypeOK
<1>2. \A q \in Runs, t \in Steps :
        approval'[q][t] = "approved" <=> approval[q][t] = "approved"
  BY <1>1
<1> QED BY <1>2, ConsentsStay

ContractInv ==
  TypeInv /\ Lifecycle /\ Recorded /\ Licence /\ Gated /\ Succession

\* The variables of the contract but for the stages.
contractRest == <<plan, approval, sent, pred>>

\* The steps of a leg.
LEMMA NodeContract ==
  ASSUME ContractInv, NEW r \in Runs, NEW s \in Steps, NodeStep(r, s)
  PROVE  [Contract!ContractNext]_(Contract!contractVars)
<1> USE DEF ContractInv
<1>0. /\ UNCHANGED <<plan, pred>> /\ r \in live /\ life[r] = "running"
      /\ StageOf(r) = "working" /\ TypeOK
  BY NodeEffect DEF Lifecycle, StageOf, TypeInv
<1>1. CASE AskApproval(r, s) /\ approval' # approval
  <2>1. /\ \A t \in Steps : approval[r][t] = "none"
        /\ approval' = [approval EXCEPT ![r][s] = "pending"]
        /\ life' = [life EXCEPT ![r] = "awaiting_input"] /\ sent' = sent
    BY <1>1 DEF AskApproval
  <2>2. UNCHANGED Consents
    BY <1>0, <2>1, AskedConsents
  <2>3. Contract!Moves(r, "working", "waiting")
    BY <1>0, <2>1, StageMoves
  <2>4. Consents[r] = {}
    BY <2>1, MappedValues
  <2>5. Contract!Asked(r)
    BY <1>0, <2>1, <2>2, <2>3, <2>4 DEF Contract!Asked
  <2> QED BY <1>0, <2>5 DEF Contract!ContractNext
<1>2. CASE Dispatch(r, s) /\ sent' # sent
  <2>1. /\ leg[r].node[s] = "intent" /\ s \notin leg[r].restored
        /\ sent' = [sent EXCEPT ![r][s] = @ + 1]
        /\ UNCHANGED <<life, approval>>
    BY <1>2 DEF Dispatch, rowVars, gateVars
  <2>2. s \in plan.gates => s \in Consents[r] /\ sent[r][s] = 0
    BY <1>0, <2>1, MappedValues DEF Gated, GateFence
  <2>3. pred[r] # NoRun /\ Consents[r] = {} => sent[pred[r]][s] = 0
    <3> SUFFICES ASSUME pred[r] # NoRun, Consents[r] = {}
                 PROVE  sent[pred[r]][s] = 0
      OBVIOUS
    <3>1. Unapproved(r)
      BY MappedValues DEF Unapproved
    <3>2. ~(sent[pred[r]][s] > 0)
      BY <1>0, <2>1, <3>1 DEF Licence
    <3> QED BY <1>0, <3>2 DEF TypeOK
  <2>4. UNCHANGED <<Stages, Consents>>
    BY <2>1, StagesStay, ConsentsStay
  <2>5. Stages[r] = "working"
    BY <1>0, MappedValues
  <2>6. Contract!Called(r, s)
    BY <1>0, <2>1, <2>2, <2>3, <2>4, <2>5 DEF Contract!Called
  <2> QED BY <1>0, <2>6 DEF Contract!ContractNext
<1>3. CASE ~(AskApproval(r, s) /\ approval' # approval) /\ ~(Dispatch(r, s) /\ sent' # sent)
  <2>1. UNCHANGED <<life, approval, sent>>
    <3>1. CASE AskApproval(r, s)
      <4>1. approval' = approval
        BY <1>3, <3>1
      <4>2. approval \in [Runs -> [Steps -> Decisions]]
        BY <1>0 DEF TypeOK
      <4>3. [approval EXCEPT ![r][s] = "pending"][r][s] = "pending"
        BY <4>2
      <4> QED BY <3>1, <4>1, <4>3 DEF AskApproval
    <3>2. CASE GateHolds(r, s)
      BY <3>2 DEF GateHolds, rowVars, gateVars
    <3>3. CASE Dispatch(r, s)
      BY <1>3, <3>3 DEF Dispatch, rowVars, gateVars
    <3>4. CASE SkipStep(r, s) \/ StartStep(r, s) \/ Succeed(r, s) \/ Degrade(r, s)
               \/ FailStep(r, s) \/ SaveResult(r, s)
      BY <3>4 DEF SkipStep, StartStep, Succeed, Degrade, FailStep, SaveResult,
                  rowVars, gateVars
    <3> QED BY <3>1, <3>2, <3>3, <3>4 DEF NodeStep
  <2>2. UNCHANGED <<Stages, Consents>>
    BY <2>1, StagesStay, ConsentsStay
  <2> QED BY <1>0, <2>1, <2>2 DEF Contract!contractVars
<1> QED BY <1>1, <1>2, <1>3

\* A terminal write ends a run of the contract.
LEMMA VerdictContract ==
  ASSUME ContractInv, UNCHANGED contractRest, NEW r \in Runs,
         \/ UNCHANGED rowVars
         \/ \E l \in Terminal : \E why : RecordTerminal(r, l, why) /\ life[r] = "running"
         \/ /\ \E why : RecordTerminal(r, "failed", why)
            /\ life[r] = "awaiting_input" /\ Unapproved(r)
  PROVE  [Contract!ContractNext]_(Contract!contractVars)
<1> USE DEF ContractInv, contractRest
<1>0. TypeOK /\ UNCHANGED Consents
  BY ConsentsStay DEF TypeInv
<1>1. CASE UNCHANGED rowVars
  <2>1. UNCHANGED Stages
    BY <1>1, StagesStay DEF rowVars
  <2> QED BY <1>0, <2>1 DEF Contract!contractVars
<1>2. ASSUME NEW l \in Terminal, NEW why, RecordTerminal(r, l, why),
             life[r] = "running"
      PROVE  [Contract!ContractNext]_(Contract!contractVars)
  <2>1. life' = [life EXCEPT ![r] = l] /\ StageOf(r) = "working"
    BY <1>2 DEF RecordTerminal, Open, StageOf
  <2>2. Contract!Moves(r, "working", l) /\ l \in Contract!Verdicts
    BY <1>0, <2>1, StageMoves DEF Terminal, Contract!Verdicts
  <2>3. Contract!Ended(r)
    BY <1>0, <2>2 DEF Contract!Ended
  <2> QED BY <2>3 DEF Contract!ContractNext
<1>3. ASSUME NEW why, RecordTerminal(r, "failed", why),
             life[r] = "awaiting_input", Unapproved(r)
      PROVE  [Contract!ContractNext]_(Contract!contractVars)
  <2>1. life' = [life EXCEPT ![r] = "failed"] /\ StageOf(r) = "waiting"
    BY <1>3 DEF RecordTerminal, Open, StageOf
  <2>2. Contract!Moves(r, "waiting", "failed")
    BY <1>0, <2>1, StageMoves
  <2>3. Consents[r] = {}
    BY <1>3, MappedValues DEF Unapproved
  <2>4. Contract!Ended(r)
    BY <1>0, <2>2, <2>3 DEF Contract!Ended
  <2> QED BY <2>4 DEF Contract!ContractNext
<1> QED BY <1>1, <1>2, <1>3

LEMMA LaunchContract ==
  ASSUME ContractInv, NEW r \in Runs, Trigger(r) \/ LaunchSuccessor(r)
  PROVE  [Contract!ContractNext]_(Contract!contractVars)
<1> USE DEF ContractInv
<1>0. /\ TypeOK /\ life[r] = "none" /\ StageOf(r) = "absent"
      /\ UNCHANGED <<plan, approval, sent>>
  BY DEF TypeInv, StageOf, Trigger, LaunchSuccessor, IsNextRun, gateVars
<1>1. UNCHANGED Consents
  BY <1>0, ConsentsStay
<1>2. life' = [life EXCEPT ![r] = "running"] =>
        Contract!Moves(r, "absent", "working")
  BY <1>0, StageMoves
<1>3. CASE Trigger(r)
  <2>1. Contract!Launched(r)
    BY <1>0, <1>1, <1>2, <1>3 DEF Trigger, Contract!Launched
  <2> QED BY <1>0, <2>1 DEF Contract!ContractNext
<1>4. CASE LaunchSuccessor(r) /\ life' # life
  <2> PICK p \in Runs : p = handler.run
    BY <1>4 DEF LaunchSuccessor, TypeInv, Handled
  <2>1. /\ life' = [life EXCEPT ![r] = "running"]
        /\ pred' = [pred EXCEPT ![r] = p]
    BY <1>4 DEF LaunchSuccessor
  <2>2. Stages[p] = "failed" /\ \A q \in Runs : pred[q] # p
    BY <1>4, MappedValues DEF LaunchSuccessor, Succession, StageOf
  <2>3. Contract!Continued(r, p)
    BY <1>0, <1>1, <1>2, <2>1, <2>2 DEF Contract!Continued
  <2> QED BY <1>0, <2>3 DEF Contract!ContractNext
<1>5. CASE LaunchSuccessor(r) /\ life' = life
  <2>1. pred' = pred
    <3>1. life[r] # "running" /\ life \in [Runs -> Lives]
      BY <1>0 DEF TypeOK
    <3>2. life' # [life EXCEPT ![r] = "running"]
      BY <1>5, <3>1
    <3> QED BY <1>5, <3>2 DEF LaunchSuccessor
  <2>2. UNCHANGED Stages
    BY <1>5, StagesStay
  <2> QED BY <1>0, <1>1, <2>1, <2>2 DEF Contract!contractVars
<1> QED BY <1>3, <1>4, <1>5

\* An approval: the decision is the consent, the claim resumes the run.
LEMMA ApprovalContract ==
  ASSUME ContractInv,
         \/ ClaimApproval
         \/ \E r \in Runs, s \in Steps, d \in {"approved", "rejected"} :
              Decide(r, s, d)
  PROVE  [Contract!ContractNext]_(Contract!contractVars)
<1> USE DEF ContractInv
<1>0. /\ TypeOK /\ approval \in [Runs -> [Steps -> Decisions]]
      /\ UNCHANGED <<plan, sent, pred>>
  BY DEF TypeInv, TypeOK, ClaimApproval, Decide
<1>1. CASE ClaimApproval
  <2> PICK r \in Runs : r = handler.run
    BY <1>1 DEF ClaimApproval, TypeInv, Handled
  <2>1. /\ handler.step \in Steps /\ UNCHANGED approval
        /\ \/ UNCHANGED life
           \/ /\ life[r] = "awaiting_input" /\ approval[r][handler.step] = "approved"
              /\ life' = [life EXCEPT ![r] = "running"]
    BY <1>1 DEF ClaimApproval, Licence, gateVars
  <2>2. UNCHANGED Consents
    BY <2>1, ConsentsStay
  <2>3. CASE UNCHANGED life
    <3>1. UNCHANGED Stages
      BY <2>3, StagesStay
    <3> QED BY <1>0, <2>2, <3>1 DEF Contract!contractVars
  <2>4. CASE /\ life[r] = "awaiting_input" /\ approval[r][handler.step] = "approved"
             /\ life' = [life EXCEPT ![r] = "running"]
    <3>1. StageOf(r) = "waiting"
      BY <2>4 DEF StageOf
    <3>2. Contract!Moves(r, "waiting", "working")
      BY <1>0, <2>4, <3>1, StageMoves
    <3>3. Consents[r] # {}
      BY <2>1, <2>4, MappedValues
    <3>4. Contract!Resumed(r)
      BY <1>0, <2>2, <3>2, <3>3 DEF Contract!Resumed
    <3> QED BY <1>0, <3>4 DEF Contract!ContractNext
  <2> QED BY <2>1, <2>3, <2>4
<1>2. ASSUME NEW r \in Runs, NEW s \in Steps, NEW d \in {"approved", "rejected"},
             Decide(r, s, d)
      PROVE  [Contract!ContractNext]_(Contract!contractVars)
  <2>1. /\ approval[r][s] = "pending" /\ life[r] = "awaiting_input"
        /\ approval' = [approval EXCEPT ![r][s] = d]
        /\ UNCHANGED life
    BY <1>2 DEF Decide, rowVars
  <2>2. UNCHANGED Stages
    BY <2>1, StagesStay
  <2>3. CASE d = "rejected"
    <3>1. UNCHANGED Consents
      BY <1>0, <2>1, <2>3, AskedConsents
    <3> QED BY <1>0, <2>2, <3>1 DEF Contract!contractVars
  <2>4. CASE d = "approved"
    <3>1. \A t \in Steps \ {s} : approval[r][t] = "none"
      BY <2>1 DEF Gated, OneRequest
    <3>2. Stages[r] = "waiting" /\ Consents[r] = {}
      BY <2>1, <3>1, MappedValues DEF StageOf
    <3>3. /\ \A q \in Runs \ {r} : approval'[q] = approval[q]
          /\ \A t \in Steps \ {s} : approval'[r][t] = "none"
          /\ approval'[r][s] = "approved"
      BY <1>0, <2>1, <2>4, <3>1
    <3>4. Consents' = [Consents EXCEPT ![r] = {s}]
      BY <3>3 DEF Consents
    <3>5. Contract!Consented(r, s)
      BY <1>0, <2>2, <3>2, <3>4 DEF Contract!Consented
    <3> QED BY <1>0, <3>5 DEF Contract!ContractNext
  <2> QED BY <2>3, <2>4
<1> QED BY <1>1, <1>2

LEMMA ContractStep ==
  ASSUME ContractInv, [Next]_vars
  PROVE  [Contract!ContractNext]_(Contract!contractVars)
<1> USE DEF ContractInv
<1>1. ASSUME UNCHANGED contractRest, UNCHANGED life
      PROVE  [Contract!ContractNext]_(Contract!contractVars)
  <2>1. UNCHANGED <<Stages, Consents>>
    BY <1>1, StagesStay, ConsentsStay DEF contractRest
  <2> QED BY <1>1, <2>1 DEF Contract!contractVars, contractRest
<1>2. CASE \/ UNCHANGED vars
           \/ \E r \in Runs : ContinueRun(r) \/ Expire(r) \/ ResumeApproved(r)
           \/ MarkInterrupted \/ Listen \/ Restart \/ Crash
  <2>1. UNCHANGED contractRest /\ UNCHANGED life
    BY <1>2
    DEF vars, ContinueRun, Expire, ResumeApproved, MarkInterrupted, Listen,
        Restart, Crash, contractRest, rowVars, gateVars
  <2> QED BY <1>1, <2>1
<1>3. ASSUME NEW r \in Runs, NEW s \in Steps, NodeStep(r, s)
      PROVE  [Contract!ContractNext]_(Contract!contractVars)
  BY <1>3, NodeContract
<1>4. ASSUME NEW r \in Runs, FinishLeg(r)
      PROVE  [Contract!ContractNext]_(Contract!contractVars)
  <2>1. UNCHANGED contractRest /\ life[r] = "running"
    BY <1>4 DEF FinishLeg, contractRest, gateVars, Lifecycle
  <2>2. \/ UNCHANGED rowVars
        \/ \E l \in Terminal : \E why : RecordTerminal(r, l, why)
    BY <1>4 DEF FinishLeg, Facts, Terminal
  <2> QED BY <2>1, <2>2, VerdictContract
<1>5. ASSUME NEW r \in Runs, Interrupt(r)
      PROVE  [Contract!ContractNext]_(Contract!contractVars)
  <2>1. UNCHANGED contractRest /\ life[r] = "running"
    BY <1>5 DEF Interrupt, Scanned, contractRest, gateVars
  <2>2. \/ UNCHANGED rowVars
        \/ \E l \in Terminal : \E why : RecordTerminal(r, l, why)
    BY <1>5 DEF Interrupt, Terminal
  <2> QED BY <2>1, <2>2, VerdictContract
<1>6. CASE Reject
  <2> PICK r \in Runs : r = handler.run
    BY <1>6 DEF Reject, TypeInv, Handled
  <2>1. /\ UNCHANGED contractRest /\ life[r] = "awaiting_input"
        /\ handler.step \in Steps /\ approval[r][handler.step] = "rejected"
    BY <1>6 DEF Reject, contractRest, gateVars, Lifecycle, Succession
  <2>2. Unapproved(r)
    BY <2>1 DEF Gated, OneRequest, Unapproved
  <2>3. UNCHANGED rowVars \/ \E why : RecordTerminal(r, "failed", why)
    BY <1>6 DEF Reject
  <2> QED BY <2>1, <2>2, <2>3, VerdictContract
<1> QED BY <1>2, <1>3, <1>4, <1>5, <1>6, LaunchContract, ApprovalContract
    DEF Next, LegStep, HostStep, BootStep

LEMMA ContractStart == Init => Contract!ContractInit
<1> SUFFICES ASSUME Init PROVE Contract!ContractInit
  OBVIOUS
<1>1. plan.gates \subseteq Steps
  BY WorkflowAssumption DEF WorkflowAssumption, PlanType, Init
<1>2. \A r \in Runs : StageOf(r) = "absent"
  BY DEF Init, StageOf
<1>3. Stages = [r \in Runs |-> "absent"]
  BY <1>2 DEF Stages
<1>4. Consents = [r \in Runs |-> {}]
  BY DEF Init, Consents
<1> QED BY <1>1, <1>3, <1>4 DEF Init, Contract!ContractInit

\* For every plan, any number of runs, crashes and failing writes: each run
\* has one verdict, waits for at most one consent and has at most one
\* successor (host.ts #executeContinue, "exactly once for this predecessor"),
\* and calls a provider only while it works: for a gated step once and by its
\* consent, and not for what its predecessor had paid for.
THEOREM WorkflowImplementsRunContract == Spec => ImplementsRunContract
<1>1. Init => ContractInv
  BY TypeInit, LifecycleInit, RecordedInit, LicenceInit, GatedInit, SuccessionInit
  DEF ContractInv
<1>2. ContractInv /\ [Next]_vars => ContractInv'
  BY TypeStep, LifecycleStep, RecordedStep, LicenceStep, GatedStep, SuccessionStep
  DEF ContractInv
<1>3. ContractInv /\ [Next]_vars => [Contract!ContractNext]_(Contract!contractVars)
  BY ContractStep
<1> QED BY <1>1, <1>2, <1>3, ContractStart, PTL
    DEF Spec, ImplementsRunContract, Contract!ContractSpec
=============================================================================
