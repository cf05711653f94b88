--------------------------- MODULE AuditContract ---------------------------
(***************************************************************************)
(* What an automation promises, without schedulers, receipts, executor     *)
(* passes or restarts.  Each instant of its schedule is answered at most   *)
(* once, in order and for good: skipped, joined to a run that has not      *)
(* ended, or given a run of its own.  A run has its row                    *)
(*                                                                         *)
(*   absent -> pending -> running -> succeeded or failed                   *)
(*                     -> cancelled or failed                              *)
(*                                                                         *)
(* and at most one workflow run (none -> running -> succeeded or failed).  *)
(* A running row ends as its workflow run does, and no row is made while   *)
(* another has not ended.                                                  *)
(***************************************************************************)
EXTENDS Naturals

CONSTANTS Instants, Runs, None

VARIABLES
  on,      \* the automation is enabled
  answer,  \* what became of each instant
  stage,   \* where the row of each run stands
  result   \* where its workflow run stands

contractVars == <<on, answer, stage, result>>

Verdicts == {"succeeded", "failed"}
Stages   == {"absent", "pending", "running", "cancelled"} \cup Verdicts
Results  == {"none", "running"} \cup Verdicts

Answer(outcome, r) == [outcome |-> outcome, run |-> r]
Open == Answer("none", None)

ContractInit ==
  /\ on \in BOOLEAN
  /\ answer = [t \in Instants |-> Open]
  /\ stage  = [r \in Runs |-> "absent"]
  /\ result = [r \in Runs |-> "none"]

Unfinished == {r \in Runs : stage[r] \in {"pending", "running"}}

Drafted(r) ==
  /\ Unfinished = {} /\ stage[r] = "absent"
  /\ stage' = [stage EXCEPT ![r] = "pending"]

Answered(t, a) ==
  /\ answer[t] = Open /\ \A u \in Instants : answer[u] # Open => u < t
  /\ answer' = [answer EXCEPT ![t] = a]

Skips(t) ==
  Answered(t, Answer("skipped", None)) /\ UNCHANGED <<on, stage, result>>

Joins(t, r) ==
  /\ on /\ r \in Unfinished
  /\ Answered(t, Answer("coalesced", r)) /\ UNCHANGED <<on, stage, result>>

Plans(t, r) ==
  on /\ Drafted(r) /\ Answered(t, Answer("created", r)) /\ UNCHANGED <<on, result>>

Requested(r) == Drafted(r) /\ UNCHANGED <<on, answer, result>>

Toggled == on' = ~on /\ UNCHANGED <<answer, stage, result>>

RowMoves(r) ==
  \/ stage'[r] = stage[r]
  \/ stage[r] = "pending" /\ stage'[r] \in {"cancelled", "failed"}
  \/ stage[r] = "pending" /\ stage'[r] = "running" /\ result[r] # "none"
  \/ stage[r] = "running" /\ stage'[r] = result'[r] /\ result'[r] \in Verdicts

WorkflowMoves(r) ==
  \/ result'[r] = result[r]
  \/ result[r] = "none" /\ result'[r] = "running" /\ stage[r] # "absent"
  \/ result[r] = "running" /\ result'[r] \in Verdicts

\* A sweep or a pass of the executor concerns many runs.
Progress ==
  /\ stage' \in [Runs -> Stages] /\ result' \in [Runs -> Results]
  /\ \A r \in Runs : RowMoves(r) /\ WorkflowMoves(r)
  /\ UNCHANGED <<on, answer>>

ContractNext ==
  \/ Toggled \/ Progress
  \/ \E r \in Runs : Requested(r)
  \/ \E t \in Instants : Skips(t) \/ \E r \in Runs : Joins(t, r) \/ Plans(t, r)

ContractSpec == ContractInit /\ [][ContractNext]_contractVars
=============================================================================
