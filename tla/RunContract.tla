---------------------------- MODULE RunContract ----------------------------
(***************************************************************************)
(* What the workflow runtime promises about each run, without legs,        *)
(* ledgers, checkpoints or restarts:                                       *)
(*                                                                         *)
(*   absent -> working -> succeeded, degraded or failed, for good          *)
(*             working -> waiting -> working      with a consent           *)
(*                        waiting -> failed       without one              *)
(*                                                                         *)
(* A run calls a provider only while it works, for a gated step once and   *)
(* by its own consent.  A failed run has at most one successor, which pays *)
(* for nothing its predecessor had paid for unless a human consents to it. *)
(***************************************************************************)
EXTENDS Naturals

CONSTANTS Runs, Steps, None

VARIABLES
  gates,    \* the steps that need a consent
  stage,    \* where each run stands
  consent,  \* the steps of each run a human has approved
  calls,    \* provider calls for each step of each run
  after     \* the run each run continues

contractVars == <<gates, stage, consent, calls, after>>

Verdicts == {"succeeded", "degraded", "failed"}

ContractInit ==
  /\ gates \subseteq Steps
  /\ stage   = [r \in Runs |-> "absent"]
  /\ consent = [r \in Runs |-> {}]
  /\ calls   = [r \in Runs |-> [s \in Steps |-> 0]]
  /\ after   = [r \in Runs |-> None]

Moves(r, from, to) ==
  stage[r] = from /\ stage' = [stage EXCEPT ![r] = to]

Launched(r) ==
  /\ Moves(r, "absent", "working")
  /\ UNCHANGED <<consent, calls, after>>

Continued(r, p) ==
  /\ Moves(r, "absent", "working")
  /\ stage[p] = "failed" /\ \A q \in Runs : after[q] # p
  /\ after' = [after EXCEPT ![r] = p]
  /\ UNCHANGED <<consent, calls>>

Asked(r) ==
  /\ Moves(r, "working", "waiting") /\ consent[r] = {}
  /\ UNCHANGED <<consent, calls, after>>

Consented(r, s) ==
  /\ stage[r] = "waiting" /\ consent[r] = {}
  /\ consent' = [consent EXCEPT ![r] = {s}]
  /\ UNCHANGED <<stage, calls, after>>

Resumed(r) ==
  /\ Moves(r, "waiting", "working") /\ consent[r] # {}
  /\ UNCHANGED <<consent, calls, after>>

Called(r, s) ==
  /\ stage[r] = "working"
  /\ s \in gates => s \in consent[r] /\ calls[r][s] = 0
  /\ after[r] # None /\ consent[r] = {} => calls[after[r]][s] = 0
  /\ calls' = [calls EXCEPT ![r][s] = @ + 1]
  /\ UNCHANGED <<stage, consent, after>>

Ended(r) ==
  /\ \/ \E verdict \in Verdicts : Moves(r, "working", verdict)
     \/ Moves(r, "waiting", "failed") /\ consent[r] = {}
  /\ UNCHANGED <<consent, calls, after>>

ContractNext ==
  /\ gates' = gates
  /\ \E r \in Runs :
       \/ Launched(r) \/ Asked(r) \/ Resumed(r) \/ Ended(r)
       \/ \E p \in Runs : Continued(r, p)
       \/ \E s \in Steps : Consented(r, s) \/ Called(r, s)

ContractSpec == ContractInit /\ [][ContractNext]_contractVars
=============================================================================
