--------------------------- MODULE MCWorkflowRun ---------------------------
EXTENDS WorkflowRun, TLC

Plan(second, third, thirdDeps, gates, conditional, width) ==
  [kind |-> <<"analyzer", second, third>>,
   deps |-> <<{}, {1}, thirdDeps>>,
   gates |-> gates, conditional |-> conditional, width |-> width]

\* A model call behind a gate; two gates in one run; two branches at once.
GatedPlan    == Plan("llm", "verifier", {2}, {2}, {}, 2)
TwoGatesPlan == Plan("llm", "verifier", {2}, {2, 3}, {}, 1)
BranchPlan   == Plan("llm", "verifier", {1}, {}, {3}, 2)
MixedPlans   == {GatedPlan, TwoGatesPlan, BranchPlan}

\* A model call, then a gate on the step after it.
LateGatePlan == Plan("llm", "verifier", {2}, {3}, {}, 1)
LateGate     == {LateGatePlan}

\* A model call after a deterministic step, no gate.
ChainPlans   == {Plan("llm", "verifier", {2}, {}, {}, 1)}
=============================================================================
