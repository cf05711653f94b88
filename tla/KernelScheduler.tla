--------------------------- MODULE KernelScheduler ---------------------------
(***************************************************************************)
(* The KernelScheduler of @consistency/kernel with the run and agent       *)
(* registries it owns: runs and agents are registered, agents are queued,  *)
(* admitted, yield, are suspended, end or are cancelled, singly, by        *)
(* subtree, with their run, or because their deadline passed.              *)
(*                                                                         *)
(* Every method is synchronous and its listeners only enqueue work, so     *)
(* each is one action; a method that throws changes nothing and is simply  *)
(* not enabled.  The five WAIT_* states are one.  No method suspends a     *)
(* run, and no caller outside the tests supplies a cause of its own, so    *)
(* both are left out.                                                      *)
(*                                                                         *)
(* #readyQueue is kept as the set of its members and, for each of them,    *)
(* the members in front of it.                                             *)
(*                                                                         *)
(* Bounds on the model: MaxTime on the clock and MaxDecisions on the       *)
(* cancel decisions of CancelAgentTree, which may find nothing to cancel.  *)
(***************************************************************************)
EXTENDS Integers, FiniteSets

CONSTANTS
  Runs, Agents,
  Parents,       \* the agents that others may be children of
  NoAgent,       \* parent === undefined
  NoDeadline,    \* deadline === undefined
  MaxRunning,    \* maxRunningAgents
  Priorities, Deadlines, MaxTime, MaxDecisions

ASSUME SchedulerAssumption ==
  /\ Runs # {}
  /\ IsFiniteSet(Agents)
  /\ Parents \subseteq Agents
  /\ NoAgent \notin Agents
  /\ NoDeadline \notin Int
  /\ MaxRunning \in Nat \ {0}
  /\ Priorities \subseteq Int /\ Priorities # {}
  /\ Deadlines \subseteq Nat
  /\ MaxTime \in Nat
  /\ MaxDecisions \in Nat

VARIABLES
  runState, runDeadline,
  runCause,       \* #runCancelCauses, 0 when there is none
  agentState, agentRun, priority, parent, agentDeadline,
  agentCause,     \* #agentCancelCauses, 0 when there is none
  queued,         \* the members of #readyQueue
  ahead,          \* ahead[a]: the members in front of a
  runningCount,   \* #runningCount
  decisions,      \* CANCEL_SEQUENCE
  now             \* the clock

runVars   == <<runState, runDeadline, runCause>>
attrVars  == <<agentRun, priority, parent, agentDeadline>>
queueVars == <<queued, ahead>>
vars      == <<runVars, agentState, attrVars, agentCause, queueVars,
               runningCount, decisions, now>>

TerminalStates == {"SUCCEEDED", "FAILED", "CANCELLED"}
RunStates      == {"absent", "CREATED", "ACTIVE"} \cup TerminalStates
AgentStates    == {"absent", "NEW", "READY", "RUNNING", "WAIT", "SUSPENDED"}
                    \cup TerminalStates

TypeOK ==
  /\ runState      \in [Runs -> RunStates]
  /\ runDeadline   \in [Runs -> Deadlines \cup {NoDeadline}]
  /\ runCause      \in [Runs -> Nat]
  /\ agentState    \in [Agents -> AgentStates]
  /\ agentRun      \in [Agents -> Runs]
  /\ priority      \in [Agents -> Priorities]
  /\ parent        \in [Agents -> Agents \cup {NoAgent}]
  /\ agentDeadline \in [Agents -> Deadlines \cup {NoDeadline}]
  /\ agentCause    \in [Agents -> Nat]
  /\ queued        \subseteq Agents
  /\ ahead         \in [Agents -> SUBSET Agents]
  /\ runningCount  \in Nat
  /\ decisions     \in Nat
  /\ now           \in Nat

Init ==
  /\ runState      = [r \in Runs |-> "absent"]
  /\ runDeadline   = [r \in Runs |-> NoDeadline]
  /\ runCause      = [r \in Runs |-> 0]
  /\ agentState    = [a \in Agents |-> "absent"]
  /\ agentRun      = [a \in Agents |-> CHOOSE r \in Runs : TRUE]
  /\ priority      = [a \in Agents |-> CHOOSE p \in Priorities : TRUE]
  /\ parent        = [a \in Agents |-> NoAgent]
  /\ agentDeadline = [a \in Agents |-> NoDeadline]
  /\ agentCause    = [a \in Agents |-> 0]
  /\ queued        = {}
  /\ ahead         = [a \in Agents |-> {}]
  /\ runningCount  = 0
  /\ decisions     = 0
  /\ now           = 0

Expired(d) == d # NoDeadline /\ now >= d
InRun(r)   == {a \in Agents : agentState[a] # "absent" /\ agentRun[a] = r}
Live(S)    == {a \in S : agentState[a] \notin TerminalStates}
Running    == {a \in Agents : agentState[a] = "RUNNING"}

-----------------------------------------------------------------------------
(* Runs.                                                                   *)

RegisterRun(r, d) ==
  /\ runState[r] = "absent"
  /\ ~Expired(d)
  /\ runState' = [runState EXCEPT ![r] = "CREATED"]
  /\ runDeadline' = [runDeadline EXCEPT ![r] = d]
  /\ UNCHANGED <<runCause, agentState, attrVars, agentCause, queueVars,
                 runningCount, decisions, now>>

MoveRun(r, from, to) ==
  /\ runState[r] = from
  /\ runState' = [runState EXCEPT ![r] = to]
  /\ UNCHANGED <<runDeadline, runCause, agentState, attrVars, agentCause,
                 queueVars, runningCount, decisions, now>>

ActivateRun(r) == MoveRun(r, "CREATED", "ACTIVE")

\* succeedRun and failRun pass a CREATED run on to the registry, whose table
\* refuses it.  Neither of them touches the agents of the run.
SucceedRun(r) == MoveRun(r, "ACTIVE", "SUCCEEDED")
FailRun(r)    == MoveRun(r, "ACTIVE", "FAILED")

-----------------------------------------------------------------------------
(* The ready queue.                                                        *)

Enqueue(a) ==
  /\ queued' = queued \cup {a}
  /\ ahead'  = [ahead EXCEPT ![a] = queued]

Dequeue(S) ==
  /\ queued' = queued \ S
  /\ ahead'  = [a \in Agents |-> IF a \in S THEN {} ELSE ahead[a] \ S]

SetState(a, to) == agentState' = [agentState EXCEPT ![a] = to]

-----------------------------------------------------------------------------
(* Agents.                                                                 *)

\* Mutant: no check of the run's state.
RegisterAgentAnytime(a, r, p, q, d) ==
  /\ agentState[a] = "absent"
  /\ runState[r] # "absent"
  /\ q # NoAgent => q \in InRun(r)
  /\ ~Expired(d)
  /\ SetState(a, "NEW")
  /\ agentRun'      = [agentRun EXCEPT ![a] = r]
  /\ priority'      = [priority EXCEPT ![a] = p]
  /\ parent'        = [parent EXCEPT ![a] = q]
  /\ agentDeadline' = [agentDeadline EXCEPT ![a] = d]
  /\ UNCHANGED <<runVars, agentCause, queueVars, runningCount, decisions, now>>

\* The parent q must be an agent of the same run, in whatever state it is.
RegisterAgent(a, r, p, q, d) ==
  /\ agentState[a] = "absent"
  /\ runState[r] \notin {"absent"} \cup TerminalStates
  /\ q # NoAgent => q \in InRun(r)
  /\ ~Expired(d)
  /\ SetState(a, "NEW")
  /\ agentRun'      = [agentRun EXCEPT ![a] = r]
  /\ priority'      = [priority EXCEPT ![a] = p]
  /\ parent'        = [parent EXCEPT ![a] = q]
  /\ agentDeadline' = [agentDeadline EXCEPT ![a] = d]
  /\ UNCHANGED <<runVars, agentCause, queueVars, runningCount, decisions, now>>

\* ready, wake and resumeAgent: back to READY and to the end of the queue.
Requeue(a, from) ==
  /\ agentState[a] = from
  /\ SetState(a, "READY")
  /\ Enqueue(a)
  /\ UNCHANGED <<runVars, attrVars, agentCause, runningCount, decisions, now>>

Ready(a)       == Requeue(a, "NEW")
Wake(a)        == Requeue(a, "WAIT")
ResumeAgent(a) == Requeue(a, "SUSPENDED")

\* wait and succeedAgent: a RUNNING agent gives its slot back.
Leave(a, to) ==
  /\ agentState[a] = "RUNNING"
  /\ SetState(a, to)
  /\ runningCount' = runningCount - 1
  /\ UNCHANGED <<runVars, attrVars, agentCause, queueVars, decisions, now>>

Wait(a)         == Leave(a, "WAIT")
SucceedAgent(a) == Leave(a, "SUCCEEDED")

\* suspendAgent and failAgent take an agent out of the queue or off its slot.
Withdraw(a, to) ==
  /\ SetState(a, to)
  /\ Dequeue({a})
  /\ runningCount' = IF agentState[a] = "RUNNING" THEN runningCount - 1 ELSE runningCount
  /\ UNCHANGED <<runVars, attrVars, agentCause, decisions, now>>

\* Mutant: the suspended agent stays in the queue.
SuspendAgentQueued(a) ==
  /\ agentState[a] \in {"READY", "RUNNING", "WAIT"}
  /\ SetState(a, "SUSPENDED")
  /\ runningCount' = IF agentState[a] = "RUNNING" THEN runningCount - 1 ELSE runningCount
  /\ UNCHANGED <<runVars, attrVars, agentCause, queueVars, decisions, now>>

SuspendAgent(a) ==
  /\ agentState[a] \in {"READY", "RUNNING", "WAIT"}
  /\ Withdraw(a, "SUSPENDED")

\* Mutant: the slot of a failed agent is not given back.
FailAgentKeepsSlot(a) ==
  /\ agentState[a] \notin {"absent"} \cup TerminalStates
  /\ SetState(a, "FAILED")
  /\ Dequeue({a})
  /\ UNCHANGED <<runVars, attrVars, agentCause, runningCount, decisions, now>>

FailAgent(a) ==
  /\ agentState[a] \notin {"absent"} \cup TerminalStates
  /\ Withdraw(a, "FAILED")

-----------------------------------------------------------------------------
(* Cancellation.                                                           *)

\* Mutant: the sequence is not advanced.
CancelTogetherStale(S) ==
  /\ agentState' = [a \in Agents |-> IF a \in S THEN "CANCELLED" ELSE agentState[a]]
  /\ agentCause' = [a \in Agents |-> IF a \in S THEN decisions + 1 ELSE agentCause[a]]
  /\ Dequeue(S)
  /\ runningCount' = runningCount - Cardinality(S \cap Running)
  /\ UNCHANGED <<attrVars, decisions, now>>

\* One decision cancels the agents of S, all of them live, with one cause:
\* the next of the sequence.
CancelTogether(S) ==
  /\ agentState' = [a \in Agents |-> IF a \in S THEN "CANCELLED" ELSE agentState[a]]
  /\ agentCause' = [a \in Agents |-> IF a \in S THEN decisions + 1 ELSE agentCause[a]]
  /\ Dequeue(S)
  /\ runningCount' = runningCount - Cardinality(S \cap Running)
  /\ decisions' = decisions + 1
  /\ UNCHANGED <<attrVars, now>>

CancelRun(r) ==
  /\ runState[r] \notin {"absent"} \cup TerminalStates
  /\ runState' = [runState EXCEPT ![r] = "CANCELLED"]
  /\ runCause' = [runCause EXCEPT ![r] = decisions + 1]
  /\ CancelTogether(Live(InRun(r)))
  /\ UNCHANGED runDeadline

CancelAgent(a) ==
  /\ agentState[a] \notin {"absent"} \cup TerminalStates
  /\ CancelTogether({a})
  /\ UNCHANGED runVars

\* The agents the walk over children reaches from a: the least set that has
\* a in it and the children of its members.
Subtree(a) ==
  {b \in Agents :
     \A S \in SUBSET Agents :
       a \in S /\ (\A c \in Agents : parent[c] \in S => c \in S) => b \in S}

\* The walk passes through members that have ended, but leaves them alone.
\* It allocates a cause even when there is nothing to cancel.
CancelAgentTree(a) ==
  /\ agentState[a] # "absent"
  /\ decisions < MaxDecisions
  /\ CancelTogether(Live(Subtree(a)))
  /\ UNCHANGED runVars

-----------------------------------------------------------------------------
(* Admission.                                                              *)

\* Mutant: the deadline itself is still in time.
OverdueLate ==
  {a \in queued :
     /\ runState[agentRun[a]] = "ACTIVE"
     /\ LET d == IF agentDeadline[a] # NoDeadline THEN agentDeadline[a]
                 ELSE runDeadline[agentRun[a]]
        IN d # NoDeadline /\ now > d}

\* Pass 1: an agent's own deadline, if it has one, replaces its run's.
Overdue ==
  {a \in queued :
     /\ runState[agentRun[a]] = "ACTIVE"
     /\ Expired(IF agentDeadline[a] # NoDeadline THEN agentDeadline[a]
                ELSE runDeadline[agentRun[a]])}

Candidates == {a \in queued \ Overdue : runState[agentRun[a]] = "ACTIVE"}

\* Mutant: >= in the comparison of priorities.
LastBest(a) ==
  /\ a \in Candidates
  /\ \A b \in Candidates : priority[b] <= priority[a]
  /\ \A b \in Candidates : priority[b] = priority[a] => b = a \/ b \in ahead[a]

\* Pass 3: the highest priority, the first in the queue among equals.
Best(a) ==
  /\ a \in Candidates
  /\ \A b \in Candidates : priority[b] <= priority[a]
  /\ \A b \in Candidates \cap ahead[a] : priority[b] < priority[a]

\* The agent admitted by this call: at most one.
Admitted == IF runningCount < MaxRunning THEN {a \in Candidates : Best(a)} ELSE {}

\* admit(): every overdue agent is cancelled by a decision of its own, in
\* queue order, also when the limit then admits nobody.
Admit ==
  /\ Overdue \cup Admitted # {}
  /\ agentState' = [a \in Agents |-> IF a \in Overdue THEN "CANCELLED"
                                     ELSE IF a \in Admitted THEN "RUNNING"
                                     ELSE agentState[a]]
  /\ agentCause' = [a \in Agents |->
       IF a \in Overdue THEN decisions + 1 + Cardinality(ahead[a] \cap Overdue)
       ELSE agentCause[a]]
  /\ Dequeue(Overdue \cup Admitted)
  /\ runningCount' = runningCount + Cardinality(Admitted)
  /\ decisions' = decisions + Cardinality(Overdue)
  /\ UNCHANGED <<runVars, attrVars, now>>

Tick ==
  /\ now < MaxTime
  /\ now' = now + 1
  /\ UNCHANGED <<runVars, agentState, attrVars, agentCause, queueVars,
                 runningCount, decisions>>

RunStep(r) ==
  \/ \E d \in Deadlines \cup {NoDeadline} : RegisterRun(r, d)
  \/ ActivateRun(r)
  \/ SucceedRun(r)
  \/ FailRun(r)
  \/ CancelRun(r)

AgentStep(a) ==
  \/ \E r \in Runs, p \in Priorities, q \in Parents \cup {NoAgent},
        d \in Deadlines \cup {NoDeadline} : RegisterAgent(a, r, p, q, d)
  \/ Ready(a)
  \/ Wait(a)
  \/ Wake(a)
  \/ SuspendAgent(a)
  \/ ResumeAgent(a)
  \/ SucceedAgent(a)
  \/ FailAgent(a)
  \/ CancelAgent(a)
  \/ CancelAgentTree(a)

Next ==
  \/ \E r \in Runs : RunStep(r)
  \/ \E a \in Agents : AgentStep(a)
  \/ Admit
  \/ Tick

Spec == Init /\ [][Next]_vars

-----------------------------------------------------------------------------
(* Properties.                                                             *)

\* ahead is one strict order on the members of the queue.
QueueOrder ==
  /\ \A a \in Agents : ahead[a] \subseteq queued /\ (a \notin queued => ahead[a] = {})
  /\ \A a, b \in queued : a # b => (a \in ahead[b] <=> b \notin ahead[a])
  /\ \A a \in queued : a \notin ahead[a]
  /\ \A a, b, c \in queued : a \in ahead[b] /\ b \in ahead[c] => a \in ahead[c]

\* The queue and the states are changed by different statements of every
\* method; they agree: exactly the READY agents are queued, each in one
\* place of one order.
QueueIsReady ==
  /\ queued = {a \in Agents : agentState[a] = "READY"}
  /\ QueueOrder

\* No slot is lost or given back twice, whichever of the seven ways an agent
\* leaves RUNNING, and the limit holds.
CapacityAccounted ==
  /\ runningCount = Cardinality(Running)
  /\ runningCount <= MaxRunning

\* A cancelled run has no agent that could still act, and none joins it.
CancelledRunIsDead ==
  \A r \in Runs : runState[r] = "CANCELLED" => Live(InRun(r)) = {}

\* One cancel decision, one cause: an agent has a cause exactly when it is
\* cancelled, and two agents with the same one were cancelled together, with
\* their run or with an ancestor of both.
CauseIsOneDecision ==
  /\ \A a \in Agents : agentCause[a] # 0 <=> agentState[a] = "CANCELLED"
  /\ \A r \in Runs : runCause[r] # 0 <=> runState[r] = "CANCELLED"
  /\ \A a, b \in Agents :
       a # b /\ agentCause[a] # 0 /\ agentCause[a] = agentCause[b] =>
         \/ agentRun[a] = agentRun[b] /\ runCause[agentRun[a]] = agentCause[a]
         \/ \E c \in Agents : a \in Subtree(c) /\ b \in Subtree(c)

\* Terminal states have no exits, and a cause once recorded is never
\* rewritten, by a later cancel, a deadline or the end of the run.
TerminalIsFinal ==
  [][/\ \A a \in Agents : agentState[a] \in TerminalStates =>
          agentState'[a] = agentState[a] /\ agentCause'[a] = agentCause[a]
     /\ \A r \in Runs : runState[r] \in TerminalStates =>
          runState'[r] = runState[r] /\ runCause'[r] = runCause[r]]_vars

\* An agent starts only in an active run, before its own deadline, and before
\* its run's when it has none of its own.
NoLateAdmission ==
  [][\A a \in Agents :
       agentState[a] # "RUNNING" /\ agentState'[a] = "RUNNING" =>
         /\ runState[agentRun[a]] = "ACTIVE"
         /\ ~Expired(agentDeadline[a])
         /\ agentDeadline[a] = NoDeadline => ~Expired(runDeadline[agentRun[a]])]_vars

\* FIFO among equals: nobody is overtaken in the queue except by a higher
\* priority, unless its run is not active or its deadline passed.
NoOvertaking ==
  [][\A a, b \in Agents :
       agentState[a] = "READY" /\ agentState'[a] = "RUNNING" /\ b \in ahead[a] =>
         \/ priority[b] < priority[a]
         \/ runState[agentRun[b]] # "ACTIVE"
         \/ agentState'[b] = "CANCELLED"]_vars

\* AGENT_TRANSITIONS, by the states an agent can come from.
AgentTransitions ==
  {<<"absent", "NEW">>, <<"NEW", "READY">>, <<"READY", "RUNNING">>,
   <<"RUNNING", "WAIT">>, <<"WAIT", "READY">>, <<"SUSPENDED", "READY">>,
   <<"RUNNING", "SUCCEEDED">>}
    \cup {"READY", "RUNNING", "WAIT"} \X {"SUSPENDED"}
    \cup {"NEW", "READY", "RUNNING", "WAIT", "SUSPENDED"} \X {"FAILED", "CANCELLED"}

\* The registry refuses a transition that its table does not list, by which
\* time a method has already changed the queue or recorded a cause.  No
\* method ever asks for one.
MovesFollowTable ==
  [][\A a \in Agents : agentState'[a] # agentState[a] =>
       <<agentState[a], agentState'[a]>> \in AgentTransitions]_vars

\* What the header of the scheduler says: an expired agent or run is never
\* admitted.  An agent with a deadline of its own is, after its run's.
NoAdmissionPastRunDeadline ==
  [][\A a \in Agents :
       agentState[a] # "RUNNING" /\ agentState'[a] = "RUNNING" =>
         ~Expired(runDeadline[agentRun[a]])]_vars
=============================================================================
