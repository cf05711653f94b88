--------------------------- MODULE SchedulerProofs ---------------------------
(***************************************************************************)
(* Theorems about KernelScheduler, for any finite set of agents, any set   *)
(* of runs and any bounds.  The slots are accounted for only because the   *)
(* queue holds nothing but READY agents, and the queue does only because   *)
(* every method leaves it in step with the states; SchedInv proves both    *)
(* with the types, one kind of step at a time.                             *)
(***************************************************************************)
EXTENDS KernelScheduler, FiniteSetTheorems, TLAPS

SchedInv == TypeOK /\ QueueIsReady /\ CapacityAccounted

-----------------------------------------------------------------------------
(* Counting slots.                                                         *)

LEMMA AgentSetsFinite ==
  ASSUME NEW S \in SUBSET Agents
  PROVE  IsFiniteSet(S) /\ Cardinality(S) \in Nat
<1>1. IsFiniteSet(Agents)
  BY SchedulerAssumption DEF SchedulerAssumption
<1>2. IsFiniteSet(S)
  BY <1>1, FS_Subset
<1> QED BY <1>2, FS_CardinalityType

\* What leaves a set is subtracted from its size.
LEMMA CountWithout ==
  ASSUME NEW S \in SUBSET Agents, NEW T \in SUBSET Agents
  PROVE  /\ Cardinality(S \ T) = Cardinality(S) - Cardinality(T \cap S)
         /\ Cardinality(T \cap S) <= Cardinality(S)
<1>1. IsFiniteSet(S) /\ IsFiniteSet(T)
  BY AgentSetsFinite
<1>2. S \cap T = T \cap S /\ T \cap S \in SUBSET S
  OBVIOUS
<1>3. Cardinality(S \ T) = Cardinality(S) - Cardinality(S \cap T)
  BY <1>1, FS_Difference
<1>4. Cardinality(T \cap S) <= Cardinality(S)
  BY <1>1, <1>2, FS_Subset
<1> QED BY <1>2, <1>3, <1>4

LEMMA CountWith ==
  ASSUME NEW S \in SUBSET Agents, NEW a \in Agents \ S
  PROVE  Cardinality(S \cup {a}) = Cardinality(S) + 1
BY AgentSetsFinite, FS_AddElement

\* Agents that leave RUNNING give their slots back.
LEMMA SlotsReturned ==
  ASSUME TypeOK, CapacityAccounted, NEW S \in SUBSET Agents,
         Running' = Running \ S,
         runningCount' = runningCount - Cardinality(S \cap Running)
  PROVE  CapacityAccounted' /\ runningCount' \in Nat
<1>1. Running \in SUBSET Agents /\ Running' \in SUBSET Agents
  BY DEF Running
<1>2. Cardinality(Running') = Cardinality(Running) - Cardinality(S \cap Running)
  BY <1>1, CountWithout
<1>3. /\ Cardinality(Running) \in Nat /\ Cardinality(Running') \in Nat
      /\ Cardinality(S \cap Running) \in Nat
  BY <1>1, AgentSetsFinite
<1>4. MaxRunning \in Nat
  BY SchedulerAssumption DEF SchedulerAssumption
<1> QED BY <1>2, <1>3, <1>4 DEF CapacityAccounted

LEMMA SlotsKept ==
  ASSUME CapacityAccounted, Running' = Running, runningCount' = runningCount
  PROVE  CapacityAccounted'
BY DEF CapacityAccounted

-----------------------------------------------------------------------------
(* The queue.                                                              *)

LEMMA DequeueKeepsOrder ==
  ASSUME TypeOK, QueueOrder, NEW S \in SUBSET Agents, Dequeue(S)
  PROVE  /\ QueueOrder'
         /\ queued' \subseteq Agents
         /\ ahead' \in [Agents -> SUBSET Agents]
BY DEF TypeOK, QueueOrder, Dequeue

LEMMA EnqueueKeepsOrder ==
  ASSUME TypeOK, QueueOrder, NEW a \in Agents \ queued, Enqueue(a)
  PROVE  /\ QueueOrder'
         /\ queued' \subseteq Agents
         /\ ahead' \in [Agents -> SUBSET Agents]
<1>1. /\ queued' = queued \cup {a}
      /\ ahead'[a] = queued
      /\ \A b \in Agents : b # a => ahead'[b] = ahead[b]
      /\ ahead' \in [Agents -> SUBSET Agents]
  BY DEF TypeOK, Enqueue
<1>2. \A b \in Agents : ahead'[b] \subseteq queued' /\ (b \notin queued' => ahead'[b] = {})
  BY <1>1 DEF QueueOrder
<1>3. \A b, c \in queued' : b # c => (b \in ahead'[c] <=> c \notin ahead'[b])
  BY <1>1 DEF QueueOrder, TypeOK
<1>4. \A b \in queued' : b \notin ahead'[b]
  BY <1>1 DEF QueueOrder, TypeOK
<1>5. \A b, c, d \in queued' : b \in ahead'[c] /\ c \in ahead'[d] => b \in ahead'[d]
  BY <1>1 DEF QueueOrder, TypeOK
<1> QED BY <1>1, <1>2, <1>3, <1>4, <1>5 DEF QueueOrder, TypeOK

-----------------------------------------------------------------------------
(* One lemma for each kind of step.                                        *)

\* Steps that leave the agents alone.
LEMMA RunStepSafe ==
  ASSUME SchedInv,
         \/ \E r \in Runs, d \in Deadlines \cup {NoDeadline} : RegisterRun(r, d)
         \/ \E r \in Runs : ActivateRun(r) \/ SucceedRun(r) \/ FailRun(r)
         \/ Tick
         \/ UNCHANGED vars
  PROVE  SchedInv'
<1>1. UNCHANGED <<agentState, attrVars, agentCause, queueVars, runningCount, decisions, runCause>>
  BY DEF RegisterRun, ActivateRun, SucceedRun, FailRun, MoveRun, Tick, vars, runVars
<1>2. runState' \in [Runs -> RunStates] /\ runDeadline' \in [Runs -> Deadlines \cup {NoDeadline}]
  BY DEF SchedInv, TypeOK, RegisterRun, ActivateRun, SucceedRun, FailRun, MoveRun, Tick,
     vars, runVars, RunStates, TerminalStates
<1>3. now' \in Nat
  BY DEF SchedInv, TypeOK, RegisterRun, ActivateRun, SucceedRun, FailRun, MoveRun, Tick, vars
<1> QED BY <1>1, <1>2, <1>3 DEF SchedInv, TypeOK, QueueIsReady, QueueOrder,
          CapacityAccounted, Running, attrVars, queueVars

LEMMA RegisterAgentSafe ==
  ASSUME SchedInv, NEW a \in Agents, NEW r \in Runs, NEW p \in Priorities,
         NEW q \in Parents \cup {NoAgent}, NEW d \in Deadlines \cup {NoDeadline},
         RegisterAgent(a, r, p, q, d)
  PROVE  SchedInv'
<1>1. q \in Agents \cup {NoAgent}
  BY SchedulerAssumption DEF SchedulerAssumption
<1>2. /\ agentState' \in [Agents -> AgentStates]
      /\ \A b \in Agents : b # a => agentState'[b] = agentState[b]
      /\ agentState[a] = "absent" /\ agentState'[a] = "NEW"
  BY DEF SchedInv, TypeOK, RegisterAgent, SetState, AgentStates
<1>3. TypeOK'
  BY <1>1, <1>2 DEF SchedInv, TypeOK, RegisterAgent, runVars, queueVars
<1>4. {b \in Agents : agentState'[b] = "READY"} = {b \in Agents : agentState[b] = "READY"}
  BY <1>2
<1>5. Running' = Running
  BY <1>2 DEF Running
<1> QED BY <1>3, <1>4, <1>5, SlotsKept
        DEF SchedInv, RegisterAgent, QueueIsReady, QueueOrder, queueVars

LEMMA RequeueSafe ==
  ASSUME SchedInv, NEW a \in Agents, NEW from \in {"NEW", "WAIT", "SUSPENDED"},
         Requeue(a, from)
  PROVE  SchedInv'
<1>1. /\ agentState' \in [Agents -> AgentStates]
      /\ \A b \in Agents : b # a => agentState'[b] = agentState[b]
      /\ agentState[a] = from /\ agentState'[a] = "READY"
  BY DEF SchedInv, TypeOK, Requeue, SetState, AgentStates
<1>2. a \notin queued
  BY <1>1 DEF SchedInv, QueueIsReady
<1>3. QueueOrder' /\ queued' \subseteq Agents /\ ahead' \in [Agents -> SUBSET Agents]
  BY <1>2, EnqueueKeepsOrder DEF SchedInv, QueueIsReady, Requeue
<1>4. queued' = {b \in Agents : agentState'[b] = "READY"}
  BY <1>1 DEF SchedInv, QueueIsReady, Requeue, Enqueue
<1>5. Running' = Running
  BY <1>1 DEF Running
<1>6. TypeOK'
  BY <1>1, <1>3 DEF SchedInv, TypeOK, Requeue, runVars, attrVars
<1> QED BY <1>3, <1>4, <1>5, <1>6, SlotsKept DEF SchedInv, Requeue, QueueIsReady

LEMMA LeaveSafe ==
  ASSUME SchedInv, NEW a \in Agents, NEW to \in {"WAIT", "SUCCEEDED"}, Leave(a, to)
  PROVE  SchedInv'
<1>1. /\ agentState' \in [Agents -> AgentStates]
      /\ \A b \in Agents : b # a => agentState'[b] = agentState[b]
      /\ agentState[a] = "RUNNING" /\ agentState'[a] = to
  BY DEF SchedInv, TypeOK, Leave, SetState, AgentStates, TerminalStates
<1>2. {b \in Agents : agentState'[b] = "READY"} = {b \in Agents : agentState[b] = "READY"}
  BY <1>1
<1>3. Running' = Running \ {a} /\ {a} \cap Running = {a}
  BY <1>1 DEF Running
<1>4. runningCount' = runningCount - Cardinality({a} \cap Running)
  BY <1>3, FS_Singleton DEF Leave
<1>5. CapacityAccounted' /\ runningCount' \in Nat
  BY <1>3, <1>4, SlotsReturned DEF SchedInv
<1>6. TypeOK'
  BY <1>1, <1>5 DEF SchedInv, TypeOK, Leave, runVars, attrVars, queueVars
<1> QED BY <1>2, <1>5, <1>6 DEF SchedInv, Leave, QueueIsReady, QueueOrder, queueVars

LEMMA WithdrawSafe ==
  ASSUME SchedInv, NEW a \in Agents, NEW to \in {"SUSPENDED", "FAILED"}, Withdraw(a, to)
  PROVE  SchedInv'
<1>1. /\ agentState' \in [Agents -> AgentStates]
      /\ \A b \in Agents : b # a => agentState'[b] = agentState[b]
      /\ agentState'[a] = to
  BY DEF SchedInv, TypeOK, Withdraw, SetState, AgentStates, TerminalStates
<1>2. QueueOrder' /\ queued' \subseteq Agents /\ ahead' \in [Agents -> SUBSET Agents]
  BY DequeueKeepsOrder DEF SchedInv, QueueIsReady, Withdraw
<1>3. queued' = {b \in Agents : agentState'[b] = "READY"}
  BY <1>1 DEF SchedInv, QueueIsReady, Withdraw, Dequeue
<1>4. Running' = Running \ {a}
  BY <1>1 DEF Running
<1>5. runningCount' = runningCount - Cardinality({a} \cap Running)
  <2>1. CASE agentState[a] = "RUNNING"
    <3>1. {a} \cap Running = {a}
      BY <2>1 DEF Running
    <3> QED BY <2>1, <3>1, FS_Singleton DEF Withdraw
  <2>2. CASE agentState[a] # "RUNNING"
    <3>1. {a} \cap Running = {}
      BY <2>2 DEF Running
    <3>2. Cardinality({a} \cap Running) = 0
      BY <3>1, FS_EmptySet
    <3>3. runningCount' = runningCount /\ runningCount \in Nat
      BY <2>2 DEF Withdraw, SchedInv, TypeOK
    <3> QED BY <3>2, <3>3
  <2> QED BY <2>1, <2>2
<1>6. CapacityAccounted' /\ runningCount' \in Nat
  BY <1>4, <1>5, SlotsReturned DEF SchedInv
<1>7. TypeOK'
  BY <1>1, <1>2, <1>6 DEF SchedInv, TypeOK, Withdraw, runVars, attrVars
<1> QED BY <1>2, <1>3, <1>6, <1>7 DEF SchedInv, QueueIsReady

LEMMA CancelSafe ==
  ASSUME SchedInv, NEW S \in SUBSET Agents, CancelTogether(S),
         runState' \in [Runs -> RunStates], runCause' \in [Runs -> Nat],
         UNCHANGED runDeadline
  PROVE  SchedInv'
<1>1. /\ agentState' \in [Agents -> AgentStates]
      /\ \A b \in Agents : agentState'[b] = IF b \in S THEN "CANCELLED" ELSE agentState[b]
  BY DEF SchedInv, TypeOK, CancelTogether, AgentStates, TerminalStates
<1>2. QueueOrder' /\ queued' \subseteq Agents /\ ahead' \in [Agents -> SUBSET Agents]
  BY DequeueKeepsOrder DEF SchedInv, QueueIsReady, CancelTogether
<1>3. queued' = {b \in Agents : agentState'[b] = "READY"}
  BY <1>1 DEF SchedInv, QueueIsReady, CancelTogether, Dequeue
<1>4. Running' = Running \ S
  BY <1>1 DEF Running
<1>5. CapacityAccounted' /\ runningCount' \in Nat
  BY <1>4, SlotsReturned DEF SchedInv, CancelTogether
<1>6. TypeOK'
  BY <1>1, <1>2, <1>5 DEF SchedInv, TypeOK, CancelTogether, attrVars
<1> QED BY <1>2, <1>3, <1>5, <1>6 DEF SchedInv, QueueIsReady

\* Admission takes at most one agent, and none that holds a slot.
LEMMA AdmittedAtMostOne ==
  ASSUME SchedInv, NEW a \in Admitted
  PROVE  Admitted = {a} /\ a \in queued \ Overdue /\ runningCount < MaxRunning
<1>1. runningCount < MaxRunning /\ Admitted = {b \in Candidates : Best(b)}
  BY DEF Admitted
<1>2. a \in queued \ Overdue
  BY <1>1 DEF Candidates
<1>3. ASSUME NEW b \in Admitted, b # a PROVE FALSE
  <2>1. b \in Candidates /\ a \in Candidates /\ Best(a) /\ Best(b)
    BY <1>1, <1>3
  <2>2. a \in queued /\ b \in queued
    BY <2>1 DEF Candidates
  <2>3. a \in ahead[b] \/ b \in ahead[a]
    BY <1>3, <2>2 DEF SchedInv, QueueIsReady, QueueOrder
  <2>4. priority[a] \in Int /\ priority[b] \in Int
    BY <2>2, SchedulerAssumption DEF SchedInv, TypeOK, SchedulerAssumption
  <2> QED BY <2>1, <2>3, <2>4 DEF Best
<1> QED BY <1>1, <1>2, <1>3

LEMMA AdmitSafe ==
  ASSUME SchedInv, Admit
  PROVE  SchedInv'
<1>1. Overdue \subseteq queued /\ Admitted \subseteq queued /\ queued \subseteq Agents
  BY DEF Overdue, Admitted, Candidates, SchedInv, TypeOK
<1>2. \A b \in Agents : agentState'[b] = IF b \in Overdue THEN "CANCELLED"
                                         ELSE IF b \in Admitted THEN "RUNNING"
                                         ELSE agentState[b]
  BY DEF Admit
<1>3. agentState' \in [Agents -> AgentStates]
  BY DEF Admit, SchedInv, TypeOK, AgentStates, TerminalStates
<1>4. QueueOrder' /\ queued' \subseteq Agents /\ ahead' \in [Agents -> SUBSET Agents]
  BY <1>1, DequeueKeepsOrder DEF SchedInv, QueueIsReady, Admit
<1>5. queued' = {b \in Agents : agentState'[b] = "READY"}
  BY <1>1, <1>2 DEF SchedInv, QueueIsReady, Admit, Dequeue
<1>6. \A b \in queued : agentState[b] = "READY" /\ b \notin Running
  BY DEF SchedInv, QueueIsReady, Running
<1>7. CapacityAccounted' /\ runningCount' \in Nat
  <2>1. CASE Admitted = {}
    <3>1. Running' = Running
      BY <1>1, <1>2, <1>6, <2>1 DEF Running
    <3>2. runningCount' = runningCount
      BY <2>1, FS_EmptySet DEF Admit, SchedInv, TypeOK
    <3> QED BY <3>1, <3>2, SlotsKept DEF SchedInv, TypeOK
  <2>2. ASSUME NEW a \in Admitted PROVE CapacityAccounted' /\ runningCount' \in Nat
    <3>1. Admitted = {a} /\ a \in queued \ Overdue /\ runningCount < MaxRunning
      BY AdmittedAtMostOne
    <3>2. Running' = Running \cup {a} /\ a \in Agents \ Running /\ Running \in SUBSET Agents
      BY <1>1, <1>2, <1>6, <3>1 DEF Running
    <3>3. Cardinality(Running') = Cardinality(Running) + 1
      BY <3>2, CountWith
    <3>4. runningCount' = runningCount + 1
      BY <3>1, FS_Singleton DEF Admit
    <3>5. runningCount \in Nat /\ MaxRunning \in Nat
      BY SchedulerAssumption DEF SchedInv, TypeOK, SchedulerAssumption
    <3> QED BY <3>1, <3>3, <3>4, <3>5 DEF SchedInv, CapacityAccounted
  <2> QED BY <2>1, <2>2
<1>8. agentCause' \in [Agents -> Nat] /\ decisions' \in Nat
  <2>1. \A a \in Agents : Cardinality(ahead[a] \cap Overdue) \in Nat
    <3> SUFFICES ASSUME NEW a \in Agents PROVE Cardinality(ahead[a] \cap Overdue) \in Nat
      OBVIOUS
    <3>1. ahead[a] \cap Overdue \in SUBSET Agents
      BY <1>1
    <3> QED BY <3>1, AgentSetsFinite
  <2>2. Cardinality(Overdue) \in Nat
    BY <1>1, AgentSetsFinite
  <2> QED BY <2>1, <2>2 DEF Admit, SchedInv, TypeOK
<1>9. TypeOK'
  BY <1>3, <1>4, <1>7, <1>8 DEF SchedInv, TypeOK, Admit, runVars, attrVars
<1> QED BY <1>4, <1>5, <1>7, <1>9 DEF SchedInv, QueueIsReady

-----------------------------------------------------------------------------

LEMMA SchedInit == Init => SchedInv
<1> SUFFICES ASSUME Init PROVE SchedInv
  OBVIOUS
<1>1. (CHOOSE r \in Runs : TRUE) \in Runs /\ (CHOOSE p \in Priorities : TRUE) \in Priorities
  BY SchedulerAssumption DEF SchedulerAssumption
<1>2. TypeOK
  BY <1>1 DEF Init, TypeOK, RunStates, AgentStates
<1>3. QueueIsReady
  BY DEF Init, QueueIsReady, QueueOrder
<1>4. Running = {}
  BY DEF Init, Running
<1>5. MaxRunning \in Nat
  BY SchedulerAssumption DEF SchedulerAssumption
<1> QED BY <1>2, <1>3, <1>4, <1>5, FS_EmptySet DEF Init, CapacityAccounted, SchedInv

LEMMA AgentStepSafe ==
  ASSUME SchedInv, NEW a \in Agents, AgentStep(a)
  PROVE  SchedInv'
<1>1. ASSUME NEW r \in Runs, NEW p \in Priorities, NEW q \in Parents \cup {NoAgent},
             NEW d \in Deadlines \cup {NoDeadline}, RegisterAgent(a, r, p, q, d)
      PROVE  SchedInv'
  BY <1>1, RegisterAgentSafe
<1>2. CASE Ready(a) \/ Wake(a) \/ ResumeAgent(a)
  BY <1>2, RequeueSafe DEF Ready, Wake, ResumeAgent
<1>3. CASE Wait(a) \/ SucceedAgent(a)
  BY <1>3, LeaveSafe DEF Wait, SucceedAgent
<1>4. CASE SuspendAgent(a) \/ FailAgent(a)
  BY <1>4, WithdrawSafe DEF SuspendAgent, FailAgent
<1>5. CASE CancelAgent(a) \/ CancelAgentTree(a)
  <2>1. {a} \in SUBSET Agents /\ Live(Subtree(a)) \in SUBSET Agents
    BY DEF Live, Subtree
  <2>2. UNCHANGED runVars
    BY <1>5 DEF CancelAgent, CancelAgentTree
  <2>3. PICK S \in SUBSET Agents : CancelTogether(S)
    BY <1>5, <2>1 DEF CancelAgent, CancelAgentTree
  <2> QED BY <2>2, <2>3, CancelSafe DEF SchedInv, TypeOK, runVars
<1> QED BY <1>1, <1>2, <1>3, <1>4, <1>5 DEF AgentStep

LEMMA SchedNext == SchedInv /\ [Next]_vars => SchedInv'
<1> SUFFICES ASSUME SchedInv, [Next]_vars PROVE SchedInv'
  OBVIOUS
<1>1. ASSUME NEW r \in Runs, CancelRun(r) PROVE SchedInv'
  <2>1. Live(InRun(r)) \in SUBSET Agents
    BY DEF Live, InRun
  <2>2. runState' \in [Runs -> RunStates] /\ runCause' \in [Runs -> Nat]
    BY <1>1 DEF CancelRun, SchedInv, TypeOK, RunStates, TerminalStates
  <2> QED BY <1>1, <2>1, <2>2, CancelSafe DEF CancelRun
<1>2. ASSUME NEW a \in Agents, AgentStep(a) PROVE SchedInv'
  BY <1>2, AgentStepSafe
<1>3. CASE Admit
  BY <1>3, AdmitSafe
<1>4. CASE \/ \E r \in Runs, d \in Deadlines \cup {NoDeadline} : RegisterRun(r, d)
           \/ \E r \in Runs : ActivateRun(r) \/ SucceedRun(r) \/ FailRun(r)
           \/ Tick
           \/ UNCHANGED vars
  BY <1>4, RunStepSafe
<1> QED BY <1>1, <1>2, <1>3, <1>4 DEF Next, RunStep

LEMMA SchedCorrect == Spec => []SchedInv
BY SchedInit, SchedNext, PTL DEF Spec

\* Every reachable state of the scheduler is well typed; runningCount never
\* goes below zero.
THEOREM SchedulerTypeOK == Spec => []TypeOK
<1>1. SchedInv => TypeOK
  BY DEF SchedInv
<1> QED BY <1>1, SchedCorrect, PTL

\* The ready queue holds exactly the READY agents, in one order.
THEOREM QueueIsReadyHolds == Spec => []QueueIsReady
<1>1. SchedInv => QueueIsReady
  BY DEF SchedInv
<1> QED BY <1>1, SchedCorrect, PTL

\* No slot is lost or given back twice, and maxRunningAgents holds.
THEOREM CapacityAccountedHolds == Spec => []CapacityAccounted
<1>1. SchedInv => CapacityAccounted
  BY DEF SchedInv
<1> QED BY <1>1, SchedCorrect, PTL

-----------------------------------------------------------------------------
(* What a step does to one agent.  An agent that is not registered yet has *)
(* no parent, so no walk over children ever reaches it.                    *)

Unregistered == \A a \in Agents : agentState[a] = "absent" => parent[a] = NoAgent

MovesInv == SchedInv /\ Unregistered

\* The agents a step cancels: registered ones that have not ended.
Cancellable == {a \in Agents : agentState[a] \notin {"absent"} \cup TerminalStates}

LEMMA SubtreeRegistered ==
  ASSUME Unregistered, NEW a \in Agents, agentState[a] # "absent"
  PROVE  Live(Subtree(a)) \subseteq Cancellable
<1>1. ASSUME NEW b \in Subtree(a) PROVE agentState[b] # "absent"
  <2> DEFINE R == {c \in Agents : agentState[c] # "absent"}
  <2>1. R \in SUBSET Agents /\ a \in R
    OBVIOUS
  <2>2. \A c \in Agents : parent[c] \in R => c \in R
    BY SchedulerAssumption DEF Unregistered, SchedulerAssumption
  <2>3. \A S \in SUBSET Agents :
          a \in S /\ (\A c \in Agents : parent[c] \in S => c \in S) => b \in S
    BY DEF Subtree
  <2>4. b \in R
    BY <2>1, <2>2, <2>3
  <2> QED BY <2>4
<1>2. Subtree(a) \subseteq Agents
  BY DEF Subtree
<1> QED BY <1>1, <1>2 DEF Live, Cancellable

\* Every step moves each agent as the table allows and keeps the cause of one
\* that has ended; the attributes of a registered agent are fixed, and only a
\* run that has not ended is joined.
AgentMoves ==
  \A a \in Agents :
    /\ agentState'[a] = agentState[a]
         \/ <<agentState[a], agentState'[a]>> \in AgentTransitions
    /\ agentState[a] \in TerminalStates => agentCause'[a] = agentCause[a]
    /\ agentState[a] # "absent" =>
         /\ agentState'[a] # "absent"
         /\ agentRun'[a] = agentRun[a]
         /\ parent'[a] = parent[a]
    /\ agentState'[a] = "absent" => parent'[a] = parent[a]
    /\ agentState[a] = "absent" =>
         agentState'[a] = "absent" \/ runState[agentRun'[a]] \notin TerminalStates

LEMMA CancelMoves ==
  ASSUME MovesInv, NEW S \in SUBSET Cancellable, CancelTogether(S)
  PROVE  AgentMoves
<1> SUFFICES ASSUME NEW a \in Agents
             PROVE  /\ agentState'[a] = agentState[a]
                         \/ <<agentState[a], agentState'[a]>> \in AgentTransitions
                    /\ agentState[a] \in TerminalStates => agentCause'[a] = agentCause[a]
                    /\ agentState[a] # "absent" <=> agentState'[a] # "absent"
  BY DEF AgentMoves, CancelTogether, attrVars
<1>1. CASE a \in S
  <2>1. agentState'[a] = "CANCELLED"
    BY <1>1 DEF CancelTogether
  <2>2. agentState[a] \in {"NEW", "READY", "RUNNING", "WAIT", "SUSPENDED"}
    BY <1>1 DEF MovesInv, SchedInv, TypeOK, AgentStates, Cancellable
  <2>3. <<agentState[a], "CANCELLED">> \in AgentTransitions
    BY <2>2 DEF AgentTransitions
  <2> QED BY <2>1, <2>2, <2>3 DEF TerminalStates
<1>2. CASE a \notin S
  BY <1>2 DEF CancelTogether, MovesInv, SchedInv, TypeOK
<1> QED BY <1>1, <1>2

\* One agent moves as the table allows, with no cause recorded.
LEMMA OneMoves ==
  ASSUME MovesInv, NEW b \in Agents, NEW to, SetState(b, to),
         <<agentState[b], to>> \in AgentTransitions, to # "absent",
         agentCause' = agentCause,
         \/ agentState[b] # "absent" /\ UNCHANGED attrVars
         \/ /\ agentState[b] = "absent"
            /\ runState[agentRun'[b]] \notin TerminalStates
            /\ \A c \in Agents : c # b => agentRun'[c] = agentRun[c] /\ parent'[c] = parent[c]
  PROVE  AgentMoves
<1>1. agentState'[b] = to /\ \A c \in Agents : c # b => agentState'[c] = agentState[c]
  BY DEF SetState, MovesInv, SchedInv, TypeOK
<1> QED BY <1>1 DEF AgentMoves, attrVars

LEMMA AdmitMoves ==
  ASSUME MovesInv, Admit
  PROVE  AgentMoves
<1> SUFFICES ASSUME NEW a \in Agents
             PROVE  /\ agentState'[a] = agentState[a]
                         \/ <<agentState[a], agentState'[a]>> \in AgentTransitions
                    /\ agentState[a] \in TerminalStates => agentCause'[a] = agentCause[a]
                    /\ agentState[a] # "absent" <=> agentState'[a] # "absent"
  BY DEF AgentMoves, Admit, attrVars
<1>1. \A b \in Overdue \cup Admitted : agentState[b] = "READY"
  BY DEF Overdue, Admitted, Candidates, MovesInv, SchedInv, QueueIsReady
<1>2. agentState'[a] = IF a \in Overdue THEN "CANCELLED"
                       ELSE IF a \in Admitted THEN "RUNNING" ELSE agentState[a]
  BY DEF Admit
<1>3. a \notin Overdue => agentCause'[a] = agentCause[a]
  BY DEF Admit
<1>4. <<"READY", "CANCELLED">> \in AgentTransitions /\ <<"READY", "RUNNING">> \in AgentTransitions
  BY DEF AgentTransitions
<1> QED BY <1>1, <1>2, <1>3, <1>4 DEF TerminalStates

LEMMA AgentStepMoves ==
  ASSUME MovesInv, NEW a \in Agents, AgentStep(a)
  PROVE  AgentMoves
<1>1. agentState[a] \in AgentStates
  BY DEF MovesInv, SchedInv, TypeOK
<1>2. ASSUME NEW r \in Runs, NEW p \in Priorities, NEW q \in Parents \cup {NoAgent},
             NEW d \in Deadlines \cup {NoDeadline}, RegisterAgent(a, r, p, q, d)
      PROVE  AgentMoves
  <2>1. <<"absent", "NEW">> \in AgentTransitions
    BY DEF AgentTransitions
  <2>2. \A c \in Agents : c # a => agentRun'[c] = agentRun[c] /\ parent'[c] = parent[c]
    BY <1>2 DEF RegisterAgent, MovesInv, SchedInv, TypeOK
  <2>3. runState[agentRun'[a]] \notin TerminalStates
    BY <1>2 DEF RegisterAgent, MovesInv, SchedInv, TypeOK
  <2> QED BY <1>2, <2>1, <2>2, <2>3, OneMoves DEF RegisterAgent
<1>3. CASE Ready(a) \/ Wake(a) \/ ResumeAgent(a)
  <2>1. PICK from \in {"NEW", "WAIT", "SUSPENDED"} : Requeue(a, from)
    BY <1>3 DEF Ready, Wake, ResumeAgent
  <2>2. <<from, "READY">> \in AgentTransitions
    BY DEF AgentTransitions
  <2> QED BY <2>1, <2>2, OneMoves DEF Requeue
<1>4. CASE Wait(a) \/ SucceedAgent(a)
  <2>1. PICK to \in {"WAIT", "SUCCEEDED"} : Leave(a, to)
    BY <1>4 DEF Wait, SucceedAgent
  <2>2. <<"RUNNING", to>> \in AgentTransitions
    BY DEF AgentTransitions
  <2> QED BY <2>1, <2>2, OneMoves DEF Leave
<1>5. CASE SuspendAgent(a)
  <2>1. <<agentState[a], "SUSPENDED">> \in AgentTransitions
    BY <1>5 DEF SuspendAgent, AgentTransitions
  <2> QED BY <1>5, <2>1, OneMoves DEF SuspendAgent, Withdraw
<1>6. CASE FailAgent(a)
  <2>1. agentState[a] \in {"NEW", "READY", "RUNNING", "WAIT", "SUSPENDED"}
    BY <1>1, <1>6 DEF FailAgent, AgentStates
  <2>2. <<agentState[a], "FAILED">> \in AgentTransitions
    BY <2>1 DEF AgentTransitions
  <2> QED BY <1>6, <2>2, OneMoves DEF FailAgent, Withdraw
<1>7. CASE CancelAgent(a)
  <2>1. {a} \in SUBSET Cancellable
    BY <1>7 DEF CancelAgent, Cancellable
  <2> QED BY <1>7, <2>1, CancelMoves DEF CancelAgent
<1>8. CASE CancelAgentTree(a)
  <2>1. Live(Subtree(a)) \in SUBSET Cancellable
    BY <1>8, SubtreeRegistered DEF CancelAgentTree, MovesInv
  <2> QED BY <1>8, <2>1, CancelMoves DEF CancelAgentTree
<1> QED BY <1>2, <1>3, <1>4, <1>5, <1>6, <1>7, <1>8 DEF AgentStep

LEMMA NextMoves ==
  ASSUME MovesInv, [Next]_vars
  PROVE  AgentMoves
<1>1. ASSUME NEW r \in Runs, CancelRun(r) PROVE AgentMoves
  <2>1. Live(InRun(r)) \in SUBSET Cancellable
    BY DEF Live, InRun, Cancellable
  <2> QED BY <1>1, <2>1, CancelMoves DEF CancelRun
<1>2. CASE \/ \E r \in Runs : RunStep(r) /\ ~CancelRun(r)
           \/ Tick
           \/ UNCHANGED vars
  <2>1. UNCHANGED <<agentState, agentCause, agentRun, parent>>
    BY <1>2 DEF RunStep, RegisterRun, ActivateRun, SucceedRun, FailRun, MoveRun, Tick, vars, attrVars
  <2> QED BY <2>1 DEF AgentMoves
<1> QED BY <1>1, <1>2, AgentStepMoves, AdmitMoves DEF Next

LEMMA MovesCorrect == Spec => []MovesInv
<1>1. Init => Unregistered
  BY DEF Init, Unregistered
<1>2. MovesInv /\ [Next]_vars => Unregistered'
  BY NextMoves DEF AgentMoves, Unregistered, MovesInv
<1> QED BY <1>1, <1>2, SchedCorrect, PTL DEF Spec, MovesInv

\* No method ever asks the registry for a transition its table refuses.
THEOREM MovesFollowTableHolds == Spec => MovesFollowTable
<1>1. MovesInv /\ [Next]_vars =>
        [\A a \in Agents : agentState'[a] # agentState[a] =>
           <<agentState[a], agentState'[a]>> \in AgentTransitions]_vars
  BY NextMoves DEF AgentMoves
<1> QED BY <1>1, MovesCorrect, PTL DEF Spec, MovesFollowTable

-----------------------------------------------------------------------------
(* Runs.                                                                   *)

RunMoves ==
  \A r \in Runs : runState[r] \in TerminalStates =>
    runState'[r] = runState[r] /\ runCause'[r] = runCause[r]

LEMMA AgentStepKeepsRuns ==
  ASSUME NEW a \in Agents, AgentStep(a)
  PROVE  UNCHANGED runVars
BY DEF AgentStep, RegisterAgent, Ready, Wake, ResumeAgent, Requeue, Wait, SucceedAgent,
   Leave, SuspendAgent, FailAgent, Withdraw, CancelAgent, CancelAgentTree

\* Only cancelRun cancels a run.
LEMMA CancelledByCancelRun ==
  ASSUME TypeOK, [Next]_vars, NEW r \in Runs,
         runState[r] # "CANCELLED", runState'[r] = "CANCELLED"
  PROVE  CancelRun(r)
<1>1. ASSUME NEW q \in Runs, RunStep(q) PROVE CancelRun(r)
  <2>1. CASE CancelRun(q)
    <3>1. r = q
      BY <2>1 DEF CancelRun, TypeOK
    <3> QED BY <2>1, <3>1
  <2>2. CASE ~CancelRun(q)
    BY <1>1, <2>2 DEF RunStep, RegisterRun, ActivateRun, SucceedRun, FailRun, MoveRun, TypeOK
  <2> QED BY <2>1, <2>2
<1>2. CASE Admit \/ Tick \/ UNCHANGED vars
  BY <1>2 DEF Admit, Tick, vars, runVars
<1>3. ASSUME NEW a \in Agents, AgentStep(a) PROVE CancelRun(r)
  BY <1>3, AgentStepKeepsRuns DEF runVars
<1> QED BY <1>1, <1>2, <1>3 DEF Next

LEMMA NextRunMoves ==
  ASSUME TypeOK, [Next]_vars
  PROVE  RunMoves
<1>1. ASSUME NEW r \in Runs, RunStep(r) PROVE RunMoves
  BY <1>1 DEF TypeOK, RunMoves, RunStep, RegisterRun, ActivateRun, SucceedRun, FailRun,
     MoveRun, CancelRun, TerminalStates
<1>2. CASE Admit \/ Tick \/ UNCHANGED vars
  BY <1>2 DEF RunMoves, Admit, Tick, vars, runVars
<1>3. ASSUME NEW a \in Agents, AgentStep(a) PROVE RunMoves
  BY <1>3, AgentStepKeepsRuns DEF RunMoves, runVars
<1> QED BY <1>1, <1>2, <1>3 DEF Next

\* Terminal states have no exits and causes are never rewritten.
THEOREM SchedulerTerminalHolds == Spec => TerminalIsFinal
<1>1. MovesInv /\ [Next]_vars =>
        [/\ \A a \in Agents : agentState[a] \in TerminalStates =>
              agentState'[a] = agentState[a] /\ agentCause'[a] = agentCause[a]
         /\ \A r \in Runs : runState[r] \in TerminalStates =>
              runState'[r] = runState[r] /\ runCause'[r] = runCause[r]]_vars
  <2> SUFFICES ASSUME MovesInv, [Next]_vars
               PROVE  /\ \A a \in Agents : agentState[a] \in TerminalStates =>
                           agentState'[a] = agentState[a] /\ agentCause'[a] = agentCause[a]
                      /\ \A r \in Runs : runState[r] \in TerminalStates =>
                           runState'[r] = runState[r] /\ runCause'[r] = runCause[r]
    OBVIOUS
  <2>1. RunMoves /\ AgentMoves
    BY NextRunMoves, NextMoves DEF MovesInv, SchedInv
  <2>2. \A a \in Agents : agentState[a] \in TerminalStates => agentState'[a] = agentState[a]
    <3>1. \A m \in AgentTransitions : m[1] \notin TerminalStates
      BY DEF AgentTransitions, TerminalStates
    <3> QED BY <2>1, <3>1 DEF AgentMoves
  <2> QED BY <2>1, <2>2 DEF RunMoves, AgentMoves
<1> QED BY <1>1, MovesCorrect, PTL DEF Spec, TerminalIsFinal

\* A cancelled run has no agent that could still act, and none joins it.
THEOREM CancelledRunHolds == Spec => []CancelledRunIsDead
<1>1. Init => CancelledRunIsDead
  BY DEF Init, CancelledRunIsDead
<1>2. MovesInv /\ CancelledRunIsDead /\ [Next]_vars => CancelledRunIsDead'
  <2> SUFFICES ASSUME MovesInv, CancelledRunIsDead, [Next]_vars,
                      NEW r \in Runs, runState'[r] = "CANCELLED",
                      NEW a \in Agents, agentState'[a] # "absent", agentRun'[a] = r
               PROVE  agentState'[a] \in TerminalStates
    BY DEF CancelledRunIsDead, Live, InRun
  <2>1. AgentMoves
    BY NextMoves
  <2>2. CASE runState[r] = "CANCELLED"
    <3>1. CASE agentState[a] = "absent"
      BY <2>1, <2>2, <3>1 DEF AgentMoves, TerminalStates
    <3>2. CASE agentState[a] # "absent"
      <4>1. agentState[a] \in TerminalStates
        BY <2>1, <2>2, <3>2 DEF CancelledRunIsDead, Live, InRun, AgentMoves
      <4>2. \A m \in AgentTransitions : m[1] \notin TerminalStates
        BY DEF AgentTransitions, TerminalStates
      <4> QED BY <2>1, <4>1, <4>2 DEF AgentMoves
    <3> QED BY <3>1, <3>2
  <2>3. CASE runState[r] # "CANCELLED"
    <3>1. CancelRun(r)
      BY <2>3, CancelledByCancelRun DEF MovesInv, SchedInv
    <3>2. agentState' = [b \in Agents |-> IF b \in Live(InRun(r)) THEN "CANCELLED" ELSE agentState[b]]
      BY <3>1 DEF CancelRun, CancelTogether
    <3>3. CASE a \in Live(InRun(r))
      BY <3>2, <3>3 DEF TerminalStates
    <3>4. CASE a \notin Live(InRun(r))
      <4>1. agentState[a] = agentState'[a]
        BY <3>2, <3>4
      <4>2. agentRun[a] = r
        BY <3>1 DEF CancelRun, CancelTogether, attrVars
      <4> QED BY <4>1, <4>2, <3>4 DEF Live, InRun
    <3> QED BY <3>3, <3>4
  <2> QED BY <2>2, <2>3
<1> QED BY <1>1, <1>2, MovesCorrect, PTL DEF Spec

-----------------------------------------------------------------------------
(* Causes.                                                                 *)

\* Every cause in use was allocated before the next one.
Allocated ==
  /\ \A a \in Agents : agentCause[a] <= decisions
  /\ \A r \in Runs : runCause[r] <= decisions

CauseInv == Allocated /\ CauseIsOneDecision

\* What is cancelled has a cause and nothing else does.
Caused ==
  /\ \A a \in Agents : agentCause[a] # 0 <=> agentState[a] = "CANCELLED"
  /\ \A r \in Runs : runCause[r] # 0 <=> runState[r] = "CANCELLED"

\* Why two agents may have the same cause.
CancelledTogether(a, b) ==
  \/ agentRun[a] = agentRun[b] /\ runCause[agentRun[a]] = agentCause[a]
  \/ \E c \in Agents : a \in Subtree(c) /\ b \in Subtree(c)

LEMMA CauseParts ==
  CauseInv <=>
    /\ Allocated
    /\ Caused
    /\ \A a, b \in Agents :
         a # b /\ agentCause[a] # 0 /\ agentCause[a] = agentCause[b] =>
           CancelledTogether(a, b)
BY DEF CauseInv, CauseIsOneDecision, Caused, CancelledTogether

\* An agent that joins has no children yet, so a subtree loses nobody.
LEMMA SubtreesGrow ==
  ASSUME MovesInv, [Next]_vars, NEW c \in Agents
  PROVE  Subtree(c) \subseteq (Subtree(c))'
<1> SUFFICES ASSUME NEW a \in Subtree(c), NEW S \in SUBSET Agents,
                    c \in S, \A b \in Agents : parent'[b] \in S => b \in S
             PROVE  a \in S
  BY DEF Subtree
<1>1. ASSUME NEW b \in Agents, parent[b] \in S PROVE b \in S
  <2>1. parent[b] # NoAgent
    BY <1>1, SchedulerAssumption DEF SchedulerAssumption
  <2>2. agentState[b] # "absent"
    BY <2>1 DEF MovesInv, Unregistered
  <2>3. parent'[b] = parent[b]
    BY <2>2, NextMoves DEF AgentMoves
  <2> QED BY <1>1, <2>3
<1> QED BY <1>1 DEF Subtree

\* A pair that was cancelled together stays so.
LEMMA TogetherStays ==
  ASSUME MovesInv, CauseInv, [Next]_vars, NEW a \in Agents, NEW b \in Agents,
         agentCause[a] # 0, agentCause[b] # 0, CancelledTogether(a, b)
  PROVE  CancelledTogether(a, b)'
<1>1. agentState[a] = "CANCELLED" /\ agentState[b] = "CANCELLED"
  BY CauseParts DEF Caused
<1>2. agentRun'[a] = agentRun[a] /\ agentRun'[b] = agentRun[b] /\ agentCause'[a] = agentCause[a]
  BY <1>1, NextMoves DEF AgentMoves, TerminalStates
<1>3. CASE agentRun[a] = agentRun[b] /\ runCause[agentRun[a]] = agentCause[a]
  <2>1. agentRun[a] \in Runs
    BY DEF MovesInv, SchedInv, TypeOK
  <2>2. runState[agentRun[a]] = "CANCELLED"
    BY <1>3, <2>1, CauseParts DEF Caused
  <2>3. runCause'[agentRun[a]] = runCause[agentRun[a]]
    BY <2>1, <2>2, NextRunMoves DEF RunMoves, TerminalStates, MovesInv, SchedInv
  <2> QED BY <1>2, <1>3, <2>3 DEF CancelledTogether
<1>4. CASE \E c \in Agents : a \in Subtree(c) /\ b \in Subtree(c)
  BY <1>4, SubtreesGrow DEF CancelledTogether
<1> QED BY <1>3, <1>4 DEF CancelledTogether

\* Recorded causes are at most the latest, new ones are beyond it: only two
\* new ones need a reason to be the same.
LEMMA NewCauses ==
  ASSUME MovesInv, CauseInv, [Next]_vars, Caused', Allocated',
         \A a \in Agents : agentCause'[a] = agentCause[a] \/ agentCause'[a] > decisions,
         \A a, b \in Agents :
           a # b /\ agentCause'[a] > decisions /\ agentCause'[a] = agentCause'[b] =>
             CancelledTogether(a, b)'
  PROVE  CauseInv'
<1> SUFFICES ASSUME NEW a \in Agents, NEW b \in Agents, a # b,
                    agentCause'[a] # 0, agentCause'[a] = agentCause'[b]
             PROVE  CancelledTogether(a, b)'
  BY CauseParts DEF CauseInv, CauseIsOneDecision, Caused, CancelledTogether
<1>1. CASE agentCause'[a] > decisions
  BY <1>1
<1>2. CASE ~(agentCause'[a] > decisions)
  <2>1. agentCause'[a] = agentCause[a] /\ agentCause'[b] = agentCause[b]
    BY <1>2
  <2>2. CancelledTogether(a, b)
    BY <2>1, CauseParts
  <2> QED BY <2>1, <2>2, TogetherStays
<1> QED BY <1>1, <1>2

\* A step that cancels nobody.
LEMMA QuietCauses ==
  ASSUME MovesInv, CauseInv, [Next]_vars, UNCHANGED <<agentCause, runCause, decisions>>,
         \A a \in Agents : agentState[a] = "CANCELLED" <=> agentState'[a] = "CANCELLED",
         \A r \in Runs : runState[r] = "CANCELLED" <=> runState'[r] = "CANCELLED"
  PROVE  CauseInv'
<1>1. Caused'
  BY CauseParts DEF Caused
<1>2. Allocated'
  BY CauseParts DEF Allocated
<1>3. \A a \in Agents : ~(agentCause'[a] > decisions)
  BY CauseParts DEF Allocated, MovesInv, SchedInv, TypeOK
<1> QED BY <1>1, <1>2, <1>3, NewCauses

\* One decision: the agents of S get the next cause, and share a reason.
LEMMA DecisionCauses ==
  ASSUME MovesInv, CauseInv, [Next]_vars, NEW S \in SUBSET Agents, CancelTogether(S),
         Caused', \A r \in Runs : runCause'[r] <= decisions + 1,
         \A a, b \in S : a # b => CancelledTogether(a, b)'
  PROVE  CauseInv'
<1>1. \A a \in Agents : agentCause'[a] = IF a \in S THEN decisions + 1 ELSE agentCause[a]
  BY DEF CancelTogether
<1>2. decisions' = decisions + 1 /\ decisions \in Nat
  BY DEF CancelTogether, MovesInv, SchedInv, TypeOK
<1>3. \A a \in Agents : agentCause[a] \in Nat /\ agentCause[a] <= decisions
  BY CauseParts DEF Allocated, MovesInv, SchedInv, TypeOK
<1>4. Allocated'
  BY <1>1, <1>2, <1>3 DEF Allocated
<1>5. \A a \in Agents : agentCause'[a] = agentCause[a] \/ agentCause'[a] > decisions
  BY <1>1, <1>2
<1>6. \A a \in Agents : agentCause'[a] > decisions => a \in S
  BY <1>1, <1>2, <1>3
<1> QED BY <1>4, <1>5, <1>6, NewCauses

\* The cancelled agents of one call are exactly those it gives a cause.
LEMMA CancelCaused ==
  ASSUME MovesInv, CauseInv, NEW S \in SUBSET Agents, CancelTogether(S)
  PROVE  \A a \in Agents : agentCause'[a] # 0 <=> agentState'[a] = "CANCELLED"
<1>1. decisions + 1 # 0
  BY DEF MovesInv, SchedInv, TypeOK
<1>2. \A a \in Agents : agentCause[a] # 0 <=> agentState[a] = "CANCELLED"
  BY CauseParts DEF Caused
<1> QED BY <1>1, <1>2 DEF CancelTogether

LEMMA CancelRunCauses ==
  ASSUME MovesInv, CauseInv, [Next]_vars, NEW r \in Runs, CancelRun(r)
  PROVE  CauseInv'
<1> DEFINE S == Live(InRun(r))
<1>1. S \in SUBSET Agents /\ CancelTogether(S)
  BY DEF Live, InRun, CancelRun
<1>2. /\ runState' = [runState EXCEPT ![r] = "CANCELLED"]
      /\ runCause' = [runCause EXCEPT ![r] = decisions + 1]
      /\ UNCHANGED agentRun
  BY DEF CancelRun, CancelTogether, attrVars
<1>3. /\ runState \in [Runs -> RunStates] /\ runCause \in [Runs -> Nat]
      /\ decisions \in Nat
  BY DEF MovesInv, SchedInv, TypeOK
<1>4. \A q \in Runs : runCause'[q] # 0 <=> runState'[q] = "CANCELLED"
  BY <1>2, <1>3, CauseParts DEF Caused
<1>5. Caused'
  BY <1>1, <1>4, CancelCaused DEF Caused
<1>6. \A q \in Runs : runCause'[q] <= decisions + 1
  BY <1>2, <1>3, CauseParts DEF Allocated
<1>7. \A a, b \in S : a # b => CancelledTogether(a, b)'
  <2>1. \A a \in S : agentRun'[a] = r /\ agentCause'[a] = decisions + 1
    BY <1>1, <1>2 DEF Live, InRun, CancelTogether
  <2>2. runCause'[r] = decisions + 1
    BY <1>2, <1>3
  <2> QED BY <1>1, <2>1, <2>2 DEF CancelledTogether
<1> QED BY <1>1, <1>5, <1>6, <1>7, DecisionCauses

LEMMA CancelAgentsCauses ==
  ASSUME MovesInv, CauseInv, [Next]_vars, NEW a \in Agents,
         CancelAgent(a) \/ CancelAgentTree(a)
  PROVE  CauseInv'
<1>1. UNCHANGED runVars
  BY DEF CancelAgent, CancelAgentTree
<1>2. PICK S \in SUBSET Agents : CancelTogether(S) /\ (S = {a} \/ S = Live(Subtree(a)))
  BY DEF CancelAgent, CancelAgentTree, Live, Subtree
<1>3. \A r \in Runs : runCause'[r] # 0 <=> runState'[r] = "CANCELLED"
  BY <1>1, CauseParts DEF Caused, runVars
<1>4. Caused'
  BY <1>2, <1>3, CancelCaused DEF Caused
<1>5. \A r \in Runs : runCause'[r] <= decisions + 1
  BY <1>1, CauseParts DEF Allocated, runVars, MovesInv, SchedInv, TypeOK
<1>6. \A b, c \in S : b # c => CancelledTogether(b, c)'
  <2>1. CASE S = {a}
    BY <2>1
  <2>2. CASE S = Live(Subtree(a))
    <3>1. S \subseteq Subtree(a)
      BY <2>2 DEF Live
    <3>2. S \subseteq (Subtree(a))'
      BY <3>1, SubtreesGrow
    <3> QED BY <3>2 DEF CancelledTogether
  <2> QED BY <1>2, <2>1, <2>2
<1> QED BY <1>2, <1>4, <1>5, <1>6, DecisionCauses

\* Every overdue agent gets a decision of its own: of two, one is in front of
\* the other, and so are all that are in front of the first.
LEMMA OverdueApart ==
  ASSUME SchedInv, NEW a \in Overdue, NEW b \in Overdue, a \in ahead[b]
  PROVE  Cardinality(ahead[a] \cap Overdue) < Cardinality(ahead[b] \cap Overdue)
<1>1. Overdue \subseteq queued /\ queued \subseteq Agents
  BY DEF Overdue, SchedInv, TypeOK
<1>2. ahead[a] \subseteq ahead[b] /\ a \notin ahead[a]
  BY <1>1 DEF SchedInv, QueueIsReady, QueueOrder
<1> DEFINE A == ahead[a] \cap Overdue
           B == ahead[b] \cap Overdue
<1>3. A \in SUBSET B /\ A # B /\ A \in SUBSET Agents /\ B \in SUBSET Agents
  BY <1>1, <1>2
<1>4. /\ IsFiniteSet(B) /\ Cardinality(A) \in Nat /\ Cardinality(B) \in Nat
  BY <1>3, AgentSetsFinite
<1>5. Cardinality(A) <= Cardinality(B) /\ Cardinality(A) # Cardinality(B)
  BY <1>3, <1>4, FS_Subset
<1> QED BY <1>4, <1>5

LEMMA AdmitCauses ==
  ASSUME MovesInv, CauseInv, [Next]_vars, Admit
  PROVE  CauseInv'
<1>0. SchedInv /\ decisions \in Nat /\ agentCause \in [Agents -> Nat]
  BY DEF MovesInv, SchedInv, TypeOK
<1>1. /\ Overdue \subseteq queued /\ Admitted \subseteq queued /\ queued \subseteq Agents
      /\ \A a \in queued : agentState[a] = "READY"
  BY DEF Overdue, Admitted, Candidates, MovesInv, SchedInv, TypeOK, QueueIsReady
<1> DEFINE place(a) == Cardinality(ahead[a] \cap Overdue)
<1>2. \A a \in Agents : place(a) \in Nat
  <2> SUFFICES ASSUME NEW a \in Agents PROVE place(a) \in Nat
    OBVIOUS
  <2>1. ahead[a] \cap Overdue \in SUBSET Agents
    BY <1>1
  <2> QED BY <2>1, AgentSetsFinite
<1>3. \A a \in Overdue : place(a) + 1 <= Cardinality(Overdue)
  <2> SUFFICES ASSUME NEW a \in Overdue PROVE place(a) + 1 <= Cardinality(Overdue)
    OBVIOUS
  <2>1. /\ ahead[a] \cap Overdue \in SUBSET Overdue /\ a \notin ahead[a]
        /\ Overdue \in SUBSET Agents
    BY <1>0, <1>1 DEF SchedInv, QueueIsReady, QueueOrder
  <2>2. IsFiniteSet(Overdue) /\ Cardinality(Overdue) \in Nat
    BY <2>1, AgentSetsFinite
  <2>3. place(a) <= Cardinality(Overdue) /\ place(a) # Cardinality(Overdue)
    BY <2>1, <2>2, FS_Subset
  <2> QED BY <1>1, <1>2, <2>2, <2>3
<1>4. \A a \in Agents :
        agentCause'[a] = IF a \in Overdue THEN decisions + 1 + place(a) ELSE agentCause[a]
  BY DEF Admit
<1>5. decisions' = decisions + Cardinality(Overdue) /\ Cardinality(Overdue) \in Nat
  <2>1. Overdue \in SUBSET Agents
    BY <1>1
  <2> QED BY <2>1, AgentSetsFinite DEF Admit
<1> HIDE DEF place
<1>6. Caused'
  <2>1. \A a \in Agents : agentState'[a] = IF a \in Overdue THEN "CANCELLED"
                                           ELSE IF a \in Admitted THEN "RUNNING"
                                           ELSE agentState[a]
    BY DEF Admit
  <2>2. \A a \in Agents : agentCause[a] # 0 <=> agentState[a] = "CANCELLED"
    BY CauseParts DEF Caused
  <2>3. \A a \in Agents : agentCause'[a] # 0 <=> agentState'[a] = "CANCELLED"
    <3> SUFFICES ASSUME NEW a \in Agents
                 PROVE  agentCause'[a] # 0 <=> agentState'[a] = "CANCELLED"
      OBVIOUS
    <3>1. CASE a \in Overdue
      BY <1>0, <1>2, <1>4, <2>1, <3>1
    <3>2. CASE a \notin Overdue
      BY <1>1, <1>4, <2>1, <2>2, <3>2
    <3> QED BY <3>1, <3>2
  <2>4. UNCHANGED runVars
    BY DEF Admit
  <2> QED BY <2>3, <2>4, CauseParts DEF Caused, runVars
<1>7. Allocated'
  <2>1. \A a \in Agents : agentCause[a] <= decisions
    BY CauseParts DEF Allocated
  <2>2. \A a \in Agents : agentCause'[a] <= decisions'
    <3> SUFFICES ASSUME NEW a \in Agents PROVE agentCause'[a] <= decisions'
      OBVIOUS
    <3>1. CASE a \in Overdue
      BY <1>0, <1>2, <1>3, <1>4, <1>5, <3>1
    <3>2. CASE a \notin Overdue
      BY <1>0, <1>4, <1>5, <2>1, <3>2
    <3> QED BY <3>1, <3>2
  <2>3. \A r \in Runs : runCause'[r] <= decisions'
    <3>1. runCause' = runCause /\ runCause \in [Runs -> Nat]
      BY DEF Admit, runVars, MovesInv, SchedInv, TypeOK
    <3> QED BY <1>0, <1>5, <3>1, CauseParts DEF Allocated
  <2> QED BY <2>2, <2>3 DEF Allocated
<1>8. \A a \in Agents : agentCause'[a] = agentCause[a] \/ agentCause'[a] > decisions
  BY <1>0, <1>2, <1>4
<1>9. \A a \in Agents : agentCause'[a] > decisions => a \in Overdue
  BY <1>0, <1>4, CauseParts DEF Allocated
<1>10. \A a, b \in Overdue : a # b => agentCause'[a] # agentCause'[b]
  <2> SUFFICES ASSUME NEW a \in Overdue, NEW b \in Overdue, a \in ahead[b]
               PROVE  agentCause'[a] # agentCause'[b]
    BY <1>0, <1>1 DEF SchedInv, QueueIsReady, QueueOrder
  <2>1. place(a) < place(b)
    BY <1>0, OverdueApart DEF place
  <2> QED BY <1>0, <1>1, <1>2, <1>4, <2>1
<1> QED BY <1>1, <1>6, <1>7, <1>8, <1>9, <1>10, NewCauses

LEMMA CauseStep ==
  ASSUME MovesInv, CauseInv, [Next]_vars
  PROVE  CauseInv'
<1>0. TypeOK
  BY DEF MovesInv, SchedInv
<1>1. ASSUME NEW r \in Runs, RunStep(r), ~CancelRun(r) PROVE CauseInv'
  <2>1. /\ UNCHANGED <<agentCause, runCause, decisions, agentState>>
        /\ \A q \in Runs : runState[q] = "CANCELLED" <=> runState'[q] = "CANCELLED"
    BY <1>0, <1>1
    DEF TypeOK, RunStep, RegisterRun, ActivateRun, SucceedRun, FailRun, MoveRun
  <2> QED BY <2>1, QuietCauses
<1>2. CASE Tick \/ UNCHANGED vars
  <2>1. UNCHANGED <<agentCause, runCause, decisions, agentState, runState>>
    BY <1>2 DEF Tick, vars, runVars
  <2> QED BY <2>1, QuietCauses
<1>3. ASSUME NEW a \in Agents, AgentStep(a), ~CancelAgent(a), ~CancelAgentTree(a)
      PROVE  CauseInv'
  <2>1. UNCHANGED <<agentCause, runVars, decisions>>
    BY <1>3 DEF AgentStep, RegisterAgent, Ready, Wake, ResumeAgent, Requeue, Wait,
       SucceedAgent, Leave, SuspendAgent, FailAgent, Withdraw
  <2>2. PICK to \in AgentStates \ {"CANCELLED"} :
          SetState(a, to) /\ agentState[a] # "CANCELLED"
    BY <1>3 DEF AgentStep, RegisterAgent, Ready, Wake, ResumeAgent, Requeue, Wait,
       SucceedAgent, Leave, SuspendAgent, FailAgent, Withdraw, AgentStates, TerminalStates
  <2>3. \A b \in Agents : agentState[b] = "CANCELLED" <=> agentState'[b] = "CANCELLED"
    BY <1>0, <2>2 DEF SetState, TypeOK
  <2> QED BY <2>1, <2>3, QuietCauses DEF runVars
<1> QED BY <1>1, <1>2, <1>3, CancelRunCauses, CancelAgentsCauses, AdmitCauses DEF Next

\* One cancel decision, one cause (scheduler.ts cancelRun, cancelAgentTree,
\* admit): for any number of agents, in any trees and any queue.
THEOREM CauseIsOneDecisionHolds == Spec => []CauseIsOneDecision
<1>1. Init => CauseInv
  BY DEF Init, CauseInv, Allocated, CauseIsOneDecision
<1>2. MovesInv /\ CauseInv /\ [Next]_vars => CauseInv'
  BY CauseStep
<1>3. CauseInv => CauseIsOneDecision
  BY DEF CauseInv
<1> QED BY <1>1, <1>2, <1>3, MovesCorrect, PTL DEF Spec

-----------------------------------------------------------------------------
(* Admission.                                                              *)

\* Only admit() starts an agent, and it takes it from the candidates.
LEMMA StartedByAdmit ==
  ASSUME TypeOK, [Next]_vars, NEW a \in Agents,
         agentState[a] # "RUNNING", agentState'[a] = "RUNNING"
  PROVE  Admit /\ a \in Admitted
<1>1. ASSUME NEW r \in Runs, RunStep(r) PROVE FALSE
  BY <1>1 DEF TypeOK, RunStep, RegisterRun, ActivateRun, SucceedRun, FailRun, MoveRun,
     CancelRun, CancelTogether
<1>2. ASSUME NEW b \in Agents, AgentStep(b) PROVE FALSE
  BY <1>2 DEF TypeOK, AgentStep, RegisterAgent, Ready, Wake, ResumeAgent, Requeue, SetState,
     Wait, SucceedAgent, Leave, SuspendAgent, FailAgent, Withdraw, CancelAgent,
     CancelAgentTree, CancelTogether
<1>3. CASE Tick \/ UNCHANGED vars
  BY <1>3 DEF Tick, vars
<1>4. CASE Admit
  BY <1>4 DEF Admit, TypeOK
<1> QED BY <1>1, <1>2, <1>3, <1>4 DEF Next

\* An agent starts only in an active run and before the deadline that counts.
THEOREM NoLateAdmissionHolds == Spec => NoLateAdmission
<1>1. TypeOK /\ [Next]_vars =>
        [\A a \in Agents :
           agentState[a] # "RUNNING" /\ agentState'[a] = "RUNNING" =>
             /\ runState[agentRun[a]] = "ACTIVE"
             /\ ~Expired(agentDeadline[a])
             /\ agentDeadline[a] = NoDeadline => ~Expired(runDeadline[agentRun[a]])]_vars
  <2> SUFFICES ASSUME TypeOK, [Next]_vars, NEW a \in Agents,
                      agentState[a] # "RUNNING", agentState'[a] = "RUNNING"
               PROVE  /\ runState[agentRun[a]] = "ACTIVE"
                      /\ ~Expired(agentDeadline[a])
                      /\ agentDeadline[a] = NoDeadline => ~Expired(runDeadline[agentRun[a]])
    OBVIOUS
  <2>1. a \in Candidates
    BY StartedByAdmit DEF Admitted
  <2>2. a \in queued /\ a \notin Overdue /\ runState[agentRun[a]] = "ACTIVE"
    BY <2>1 DEF Candidates
  <2>3. ~Expired(IF agentDeadline[a] # NoDeadline THEN agentDeadline[a]
                 ELSE runDeadline[agentRun[a]])
    BY <2>2 DEF Overdue
  <2>4. CASE agentDeadline[a] = NoDeadline
    BY <2>2, <2>3, <2>4 DEF Expired
  <2>5. CASE agentDeadline[a] # NoDeadline
    BY <2>2, <2>3, <2>5
  <2> QED BY <2>4, <2>5
<1> QED BY <1>1, SchedulerTypeOK, PTL DEF Spec, NoLateAdmission

\* FIFO among equals: only a higher priority overtakes.
THEOREM NoOvertakingHolds == Spec => NoOvertaking
<1>1. TypeOK /\ QueueIsReady /\ [Next]_vars =>
        [\A a, b \in Agents :
           agentState[a] = "READY" /\ agentState'[a] = "RUNNING" /\ b \in ahead[a] =>
             \/ priority[b] < priority[a]
             \/ runState[agentRun[b]] # "ACTIVE"
             \/ agentState'[b] = "CANCELLED"]_vars
  <2> SUFFICES ASSUME TypeOK, QueueIsReady, [Next]_vars, NEW a \in Agents, NEW b \in Agents,
                      agentState[a] = "READY", agentState'[a] = "RUNNING", b \in ahead[a],
                      runState[agentRun[b]] = "ACTIVE", agentState'[b] # "CANCELLED"
               PROVE  priority[b] < priority[a]
    OBVIOUS
  <2>1. Admit /\ Best(a)
    BY StartedByAdmit DEF Admitted
  <2>2. b \in queued
    BY DEF QueueIsReady, QueueOrder
  <2>3. b \notin Overdue
    BY <2>1 DEF Admit
  <2>4. b \in Candidates
    BY <2>2, <2>3 DEF Candidates
  <2> QED BY <2>1, <2>4 DEF Best
<1> QED BY <1>1, SchedulerTypeOK, QueueIsReadyHolds, PTL DEF Spec, NoOvertaking
=============================================================================
