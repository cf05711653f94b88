--------------------------- MODULE CompletionSink ---------------------------
(***************************************************************************)
(* Terminal notices of workflow runs: the host writes a run's terminal     *)
(* state, the CompletionSink puts a notice into completion_outbox, and     *)
(* drains deliver the due rows to the configured receiver.  There is no    *)
(* poller: a drain starts when a notice is recorded or once at startup.    *)
(*                                                                         *)
(* An action is what runs between two awaits.  A run that ends writes two  *)
(* tables in a row, and the process can die between the two writes; that   *)
(* is why notifying is a variable.  Any store call of the sink may throw.  *)
(* An attempt whose request was timed out counts as received or not        *)
(* received when it is settled.  Backoff is not measured: waiting holds    *)
(* the rows whose next_attempt_at is in the future.                        *)
(*                                                                         *)
(* Bounds on the environment: MaxCrashes, MaxFaults (store calls that      *)
(* throw) and MaxCorrupt (rows that no longer parse after an upgrade).     *)
(***************************************************************************)
EXTENDS Integers, FiniteSets

CONSTANTS
  Runs, Drains, NoRun, NoDrain,
  MaxAttempts, BatchSize, MaxCrashes, MaxFaults, MaxCorrupt

ASSUME SinkAssumption ==
  /\ IsFiniteSet(Runs)
  /\ NoRun \notin Runs
  /\ Drains \cap {NoDrain, "no", "done"} = {}
  /\ MaxAttempts \in Nat \ {0}
  /\ BatchSize \in Nat \ {0}
  /\ MaxCrashes \in Nat /\ MaxFaults \in Nat /\ MaxCorrupt \in Nat

VARIABLES
  run,         \* the run's durable state
  status,      \* its row of completion_outbox, "none" when there is none
  attempts,    \* attempt_count
  waiting,     \* rows whose next_attempt_at is in the future
  created,     \* created_at: the rank of the row
  corrupt,     \* rows that fail completionNoticeSchema
  up,          \* the process runs
  booting,     \* startup has not reached its replay yet
  notifying,   \* the run between its terminal write and its notice
  phase,       \* where each drain is
  batch,       \* rows a drain still has to deliver, with the count it read
  inFlight,    \* #inFlight
  joined,      \* callers that wait for #inFlight
  woken,       \* callers it has released, before their second flushOnce
  stop,        \* "no", the drain stop() waits for, or "done"
  requests,    \* requests of each notice the receiver got
  lost,        \* of these, the ones no outcome was recorded for
  broke,       \* the last drain ended with an error
  crashes, faults

tableVars  == <<status, attempts, waiting, created, corrupt>>
drainVars  == <<phase, batch, inFlight, joined, woken, stop, broke>>
vars == <<run, tableVars, up, booting, notifying, drainVars, requests, lost,
          crashes, faults>>

Undelivered == {"pending", "retrying"}
Statuses    == {"none", "delivered", "failed"} \cup Undelivered
Phases      == {"idle", "deliver", "sent", "claim", "ending", "broken"}

TypeOK ==
  /\ run       \in [Runs -> {"new", "running", "terminal"}]
  /\ status    \in [Runs -> Statuses]
  /\ attempts  \in [Runs -> 0..MaxAttempts]
  /\ waiting   \subseteq {r \in Runs : status[r] = "retrying"}
  /\ created   \in [Runs -> Nat]
  /\ corrupt   \subseteq Runs
  /\ up        \in BOOLEAN
  /\ booting   \in BOOLEAN
  /\ notifying \in Runs \cup {NoRun}
  /\ phase     \in [Drains -> Phases]
  /\ batch     \in [Drains -> SUBSET (Runs \X Nat)]
  /\ inFlight  \in Drains \cup {NoDrain}
  /\ joined    \in Nat
  /\ woken     \in Nat
  /\ stop      \in Drains \cup {"no", "done"}
  /\ requests  \in [Runs -> Nat]
  /\ lost      \in [Runs -> Nat]
  /\ broke     \in BOOLEAN
  /\ crashes   \in Nat
  /\ faults    \in Nat

Init ==
  /\ run       = [r \in Runs |-> "new"]
  /\ status    = [r \in Runs |-> "none"]
  /\ attempts  = [r \in Runs |-> 0]
  /\ waiting   = {}
  /\ created   = [r \in Runs |-> 0]
  /\ corrupt   = {}
  /\ up        = FALSE
  /\ booting   = FALSE
  /\ notifying = NoRun
  /\ phase     = [d \in Drains |-> "idle"]
  /\ batch     = [d \in Drains |-> {}]
  /\ inFlight  = NoDrain
  /\ joined    = 0
  /\ woken     = 0
  /\ stop      = "no"
  /\ requests  = [r \in Runs |-> 0]
  /\ lost      = [r \in Runs |-> 0]
  /\ broke     = FALSE
  /\ crashes   = 0
  /\ faults    = 0

Rows   == {r \in Runs : status[r] # "none"}
Active == {d \in Drains : phase[d] # "idle"}

\* A turn of the event loop is free, and startup is over.
Free == up /\ ~booting /\ notifying = NoRun

-----------------------------------------------------------------------------
(* Draining.                                                               *)

DueIn(st) == {r \in Runs : \/ st[r] = "pending"
                           \/ st[r] = "retrying" /\ r \notin waiting}

\* The rows the query returns from the table st: the oldest due ones, at
\* most BatchSize.
IsPage(B, st, at) ==
  /\ B \subseteq DueIn(st)
  /\ Cardinality(B) <= BatchSize
  /\ Cardinality(B) < BatchSize => B = DueIn(st)
  /\ \A x \in B, y \in DueIn(st) \ B : at[x] < at[y]

\* claimDue in the drain d, with the outbox as st and at.  The rows that do
\* not parse are failed and left out; a batch with nothing else ends the
\* drain.
Claim(d, st, at) ==
  \E B \in SUBSET Runs :
    /\ IsPage(B, st, at)
    /\ status' = [r \in Runs |-> IF r \in B \cap corrupt THEN "failed" ELSE st[r]]
    /\ batch' = [batch EXCEPT ![d] = {<<r, attempts[r]>> : r \in B \ corrupt}]
    /\ phase' = [phase EXCEPT ![d] = IF B \subseteq corrupt THEN "ending" ELSE "deliver"]
    /\ broke' = (broke /\ ~(B \subseteq corrupt))
    /\ UNCHANGED faults

\* claimDue throws, having failed some of the rows that do not parse.
ClaimThrows(d, st, at) ==
  /\ faults < MaxFaults
  /\ faults' = faults + 1
  /\ \E B \in SUBSET Runs, C \in SUBSET corrupt :
       /\ IsPage(B, st, at)
       /\ status' = [r \in Runs |-> IF r \in B \cap C THEN "failed" ELSE st[r]]
  /\ phase' = [phase EXCEPT ![d] = "broken"]
  /\ broke' = TRUE
  /\ UNCHANGED batch

\* Mutant: no single flight.
FlushAlways(st, at) ==
  \/ /\ stop # "no"
     /\ status' = st
     /\ UNCHANGED <<phase, batch, inFlight, joined, broke, faults>>
  \/ /\ stop = "no"
     /\ \E d \in Drains : /\ phase[d] = "idle"
                          /\ inFlight' = d
                          /\ Claim(d, st, at) \/ ClaimThrows(d, st, at)
     /\ UNCHANGED joined

\* Mutant: a caller that finds a drain in flight is done.
FlushJoinsOnly(st, at) ==
  \/ /\ stop # "no" \/ inFlight # NoDrain
     /\ status' = st
     /\ UNCHANGED <<phase, batch, inFlight, joined, broke, faults>>
  \/ /\ stop = "no" /\ inFlight = NoDrain
     /\ \E d \in Drains : /\ phase[d] = "idle"
                          /\ inFlight' = d
                          /\ Claim(d, st, at) \/ ClaimThrows(d, st, at)
     /\ UNCHANGED joined

\* Mutant: stop() is not looked at.
FlushAfterStop(st, at) ==
  \/ /\ inFlight # NoDrain
     /\ joined' = joined + 1
     /\ status' = st
     /\ UNCHANGED <<phase, batch, inFlight, broke, faults>>
  \/ /\ inFlight = NoDrain
     /\ \E d \in Drains : /\ phase[d] = "idle"
                          /\ inFlight' = d
                          /\ Claim(d, st, at) \/ ClaimThrows(d, st, at)
     /\ UNCHANGED joined

\* flushOnce, with the outbox as st and at: nothing after stop(), a caller
\* that waits while a drain is in flight, and a new drain otherwise, whose
\* first claim is made before flushOnce returns.
FlushOnce(st, at) ==
  \/ /\ stop # "no"
     /\ status' = st
     /\ UNCHANGED <<phase, batch, inFlight, joined, broke, faults>>
  \/ /\ stop = "no" /\ inFlight # NoDrain
     /\ joined' = joined + 1
     /\ status' = st
     /\ UNCHANGED <<phase, batch, inFlight, broke, faults>>
  \/ /\ stop = "no" /\ inFlight = NoDrain
     /\ \E d \in Drains : /\ phase[d] = "idle"
                          /\ inFlight' = d
                          /\ Claim(d, st, at) \/ ClaimThrows(d, st, at)
     /\ UNCHANGED joined

\* The next pass of the loop of #drain.
ClaimAgain(d) ==
  /\ Free
  /\ phase[d] = "claim"
  /\ Claim(d, status, created) \/ ClaimThrows(d, status, created)
  /\ UNCHANGED <<run, attempts, waiting, created, corrupt, up, booting, notifying,
                 inFlight, joined, woken, stop, requests, lost, crashes>>

\* The row d delivers now, with the attempt count it was claimed with.
IsCurrent(d, r, n) ==
  /\ <<r, n>> \in batch[d]
  /\ \A p \in batch[d] : p = <<r, n>> \/ created[r] < created[p[1]]

\* The receiver gets the request.
Send(d, r, n) ==
  /\ Free
  /\ phase[d] = "deliver" /\ IsCurrent(d, r, n)
  /\ phase' = [phase EXCEPT ![d] = "sent"]
  /\ requests' = [requests EXCEPT ![r] = @ + 1]
  /\ UNCHANGED <<run, tableVars, up, booting, notifying, batch, inFlight, joined,
                 woken, stop, broke, lost, crashes, faults>>

Advance(d, r, n) ==
  /\ batch' = [batch EXCEPT ![d] = @ \ {<<r, n>>}]
  /\ phase' = [phase EXCEPT ![d] = IF batch[d] = {<<r, n>>} THEN "claim" ELSE "deliver"]
  /\ UNCHANGED <<run, created, corrupt, up, booting, notifying, inFlight, joined,
                 woken, stop, broke, requests, crashes>>

\* The receiver answered 2xx.
Delivered(d, r, n) ==
  /\ Free
  /\ phase[d] = "sent" /\ IsCurrent(d, r, n)
  /\ status' = [status EXCEPT ![r] = IF @ \in Undelivered THEN "delivered" ELSE @]
  /\ waiting' = waiting \ {r}
  /\ Advance(d, r, n)
  /\ UNCHANGED <<attempts, lost, faults>>

\* Mutant: one attempt too many.
NotDeliveredOneMore(d, r, n) ==
  /\ Free
  /\ phase[d] \in {"deliver", "sent"} /\ IsCurrent(d, r, n)
  /\ IF status[r] \notin Undelivered THEN UNCHANGED <<status, attempts, waiting>>
     ELSE /\ attempts' = [attempts EXCEPT ![r] = @ + 1]
          /\ IF n >= MaxAttempts
             THEN /\ status' = [status EXCEPT ![r] = "failed"]
                  /\ waiting' = waiting \ {r}
             ELSE /\ status' = [status EXCEPT ![r] = "retrying"]
                  /\ waiting' = waiting \cup {r}
  /\ Advance(d, r, n)
  /\ UNCHANGED <<lost, faults>>

\* The request never arrived, was refused, or timed out.
NotDelivered(d, r, n) ==
  /\ Free
  /\ phase[d] \in {"deliver", "sent"} /\ IsCurrent(d, r, n)
  /\ IF status[r] \notin Undelivered THEN UNCHANGED <<status, attempts, waiting>>
     ELSE /\ attempts' = [attempts EXCEPT ![r] = @ + 1]
          /\ IF n + 1 >= MaxAttempts
             THEN /\ status' = [status EXCEPT ![r] = "failed"]
                  /\ waiting' = waiting \ {r}
             ELSE /\ status' = [status EXCEPT ![r] = "retrying"]
                  /\ waiting' = waiting \cup {r}
  /\ Advance(d, r, n)
  /\ UNCHANGED <<lost, faults>>

\* The store throws when the outcome is to be recorded: the row stays due.
RecordThrows(d, r, n) ==
  /\ Free
  /\ phase[d] \in {"deliver", "sent"} /\ IsCurrent(d, r, n)
  /\ faults < MaxFaults
  /\ faults' = faults + 1
  /\ lost' = [lost EXCEPT ![r] = IF phase[d] = "sent" THEN @ + 1 ELSE @]
  /\ Advance(d, r, n)
  /\ UNCHANGED <<status, attempts, waiting>>

\* Mutant: #inFlight is not cleared.
EndKeepsFlight(d) ==
  /\ Free
  /\ phase[d] = "ending"
  /\ phase' = [phase EXCEPT ![d] = "idle"]
  /\ woken' = woken + joined
  /\ joined' = 0
  /\ UNCHANGED <<run, tableVars, up, booting, notifying, batch, inFlight, stop, broke,
                 requests, lost, crashes, faults>>

\* The drain resolves, #inFlight is cleared and the waiting callers go on.
End(d) ==
  /\ Free
  /\ phase[d] = "ending"
  /\ phase' = [phase EXCEPT ![d] = "idle"]
  /\ inFlight' = IF inFlight = d THEN NoDrain ELSE inFlight
  /\ woken' = woken + joined
  /\ joined' = 0
  /\ UNCHANGED <<run, tableVars, up, booting, notifying, batch, stop, broke, requests,
                 lost, crashes, faults>>

\* The drain rejects, and with it the promises of the waiting callers.
Break(d) ==
  /\ Free
  /\ phase[d] = "broken"
  /\ phase' = [phase EXCEPT ![d] = "idle"]
  /\ batch' = [batch EXCEPT ![d] = {}]
  /\ inFlight' = IF inFlight = d THEN NoDrain ELSE inFlight
  /\ joined' = 0
  /\ UNCHANGED <<run, tableVars, up, booting, notifying, woken, stop, broke, requests,
                 lost, crashes, faults>>

\* A caller that waited looks once more.
Recheck ==
  /\ Free
  /\ woken > 0
  /\ woken' = woken - 1
  /\ FlushOnce(status, created)
  /\ UNCHANGED <<run, attempts, waiting, created, corrupt, up, booting, notifying, stop,
                 requests, lost, crashes>>

BackoffElapses(r) ==
  /\ r \in waiting
  /\ waiting' = waiting \ {r}
  /\ UNCHANGED <<run, status, attempts, created, corrupt, up, booting, notifying,
                 drainVars, requests, lost, crashes, faults>>

-----------------------------------------------------------------------------
(* Runs and their notices.                                                 *)

StartRun(r) ==
  /\ Free
  /\ run[r] = "new"
  /\ run' = [run EXCEPT ![r] = "running"]
  /\ UNCHANGED <<tableVars, up, booting, notifying, drainVars, requests, lost, crashes,
                 faults>>

\* #recordRunTerminal: the run ends, or the startup scan finds it
\* interrupted.  A second verdict finds the run terminal and writes nothing.
RecordRunTerminal(r) ==
  /\ up /\ notifying = NoRun
  /\ run[r] = "running"
  /\ run' = [run EXCEPT ![r] = "terminal"]
  /\ notifying' = r
  /\ UNCHANGED <<tableVars, up, booting, drainVars, requests, lost, crashes, faults>>

\* recordTerminal: a new row, and a drain for it unless the sink has stopped.
Notify(r) ==
  /\ notifying = r
  /\ notifying' = NoRun
  /\ created' = [created EXCEPT ![r] = Cardinality(Rows) + 1]
  /\ FlushOnce([status EXCEPT ![r] = "pending"], created')
  /\ UNCHANGED <<run, attempts, waiting, corrupt, up, booting, woken, stop, requests,
                 lost, crashes>>

\* The insert throws: the error is reported and there is no notice.
NotifyThrows(r) ==
  /\ notifying = r
  /\ notifying' = NoRun
  /\ faults < MaxFaults
  /\ faults' = faults + 1
  /\ UNCHANGED <<run, tableVars, up, booting, drainVars, requests, lost, crashes>>

-----------------------------------------------------------------------------
(* The process.                                                            *)

\* A start of the process, possibly of a version with another notice schema.
\* It records the runs it finds running and then flushes once.
Boot ==
  /\ ~up
  /\ up' = TRUE
  /\ booting' = TRUE
  /\ \E C \in SUBSET Rows : /\ Cardinality(corrupt \cup C) <= MaxCorrupt
                            /\ corrupt' = corrupt \cup C
  /\ UNCHANGED <<run, status, attempts, waiting, created, notifying, drainVars, requests,
                 lost, crashes, faults>>

Replay ==
  /\ up /\ booting /\ notifying = NoRun
  /\ \A r \in Runs : run[r] # "running"
  /\ booting' = FALSE
  /\ FlushOnce(status, created)
  /\ UNCHANGED <<run, attempts, waiting, created, corrupt, up, notifying, woken, stop,
                 requests, lost, crashes>>

\* stop(): no new drain from here on, and the current one is waited for.
Stop ==
  /\ Free
  /\ stop = "no"
  /\ stop' = IF inFlight = NoDrain THEN "done" ELSE inFlight
  /\ UNCHANGED <<run, tableVars, up, booting, notifying, phase, batch, inFlight, joined,
                 woken, broke, requests, lost, crashes, faults>>

StopReturns ==
  /\ Free
  /\ stop \in Drains /\ phase[stop] = "idle"
  /\ stop' = "done"
  /\ UNCHANGED <<run, tableVars, up, booting, notifying, phase, batch, inFlight, joined,
                 woken, broke, requests, lost, crashes, faults>>

\* What is in memory is gone.
Reset ==
  /\ up' = FALSE
  /\ booting' = FALSE
  /\ notifying' = NoRun
  /\ phase' = [d \in Drains |-> "idle"]
  /\ batch' = [d \in Drains |-> {}]
  /\ inFlight' = NoDrain
  /\ joined' = 0
  /\ woken' = 0
  /\ stop' = "no"
  /\ broke' = FALSE
  /\ UNCHANGED <<run, tableVars, requests, faults>>

Exit ==
  /\ Free
  /\ stop = "done"
  /\ Reset
  /\ UNCHANGED <<lost, crashes>>

Crash ==
  /\ up
  /\ crashes < MaxCrashes
  /\ crashes' = crashes + 1
  /\ lost' = [r \in Runs |->
       IF \E d \in Drains, n \in 0..MaxAttempts : phase[d] = "sent" /\ IsCurrent(d, r, n)
       THEN lost[r] + 1 ELSE lost[r]]
  /\ Reset

DrainStep(d) ==
  \/ ClaimAgain(d)
  \/ \E r \in Runs, n \in 0..MaxAttempts :
       \/ Send(d, r, n)
       \/ Delivered(d, r, n)
       \/ NotDelivered(d, r, n)
       \/ RecordThrows(d, r, n)
  \/ End(d)
  \/ Break(d)

RunStep(r) ==
  \/ StartRun(r)
  \/ RecordRunTerminal(r)
  \/ Notify(r)
  \/ NotifyThrows(r)
  \/ BackoffElapses(r)

Process == Boot \/ Replay \/ Recheck \/ Stop \/ StopReturns \/ Exit \/ Crash

Next ==
  \/ \E d \in Drains : DrainStep(d)
  \/ \E r \in Runs : RunStep(r)
  \/ Process

Spec == Init /\ [][Next]_vars

\* The event loop goes on: the synchronous part of a notice and of startup,
\* the resolution of promises, and every request, which has a timeout.
\* Nothing is assumed of new runs, starts, stops or the clock.
Fairness ==
  /\ \A d \in Drains : WF_vars(DrainStep(d))
  /\ \A r \in Runs : WF_vars(Notify(r)) /\ WF_vars(booting /\ RecordRunTerminal(r))
  /\ WF_vars(Replay)
  /\ WF_vars(Recheck)

FairSpec == Spec /\ Fairness

-----------------------------------------------------------------------------
(* Properties.                                                             *)

\* A drain works from rows it read before an await.  What it read is still
\* so when it uses it, because there is one drain at a time: the row is
\* undelivered and due, and has the attempt count the drain goes by.
BatchIsCurrent ==
  \A d \in Drains : phase[d] \in {"deliver", "sent"} =>
    /\ batch[d] # {}
    /\ \A p \in batch[d] : p[1] \in DueIn(status) /\ p[2] = attempts[p[1]]

\* No lost wake-up: a notice never tried yet always has a drain that will
\* claim again, or a caller that will start one, whatever the moment it was
\* recorded at.  The exceptions are a drain that ended with an error, a
\* stopped sink, and a whole batch of rows that do not parse.
NothingStranded ==
  Free /\ stop = "no" /\ ~broke /\ MaxCorrupt < BatchSize =>
    \A r \in Runs : status[r] = "pending" =>
      \/ \E d \in Drains : phase[d] \in {"deliver", "sent", "claim"}
      \/ joined + woken > 0

\* The receiver gets a notice at most MaxAttempts times, not counting the
\* requests whose outcome a crash or a failing store kept from being recorded.
RequestBudget ==
  \A r \in Runs : requests[r] <= MaxAttempts + lost[r]

\* No row is settled without a reason: a delivered notice was received, a
\* failed one has used up its attempts or does not parse.
SettledForAReason ==
  \A r \in Runs :
    /\ status[r] = "delivered" => requests[r] > 0
    /\ status[r] = "failed" => attempts[r] = MaxAttempts \/ r \in corrupt

\* When stop() has returned, and the database is about to be closed, no drain
\* is active and none will start.
QuietAfterStop == stop = "done" => Active = {}

\* Every call of flushOnce is answered: drains end, although rows become due
\* again while they run, and the callers that join each other do not go on
\* for ever.
FlushEnds == []<>(inFlight = NoDrain /\ joined + woken = 0)

\* What notices.ts says: one notice per terminal transition of a run.  A
\* crash between the two writes loses it.
TerminalIsNotified ==
  \A r \in Runs : run[r] = "terminal" /\ notifying # r => status[r] # "none"
=============================================================================
