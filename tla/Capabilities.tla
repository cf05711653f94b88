----------------------------- MODULE Capabilities -----------------------------
(***************************************************************************)
(* Capability broker, budget accountant, syscall gateway and commit        *)
(* coordinator of one run.                                                 *)
(*                                                                         *)
(* A call is one SyscallGateway.invoke: its authorisation reserves, and    *)
(* the end of its handler, any time later, commits or releases.  A         *)
(* reservation is named after its call.  Every caller of the gateway       *)
(* leaves tokensToReserve out, so a reservation holds one call and no      *)
(* tokens.                                                                 *)
(*                                                                         *)
(* A submission is one CommitCoordinator.accept.  The promise of an        *)
(* acceptance is named after the submission that created it, its owner;    *)
(* a submission that finds the key in flight waits on the owner's promise. *)
(*                                                                         *)
(* Calls and Submissions bound how many of each there are.  MaxUsage bounds*)
(* the tokens of one call: the provider's limit, nothing in this code.     *)
(***************************************************************************)
EXTENDS Naturals, FiniteSets

CONSTANTS
  Handles, Budgeted, Intents,   \* Intents: handles of github.publish, repo.write
  Calls, Submissions, Keys,
  MaxCalls, MaxTokens, MaxUsage, None

ASSUME CapabilitiesAssumption ==
  /\ Budgeted \subseteq Handles /\ Intents \subseteq Handles
  /\ {MaxCalls, MaxTokens, MaxUsage} \subseteq Nat
  /\ IsFiniteSet(Calls)
  /\ None \notin Handles \cup Submissions \cup Keys

VARIABLES
  issued, revoked, expired,
  held,                   \* #issuedHandles of the run
  reserved,               \* the calls whose reservation an accountant holds
  usedCalls, usedTokens,
  call,
  sub,
  promise,                \* the acceptance a submission owns
  inFlight, receipts,     \* the coordinator's maps
  persisted,              \* intents the durable sink holds for a key
  peak,                   \* history: the most reservations a handle ever had
  cut                     \* history: calls whose reservation a cancellation took

brokerVars == <<issued, revoked, expired, held>>
ledgerVars == <<reserved, usedCalls, usedTokens, peak, cut>>
callVars   == <<ledgerVars, call>>
commitVars == <<sub, promise, inFlight, receipts, persisted>>
vars       == <<brokerVars, callVars, commitVars>>

CallStates == {"idle", "routed", "denied", "running", "returned", "failed"}
SubStates  == {"idle", "waiting", "accepted", "duplicate", "rejected"}

TypeOK ==
  /\ issued \subseteq Handles /\ revoked \subseteq issued /\ expired \subseteq issued
  /\ held \subseteq issued \ Intents
  /\ reserved   \in [Handles -> SUBSET Calls]
  /\ usedCalls  \in [Handles -> Nat]
  /\ usedTokens \in [Handles -> Nat]
  /\ call \in [Calls -> [at : CallStates, handle : Handles \cup {None}]]
  /\ sub  \in [Submissions -> [at : SubStates, key : Keys \cup {None},
                               owner : Submissions \cup {None}]]
  /\ promise   \in [Submissions -> {"none", "persisting", "resolved", "rejected"}]
  /\ inFlight  \in [Keys -> Submissions \cup {None}]
  /\ receipts  \subseteq Keys
  /\ persisted \in [Keys -> Nat]
  /\ peak      \in [Handles -> Nat]
  /\ cut       \subseteq Calls

Init ==
  /\ issued = {} /\ revoked = {} /\ expired = {} /\ held = {}
  /\ reserved = [h \in Handles |-> {}]
  /\ usedCalls = [h \in Handles |-> 0] /\ usedTokens = [h \in Handles |-> 0]
  /\ call = [c \in Calls |-> [at |-> "idle", handle |-> None]]
  /\ sub = [s \in Submissions |-> [at |-> "idle", key |-> None, owner |-> None]]
  /\ promise = [s \in Submissions |-> "none"]
  /\ inFlight = [k \in Keys |-> None] /\ receipts = {}
  /\ persisted = [k \in Keys |-> 0]
  /\ peak = [h \in Handles |-> 0] /\ cut = {}

(***************************************************************************)
(* The broker and the run that owns the handles.                           *)
(***************************************************************************)

\* The publish capability belongs to the host, not to the run's list.
Issue(h) ==
  /\ h \notin issued
  /\ issued' = issued \cup {h}
  /\ held' = IF h \in Intents THEN held ELSE held \cup {h}
  /\ UNCHANGED <<revoked, expired, callVars, commitVars>>

Revoke(h) ==
  /\ h \in issued \ revoked
  /\ revoked' = revoked \cup {h}
  /\ UNCHANGED <<issued, expired, held, callVars, commitVars>>

\* The clock passes expiresAt.
Expire(h) ==
  /\ h \in issued \ expired
  /\ expired' = expired \cup {h}
  /\ UNCHANGED <<issued, revoked, held, callVars, commitVars>>

\* The terminal state of the run: #issuedHandles is emptied and revoked.
RevokeIssued ==
  /\ held # {}
  /\ revoked' = revoked \cup held
  /\ held' = {}
  /\ UNCHANGED <<issued, expired, callVars, commitVars>>

\* cancelRun takes every reservation of the handles it still holds.
SettleBudgetsOnCancel ==
  /\ held # {}
  /\ reserved' = [h \in Handles |-> IF h \in held THEN {} ELSE reserved[h]]
  /\ cut' = cut \cup UNION {reserved[h] : h \in held}
  /\ UNCHANGED <<brokerVars, usedCalls, usedTokens, peak, call, commitVars>>

(***************************************************************************)
(* Reserve, commit, release.                                               *)
(***************************************************************************)

\* Mutant: only the calls are compared.
CanReserveCallsOnly(h) == usedCalls[h] + Cardinality(reserved[h]) + 1 <= MaxCalls

\* Tokens are compared without the calls in flight, which reserve none.
CanReserve(h) ==
  /\ usedCalls[h] + Cardinality(reserved[h]) + 1 <= MaxCalls
  /\ usedTokens[h] <= MaxTokens

\* fits: principal, action, resource and scope all match the record.
Granted(h, fits) ==
  /\ h \in issued \ (revoked \cup expired)
  /\ fits
  /\ h \in Budgeted => CanReserve(h)

Larger(a, b) == IF a < b THEN b ELSE a

Reserve(c, h) ==
  /\ reserved' = [reserved EXCEPT ![h] = @ \cup {c}]
  /\ peak' = [peak EXCEPT ![h] = Larger(@, Cardinality(reserved[h] \cup {c}))]
  /\ UNCHANGED <<usedCalls, usedTokens, cut>>

\* Mutant: usage is charged whether or not the reservation is still there.
CommitAlways(c, h, u) ==
  /\ reserved' = [reserved EXCEPT ![h] = @ \ {c}]
  /\ usedCalls' = [usedCalls EXCEPT ![h] = @ + 1]
  /\ usedTokens' = [usedTokens EXCEPT ![h] = @ + u]
  /\ UNCHANGED <<peak, cut>>

\* A reservation that is gone makes the commit a no-op.
Commit(c, h, u) ==
  \/ /\ c \in reserved[h]
     /\ reserved' = [reserved EXCEPT ![h] = @ \ {c}]
     /\ usedCalls' = [usedCalls EXCEPT ![h] = @ + 1]
     /\ usedTokens' = [usedTokens EXCEPT ![h] = @ + u]
     /\ UNCHANGED <<peak, cut>>
  \/ c \notin reserved[h] /\ UNCHANGED ledgerVars

Release(c, h) ==
  /\ reserved' = [reserved EXCEPT ![h] = @ \ {c}]
  /\ UNCHANGED <<usedCalls, usedTokens, peak, cut>>

(***************************************************************************)
(* The gateway.                                                            *)
(***************************************************************************)

\* Commit-intent actions are turned away before authorisation.
InvokeIntent(c, h) ==
  /\ call[c].at = "idle" /\ h \in Intents
  /\ call' = [call EXCEPT ![c] = [at |-> "routed", handle |-> h]]
  /\ UNCHANGED <<brokerVars, ledgerVars, commitVars>>

InvokeDenied(c, h, fits) ==
  /\ call[c].at = "idle" /\ h \notin Intents
  /\ ~Granted(h, fits)
  /\ call' = [call EXCEPT ![c] = [at |-> "denied", handle |-> h]]
  /\ UNCHANGED <<brokerVars, ledgerVars, commitVars>>

InvokeGranted(c, h, fits) ==
  /\ call[c].at = "idle" /\ h \notin Intents
  /\ Granted(h, fits)
  /\ call' = [call EXCEPT ![c] = [at |-> "running", handle |-> h]]
  /\ \/ h \in Budgeted /\ Reserve(c, h)
     \/ h \notin Budgeted /\ UNCHANGED ledgerVars
  /\ UNCHANGED <<brokerVars, commitVars>>

HandlerReturns(c, u) ==
  /\ call[c].at = "running"
  /\ call' = [call EXCEPT ![c].at = "returned"]
  /\ Commit(c, call[c].handle, u)
  /\ UNCHANGED <<brokerVars, commitVars>>

HandlerFails(c) ==
  /\ call[c].at = "running"
  /\ call' = [call EXCEPT ![c].at = "failed"]
  /\ Release(c, call[c].handle)
  /\ UNCHANGED <<brokerVars, commitVars>>

(***************************************************************************)
(* The coordinator.                                                        *)
(***************************************************************************)

\* An action that is no commit intent is refused before anything is read.
AcceptRefused(s, k) ==
  /\ sub[s].at = "idle"
  /\ sub' = [sub EXCEPT ![s] = [at |-> "rejected", key |-> k, owner |-> None]]
  /\ UNCHANGED <<brokerVars, callVars, promise, inFlight, receipts, persisted>>

AcceptDuplicate(s, k) ==
  /\ sub[s].at = "idle" /\ k \in receipts
  /\ sub' = [sub EXCEPT ![s] = [at |-> "duplicate", key |-> k, owner |-> None]]
  /\ UNCHANGED <<brokerVars, callVars, promise, inFlight, receipts, persisted>>

AcceptShared(s, k) ==
  /\ sub[s].at = "idle" /\ k \notin receipts /\ inFlight[k] # None
  /\ sub' = [sub EXCEPT ![s] = [at |-> "waiting", key |-> k, owner |-> inFlight[k]]]
  /\ UNCHANGED <<brokerVars, callVars, promise, inFlight, receipts, persisted>>

\* Mutant: a key in flight is not looked up.
AcceptFreshUnshared(s, k, h, fits) ==
  /\ sub[s].at = "idle" /\ k \notin receipts
  /\ sub' = [sub EXCEPT ![s] = [at |-> "waiting", key |-> k, owner |-> s]]
  /\ promise' = [promise EXCEPT ![s] =
                   IF Granted(h, fits) /\ h \in Intents THEN "persisting" ELSE "rejected"]
  /\ inFlight' = [inFlight EXCEPT ![k] = s]
  /\ UNCHANGED <<brokerVars, callVars, receipts, persisted>>

\* acceptInternal runs up to the sink: a denial rejects its promise at once,
\* and a reservation is taken and given back within the step.
AcceptFresh(s, k, h, fits) ==
  /\ sub[s].at = "idle" /\ k \notin receipts /\ inFlight[k] = None
  /\ sub' = [sub EXCEPT ![s] = [at |-> "waiting", key |-> k, owner |-> s]]
  /\ promise' = [promise EXCEPT ![s] =
                   IF Granted(h, fits) /\ h \in Intents THEN "persisting" ELSE "rejected"]
  /\ inFlight' = [inFlight EXCEPT ![k] = s]
  /\ UNCHANGED <<brokerVars, callVars, receipts, persisted>>

SinkPersists(s) ==
  /\ promise[s] = "persisting"
  /\ promise' = [promise EXCEPT ![s] = "resolved"]
  /\ persisted' = [persisted EXCEPT ![sub[s].key] = @ + 1]
  /\ UNCHANGED <<brokerVars, callVars, sub, inFlight, receipts>>

SinkFails(s) ==
  /\ promise[s] = "persisting"
  /\ promise' = [promise EXCEPT ![s] = "rejected"]
  /\ UNCHANGED <<brokerVars, callVars, sub, inFlight, receipts, persisted>>

\* Mutant: a failed attempt stays in flight.
OwnerKeepsFailure(s) ==
  /\ sub[s].at = "waiting" /\ sub[s].owner = s
  /\ \/ /\ promise[s] = "resolved"
        /\ receipts' = receipts \cup {sub[s].key}
        /\ sub' = [sub EXCEPT ![s].at = "accepted"]
     \/ /\ promise[s] = "rejected"
        /\ sub' = [sub EXCEPT ![s].at = "rejected"]
        /\ UNCHANGED receipts
  /\ UNCHANGED <<brokerVars, callVars, promise, inFlight, persisted>>

\* The owner's continuation after its await.  A receipt leaves inFlight set.
OwnerResumes(s) ==
  /\ sub[s].at = "waiting" /\ sub[s].owner = s
  /\ \/ /\ promise[s] = "resolved"
        /\ receipts' = receipts \cup {sub[s].key}
        /\ sub' = [sub EXCEPT ![s].at = "accepted"]
        /\ UNCHANGED inFlight
     \/ /\ promise[s] = "rejected"
        /\ inFlight' = [inFlight EXCEPT ![sub[s].key] = None]
        /\ sub' = [sub EXCEPT ![s].at = "rejected"]
        /\ UNCHANGED receipts
  /\ UNCHANGED <<brokerVars, callVars, promise, persisted>>

\* A shared promise is adopted by an async function: its reaction is queued
\* after the owner's, which was attached first.
SharerResumes(s) ==
  LET o == sub[s].owner IN
  /\ sub[s].at = "waiting" /\ o # s
  /\ sub[o].at \in {"accepted", "rejected"}
  /\ sub' = [sub EXCEPT ![s].at = sub[o].at]
  /\ UNCHANGED <<brokerVars, callVars, promise, inFlight, receipts, persisted>>

RunStep == RevokeIssued \/ SettleBudgetsOnCancel
HandleStep(h) == Issue(h) \/ Revoke(h) \/ Expire(h)
CallStep(c) ==
  \/ \E h \in Handles : InvokeIntent(c, h)
  \/ \E h \in Handles, fits \in BOOLEAN : InvokeDenied(c, h, fits) \/ InvokeGranted(c, h, fits)
  \/ \E u \in 0..MaxUsage : HandlerReturns(c, u)
  \/ HandlerFails(c)
SubmissionStep(s) ==
  \/ \E k \in Keys : AcceptRefused(s, k) \/ AcceptDuplicate(s, k) \/ AcceptShared(s, k)
  \/ \E k \in Keys, h \in Handles, fits \in BOOLEAN : AcceptFresh(s, k, h, fits)
  \/ SinkPersists(s) \/ SinkFails(s) \/ OwnerResumes(s) \/ SharerResumes(s)

Next ==
  \/ RunStep
  \/ \E h \in Handles : HandleStep(h)
  \/ \E c \in Calls : CallStep(c)
  \/ \E s \in Submissions : SubmissionStep(s)

Spec == Init /\ [][Next]_vars

(***************************************************************************)
(* Properties.                                                             *)
(***************************************************************************)

\* A token budget is checked when a call is admitted and charged when it
\* ends, so it can be passed, but only by the calls in flight together: the
\* excess is at most MaxUsage times the most reservations ever held at once.
\* A cancellation that empties the reservations does not widen it.
OvershootBounded ==
  \A h \in Budgeted :
    usedTokens[h] + MaxUsage * Cardinality(reserved[h]) <= MaxTokens + MaxUsage * peak[h]

\* The ledger is what ran: a budget holds a reservation exactly for the calls
\* in flight, and has charged exactly the calls that returned, except those a
\* cancellation cut: these hold nothing and are never charged.
LedgerIsWhatRan ==
  \A h \in Budgeted :
    LET of(at) == {c \in Calls \ cut : call[c].handle = h /\ call[c].at = at} IN
    /\ reserved[h] = of("running")
    /\ usedCalls[h] = Cardinality(of("returned"))
    /\ usedCalls[h] + Cardinality(reserved[h]) <= MaxCalls
    /\ usedTokens[h] <= MaxUsage * usedCalls[h]

\* However submissions of one key interleave, fail and are retried, the sink
\* holds at most one intent for it, and a submission is told accepted or
\* duplicate only when it holds one.
OneIntentPerKey ==
  /\ \A k \in Keys : persisted[k] <= 1
  /\ \A s \in Submissions :
       sub[s].at \in {"accepted", "duplicate"} => persisted[sub[s].key] = 1

\* A submission that was told of a failure finds its key free of the attempt
\* that failed, also when it only shared that attempt: a retry is a new one.
RejectionFreesKey ==
  \A s \in Submissions :
    sub[s].at = "rejected" /\ sub[s].owner # None => inFlight[sub[s].key] # sub[s].owner

\* What a coordinator promises of a key (coordinator.ts): accepted once, and
\* only a failure lets it be tried again.
CommitsOnce == OneIntentPerKey /\ RejectionFreesKey

===============================================================================
