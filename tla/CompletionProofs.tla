-------------------------- MODULE CompletionProofs --------------------------
(***************************************************************************)
(* Theorems about CompletionSink, for any finite set of runs and any       *)
(* bounds.  Everything rests on the single flight: a drain is active       *)
(* exactly while #inFlight names it, so nobody settles the rows another    *)
(* drain has read, and whoever finds #inFlight set joins a drain that is   *)
(* still going to end.                                                     *)
(***************************************************************************)
EXTENDS CompletionSink, FiniteSetTheorems, TLAPS

\* #inFlight names the active drain, and it is the only one.
OneFlight ==
  /\ \A d \in Drains : phase[d] # "idle" <=> inFlight = d
  /\ \A d \in Drains : phase[d] = "broken" => broke

\* Only runs that have ended and been notified have rows.
RowsOfEnded ==
  /\ \A r \in Runs : status[r] # "none" => run[r] = "terminal" /\ r # notifying
  /\ \A r \in Runs : r = notifying => run[r] = "terminal"
  /\ \A r \in Runs : status[r] = "none" => attempts[r] = 0
  /\ \A r \in Runs : status[r] \in Undelivered => attempts[r] < MaxAttempts
  /\ corrupt \subseteq Rows
  /\ Cardinality(corrupt) <= MaxCorrupt

\* NothingStranded also between a terminal write and its notice.
Awake ==
  \/ \E d \in Drains : phase[d] \in {"deliver", "sent", "claim"}
  \/ joined + woken > 0

Covered ==
  up /\ ~booting /\ stop = "no" /\ ~broke /\ MaxCorrupt < BatchSize =>
    \A r \in Runs : status[r] = "pending" => Awake

\* Once stop() has been called no drain starts.
Stopping ==
  /\ stop = "done" => inFlight = NoDrain
  /\ stop \in Drains => inFlight \in {stop, NoDrain}

SinkInv == TypeOK /\ OneFlight /\ RowsOfEnded /\ BatchIsCurrent /\ Covered /\ Stopping

-----------------------------------------------------------------------------
(* What a claim leaves behind.                                             *)

\* The outcome of claimDue in the drain d, from the outbox st.
Claimed(d, st) ==
  /\ status' \in [Runs -> Statuses]
  /\ \A r \in Runs : status'[r] # st[r] =>
       status'[r] = "failed" /\ r \in corrupt /\ r \in DueIn(st)
  /\ \E p \in {"ending", "deliver", "broken"} : phase' = [phase EXCEPT ![d] = p]
  /\ batch' \in [Drains -> SUBSET (Runs \X Nat)]
  /\ \A e \in Drains : e # d => batch'[e] = batch[e]
  /\ phase'[d] = "deliver" =>
       /\ batch'[d] # {}
       /\ \A p \in batch'[d] : /\ p[1] \in DueIn(st) /\ p[2] = attempts[p[1]]
                               /\ status'[p[1]] = st[p[1]]
  /\ phase'[d] = "broken" => broke'
  /\ phase'[d] = "ending" /\ MaxCorrupt < BatchSize =>
       \A r \in Runs : status'[r] # "pending"
  /\ broke' \in BOOLEAN
  /\ faults' \in Nat

LEMMA CorruptFinite ==
  ASSUME TypeOK
  PROVE  IsFiniteSet(corrupt) /\ Cardinality(corrupt) \in Nat
BY FS_Subset, FS_CardinalityType, SinkAssumption DEF TypeOK

\* A page of nothing but rows that do not parse is all that is due, as long
\* as there are fewer of them than a page holds.
LEMMA CorruptPage ==
  ASSUME TypeOK, RowsOfEnded, MaxCorrupt < BatchSize,
         NEW st, NEW at, NEW B, IsPage(B, st, at), B \subseteq corrupt
  PROVE  B = DueIn(st)
<1>1. IsFiniteSet(B) /\ Cardinality(B) \in Nat /\ Cardinality(B) <= Cardinality(corrupt)
  BY CorruptFinite, FS_Subset, FS_CardinalityType
<1>2. Cardinality(B) < BatchSize
  BY <1>1, CorruptFinite, SinkAssumption DEF RowsOfEnded
<1> QED BY <1>2 DEF IsPage

LEMMA ClaimClaims ==
  ASSUME TypeOK, RowsOfEnded, NEW d \in Drains, NEW st \in [Runs -> Statuses], NEW at,
         Claim(d, st, at)
  PROVE  Claimed(d, st)
<1>1. PICK B \in SUBSET Runs :
        /\ IsPage(B, st, at)
        /\ status' = [r \in Runs |-> IF r \in B \cap corrupt THEN "failed" ELSE st[r]]
        /\ batch' = [batch EXCEPT ![d] = {<<r, attempts[r]>> : r \in B \ corrupt}]
        /\ phase' = [phase EXCEPT ![d] = IF B \subseteq corrupt THEN "ending" ELSE "deliver"]
        /\ broke' = (broke /\ ~(B \subseteq corrupt))
        /\ UNCHANGED faults
  BY DEF Claim
<1>2. /\ status' \in [Runs -> Statuses]
      /\ \A r \in Runs : status'[r] # st[r] =>
           status'[r] = "failed" /\ r \in corrupt /\ r \in DueIn(st)
  BY <1>1 DEF Statuses, IsPage
<1>3. \E p \in {"ending", "deliver", "broken"} : phase' = [phase EXCEPT ![d] = p]
  <2>1. (IF B \subseteq corrupt THEN "ending" ELSE "deliver") \in {"ending", "deliver", "broken"}
    OBVIOUS
  <2> QED BY <1>1, <2>1
<1>4. /\ batch' \in [Drains -> SUBSET (Runs \X Nat)]
      /\ \A e \in Drains : e # d => batch'[e] = batch[e]
      /\ batch'[d] = {<<r, attempts[r]>> : r \in B \ corrupt}
  <2>1. {<<r, attempts[r]>> : r \in B \ corrupt} \subseteq Runs \X Nat
    BY DEF TypeOK
  <2> QED BY <1>1, <2>1 DEF TypeOK
<1>5. phase'[d] = IF B \subseteq corrupt THEN "ending" ELSE "deliver"
  BY <1>1 DEF TypeOK
<1>6. ASSUME phase'[d] = "deliver"
      PROVE  /\ batch'[d] # {}
             /\ \A p \in batch'[d] : /\ p[1] \in DueIn(st) /\ p[2] = attempts[p[1]]
                                     /\ status'[p[1]] = st[p[1]]
  <2>1. PICK good \in B : good \notin corrupt
    BY <1>5, <1>6
  <2>2. <<good, attempts[good]>> \in batch'[d]
    BY <1>4, <2>1
  <2>3. \A r \in B \ corrupt : r \in DueIn(st) /\ status'[r] = st[r]
    BY <1>1 DEF IsPage
  <2>4. ASSUME NEW p \in batch'[d]
        PROVE  p[1] \in DueIn(st) /\ p[2] = attempts[p[1]] /\ status'[p[1]] = st[p[1]]
    <3>1. PICK q \in B \ corrupt : p = <<q, attempts[q]>>
      BY <1>4
    <3> QED BY <2>3, <3>1
  <2> QED BY <2>2, <2>4
<1>7. ASSUME phase'[d] = "ending", MaxCorrupt < BatchSize, NEW r \in Runs
      PROVE  status'[r] # "pending"
  <2>1. B = DueIn(st) /\ B \subseteq corrupt
    BY <1>1, <1>5, <1>7, CorruptPage
  <2>2. CASE r \in B
    BY <1>1, <2>1, <2>2
  <2>3. CASE r \notin B
    BY <1>1, <2>1, <2>3 DEF DueIn
  <2> QED BY <2>2, <2>3
<1>8. broke' \in BOOLEAN /\ faults' \in Nat /\ phase'[d] # "broken"
  BY <1>1, <1>5 DEF TypeOK
<1> QED BY <1>2, <1>3, <1>4, <1>6, <1>7, <1>8 DEF Claimed

LEMMA ClaimThrowsClaims ==
  ASSUME TypeOK, RowsOfEnded, NEW d \in Drains, NEW st \in [Runs -> Statuses], NEW at,
         ClaimThrows(d, st, at)
  PROVE  Claimed(d, st)
<1>1. PICK B \in SUBSET Runs, C \in SUBSET corrupt :
        /\ IsPage(B, st, at)
        /\ status' = [r \in Runs |-> IF r \in B \cap C THEN "failed" ELSE st[r]]
  BY DEF ClaimThrows
<1>2. /\ status' \in [Runs -> Statuses]
      /\ \A r \in Runs : status'[r] # st[r] =>
           status'[r] = "failed" /\ r \in corrupt /\ r \in DueIn(st)
  BY <1>1 DEF Statuses, IsPage
<1>3. phase' = [phase EXCEPT ![d] = "broken"] /\ phase'[d] = "broken"
  BY DEF ClaimThrows, TypeOK
<1>4. /\ batch' \in [Drains -> SUBSET (Runs \X Nat)]
      /\ \A e \in Drains : e # d => batch'[e] = batch[e]
      /\ broke' \in BOOLEAN /\ broke' /\ faults' \in Nat
  BY DEF ClaimThrows, TypeOK
<1> QED BY <1>2, <1>3, <1>4 DEF Claimed

-----------------------------------------------------------------------------
(* What a flush leaves behind.                                             *)

\* The outcome of flushOnce, from the outbox st.
Flushed(st) ==
  \/ /\ stop # "no"
     /\ status' = st
     /\ UNCHANGED <<phase, batch, inFlight, joined, broke, faults>>
  \/ /\ stop = "no" /\ inFlight # NoDrain
     /\ joined' = joined + 1
     /\ status' = st
     /\ UNCHANGED <<phase, batch, inFlight, broke, faults>>
  \/ /\ stop = "no" /\ inFlight = NoDrain
     /\ \E d \in Drains : phase[d] = "idle" /\ inFlight' = d /\ Claimed(d, st)
     /\ UNCHANGED joined

LEMMA FlushFlushes ==
  ASSUME TypeOK, RowsOfEnded, NEW st \in [Runs -> Statuses], NEW at, FlushOnce(st, at)
  PROVE  Flushed(st)
<1>1. \A d \in Drains : Claim(d, st, at) \/ ClaimThrows(d, st, at) => Claimed(d, st)
  BY ClaimClaims, ClaimThrowsClaims
<1> QED BY <1>1 DEF FlushOnce, Flushed

\* The outbox, possibly with a new row.
WithNew(st) ==
  /\ st \in [Runs -> Statuses]
  /\ \A r \in Runs : st[r] # status[r] => status[r] = "none" /\ st[r] = "pending"

\* The part of the invariant a flush or a claim can disturb.
AfterClaim ==
  /\ status' \in [Runs -> Statuses]
  /\ phase' \in [Drains -> Phases]
  /\ batch' \in [Drains -> SUBSET (Runs \X Nat)]
  /\ inFlight' \in Drains \cup {NoDrain}
  /\ joined' \in Nat
  /\ broke' \in BOOLEAN
  /\ faults' \in Nat
  /\ OneFlight'
  /\ BatchIsCurrent'
  /\ Stopping'

\* No row that could still be tried is left without a drain or a caller.
ClaimCovers ==
  stop = "no" /\ ~broke' /\ MaxCorrupt < BatchSize =>
    \A r \in Runs : status'[r] = "pending" =>
      \/ \E d \in Drains : phase'[d] \in {"deliver", "sent", "claim"}
      \/ joined' > 0

\* A claim only settles due rows that do not parse, and as failed.
OnlyFails(st) ==
  \A r \in Runs : status'[r] # st[r] =>
    status'[r] = "failed" /\ r \in corrupt /\ r \in DueIn(st)

LEMMA ClaimedSafe ==
  ASSUME TypeOK, BatchIsCurrent,
         \A e \in Drains : phase[e] = "broken" => broke,
         NEW st, WithNew(st),
         UNCHANGED <<attempts, waiting>>,
         NEW d \in Drains, Claimed(d, st), inFlight' = d,
         \A e \in Drains : e # d => phase[e] = "idle"
  PROVE  /\ phase' \in [Drains -> Phases]
         /\ OneFlight'
         /\ BatchIsCurrent'
         /\ (~broke' /\ MaxCorrupt < BatchSize =>
               \A r \in Runs : status'[r] = "pending" => phase'[d] = "deliver")
<1>1. PICK p \in {"ending", "deliver", "broken"} : phase' = [phase EXCEPT ![d] = p]
  BY DEF Claimed
<1>2. /\ phase' \in [Drains -> Phases]
      /\ phase'[d] = p
      /\ \A e \in Drains : e # d => phase'[e] = "idle"
  BY <1>1 DEF TypeOK, Phases
<1>3. OneFlight'
  BY <1>2 DEF OneFlight, Claimed
<1>4. BatchIsCurrent'
  <2> SUFFICES ASSUME phase'[d] = "deliver"
               PROVE  /\ batch'[d] # {}
                      /\ \A q \in batch'[d] : q[1] \in DueIn(status)' /\ q[2] = attempts'[q[1]]
    BY <1>2 DEF BatchIsCurrent
  <2>1. batch'[d] # {}
    BY DEF Claimed
  <2>2. ASSUME NEW q \in batch'[d]
        PROVE  q[1] \in DueIn(status)' /\ q[2] = attempts'[q[1]]
    <3>1. q[1] \in DueIn(st) /\ q[2] = attempts[q[1]] /\ status'[q[1]] = st[q[1]]
      BY DEF Claimed
    <3> QED BY <3>1 DEF DueIn
  <2> QED BY <2>1, <2>2
<1>5. ~broke' /\ MaxCorrupt < BatchSize =>
        \A r \in Runs : status'[r] = "pending" => phase'[d] = "deliver"
  BY <1>2 DEF Claimed
<1> QED BY <1>2, <1>3, <1>4, <1>5

LEMMA FlushSafe ==
  ASSUME TypeOK, OneFlight, BatchIsCurrent, Stopping, NEW st, WithNew(st),
         Flushed(st), UNCHANGED <<attempts, waiting, stop>>
  PROVE  AfterClaim /\ ClaimCovers /\ OnlyFails(st)
<1>1. CASE status' = st /\ UNCHANGED <<phase, batch, inFlight, broke, faults>> /\ joined' \in Nat
  <2>1. BatchIsCurrent'
    <3>1. DueIn(status) \subseteq DueIn(status)'
      BY <1>1 DEF DueIn, WithNew
    <3> QED BY <1>1, <3>1 DEF BatchIsCurrent
  <2>2. AfterClaim
    BY <1>1, <2>1 DEF AfterClaim, WithNew, TypeOK, OneFlight, Stopping
  <2>3. stop = "no" => joined' > 0
    <3>1. CASE stop = "no" /\ inFlight # NoDrain
      BY <1>1, <3>1 DEF Flushed, TypeOK
    <3>2. CASE stop = "no" /\ inFlight = NoDrain
      <4>1. \E d \in Drains : phase[d] = "idle" /\ inFlight' = d
        BY <3>2 DEF Flushed
      <4> QED BY <1>1, <3>2, <4>1, SinkAssumption
    <3> QED BY <3>1, <3>2
  <2> QED BY <1>1, <2>2, <2>3 DEF ClaimCovers, OnlyFails
<1>2. CASE stop = "no" /\ inFlight = NoDrain
  <2>1. PICK d \in Drains : phase[d] = "idle" /\ inFlight' = d /\ Claimed(d, st)
    BY <1>2 DEF Flushed
  <2>2. \A e \in Drains : phase[e] = "idle"
    BY <1>2, SinkAssumption DEF OneFlight
  <2>3. /\ phase' \in [Drains -> Phases] /\ OneFlight' /\ BatchIsCurrent'
        /\ (~broke' /\ MaxCorrupt < BatchSize =>
              \A r \in Runs : status'[r] = "pending" => phase'[d] = "deliver")
    BY <2>1, <2>2, ClaimedSafe
  <2>4. Stopping' /\ joined' \in Nat
    BY <1>2, SinkAssumption DEF Stopping, Flushed, TypeOK
  <2>5. AfterClaim
    BY <2>1, <2>3, <2>4 DEF AfterClaim, Claimed
  <2>6. ClaimCovers
    BY <2>3 DEF ClaimCovers
  <2>7. OnlyFails(st)
    BY <2>1 DEF OnlyFails, Claimed
  <2> QED BY <2>5, <2>6, <2>7
<1>3. CASE ~(stop = "no" /\ inFlight = NoDrain)
  <2>1. status' = st /\ UNCHANGED <<phase, batch, inFlight, broke, faults>> /\ joined' \in Nat
    BY <1>3 DEF Flushed, TypeOK
  <2> QED BY <1>1, <2>1
<1> QED BY <1>2, <1>3

-----------------------------------------------------------------------------
(* The steps.                                                              *)

\* The facts about rows survive a flush.
LEMMA FlushKeepsRows ==
  ASSUME TypeOK, RowsOfEnded, NEW st, WithNew(st), OnlyFails(st),
         status' \in [Runs -> Statuses],
         UNCHANGED <<run, attempts, waiting, corrupt>>,
         \A r \in Runs : st[r] # status[r] => run[r] = "terminal" /\ r # notifying',
         notifying' \in {notifying, NoRun}
  PROVE  RowsOfEnded' /\ (waiting \subseteq {r \in Runs : status[r] = "retrying"})'
<1>1. ASSUME NEW r \in Runs, status'[r] # "none"
      PROVE  run[r] = "terminal" /\ r # notifying'
  <2>1. st[r] # "none"
    BY <1>1 DEF OnlyFails, DueIn
  <2>2. CASE st[r] = status[r]
    BY <2>1, <2>2, SinkAssumption DEF RowsOfEnded
  <2> QED BY <2>2
<1>2. ASSUME NEW r \in Runs, status'[r] = "none"
      PROVE  status[r] = "none"
  BY <1>2 DEF OnlyFails, WithNew
<1>3. ASSUME NEW r \in Runs, status'[r] \in Undelivered
      PROVE  attempts[r] < MaxAttempts
  <2>1. status'[r] = st[r]
    BY <1>3 DEF OnlyFails, Undelivered
  <2>2. CASE st[r] = status[r]
    BY <1>3, <2>1, <2>2 DEF RowsOfEnded
  <2>3. CASE st[r] # status[r]
    BY <2>3, SinkAssumption DEF WithNew, RowsOfEnded
  <2> QED BY <2>2, <2>3
<1>4. waiting \subseteq {r \in Runs : status'[r] = "retrying"}
  <2> SUFFICES ASSUME NEW r \in waiting PROVE r \in Runs /\ status'[r] = "retrying"
    OBVIOUS
  <2>1. r \in Runs /\ status[r] = "retrying"
    BY DEF TypeOK
  <2>2. st[r] = "retrying"
    BY <2>1 DEF WithNew
  <2> QED BY <2>1, <2>2 DEF OnlyFails, DueIn
<1>5. corrupt \subseteq Rows'
  BY <1>2 DEF Rows, RowsOfEnded
<1>6. \A r \in Runs : r = notifying' => run[r] = "terminal"
  BY SinkAssumption DEF RowsOfEnded
<1>7. \A r \in Runs : status'[r] = "none" => attempts[r] = 0
  BY <1>2 DEF RowsOfEnded
<1> QED BY <1>1, <1>3, <1>4, <1>5, <1>6, <1>7 DEF RowsOfEnded

\* The steps that flush.
LEMMA FlushingStep ==
  ASSUME SinkInv, NEW st, WithNew(st), NEW at, FlushOnce(st, at),
         UNCHANGED <<run, attempts, waiting, corrupt, up, stop, requests, lost, crashes>>,
         created' \in [Runs -> Nat],
         booting' \in BOOLEAN,
         woken' \in Nat,
         \A r \in Runs : st[r] # status[r] => run[r] = "terminal" /\ r # notifying',
         notifying' \in {notifying, NoRun}
  PROVE  SinkInv'
<1>1. st \in [Runs -> Statuses]
  BY DEF WithNew
<1>2. AfterClaim /\ ClaimCovers /\ OnlyFails(st)
  BY <1>1, FlushFlushes, FlushSafe DEF SinkInv
<1>3. RowsOfEnded' /\ (waiting \subseteq {r \in Runs : status[r] = "retrying"})'
  BY <1>2, FlushKeepsRows DEF SinkInv, AfterClaim
<1>4. TypeOK'
  BY <1>2, <1>3 DEF SinkInv, TypeOK, AfterClaim
<1>5. Covered'
  <2>1. joined' \in Nat /\ woken' \in Nat
    BY <1>2 DEF AfterClaim
  <2> QED BY <1>2, <2>1 DEF ClaimCovers, Covered, Awake
<1> QED BY <1>2, <1>3, <1>4, <1>5 DEF SinkInv, AfterClaim

LEMMA ClaimAgainSafe ==
  ASSUME SinkInv, NEW d \in Drains, ClaimAgain(d)
  PROVE  SinkInv'
<1>1. status \in [Runs -> Statuses] /\ WithNew(status)
  BY DEF SinkInv, TypeOK, WithNew
<1>2. Claimed(d, status)
  BY <1>1, ClaimClaims, ClaimThrowsClaims DEF SinkInv, ClaimAgain
<1>3. inFlight = d /\ \A e \in Drains : e # d => phase[e] = "idle"
  BY DEF SinkInv, OneFlight, ClaimAgain
<1>4. /\ phase' \in [Drains -> Phases] /\ OneFlight' /\ BatchIsCurrent'
      /\ (~broke' /\ MaxCorrupt < BatchSize =>
            \A r \in Runs : status'[r] = "pending" => phase'[d] = "deliver")
  BY <1>1, <1>2, <1>3, ClaimedSafe DEF SinkInv, OneFlight, ClaimAgain
<1>5. OnlyFails(status) /\ status' \in [Runs -> Statuses]
  BY <1>2 DEF OnlyFails, Claimed
<1>6. RowsOfEnded' /\ (waiting \subseteq {r \in Runs : status[r] = "retrying"})'
  BY <1>1, <1>5, FlushKeepsRows DEF SinkInv, ClaimAgain
<1>7. TypeOK'
  BY <1>2, <1>4, <1>5, <1>6 DEF SinkInv, TypeOK, ClaimAgain, Claimed
<1>8. Stopping' /\ Covered'
  BY <1>4 DEF SinkInv, Stopping, Covered, Awake, ClaimAgain
<1> QED BY <1>4, <1>6, <1>7, <1>8 DEF SinkInv

LEMMA FlushersSafe ==
  ASSUME SinkInv, Recheck \/ Replay \/ \E r \in Runs : Notify(r)
  PROVE  SinkInv'
<1>1. WithNew(status)
  BY DEF SinkInv, TypeOK, WithNew
<1>2. CASE Recheck
  <2>1. woken' \in Nat /\ notifying' \in {notifying, NoRun}
    BY <1>2 DEF Recheck, SinkInv, TypeOK
  <2> QED BY <1>1, <1>2, <2>1, FlushingStep DEF Recheck, SinkInv, TypeOK
<1>3. CASE Replay
  BY <1>1, <1>3, FlushingStep DEF Replay, SinkInv, TypeOK
<1>4. ASSUME NEW r \in Runs, Notify(r) PROVE SinkInv'
  <2> DEFINE st == [status EXCEPT ![r] = "pending"]
  <2>1. status[r] = "none" /\ run[r] = "terminal"
    BY <1>4 DEF SinkInv, RowsOfEnded, Notify
  <2>2. WithNew(st)
    BY <2>1 DEF WithNew, SinkInv, TypeOK, Statuses, Undelivered
  <2>3. \A q \in Runs : st[q] # status[q] => run[q] = "terminal" /\ q # notifying'
    BY <1>4, <2>1, SinkAssumption DEF Notify, SinkInv, TypeOK
  <2>4. created' \in [Runs -> Nat]
    <3>1. Cardinality(Rows) \in Nat
      BY FS_Subset, FS_CardinalityType, SinkAssumption DEF Rows
    <3> QED BY <1>4, <3>1 DEF Notify, SinkInv, TypeOK
  <2>5. FlushOnce(st, created')
    BY <1>4 DEF Notify
  <2> HIDE DEF st
  <2> QED BY <1>4, <2>2, <2>3, <2>4, <2>5, FlushingStep DEF Notify, SinkInv, TypeOK
<1> QED BY <1>2, <1>3, <1>4

\* The row a drain delivers, and what it takes to move on to the next one.
LEMMA CurrentRow ==
  ASSUME SinkInv, NEW d \in Drains, NEW r \in Runs, NEW n, IsCurrent(d, r, n),
         phase[d] \in {"deliver", "sent"}
  PROVE  /\ status[r] \in Undelivered
         /\ n = attempts[r] /\ attempts[r] < MaxAttempts /\ attempts[r] \in Nat
         /\ inFlight = d /\ \A e \in Drains : e # d => phase[e] = "idle"
         /\ \A p \in batch[d] : p # <<r, n>> => p[1] # r
<1>1. <<r, n>> \in batch[d]
  BY DEF IsCurrent
<1>2. r \in DueIn(status) /\ n = attempts[r]
  BY <1>1 DEF SinkInv, BatchIsCurrent
<1>3. status[r] \in Undelivered
  BY <1>2 DEF DueIn, Undelivered
<1>4. \A p \in batch[d] : p # <<r, n>> => p[1] # r
  <2> SUFFICES ASSUME NEW p \in batch[d], p[1] = r PROVE p = <<r, n>>
    OBVIOUS
  <2>1. p \in Runs \X Nat /\ p[2] = attempts[p[1]]
    BY DEF SinkInv, TypeOK, BatchIsCurrent
  <2> QED BY <1>2, <2>1
<1> QED BY <1>2, <1>3, <1>4 DEF SinkInv, OneFlight, RowsOfEnded, TypeOK

\* An attempt ends, and only its row changes.
LEMMA AdvanceSafe ==
  ASSUME SinkInv, NEW d \in Drains, NEW r \in Runs, NEW n,
         phase[d] \in {"deliver", "sent"}, IsCurrent(d, r, n), Advance(d, r, n),
         status' \in [Runs -> Statuses], attempts' \in [Runs -> 0..MaxAttempts],
         waiting' \subseteq {q \in Runs : status'[q] = "retrying"},
         lost' \in [Runs -> Nat], faults' \in Nat,
         \A q \in Runs : q # r =>
           /\ status'[q] = status[q] /\ attempts'[q] = attempts[q]
           /\ q \in waiting' <=> q \in waiting,
         status'[r] \in Undelivered => attempts'[r] < MaxAttempts,
         status'[r] # "none",
         status'[r] = "pending" => status[r] = "pending"
  PROVE  SinkInv'
<1>1. /\ status[r] \in Undelivered /\ n = attempts[r]
      /\ inFlight = d /\ \A e \in Drains : e # d => phase[e] = "idle"
      /\ \A p \in batch[d] : p # <<r, n>> => p[1] # r
  BY CurrentRow
<1>2. /\ phase'[d] \in {"claim", "deliver"}
      /\ phase'[d] = "deliver" => batch[d] # {<<r, n>>}
      /\ phase' \in [Drains -> Phases]
      /\ \A e \in Drains : e # d => phase'[e] = "idle"
  BY <1>1 DEF Advance, SinkInv, TypeOK, Phases
<1>3. batch' \in [Drains -> SUBSET (Runs \X Nat)] /\ batch'[d] = batch[d] \ {<<r, n>>}
  BY DEF Advance, SinkInv, TypeOK
<1>4. TypeOK'
  BY <1>2, <1>3 DEF SinkInv, TypeOK, Advance
<1>5. OneFlight' /\ Stopping'
  BY <1>1, <1>2 DEF SinkInv, OneFlight, Stopping, Advance
<1>6. RowsOfEnded'
  <2>1. status[r] # "none"
    BY <1>1 DEF Undelivered
  <2>2. Rows' = Rows
    BY <2>1 DEF Rows
  <2> QED BY <2>1, <2>2 DEF SinkInv, RowsOfEnded, Advance
<1>7. BatchIsCurrent'
  <2> SUFFICES ASSUME phase'[d] = "deliver"
               PROVE  /\ batch'[d] # {}
                      /\ \A p \in batch'[d] : p[1] \in DueIn(status)' /\ p[2] = attempts'[p[1]]
    BY <1>2 DEF BatchIsCurrent
  <2>1. batch'[d] # {}
    BY <1>2, <1>3 DEF IsCurrent
  <2>2. ASSUME NEW p \in batch'[d]
        PROVE  p[1] \in DueIn(status)' /\ p[2] = attempts'[p[1]]
    <3>1. p \in batch[d] /\ p[1] # r
      BY <1>1, <1>3
    <3>2. p[1] \in DueIn(status) /\ p[2] = attempts[p[1]]
      BY <3>1 DEF SinkInv, BatchIsCurrent
    <3> QED BY <3>1, <3>2 DEF DueIn
  <2> QED BY <2>1, <2>2
<1>8. Covered'
  BY <1>2 DEF Covered, Awake
<1> QED BY <1>4, <1>5, <1>6, <1>7, <1>8 DEF SinkInv

LEMMA AttemptSafe ==
  ASSUME SinkInv, NEW d \in Drains, NEW r \in Runs, NEW n \in 0..MaxAttempts,
         Delivered(d, r, n) \/ NotDelivered(d, r, n) \/ RecordThrows(d, r, n)
  PROVE  SinkInv'
<1>1. phase[d] \in {"deliver", "sent"} /\ IsCurrent(d, r, n) /\ Advance(d, r, n)
  BY DEF Delivered, NotDelivered, RecordThrows
<1>2. /\ status[r] \in Undelivered /\ n = attempts[r]
      /\ attempts[r] < MaxAttempts /\ attempts[r] \in Nat
  BY <1>1, CurrentRow
<1>3. CASE Delivered(d, r, n)
  <2>1. status' = [status EXCEPT ![r] = "delivered"]
    BY <1>2, <1>3 DEF Delivered, SinkInv, TypeOK
  <2> QED BY <1>1, <1>3, <2>1, AdvanceSafe DEF Delivered, SinkInv, TypeOK, Statuses, Undelivered
<1>4. CASE NotDelivered(d, r, n)
  <2>1. attempts' = [attempts EXCEPT ![r] = @ + 1] /\ UNCHANGED <<lost, faults>>
    BY <1>2, <1>4 DEF NotDelivered
  <2>2. attempts' \in [Runs -> 0..MaxAttempts] /\ attempts'[r] = attempts[r] + 1
    BY <1>2, <2>1, SinkAssumption DEF SinkInv, TypeOK
  <2>3. CASE n + 1 >= MaxAttempts
    <3>1. status' = [status EXCEPT ![r] = "failed"] /\ waiting' = waiting \ {r}
      BY <1>2, <1>4, <2>3 DEF NotDelivered
    <3> QED BY <1>1, <2>1, <2>2, <3>1, AdvanceSafe DEF SinkInv, TypeOK, Statuses, Undelivered
  <2>4. CASE ~(n + 1 >= MaxAttempts)
    <3>1. status' = [status EXCEPT ![r] = "retrying"] /\ waiting' = waiting \cup {r}
      BY <1>2, <1>4, <2>4 DEF NotDelivered
    <3>2. attempts'[r] < MaxAttempts
      BY <1>2, <2>2, <2>4, SinkAssumption
    <3> QED BY <1>1, <2>1, <2>2, <3>1, <3>2, AdvanceSafe DEF SinkInv, TypeOK, Statuses, Undelivered
  <2> QED BY <2>3, <2>4
<1>5. CASE RecordThrows(d, r, n)
  <2>1. UNCHANGED <<status, attempts, waiting>> /\ lost' \in [Runs -> Nat] /\ faults' \in Nat
    BY <1>5 DEF RecordThrows, SinkInv, TypeOK
  <2> QED BY <1>1, <1>2, <2>1, AdvanceSafe DEF SinkInv, TypeOK, Statuses, Undelivered
<1> QED BY <1>3, <1>4, <1>5

LEMMA DrainStepSafe ==
  ASSUME SinkInv, NEW d \in Drains, DrainStep(d)
  PROVE  SinkInv'
<1>1. ASSUME NEW r \in Runs, NEW n \in 0..MaxAttempts, Send(d, r, n) PROVE SinkInv'
  <2>1. /\ phase' = [phase EXCEPT ![d] = "sent"] /\ phase[d] = "deliver"
        /\ requests' \in [Runs -> Nat]
        /\ UNCHANGED <<run, tableVars, up, booting, notifying, batch, inFlight, joined,
                       woken, stop, broke, lost, crashes, faults>>
    BY <1>1 DEF Send, SinkInv, TypeOK
  <2>2. TypeOK'
    BY <2>1 DEF SinkInv, TypeOK, Phases, tableVars
  <2>3. OneFlight' /\ Stopping'
    BY <2>1 DEF SinkInv, TypeOK, OneFlight, Stopping
  <2>4. RowsOfEnded'
    BY <2>1 DEF SinkInv, RowsOfEnded, Rows, tableVars
  <2>5. BatchIsCurrent'
    BY <2>1 DEF SinkInv, TypeOK, BatchIsCurrent, DueIn, tableVars
  <2>6. Covered'
    BY <2>1 DEF SinkInv, TypeOK, Covered, Awake
  <2> QED BY <2>2, <2>3, <2>4, <2>5, <2>6 DEF SinkInv
<1>2. CASE End(d) \/ Break(d)
  <2>1. /\ phase' = [phase EXCEPT ![d] = "idle"] /\ phase[d] \in {"ending", "broken"}
        /\ inFlight = d /\ inFlight' = NoDrain
        /\ \A e \in Drains : e # d => phase[e] = "idle" /\ batch'[e] = batch[e]
        /\ UNCHANGED <<run, tableVars, up, booting, notifying, stop, broke, requests, lost,
                       crashes, faults>>
    BY <1>2 DEF End, Break, SinkInv, OneFlight, TypeOK
  <2>2. \A e \in Drains : phase'[e] = "idle"
    BY <2>1 DEF SinkInv, TypeOK
  <2>3. TypeOK'
    BY <1>2, <2>1, <2>2 DEF SinkInv, TypeOK, End, Break, Phases, tableVars
  <2>4. OneFlight' /\ Stopping' /\ BatchIsCurrent'
    BY <2>1, <2>2, SinkAssumption DEF SinkInv, OneFlight, Stopping, BatchIsCurrent
  <2>5. RowsOfEnded'
    BY <2>1 DEF SinkInv, RowsOfEnded, Rows, tableVars
  <2>6. Covered'
    <3>1. CASE End(d)
      <4>1. phase[d] = "ending" /\ woken' = woken + joined /\ joined' = 0
        BY <3>1 DEF End
      <4>2. Awake => Awake'
        BY <2>1, <4>1 DEF Awake, SinkInv, TypeOK
      <4> QED BY <2>1, <4>2 DEF SinkInv, Covered, tableVars
    <3>2. CASE Break(d)
      BY <2>1, <3>2 DEF SinkInv, OneFlight, Covered, Break
    <3> QED BY <1>2, <3>1, <3>2
  <2> QED BY <2>3, <2>4, <2>5, <2>6 DEF SinkInv
<1> QED BY <1>1, <1>2, AttemptSafe, ClaimAgainSafe DEF DrainStep

LEMMA RunStepSafe ==
  ASSUME SinkInv, NEW r \in Runs, RunStep(r)
  PROVE  SinkInv'
<1>1. CASE StartRun(r) \/ RecordRunTerminal(r) \/ NotifyThrows(r)
  <2>1. UNCHANGED <<tableVars, drainVars>>
    BY <1>1 DEF StartRun, RecordRunTerminal, NotifyThrows
  <2>2. TypeOK'
    BY <1>1 DEF StartRun, RecordRunTerminal, NotifyThrows, SinkInv, TypeOK, tableVars, drainVars
  <2>3. OneFlight' /\ Stopping' /\ BatchIsCurrent'
    BY <2>1 DEF SinkInv, OneFlight, Stopping, BatchIsCurrent, DueIn, tableVars, drainVars
  <2>4. Covered'
    <3>1. UNCHANGED <<up, booting>>
      BY <1>1 DEF StartRun, RecordRunTerminal, NotifyThrows
    <3> QED BY <2>1, <3>1 DEF SinkInv, Covered, Awake, tableVars, drainVars
  <2>5. RowsOfEnded'
    <3>1. \A q \in Runs : status[q] # "none" => run'[q] = "terminal" /\ q # notifying'
      BY <1>1, SinkAssumption
         DEF StartRun, RecordRunTerminal, NotifyThrows, SinkInv, TypeOK, RowsOfEnded
    <3>2. \A q \in Runs : q = notifying' => run'[q] = "terminal"
      BY <1>1, SinkAssumption
         DEF StartRun, RecordRunTerminal, NotifyThrows, SinkInv, TypeOK, RowsOfEnded
    <3> QED BY <2>1, <3>1, <3>2 DEF SinkInv, RowsOfEnded, Rows, tableVars
  <2> QED BY <2>2, <2>3, <2>4, <2>5 DEF SinkInv
<1>2. CASE BackoffElapses(r)
  <2>1. waiting' \subseteq waiting /\ UNCHANGED <<run, status, attempts, created, corrupt, up,
          booting, notifying, drainVars, requests, lost, crashes, faults>>
    BY <1>2 DEF BackoffElapses
  <2>2. TypeOK'
    BY <2>1 DEF SinkInv, TypeOK, drainVars
  <2>3. OneFlight' /\ Stopping' /\ RowsOfEnded' /\ Covered'
    BY <2>1 DEF SinkInv, OneFlight, Stopping, RowsOfEnded, Rows, Covered, Awake, drainVars
  <2>4. BatchIsCurrent'
    <3>1. DueIn(status) \subseteq DueIn(status)'
      BY <2>1 DEF DueIn
    <3> QED BY <2>1, <3>1 DEF SinkInv, BatchIsCurrent, drainVars
  <2> QED BY <2>2, <2>3, <2>4 DEF SinkInv
<1> QED BY <1>1, <1>2, FlushersSafe DEF RunStep

LEMMA ProcessSafe ==
  ASSUME SinkInv, Process
  PROVE  SinkInv'
<1>1. CASE Boot
  <2>1. PICK C \in SUBSET Rows : /\ Cardinality(corrupt \cup C) <= MaxCorrupt
                                 /\ corrupt' = corrupt \cup C
    BY <1>1 DEF Boot
  <2>2. booting' /\ UNCHANGED <<run, status, attempts, waiting, created, notifying, drainVars,
                                requests, lost, crashes, faults>>
    BY <1>1 DEF Boot
  <2>3. TypeOK'
    BY <1>1, <2>1 DEF Boot, SinkInv, TypeOK, RowsOfEnded, Rows, drainVars
  <2>4. RowsOfEnded'
    BY <2>1, <2>2 DEF SinkInv, RowsOfEnded, Rows
  <2>5. OneFlight' /\ Stopping' /\ BatchIsCurrent' /\ Covered'
    BY <2>2 DEF SinkInv, OneFlight, Stopping, BatchIsCurrent, DueIn, Covered, drainVars
  <2> QED BY <2>3, <2>4, <2>5 DEF SinkInv
<1>2. CASE Stop \/ StopReturns
  <2>1. UNCHANGED <<run, tableVars, up, booting, notifying, phase, batch, inFlight, joined,
                    woken, broke, requests, lost, crashes, faults>>
    BY <1>2 DEF Stop, StopReturns
  <2>2. stop' \in Drains \cup {"done"}
    BY <1>2 DEF Stop, StopReturns, SinkInv, TypeOK
  <2>3. TypeOK'
    BY <2>1, <2>2 DEF SinkInv, TypeOK, tableVars
  <2>4. Stopping'
    <3>1. CASE Stop
      BY <3>1, SinkAssumption DEF Stop, Stopping, SinkInv, TypeOK
    <3>2. CASE StopReturns
      <4>1. inFlight \in {stop, NoDrain} /\ inFlight # stop
        BY <3>2 DEF StopReturns, SinkInv, Stopping, OneFlight
      <4> QED BY <3>2, <4>1, <2>1, SinkAssumption DEF StopReturns, Stopping
    <3> QED BY <1>2, <3>1, <3>2
  <2>5. stop' # "no"
    BY <2>2, SinkAssumption
  <2>6. OneFlight' /\ BatchIsCurrent' /\ RowsOfEnded' /\ Covered'
    BY <2>1, <2>5 DEF SinkInv, OneFlight, BatchIsCurrent, DueIn, RowsOfEnded, Rows, Covered, tableVars
  <2> QED BY <2>3, <2>4, <2>6 DEF SinkInv
<1>3. CASE Exit \/ Crash
  <2>1. Reset
    BY <1>3 DEF Exit, Crash
  <2>2. lost' \in [Runs -> Nat] /\ crashes' \in Nat
    BY <1>3 DEF Exit, Crash, SinkInv, TypeOK
  <2>3. TypeOK'
    BY <2>1, <2>2 DEF Reset, SinkInv, TypeOK, Phases, tableVars
  <2>4. OneFlight' /\ Stopping' /\ BatchIsCurrent' /\ Covered'
    BY <2>1, SinkAssumption DEF Reset, OneFlight, Stopping, BatchIsCurrent, Covered
  <2>5. RowsOfEnded'
    BY <2>1, SinkAssumption DEF Reset, SinkInv, RowsOfEnded, Rows, tableVars
  <2> QED BY <2>3, <2>4, <2>5 DEF SinkInv
<1> QED BY <1>1, <1>2, <1>3, FlushersSafe DEF Process

LEMMA SinkInit == Init => SinkInv
<1> SUFFICES ASSUME Init PROVE SinkInv
  OBVIOUS
<1>1. TypeOK
  <2>1. attempts \in [Runs -> 0..MaxAttempts]
    BY SinkAssumption DEF Init
  <2>2. batch \in [Drains -> SUBSET (Runs \X Nat)]
    BY DEF Init
  <2>3. created \in [Runs -> Nat] /\ requests \in [Runs -> Nat] /\ lost \in [Runs -> Nat]
    BY DEF Init
  <2> QED BY <2>1, <2>2, <2>3 DEF Init, TypeOK, Statuses, Phases
<1>2. Cardinality({}) = 0
  BY FS_EmptySet
<1>3. RowsOfEnded
  BY <1>2, SinkAssumption DEF Init, RowsOfEnded, Undelivered
<1> QED BY <1>1, <1>3, SinkAssumption
        DEF SinkInv, Init, OneFlight, BatchIsCurrent, Covered, Stopping

LEMMA SinkNext == SinkInv /\ [Next]_vars => SinkInv'
<1> SUFFICES ASSUME SinkInv, [Next]_vars PROVE SinkInv'
  OBVIOUS
<1>1. CASE UNCHANGED vars
  BY <1>1 DEF vars, tableVars, drainVars, SinkInv, TypeOK, OneFlight, RowsOfEnded, Rows,
     BatchIsCurrent, DueIn, Covered, Awake, Stopping
<1> QED BY <1>1, DrainStepSafe, RunStepSafe, ProcessSafe DEF Next

LEMMA SinkCorrect == Spec => []SinkInv
BY SinkInit, SinkNext, PTL DEF Spec

\* Every reachable state is well typed.
THEOREM SinkTypeOK == Spec => []TypeOK
BY SinkCorrect, PTL DEF SinkInv

\* What a drain read before an await still holds when it uses it.
THEOREM BatchIsCurrentHolds == Spec => []BatchIsCurrent
BY SinkCorrect, PTL DEF SinkInv

\* No wake-up is lost, for any number of runs, joiners and rows, as long as
\* fewer rows than a batch holds fail to parse.
THEOREM NothingStrandedHolds == Spec => []NothingStranded
<1>1. SinkInv => NothingStranded
  BY DEF SinkInv, Covered, Awake, NothingStranded, Free
<1> QED BY <1>1, SinkCorrect, PTL

\* When stop() has returned no drain is active.
THEOREM QuietAfterStopHolds == Spec => []QuietAfterStop
<1>1. SinkInv => QuietAfterStop
  BY SinkAssumption DEF SinkInv, Stopping, OneFlight, QuietAfterStop, Active
<1> QED BY <1>1, SinkCorrect, PTL

-----------------------------------------------------------------------------
(* The receiver's side.                                                    *)

\* The receiver has the request of the attempt at r that is under way.
Sent(r) == \E d \in Drains : phase[d] = "sent" /\ IsCurrent(d, r, attempts[r])

\* Every request is a recorded attempt, the one that delivered the notice,
\* the one under way, or one whose outcome was lost.
BudgetInv ==
  /\ \A r \in Runs :
       requests[r] <= attempts[r] + lost[r]
                        + (IF status[r] = "delivered" \/ Sent(r) THEN 1 ELSE 0)
  /\ \A r \in Runs : status[r] = "delivered" => attempts[r] < MaxAttempts /\ requests[r] > 0
  /\ \A r \in Runs : Sent(r) => requests[r] > 0
  /\ \A r \in Runs : status[r] = "failed" => attempts[r] = MaxAttempts \/ r \in corrupt

\* Steps that send nothing and record no attempt.
LEMMA QuietKeepsBudget ==
  ASSUME SinkInv, BudgetInv, UNCHANGED <<requests, lost, attempts>>, corrupt \subseteq corrupt',
         \A r \in Runs : \/ status'[r] = status[r]
                         \/ status[r] = "none" /\ status'[r] = "pending"
                         \/ status[r] # "delivered" /\ status'[r] = "failed" /\ r \in corrupt,
         \A r \in Runs : Sent(r)' <=> Sent(r)
  PROVE  BudgetInv'
<1>1. ASSUME NEW r \in Runs
      PROVE  requests[r] <= attempts[r] + lost[r]
                        + (IF status'[r] = "delivered" \/ Sent(r)' THEN 1 ELSE 0)
  <2>1. status'[r] = "delivered" <=> status[r] = "delivered"
    OBVIOUS
  <2> QED BY <2>1 DEF BudgetInv
<1>2. \A r \in Runs : status'[r] = "delivered" => attempts[r] < MaxAttempts /\ requests[r] > 0
  BY DEF BudgetInv
<1>3. \A r \in Runs : status'[r] = "failed" => attempts[r] = MaxAttempts \/ r \in corrupt'
  BY DEF BudgetInv
<1> QED BY <1>1, <1>2, <1>3 DEF BudgetInv

LEMMA SentSame ==
  ASSUME SinkInv, UNCHANGED <<phase, batch, attempts>>,
         \A r \in Runs : status[r] # "none" => created'[r] = created[r]
  PROVE  \A r \in Runs : Sent(r)' <=> Sent(r)
<1>1. \A d \in Drains : phase[d] = "sent" =>
        \A p \in batch[d] : p \in Runs \X Nat /\ created'[p[1]] = created[p[1]]
  <2> SUFFICES ASSUME NEW d \in Drains, phase[d] = "sent", NEW p \in batch[d]
               PROVE  p \in Runs \X Nat /\ created'[p[1]] = created[p[1]]
    OBVIOUS
  <2>1. p \in Runs \X Nat /\ p[1] \in DueIn(status)
    BY DEF SinkInv, TypeOK, BatchIsCurrent
  <2> QED BY <2>1 DEF DueIn
<1>2. ASSUME NEW d \in Drains, phase[d] = "sent", NEW r \in Runs
      PROVE  IsCurrent(d, r, attempts[r])' <=> IsCurrent(d, r, attempts[r])
  <2>1. <<r, attempts[r]>> \in batch[d] => created'[r] = created[r]
    BY <1>1, <1>2
  <2> QED BY <1>1, <1>2, <2>1 DEF IsCurrent
<1> QED BY <1>2 DEF Sent

LEMMA NoneSent ==
  ASSUME \A d \in Drains : phase[d] # "sent", \A d \in Drains : phase'[d] # "sent"
  PROVE  \A r \in Runs : Sent(r)' <=> Sent(r)
BY DEF Sent

\* The drain that claims was not sending, and no other drain is active.
LEMMA ClaimSendsNothing ==
  ASSUME SinkInv, NEW d \in Drains, NEW st, Claimed(d, st), phase[d] # "sent",
         \A e \in Drains : e # d => phase[e] = "idle"
  PROVE  \A r \in Runs : Sent(r)' <=> Sent(r)
<1>1. \A e \in Drains : phase[e] # "sent" /\ phase'[e] # "sent"
  BY DEF Claimed, SinkInv, TypeOK
<1> QED BY <1>1, NoneSent

LEMMA FlushKeepsBudget ==
  ASSUME SinkInv, BudgetInv, NEW st, WithNew(st), NEW at, FlushOnce(st, at),
         UNCHANGED <<requests, lost, attempts, waiting, corrupt, stop>>,
         \A r \in Runs : status[r] # "none" => created'[r] = created[r]
  PROVE  BudgetInv'
<1>1. st \in [Runs -> Statuses]
  BY DEF WithNew
<1>2. Flushed(st) /\ OnlyFails(st)
  BY <1>1, FlushFlushes, FlushSafe DEF SinkInv
<1>3. \A r \in Runs : \/ status'[r] = status[r]
                      \/ status[r] = "none" /\ status'[r] = "pending"
                      \/ status[r] # "delivered" /\ status'[r] = "failed" /\ r \in corrupt
  <2> SUFFICES ASSUME NEW r \in Runs, status'[r] # status[r]
               PROVE  \/ status[r] = "none" /\ status'[r] = "pending"
                      \/ status[r] # "delivered" /\ status'[r] = "failed" /\ r \in corrupt
    OBVIOUS
  <2>1. CASE status'[r] = st[r]
    BY <2>1 DEF WithNew
  <2>2. CASE status'[r] # st[r]
    BY <1>2, <2>2 DEF OnlyFails, DueIn, WithNew
  <2> QED BY <2>1, <2>2
<1>4. \A r \in Runs : Sent(r)' <=> Sent(r)
  <2>1. CASE stop = "no" /\ inFlight = NoDrain
    <3>1. PICK d \in Drains : phase[d] = "idle" /\ Claimed(d, st)
      BY <1>2, <2>1 DEF Flushed
    <3>2. \A e \in Drains : phase[e] = "idle"
      BY <2>1, SinkAssumption DEF SinkInv, OneFlight
    <3> QED BY <3>1, <3>2, ClaimSendsNothing
  <2>2. CASE ~(stop = "no" /\ inFlight = NoDrain)
    BY <1>2, <2>2, SentSame DEF Flushed
  <2> QED BY <2>1, <2>2
<1> QED BY <1>3, <1>4, QuietKeepsBudget

LEMMA AttemptKeepsBudget ==
  ASSUME SinkInv, BudgetInv, NEW d \in Drains, NEW r \in Runs, NEW n \in 0..MaxAttempts,
         \/ Send(d, r, n)
         \/ Delivered(d, r, n)
         \/ NotDelivered(d, r, n)
         \/ RecordThrows(d, r, n)
  PROVE  BudgetInv'
<1>1. /\ phase[d] \in {"deliver", "sent"} /\ IsCurrent(d, r, n)
      /\ \A q \in Runs : q # r => requests'[q] = requests[q] /\ UNCHANGED <<created, corrupt>>
  BY DEF Send, Delivered, NotDelivered, RecordThrows, Advance, tableVars, SinkInv, TypeOK
<1>2. /\ status[r] \in Undelivered /\ n = attempts[r] /\ attempts[r] < MaxAttempts
      /\ attempts[r] \in Nat /\ requests[r] \in Nat /\ lost[r] \in Nat
      /\ \A e \in Drains : e # d => phase[e] = "idle"
  BY <1>1, CurrentRow DEF SinkInv, TypeOK
<1>3. \A q \in Runs : q # r => ~Sent(q)
  <2> SUFFICES ASSUME NEW q \in Runs, q # r, Sent(q) PROVE FALSE
    OBVIOUS
  <2>1. IsCurrent(d, q, attempts[q])
    BY <1>2 DEF Sent
  <2>2. created[r] < created[q] /\ created[q] < created[r]
    BY <1>1, <2>1 DEF IsCurrent
  <2> QED BY <2>2 DEF SinkInv, TypeOK
<1>4. phase[d] # "sent" => ~Sent(r)
  BY <1>2 DEF Sent
<1>5. CASE Send(d, r, n)
  <2>1. /\ requests' = [requests EXCEPT ![r] = @ + 1] /\ phase[d] = "deliver"
        /\ phase' = [phase EXCEPT ![d] = "sent"]
        /\ UNCHANGED <<attempts, lost, status, batch, created, corrupt>>
    BY <1>5 DEF Send, tableVars
  <2>2. requests'[r] = requests[r] + 1 /\ requests[r] <= attempts[r] + lost[r]
    BY <1>2, <1>4, <2>1 DEF BudgetInv, SinkInv, TypeOK, Undelivered
  <2>3. Sent(r)'
    BY <1>1, <1>2, <2>1 DEF Sent, IsCurrent, SinkInv, TypeOK
  <2>4. \A q \in Runs : q # r => ~Sent(q)'
    <3> SUFFICES ASSUME NEW q \in Runs, q # r, Sent(q)' PROVE FALSE
      OBVIOUS
    <3>1. IsCurrent(d, q, attempts[q])
      BY <1>2, <2>1 DEF Sent, IsCurrent, SinkInv, TypeOK
    <3>2. created[r] < created[q] /\ created[q] < created[r]
      BY <1>1, <3>1 DEF IsCurrent
    <3> QED BY <3>2 DEF SinkInv, TypeOK
  <2>5. ASSUME NEW q \in Runs
        PROVE  requests'[q] <= attempts[q] + lost[q]
                        + (IF status[q] = "delivered" \/ Sent(q)' THEN 1 ELSE 0)
    <3>1. CASE q = r
      BY <1>2, <2>2, <2>3, <3>1
    <3>2. CASE q # r
      BY <1>1, <1>3, <2>4, <3>2 DEF BudgetInv
    <3> QED BY <3>1, <3>2
  <2>6. \A q \in Runs : requests[q] \in Nat /\ requests'[q] \in Nat /\ requests'[q] >= requests[q]
    BY <2>1 DEF SinkInv, TypeOK
  <2>7. \A q \in Runs : status[q] = "delivered" => attempts[q] < MaxAttempts /\ requests'[q] > 0
    BY <2>6 DEF BudgetInv
  <2>8. \A q \in Runs : Sent(q)' => requests'[q] > 0
    BY <1>2, <2>2, <2>4
  <2> QED BY <2>1, <2>5, <2>7, <2>8 DEF BudgetInv
<1>6. CASE Delivered(d, r, n) \/ NotDelivered(d, r, n) \/ RecordThrows(d, r, n)
  <2>1. Advance(d, r, n)
    BY <1>6 DEF Delivered, NotDelivered, RecordThrows
  <2>2. \A e \in Drains : phase'[e] # "sent"
    BY <1>2, <2>1 DEF Advance, SinkInv, TypeOK
  <2>3. \A q \in Runs : ~Sent(q)'
    BY <2>2 DEF Sent
  <2>4. /\ UNCHANGED <<requests, corrupt>>
        /\ \A q \in Runs : q # r =>
             status'[q] = status[q] /\ attempts'[q] = attempts[q] /\ lost'[q] = lost[q]
    BY <1>6, <2>1 DEF Advance, Delivered, NotDelivered, RecordThrows, SinkInv, TypeOK
  <2>5. ASSUME NEW q \in Runs, q # r
        PROVE  /\ requests[q] <= attempts'[q] + lost'[q]
                                  + (IF status'[q] = "delivered" THEN 1 ELSE 0)
               /\ status'[q] = "delivered" => attempts'[q] < MaxAttempts /\ requests[q] > 0
               /\ status'[q] = "failed" => attempts'[q] = MaxAttempts \/ q \in corrupt
    BY <1>3, <2>4, <2>5 DEF BudgetInv
  <2>6. requests[r] <= attempts[r] + lost[r] + (IF phase[d] = "sent" THEN 1 ELSE 0)
    BY <1>2, <1>4 DEF BudgetInv, Undelivered
  <2>7. /\ requests[r] <= attempts'[r] + lost'[r]
                            + (IF status'[r] = "delivered" THEN 1 ELSE 0)
        /\ status'[r] = "delivered" => attempts'[r] < MaxAttempts /\ requests[r] > 0
        /\ status'[r] = "failed" => attempts'[r] = MaxAttempts \/ r \in corrupt
    <3>1. CASE Delivered(d, r, n)
      <4>1. status'[r] = "delivered" /\ attempts'[r] = attempts[r] /\ lost'[r] = lost[r]
        BY <1>2, <3>1 DEF Delivered, SinkInv, TypeOK
      <4>2. phase[d] = "sent" /\ Sent(r)
        BY <1>1, <1>2, <3>1 DEF Delivered, Sent
      <4> QED BY <1>2, <2>6, <4>1, <4>2 DEF BudgetInv
    <3>2. CASE NotDelivered(d, r, n)
      <4>1. /\ attempts'[r] = attempts[r] + 1 /\ lost'[r] = lost[r]
            /\ status'[r] = IF n + 1 >= MaxAttempts THEN "failed" ELSE "retrying"
        BY <1>2, <3>2 DEF NotDelivered, SinkInv, TypeOK
      <4>2. /\ requests[r] <= attempts'[r] + lost'[r]
            /\ attempts'[r] \in Nat /\ lost'[r] \in Nat
        BY <1>2, <2>6, <4>1
      <4>3. status'[r] = "failed" => attempts'[r] = MaxAttempts
        BY <1>2, <4>1, SinkAssumption
      <4>4. status'[r] # "delivered"
        BY <4>1
      <4> QED BY <4>2, <4>3, <4>4
    <3>3. CASE RecordThrows(d, r, n)
      <4>1. /\ attempts'[r] = attempts[r] /\ status'[r] = status[r]
            /\ lost'[r] = IF phase[d] = "sent" THEN lost[r] + 1 ELSE lost[r]
        BY <3>3 DEF RecordThrows, SinkInv, TypeOK
      <4>2. requests[r] <= attempts'[r] + lost'[r]
        BY <1>2, <2>6, <4>1
      <4> QED BY <1>2, <4>1, <4>2 DEF Undelivered
    <3> QED BY <1>6, <3>1, <3>2, <3>3
  <2>8. \A q \in Runs : /\ requests[q] <= attempts'[q] + lost'[q]
                                  + (IF status'[q] = "delivered" THEN 1 ELSE 0)
                        /\ status'[q] = "delivered" => attempts'[q] < MaxAttempts /\ requests[q] > 0
                        /\ status'[q] = "failed" => attempts'[q] = MaxAttempts \/ q \in corrupt
    BY <2>5, <2>7
  <2> QED BY <2>3, <2>4, <2>8 DEF BudgetInv
<1> QED BY <1>5, <1>6

LEMMA OthersKeepBudget ==
  ASSUME SinkInv, BudgetInv,
         \/ \E d \in Drains : ClaimAgain(d) \/ End(d) \/ Break(d)
         \/ \E r \in Runs : RunStep(r)
         \/ Process /\ ~Crash
         \/ UNCHANGED vars
  PROVE  BudgetInv'
<1>1. WithNew(status)
  BY DEF SinkInv, TypeOK, WithNew
<1>2. CASE Recheck \/ Replay
  BY <1>1, <1>2, FlushKeepsBudget DEF Recheck, Replay
<1>3. ASSUME NEW r \in Runs, Notify(r) PROVE BudgetInv'
  <2> DEFINE st == [status EXCEPT ![r] = "pending"]
  <2>1. status[r] = "none"
    BY <1>3 DEF SinkInv, RowsOfEnded, Notify
  <2>2. WithNew(st)
    BY <2>1 DEF WithNew, SinkInv, TypeOK, Statuses, Undelivered
  <2>3. \A q \in Runs : status[q] # "none" => created'[q] = created[q]
    BY <1>3, <2>1 DEF Notify, SinkInv, TypeOK
  <2>4. FlushOnce(st, created')
    BY <1>3 DEF Notify
  <2> HIDE DEF st
  <2> QED BY <1>3, <2>2, <2>3, <2>4, FlushKeepsBudget DEF Notify
<1>4. ASSUME NEW d \in Drains, ClaimAgain(d) PROVE BudgetInv'
  <2>1. Claimed(d, status)
    BY <1>4, ClaimClaims, ClaimThrowsClaims DEF SinkInv, TypeOK, ClaimAgain
  <2>2. phase[d] # "sent" /\ \A e \in Drains : e # d => phase[e] = "idle"
    BY <1>4 DEF SinkInv, OneFlight, ClaimAgain
  <2>3. \A r \in Runs : Sent(r)' <=> Sent(r)
    BY <2>1, <2>2, ClaimSendsNothing
  <2>4. \A r \in Runs : \/ status'[r] = status[r]
                        \/ status[r] # "delivered" /\ status'[r] = "failed" /\ r \in corrupt
    BY <2>1 DEF Claimed, DueIn
  <2> QED BY <1>4, <2>3, <2>4, QuietKeepsBudget DEF ClaimAgain
<1>5. ASSUME NEW d \in Drains, End(d) \/ Break(d) PROVE BudgetInv'
  <2>1. \A e \in Drains : phase[e] # "sent" /\ phase'[e] # "sent"
    BY <1>5 DEF End, Break, SinkInv, OneFlight, TypeOK
  <2> QED BY <1>5, <2>1, NoneSent, QuietKeepsBudget DEF End, Break, tableVars
<1>6. CASE Exit
  <2>1. \A e \in Drains : phase[e] # "sent" /\ phase'[e] # "sent"
    BY <1>6, SinkAssumption DEF Exit, Reset, SinkInv, OneFlight, Stopping
  <2> QED BY <1>6, <2>1, NoneSent, QuietKeepsBudget DEF Exit, Reset, tableVars
<1>7. CASE \/ \E r \in Runs : \/ StartRun(r) \/ RecordRunTerminal(r) \/ NotifyThrows(r)
                              \/ BackoffElapses(r)
           \/ Boot \/ Stop \/ StopReturns \/ UNCHANGED vars
  <2>1. /\ UNCHANGED <<phase, batch, attempts, created, status, requests, lost>>
        /\ corrupt \subseteq corrupt'
    BY <1>7 DEF StartRun, RecordRunTerminal, NotifyThrows, BackoffElapses, Boot, Stop,
       StopReturns, vars, tableVars, drainVars
  <2> QED BY <2>1, SentSame, QuietKeepsBudget
<1> QED BY <1>2, <1>3, <1>4, <1>5, <1>6, <1>7 DEF RunStep, Process

LEMMA CrashKeepsBudget ==
  ASSUME SinkInv, BudgetInv, Crash
  PROVE  BudgetInv'
<1>1. /\ \A r \in Runs : ~Sent(r)'
      /\ UNCHANGED <<status, attempts, corrupt, requests>>
  BY DEF Crash, Reset, Sent, tableVars
<1>2. ASSUME NEW r \in Runs
      PROVE  requests[r] <= attempts[r] + lost'[r] + (IF status[r] = "delivered" THEN 1 ELSE 0)
  <2>1. attempts[r] \in 0..MaxAttempts /\ lost[r] \in Nat /\ requests[r] \in Nat
    BY DEF SinkInv, TypeOK
  <2>2. CASE Sent(r)
    <3>1. lost'[r] = lost[r] + 1
      BY <2>1, <2>2 DEF Crash, Sent
    <3>2. requests[r] <= attempts[r] + lost[r] + 1
      BY <2>1, <2>2 DEF BudgetInv
    <3> QED BY <2>1, <3>1, <3>2
  <2>3. CASE ~Sent(r)
    <3>1. lost'[r] \in {lost[r], lost[r] + 1}
      BY DEF Crash
    <3>2. requests[r] <= attempts[r] + lost[r] + (IF status[r] = "delivered" THEN 1 ELSE 0)
      BY <2>3 DEF BudgetInv
    <3> QED BY <2>1, <3>1, <3>2
  <2> QED BY <2>2, <2>3
<1> QED BY <1>1, <1>2 DEF BudgetInv

LEMMA BudgetCorrect == Spec => [](SinkInv /\ BudgetInv)
<1>1. Init => BudgetInv
  BY SinkAssumption DEF Init, BudgetInv, Sent
<1>2. SinkInv /\ BudgetInv /\ [Next]_vars => BudgetInv'
  <2> SUFFICES ASSUME SinkInv, BudgetInv, [Next]_vars PROVE BudgetInv'
    OBVIOUS
  <2> QED BY AttemptKeepsBudget, OthersKeepBudget, CrashKeepsBudget DEF Next, DrainStep, Process
<1> QED BY <1>1, <1>2, SinkCorrect, PTL DEF Spec

\* The receiver gets no notice more often than MaxAttempts, lost outcomes aside.
THEOREM RequestBudgetHolds == Spec => []RequestBudget
<1>1. SinkInv /\ BudgetInv => RequestBudget
  <2> SUFFICES ASSUME SinkInv, BudgetInv, NEW r \in Runs
               PROVE  requests[r] <= MaxAttempts + lost[r]
    BY DEF RequestBudget
  <2>1. attempts[r] \in 0..MaxAttempts /\ lost[r] \in Nat /\ requests[r] \in Nat
    BY DEF SinkInv, TypeOK
  <2>2. Sent(r) => attempts[r] < MaxAttempts
    BY CurrentRow DEF Sent
  <2>3. status[r] = "delivered" => attempts[r] < MaxAttempts
    BY DEF BudgetInv
  <2>4. requests[r] <= attempts[r] + lost[r]
                        + (IF status[r] = "delivered" \/ Sent(r) THEN 1 ELSE 0)
    BY DEF BudgetInv
  <2>5. CASE status[r] = "delivered" \/ Sent(r)
    BY <2>1, <2>2, <2>3, <2>4, <2>5, SinkAssumption
  <2>6. CASE ~(status[r] = "delivered" \/ Sent(r))
    BY <2>1, <2>4, <2>6, SinkAssumption
  <2> QED BY <2>5, <2>6
<1> QED BY <1>1, BudgetCorrect, PTL

\* No row is settled without a reason.
THEOREM SettledForAReasonHolds == Spec => []SettledForAReason
<1>1. BudgetInv => SettledForAReason
  BY DEF BudgetInv, SettledForAReason
<1> QED BY <1>1, BudgetCorrect, PTL
=============================================================================
