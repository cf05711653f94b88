--------------------------- MODULE CapabilityProofs ---------------------------
(***************************************************************************)
(* Proofs about Capabilities, for any set of handles, any finite set of    *)
(* calls, any submissions and keys, and any limits.                        *)
(*                                                                         *)
(* The ledger is followed handle by handle (HandleInv): its reservations   *)
(* are the uncut calls in flight.  A cut call has started (CutInv), so a   *)
(* cancellation never reaches a call that was charged.  The coordinator is *)
(* followed attempt by attempt: the attempt in flight for a key is its     *)
(* owner's (OwnerInv), and a key is persisted exactly when that attempt    *)
(* resolved (KeyInv).                                                      *)
(***************************************************************************)
EXTENDS Capabilities, FiniteSetTheorems, TLAPS

USE CapabilitiesAssumption DEF CapabilitiesAssumption

Of(h, at) == {c \in Calls \ cut : call[c].handle = h /\ call[c].at = at}

HandleInv(h) ==
  /\ reserved[h] = IF h \in Budgeted THEN Of(h, "running") ELSE {}
  /\ h \in Budgeted =>
       /\ usedCalls[h] = Cardinality(Of(h, "returned"))
       /\ usedCalls[h] + Cardinality(reserved[h]) <= MaxCalls
       /\ usedTokens[h] <= MaxUsage * usedCalls[h]
       /\ usedTokens[h] + MaxUsage * Cardinality(reserved[h]) <= MaxTokens + MaxUsage * peak[h]

CutInv ==
  /\ \A c \in cut : call[c].at \in {"running", "returned", "failed"}
  /\ \A c \in Calls : call[c].at \in {"running", "returned", "failed"} => call[c].handle \in Handles

LedgerInv == CutInv /\ \A h \in Handles : HandleInv(h)

\* s created the attempt it waits on.
Owns(s) == sub[s].owner = s

OwnerInv(s) ==
  /\ promise[s] = "none" <=> ~Owns(s)
  /\ sub[s].at = "idle" <=> sub[s].key = None
  /\ sub[s].at = "idle" => sub[s].owner = None
  /\ sub[s].at \in {"waiting", "accepted"} => sub[s].owner \in Submissions
  /\ sub[s].at = "duplicate" => sub[s].key \in receipts
  /\ promise[s] = "persisting" => sub[s].at = "waiting"
  /\ promise[s] = "resolved" => sub[s].at \in {"waiting", "accepted"}
  /\ promise[s] = "rejected" => sub[s].at \in {"waiting", "rejected"}
  /\ Owns(s) /\ sub[s].at \in {"waiting", "accepted"} => inFlight[sub[s].key] = s

SharerInv(s) ==
  LET o == sub[s].owner IN
  o # None /\ o # s =>
    /\ Owns(o) /\ sub[o].key = sub[s].key
    /\ sub[s].at \in {"waiting", sub[o].at}

KeyInv(k) ==
  LET s == inFlight[k] IN
  /\ s # None => Owns(s) /\ sub[s].key = k /\ sub[s].at # "rejected"
  /\ persisted[k] = IF s # None /\ promise[s] = "resolved" THEN 1 ELSE 0
  /\ k \in receipts => s # None /\ promise[s] = "resolved"

CommitInv ==
  /\ \A s \in Submissions : OwnerInv(s)
  /\ \A s \in Submissions : SharerInv(s)
  /\ \A k \in Keys : KeyInv(k)

-----------------------------------------------------------------------------
(* Types.                                                                  *)

BrokerType == /\ issued \subseteq Handles /\ revoked \subseteq issued /\ expired \subseteq issued
              /\ held \subseteq issued \ Intents

LedgerType ==
  /\ reserved \in [Handles -> SUBSET Calls]
  /\ usedCalls \in [Handles -> Nat] /\ usedTokens \in [Handles -> Nat]
  /\ call \in [Calls -> [at : CallStates, handle : Handles \cup {None}]]
  /\ peak \in [Handles -> Nat] /\ cut \subseteq Calls

CommitType ==
  /\ sub \in [Submissions -> [at : SubStates, key : Keys \cup {None},
                              owner : Submissions \cup {None}]]
  /\ promise \in [Submissions -> {"none", "persisting", "resolved", "rejected"}]
  /\ inFlight \in [Keys -> Submissions \cup {None}]
  /\ receipts \subseteq Keys /\ persisted \in [Keys -> Nat]

LEMMA TypeParts == TypeOK <=> BrokerType /\ LedgerType /\ CommitType
  BY DEF TypeOK, BrokerType, LedgerType, CommitType

Inv == BrokerType /\ LedgerType /\ CommitType /\ LedgerInv /\ CommitInv

LEMMA FiniteCalls == \A S \in SUBSET Calls : IsFiniteSet(S) /\ Cardinality(S) \in Nat
  BY FS_Subset, FS_CardinalityType

LEMMA OfType == \A h, at : Of(h, at) \in SUBSET Calls
  BY DEF Of

LEMMA Times == /\ \A m, n \in Nat : m * n \in Nat /\ m * (n + 1) = m * n + m
               /\ \A m, a, b \in Nat : a <= b => m * a <= m * b
  OBVIOUS

LEMMA InitInv == Init => Inv
<1>. SUFFICES ASSUME Init PROVE Inv
  OBVIOUS
<1>1. BrokerType /\ LedgerType /\ CommitType
  BY DEF Init, BrokerType, LedgerType, CommitType, CallStates, SubStates
<1>2. \A h : Of(h, "running") = {} /\ Of(h, "returned") = {}
  BY DEF Init, Of
<1>3. ASSUME NEW h \in Handles PROVE HandleInv(h)
  <2>1. reserved[h] = {} /\ usedCalls[h] = 0 /\ usedTokens[h] = 0 /\ peak[h] = 0
    BY DEF Init
  <2>2. MaxUsage * 0 = 0 /\ Cardinality({}) = 0
    BY FS_EmptySet
  <2>3. 0 + MaxUsage * 0 <= MaxTokens + MaxUsage * 0 /\ 0 + 0 <= MaxCalls /\ 0 <= MaxUsage * 0
    BY <2>2
  <2>. QED BY <1>2, <2>1, <2>2, <2>3 DEF HandleInv
<1>4. CutInv
  BY DEF Init, CutInv
<1>5. CommitInv
  BY DEF Init, CommitInv, OwnerInv, SharerInv, KeyInv, Owns
<1>. QED BY <1>1, <1>3, <1>4, <1>5 DEF Inv, LedgerInv

-----------------------------------------------------------------------------
(* The broker and the gateway.                                             *)

LEMMA LedgerQuiet == ASSUME LedgerType, LedgerInv, UNCHANGED callVars
                     PROVE  LedgerType' /\ LedgerInv'
  BY DEF LedgerType, LedgerInv, CutInv, HandleInv, Of, callVars, ledgerVars

LEMMA CommitQuiet == ASSUME CommitType, CommitInv, UNCHANGED commitVars
                     PROVE  CommitType' /\ CommitInv'
  BY DEF CommitType, CommitInv, OwnerInv, SharerInv, KeyInv, Owns, commitVars

LEMMA HandleStepInv ==
  ASSUME Inv, RevokeIssued \/ (\E h \in Handles : HandleStep(h)) PROVE Inv'
<1>1. BrokerType'
  BY DEF Inv, BrokerType, RevokeIssued, HandleStep, Issue, Revoke, Expire
<1>2. UNCHANGED callVars /\ UNCHANGED commitVars
  BY DEF RevokeIssued, HandleStep, Issue, Revoke, Expire
<1>. QED BY <1>1, <1>2, LedgerQuiet, CommitQuiet DEF Inv

\* Cancellation: the calls it cuts leave the ones in flight, none that returned.
LEMMA SettleInv == ASSUME Inv, SettleBudgetsOnCancel PROVE Inv'
<1>1. BrokerType' /\ CommitType' /\ CommitInv'
  <2>1. UNCHANGED brokerVars /\ UNCHANGED commitVars
    BY DEF SettleBudgetsOnCancel
  <2>2. BrokerType'
    BY <2>1 DEF Inv, BrokerType, brokerVars
  <2>. QED BY <2>1, <2>2, CommitQuiet DEF Inv
<1>2. LedgerType'
  <2>1. \A h \in Handles : reserved[h] \in SUBSET Calls
    BY DEF Inv, LedgerType
  <2>2. UNION {reserved[h] : h \in held} \subseteq Calls
    BY <2>1 DEF Inv, BrokerType
  <2>3. cut' \subseteq Calls
    BY <2>2 DEF Inv, LedgerType, SettleBudgetsOnCancel
  <2>4. reserved' \in [Handles -> SUBSET Calls]
    BY <2>1 DEF SettleBudgetsOnCancel
  <2>. QED BY <2>3, <2>4 DEF Inv, LedgerType, SettleBudgetsOnCancel
<1>3. \A h \in Handles : \A c \in reserved[h] :
        call[c].at = "running" /\ call[c].handle = h
  BY DEF Inv, LedgerInv, HandleInv, Of
<1>4. CutInv'
  <2>1. \A c \in cut' : c \in cut \/ \E h \in Handles : c \in reserved[h]
    BY DEF SettleBudgetsOnCancel, Inv, BrokerType
  <2>. QED BY <1>3, <2>1 DEF Inv, LedgerInv, CutInv, SettleBudgetsOnCancel
<1>5. ASSUME NEW h \in Handles PROVE HandleInv(h)'
  <2>1. HandleInv(h) /\ reserved[h] \in SUBSET Calls
    BY DEF Inv, LedgerInv, LedgerType
  <2>2. Of(h, "returned")' = Of(h, "returned")
    BY <1>3 DEF Of, SettleBudgetsOnCancel, Inv, BrokerType
  <2>3. UNCHANGED <<usedCalls, usedTokens, peak>>
    BY DEF SettleBudgetsOnCancel
  <2>4. usedCalls[h] \in Nat /\ usedTokens[h] \in Nat /\ peak[h] \in Nat
    BY DEF Inv, LedgerType
  <2>5. CASE h \in held
    <3>1. reserved'[h] = {}
      BY <2>5 DEF SettleBudgetsOnCancel
    <3>2. h \in Budgeted => Of(h, "running")' = {}
      BY <2>1, <2>5 DEF Of, HandleInv, SettleBudgetsOnCancel
    <3>3. Cardinality(reserved[h]) \in Nat /\ Cardinality({}) = 0
      BY <2>1, FiniteCalls, FS_EmptySet
    <3>4. MaxUsage * Cardinality(reserved[h]) \in Nat /\ MaxUsage * 0 = 0
           /\ MaxUsage * peak[h] \in Nat
      BY <3>3, <2>4, Times
    <3>. QED BY <2>1, <2>2, <2>3, <2>4, <3>1, <3>2, <3>3, <3>4 DEF HandleInv
  <2>6. CASE h \notin held
    <3>1. reserved'[h] = reserved[h]
      BY <2>6 DEF SettleBudgetsOnCancel
    <3>2. Of(h, "running")' = Of(h, "running")
      BY <1>3, <2>6 DEF Of, SettleBudgetsOnCancel, Inv, BrokerType
    <3>. QED BY <2>1, <2>2, <2>3, <3>1, <3>2 DEF HandleInv
  <2>. QED BY <2>5, <2>6
<1>. QED BY <1>1, <1>2, <1>4, <1>5 DEF Inv, LedgerInv

LEMMA InvokeRejectedInv ==
  ASSUME Inv, NEW c \in Calls, NEW h \in Handles,
         InvokeIntent(c, h) \/ \E fits \in BOOLEAN : InvokeDenied(c, h, fits)
  PROVE  Inv'
<1>1. /\ call[c].at = "idle" /\ UNCHANGED <<brokerVars, ledgerVars, commitVars>>
      /\ call' = [call EXCEPT ![c] = call'[c]]
      /\ call'[c] \in [at : {"routed", "denied"}, handle : Handles]
  BY DEF Inv, LedgerType, InvokeIntent, InvokeDenied
<1>2. BrokerType' /\ CommitType' /\ CommitInv'
  BY <1>1, CommitQuiet DEF Inv, BrokerType, brokerVars
<1>3. LedgerType'
  BY <1>1 DEF Inv, LedgerType, ledgerVars, CallStates
<1>4. CutInv'
  BY <1>1 DEF Inv, LedgerInv, CutInv, LedgerType, ledgerVars
<1>5. \A g \in Handles : Of(g, "running")' = Of(g, "running") /\ Of(g, "returned")' = Of(g, "returned")
  BY <1>1 DEF Of, Inv, LedgerType, ledgerVars
<1>6. \A g \in Handles : HandleInv(g)'
  BY <1>1, <1>5 DEF Inv, LedgerInv, HandleInv, ledgerVars
<1>. QED BY <1>2, <1>3, <1>4, <1>6 DEF Inv, LedgerInv

LEMMA InvokeGrantedInv ==
  ASSUME Inv, NEW c \in Calls, NEW h \in Handles, NEW fits \in BOOLEAN, InvokeGranted(c, h, fits)
  PROVE  Inv'
<1>1. /\ call[c].at = "idle" /\ UNCHANGED <<brokerVars, commitVars, usedCalls, usedTokens, cut>>
      /\ call' = [call EXCEPT ![c] = [at |-> "running", handle |-> h]]
  BY DEF InvokeGranted, Reserve, ledgerVars
<1>2. BrokerType' /\ CommitType' /\ CommitInv'
  BY <1>1, CommitQuiet DEF Inv, BrokerType, brokerVars
<1>3. c \notin cut
  BY <1>1 DEF Inv, LedgerInv, CutInv
<1>4. \A g \in Handles :
        /\ Of(g, "returned")' = Of(g, "returned")
        /\ g # h => Of(g, "running")' = Of(g, "running")
        /\ g = h => Of(g, "running")' = Of(g, "running") \cup {c}
  BY <1>1, <1>3 DEF Of, Inv, LedgerType
<1>5. CutInv'
  BY <1>1, <1>3 DEF Inv, LedgerInv, CutInv, LedgerType
<1>6. call' \in [Calls -> [at : CallStates, handle : Handles \cup {None}]]
  BY <1>1 DEF Inv, LedgerType, CallStates
<1>7. reserved[h] \in SUBSET Calls /\ HandleInv(h) /\ usedCalls[h] \in Nat /\ usedTokens[h] \in Nat
      /\ peak[h] \in Nat
  BY DEF Inv, LedgerType, LedgerInv
<1>8. CASE h \in Budgeted /\ Reserve(c, h)
  <2>. DEFINE R == reserved[h] \cup {c}
  <2>1. /\ Cardinality(R) \in Nat /\ Cardinality(reserved[h]) \in Nat
        /\ Cardinality(R) <= Cardinality(reserved[h]) + 1
    <3>1. IsFiniteSet(reserved[h]) /\ Cardinality(reserved[h]) \in Nat /\ Cardinality(R) \in Nat
      BY <1>7, FiniteCalls
    <3>2. Cardinality(R) = IF c \in reserved[h] THEN Cardinality(reserved[h])
                                               ELSE Cardinality(reserved[h]) + 1
      BY <3>1, FS_AddElement
    <3>. QED BY <3>1, <3>2
  <2>2. /\ reserved' = [reserved EXCEPT ![h] = R]
        /\ peak' = [peak EXCEPT ![h] = peak'[h]]
        /\ peak'[h] \in Nat /\ peak'[h] >= Cardinality(R)
    BY <1>8, <1>7, <2>1 DEF Reserve, Larger, Inv, LedgerType
  <2>3. LedgerType'
    BY <1>1, <1>6, <1>7, <2>2 DEF Inv, LedgerType
  <2>4. \A g \in Handles : g # h => HandleInv(g)'
    BY <1>1, <1>4, <2>2 DEF Inv, LedgerType, LedgerInv, HandleInv
  <2>5. HandleInv(h)'
    <3>1. reserved'[h] = R
      BY <2>2 DEF Inv, LedgerType
    <3>2. usedCalls[h] + Cardinality(R) <= MaxCalls /\ usedTokens[h] <= MaxTokens
      BY <1>8, <1>7, <2>1 DEF InvokeGranted, Granted, CanReserve
    <3>3. MaxUsage * Cardinality(R) <= MaxUsage * peak'[h]
          /\ MaxUsage * Cardinality(R) \in Nat /\ MaxUsage * peak'[h] \in Nat
      BY <2>1, <2>2, Times
    <3>4. Of(h, "running")' = R /\ Of(h, "returned")' = Of(h, "returned")
      BY <1>4, <1>7, <1>8 DEF HandleInv
    <3>. HIDE DEF R
    <3>. QED BY <1>1, <1>7, <1>8, <3>1, <3>2, <3>3, <3>4 DEF HandleInv
  <2>. QED BY <1>2, <1>5, <2>3, <2>4, <2>5 DEF Inv, LedgerInv
<1>9. CASE h \notin Budgeted /\ UNCHANGED ledgerVars
  <2>1. LedgerType'
    BY <1>6, <1>9 DEF Inv, LedgerType, ledgerVars
  <2>2. \A g \in Handles : HandleInv(g)'
    BY <1>4, <1>9 DEF Inv, LedgerInv, HandleInv, ledgerVars
  <2>. QED BY <1>2, <1>5, <2>1, <2>2 DEF Inv, LedgerInv
<1>. QED BY <1>8, <1>9 DEF InvokeGranted

LEMMA ReservedIs ==
  Inv => \A h \in Handles : reserved[h] = IF h \in Budgeted THEN Of(h, "running") ELSE {}
  BY DEF Inv, LedgerInv, HandleInv

\* A call stops running: its reservation goes, and it is charged or it is not.
CallEnds(c, h) ==
  /\ call[c].handle = h /\ call[c].at = "running"
  /\ UNCHANGED <<peak, cut>>
  /\ reserved'[h] = reserved[h] \ {c}
  /\ \A g \in Handles : g # h =>
       /\ reserved'[g] = reserved[g]
       /\ usedCalls'[g] = usedCalls[g] /\ usedTokens'[g] = usedTokens[g]
       /\ Of(g, "running")' = Of(g, "running")
       /\ Of(g, "returned")' = Of(g, "returned")
  /\ Of(h, "running")' = Of(h, "running") \ {c}
  /\ \/ /\ c \in reserved[h] /\ usedCalls'[h] = usedCalls[h] + 1
        /\ usedTokens'[h] \in usedTokens[h] .. (usedTokens[h] + MaxUsage)
        /\ h \in Budgeted => Of(h, "returned")' = Of(h, "returned") \cup {c}
     \/ /\ usedCalls'[h] = usedCalls[h] /\ usedTokens'[h] = usedTokens[h]
        /\ h \in Budgeted => Of(h, "returned")' = Of(h, "returned")

LEMMA CallEndsLedger ==
  ASSUME Inv, CutInv', NEW c \in Calls, NEW h \in Handles, CallEnds(c, h) PROVE LedgerInv'
<1>1. ASSUME NEW g \in Handles, g # h PROVE HandleInv(g)'
  <2>1. /\ reserved'[g] = reserved[g] /\ usedCalls'[g] = usedCalls[g]
        /\ usedTokens'[g] = usedTokens[g] /\ peak' = peak
        /\ Of(g, "running")' = Of(g, "running") /\ Of(g, "returned")' = Of(g, "returned")
    BY <1>1 DEF CallEnds
  <2>. QED BY <1>1, <2>1 DEF Inv, LedgerInv, HandleInv
<1>2. HandleInv(h)'
  <2>. DEFINE R == reserved[h] \ {c}  D == Of(h, "returned")
  <2>1. /\ HandleInv(h) /\ reserved[h] \in SUBSET Calls /\ D \in SUBSET Calls
        /\ usedCalls[h] \in Nat /\ usedTokens[h] \in Nat /\ peak[h] \in Nat
        /\ reserved'[h] = R /\ peak' = peak
        /\ Of(h, "running")' = Of(h, "running") \ {c}
    BY OfType DEF Inv, LedgerType, LedgerInv, CallEnds
  <2>2. /\ IsFiniteSet(reserved[h]) /\ Cardinality(reserved[h]) \in Nat
        /\ IsFiniteSet(D) /\ Cardinality(R) \in Nat
    BY <2>1, FiniteCalls
  <2>3. Cardinality(R) = IF c \in reserved[h] THEN Cardinality(reserved[h]) - 1
                                             ELSE Cardinality(reserved[h])
    BY <2>2, FS_RemoveElement
  <2>4. c \notin D
    BY DEF Of, CallEnds
  <2>5. Cardinality(D \cup {c}) = Cardinality(D) + 1
    BY <2>2, <2>4, FS_AddElement
  <2>6. CASE h \notin Budgeted
    BY <2>1, <2>6 DEF HandleInv
  <2>7. CASE /\ h \in Budgeted
             /\ c \in reserved[h] /\ usedCalls'[h] = usedCalls[h] + 1
             /\ usedTokens'[h] \in usedTokens[h] .. (usedTokens[h] + MaxUsage)
             /\ Of(h, "returned")' = D \cup {c}
    <3>1. reserved'[h] = Of(h, "running")'
      BY <2>1, <2>7 DEF HandleInv
    <3>2. usedCalls'[h] = Cardinality(Of(h, "returned")')
      BY <2>1, <2>5, <2>7 DEF HandleInv
    <3>3. /\ MaxUsage * (usedCalls[h] + 1) = MaxUsage * usedCalls[h] + MaxUsage
          /\ MaxUsage * (Cardinality(R) + 1) = MaxUsage * Cardinality(R) + MaxUsage
          /\ MaxUsage * usedCalls[h] \in Nat /\ MaxUsage * Cardinality(R) \in Nat
          /\ MaxUsage * peak[h] \in Nat
      BY <2>1, <2>2, Times
    <3>4. Cardinality(reserved[h]) = Cardinality(R) + 1
      BY <2>2, <2>3, <2>7
    <3>5. /\ usedCalls'[h] + Cardinality(reserved'[h]) <= MaxCalls
          /\ usedTokens'[h] <= MaxUsage * usedCalls'[h]
          /\ usedTokens'[h] + MaxUsage * Cardinality(reserved'[h])
                 <= MaxTokens + MaxUsage * peak'[h]
      <4>1. /\ usedCalls[h] + Cardinality(reserved[h]) <= MaxCalls
            /\ usedTokens[h] <= MaxUsage * usedCalls[h]
            /\ usedTokens[h] + MaxUsage * Cardinality(reserved[h]) <= MaxTokens + MaxUsage * peak[h]
        BY <2>1, <2>7 DEF HandleInv
      <4>2. /\ reserved'[h] = R /\ peak'[h] = peak[h]
            /\ usedCalls[h] \in Nat /\ usedTokens[h] \in Nat /\ Cardinality(R) \in Nat
        BY <2>1, <2>2
      <4>3. usedTokens'[h] \in Nat /\ usedTokens'[h] <= usedTokens[h] + MaxUsage
            /\ usedCalls'[h] = usedCalls[h] + 1
        BY <2>1, <2>7
      <4>. HIDE DEF R, D
      <4>4. usedCalls'[h] + Cardinality(reserved'[h]) <= MaxCalls
        BY <4>1, <4>2, <4>3, <3>4
      <4>5. usedTokens'[h] <= MaxUsage * usedCalls'[h]
        BY <4>1, <4>2, <4>3, <3>3
      <4>6. usedTokens'[h] + MaxUsage * Cardinality(reserved'[h])
               <= MaxTokens + MaxUsage * peak'[h]
        BY <4>1, <4>2, <4>3, <3>3, <3>4
      <4>. QED BY <4>4, <4>5, <4>6
    <3>. QED BY <2>7, <3>1, <3>2, <3>5 DEF HandleInv
  <2>8. CASE /\ h \in Budgeted
             /\ usedCalls'[h] = usedCalls[h] /\ usedTokens'[h] = usedTokens[h]
             /\ Of(h, "returned")' = D
    <3>1. MaxUsage * Cardinality(R) <= MaxUsage * Cardinality(reserved[h])
          /\ MaxUsage * Cardinality(R) \in Nat /\ MaxUsage * Cardinality(reserved[h]) \in Nat
          /\ Cardinality(R) <= Cardinality(reserved[h]) /\ MaxUsage * peak[h] \in Nat
      BY <2>1, <2>2, <2>3, Times
    <3>2. reserved'[h] = Of(h, "running")'
      BY <2>1, <2>8 DEF HandleInv
    <3>3. /\ usedCalls[h] = Cardinality(D)
          /\ usedCalls[h] + Cardinality(reserved[h]) <= MaxCalls
          /\ usedTokens[h] <= MaxUsage * usedCalls[h]
          /\ usedTokens[h] + MaxUsage * Cardinality(reserved[h]) <= MaxTokens + MaxUsage * peak[h]
      BY <2>1, <2>8 DEF HandleInv
    <3>4. reserved'[h] = R /\ peak'[h] = peak[h] /\ usedCalls'[h] = usedCalls[h]
          /\ usedTokens'[h] = usedTokens[h] /\ Of(h, "returned")' = D
      BY <2>1, <2>8
    <3>. HIDE DEF R, D
    <3>5. usedCalls[h] + Cardinality(R) <= MaxCalls
      BY <2>1, <2>2, <3>1, <3>3
    <3>6. usedTokens[h] + MaxUsage * Cardinality(R) <= MaxTokens + MaxUsage * peak[h]
      BY <2>1, <2>2, <3>1, <3>3
    <3>. QED BY <2>8, <3>2, <3>3, <3>4, <3>5, <3>6 DEF HandleInv
  <2>. QED BY <2>6, <2>7, <2>8 DEF CallEnds
<1>. QED BY <1>1, <1>2 DEF LedgerInv

LEMMA HandlerReturnsInv ==
  ASSUME Inv, NEW c \in Calls, NEW u \in 0..MaxUsage, HandlerReturns(c, u) PROVE Inv'
<1>0. PICK h \in Handles : h = call[c].handle
  BY DEF HandlerReturns, Inv, LedgerInv, CutInv
<1>1. /\ call[c].at = "running" /\ UNCHANGED <<brokerVars, commitVars, peak, cut>>
      /\ call' = [call EXCEPT ![c].at = "returned"]
  BY DEF HandlerReturns, Commit, ledgerVars
<1>2. BrokerType' /\ CommitType' /\ CommitInv'
  BY <1>1, CommitQuiet DEF Inv, BrokerType, brokerVars
<1>3. call' \in [Calls -> [at : CallStates, handle : Handles \cup {None}]]
  BY <1>1 DEF Inv, LedgerType, CallStates
<1>4. CutInv'
  BY <1>1 DEF Inv, LedgerInv, CutInv, LedgerType
<1>5. c \in reserved[h] => h \in Budgeted /\ c \notin cut
  <2>1. h \in Budgeted => reserved[h] = Of(h, "running")
    BY ReservedIs
  <2>2. h \notin Budgeted => reserved[h] = {}
    BY ReservedIs
  <2>. QED BY <2>1, <2>2 DEF Of
<1>6. h \in Budgeted /\ c \notin reserved[h] => c \in cut
  <2>1. h \in Budgeted => reserved[h] = Of(h, "running")
    BY ReservedIs
  <2>2. c \in cut \/ c \in Of(h, "running")
    BY <1>0, <1>1 DEF Of
  <2>. QED BY <2>1, <2>2
<1>7. /\ \A g \in Handles : g # h => Of(g, "running")' = Of(g, "running")
                                    /\ Of(g, "returned")' = Of(g, "returned")
      /\ Of(h, "running")' = Of(h, "running") \ {c}
      /\ c \notin cut => Of(h, "returned")' = Of(h, "returned") \cup {c}
      /\ c \in cut => Of(h, "returned")' = Of(h, "returned")
  BY <1>0, <1>1 DEF Of, Inv, LedgerType
<1>8. CASE c \in reserved[h]
  <2>1. /\ reserved' = [reserved EXCEPT ![h] = @ \ {c}]
        /\ usedCalls' = [usedCalls EXCEPT ![h] = @ + 1]
        /\ usedTokens' = [usedTokens EXCEPT ![h] = @ + u]
    BY <1>0, <1>8 DEF HandlerReturns, Commit
  <2>2. LedgerType'
    BY <1>1, <1>3, <2>1 DEF Inv, LedgerType
  <2>3. /\ \A g \in Handles : g # h => usedCalls'[g] = usedCalls[g] /\ usedTokens'[g] = usedTokens[g]
        /\ usedCalls'[h] = usedCalls[h] + 1
        /\ usedTokens'[h] \in usedTokens[h] .. (usedTokens[h] + MaxUsage)
    BY <1>1, <2>1 DEF Inv, LedgerType
  <2>4. /\ reserved'[h] = reserved[h] \ {c}
        /\ \A g \in Handles : g # h => reserved'[g] = reserved[g]
    BY <2>1 DEF Inv, LedgerType
  <2>5. CallEnds(c, h)
    BY <1>0, <1>1, <1>5, <1>7, <1>8, <2>3, <2>4 DEF CallEnds
  <2>6. LedgerInv'
    BY <1>4, <2>5, CallEndsLedger
  <2>. QED BY <1>2, <2>2, <2>6 DEF Inv
<1>9. CASE c \notin reserved[h]
  <2>1. UNCHANGED ledgerVars
    BY <1>0, <1>9 DEF HandlerReturns, Commit
  <2>2. LedgerType'
    BY <1>3, <2>1 DEF Inv, LedgerType, ledgerVars
  <2>3. UNCHANGED <<reserved, usedCalls, usedTokens>> /\ reserved[h] = reserved[h] \ {c}
    BY <1>9, <2>1 DEF ledgerVars
  <2>4. CallEnds(c, h)
    BY <1>0, <1>1, <1>6, <1>7, <1>9, <2>3 DEF CallEnds
  <2>5. LedgerInv'
    BY <1>4, <2>4, CallEndsLedger
  <2>. QED BY <1>2, <2>2, <2>5 DEF Inv
<1>. QED BY <1>8, <1>9

LEMMA HandlerFailsInv == ASSUME Inv, NEW c \in Calls, HandlerFails(c) PROVE Inv'
<1>0. PICK h \in Handles : h = call[c].handle
  BY DEF HandlerFails, Inv, LedgerInv, CutInv
<1>1. /\ call[c].at = "running" /\ UNCHANGED <<brokerVars, commitVars, usedCalls, usedTokens, peak, cut>>
      /\ call' = [call EXCEPT ![c].at = "failed"]
      /\ reserved' = [reserved EXCEPT ![h] = @ \ {c}]
  BY <1>0 DEF HandlerFails, Release
<1>2. BrokerType' /\ CommitType' /\ CommitInv'
  BY <1>1, CommitQuiet DEF Inv, BrokerType, brokerVars
<1>3. LedgerType'
  BY <1>1 DEF Inv, LedgerType, CallStates
<1>4. CutInv'
  BY <1>1 DEF Inv, LedgerInv, CutInv, LedgerType
<1>5. /\ \A g \in Handles : g # h => Of(g, "running")' = Of(g, "running")
                                    /\ Of(g, "returned")' = Of(g, "returned")
      /\ Of(h, "running")' = Of(h, "running") \ {c}
      /\ Of(h, "returned")' = Of(h, "returned")
  BY <1>0, <1>1 DEF Of, Inv, LedgerType
<1>6. /\ reserved'[h] = reserved[h] \ {c}
      /\ \A g \in Handles : g # h => reserved'[g] = reserved[g]
  BY <1>1 DEF Inv, LedgerType
<1>7. CallEnds(c, h)
  BY <1>0, <1>1, <1>5, <1>6 DEF CallEnds
<1>8. LedgerInv'
  BY <1>4, <1>7, CallEndsLedger
<1>. QED BY <1>2, <1>3, <1>8 DEF Inv

-----------------------------------------------------------------------------
(* The coordinator.                                                        *)

\* A submission that gets its answer, or joins, without an attempt of its own.
LEMMA AcceptAnsweredInv ==
  ASSUME Inv, NEW s \in Submissions, NEW k \in Keys,
         AcceptRefused(s, k) \/ AcceptDuplicate(s, k) \/ AcceptShared(s, k)
  PROVE  Inv'
<1>1. /\ sub[s].at = "idle" /\ UNCHANGED <<brokerVars, callVars, promise, inFlight, receipts, persisted>>
      /\ sub' = [sub EXCEPT ![s] = sub'[s]]
      /\ sub'[s] \in [at : {"waiting", "duplicate", "rejected"}, key : {k}, owner : {inFlight[k], None}]
      /\ sub'[s].at = "duplicate" => k \in receipts
      /\ sub'[s].at = "waiting" => sub'[s].owner = inFlight[k] /\ inFlight[k] # None
      /\ sub'[s].at # "waiting" => sub'[s].owner = None
  BY DEF AcceptRefused, AcceptDuplicate, AcceptShared, Inv, CommitType
<1>2. BrokerType' /\ LedgerType' /\ LedgerInv'
  BY <1>1, LedgerQuiet DEF Inv, BrokerType, brokerVars
<1>3. CommitType'
  BY <1>1 DEF Inv, CommitType, SubStates
<1>4. promise[s] = "none" /\ ~Owns(s)
  BY <1>1 DEF Inv, CommitInv, OwnerInv, Owns
<1>5. inFlight[k] # s
  BY <1>4 DEF Inv, CommitInv, KeyInv
<1>6. \A r \in Submissions : r # s => sub'[r] = sub[r]
  BY <1>1 DEF Inv, CommitType
<1>7. ASSUME NEW r \in Submissions PROVE OwnerInv(r)'
  <2>1. CASE r # s
    BY <1>1, <1>6, <2>1 DEF Inv, CommitInv, OwnerInv, Owns
  <2>2. CASE r = s
    BY <1>1, <1>4, <1>5, <2>2 DEF Inv, CommitInv, OwnerInv, Owns, CommitType
  <2>. QED BY <2>1, <2>2
<1>8. ASSUME NEW r \in Submissions PROVE SharerInv(r)'
  <2>1. CASE r # s
    BY <1>1, <1>4, <1>6, <2>1 DEF Inv, CommitInv, SharerInv, Owns, CommitType
  <2>2. CASE r = s /\ sub'[s].at = "waiting"
    <3>1. PICK o \in Submissions : o = inFlight[k]
      BY <1>1, <2>2 DEF Inv, CommitType
    <3>2. Owns(o) /\ sub[o].key = k /\ o # s
      BY <1>5, <3>1 DEF Inv, CommitInv, KeyInv
    <3>. QED BY <1>1, <1>6, <2>2, <3>1, <3>2 DEF SharerInv, Owns
  <2>3. CASE r = s /\ sub'[s].at # "waiting"
    BY <1>1, <2>3 DEF SharerInv
  <2>. QED BY <2>1, <2>2, <2>3
<1>9. ASSUME NEW j \in Keys PROVE KeyInv(j)'
  <2>1. KeyInv(j) /\ inFlight[j] # s /\ inFlight[j] \in Submissions \cup {None}
    BY <1>4 DEF Inv, CommitInv, KeyInv, CommitType
  <2>. QED BY <1>1, <1>6, <2>1 DEF KeyInv, Owns
<1>. QED BY <1>2, <1>3, <1>7, <1>8, <1>9 DEF Inv, CommitInv

LEMMA AcceptFreshInv ==
  ASSUME Inv, NEW s \in Submissions, NEW k \in Keys, NEW h \in Handles, NEW fits \in BOOLEAN,
         AcceptFresh(s, k, h, fits)
  PROVE  Inv'
<1>1. /\ sub[s].at = "idle" /\ k \notin receipts /\ inFlight[k] = None
      /\ UNCHANGED <<brokerVars, callVars, receipts, persisted>>
      /\ sub' = [sub EXCEPT ![s] = [at |-> "waiting", key |-> k, owner |-> s]]
      /\ inFlight' = [inFlight EXCEPT ![k] = s]
      /\ promise' = [promise EXCEPT ![s] = promise'[s]]
      /\ promise'[s] \in {"persisting", "rejected"}
  BY DEF AcceptFresh, Inv, CommitType
<1>2. BrokerType' /\ LedgerType' /\ LedgerInv'
  BY <1>1, LedgerQuiet DEF Inv, BrokerType, brokerVars
<1>3. CommitType'
  BY <1>1 DEF Inv, CommitType, SubStates
<1>4. promise[s] = "none" /\ ~Owns(s) /\ sub[s].key = None
  BY <1>1 DEF Inv, CommitInv, OwnerInv, Owns
<1>5. /\ \A r \in Submissions : r # s => sub'[r] = sub[r] /\ promise'[r] = promise[r]
      /\ \A j \in Keys : j # k => inFlight'[j] = inFlight[j]
      /\ inFlight'[k] = s
      /\ sub'[s] = [at |-> "waiting", key |-> k, owner |-> s]
  BY <1>1 DEF Inv, CommitType
<1>6. ASSUME NEW r \in Submissions PROVE OwnerInv(r)'
  <2>1. CASE r # s
    <3>1. OwnerInv(r) /\ sub[r].key \in Keys \cup {None}
      BY DEF Inv, CommitInv, CommitType
    <3>. QED BY <1>1, <1>5, <2>1, <3>1 DEF OwnerInv, Owns
  <2>2. CASE r = s
    BY <1>1, <1>5, <2>2 DEF OwnerInv, Owns
  <2>. QED BY <2>1, <2>2
<1>7. ASSUME NEW r \in Submissions PROVE SharerInv(r)'
  BY <1>1, <1>4, <1>5 DEF Inv, CommitInv, SharerInv, Owns, CommitType
<1>8. ASSUME NEW j \in Keys PROVE KeyInv(j)'
  <2>1. KeyInv(j) /\ inFlight[j] # s /\ inFlight[j] \in Submissions \cup {None}
    BY <1>4 DEF Inv, CommitInv, KeyInv, CommitType
  <2>2. CASE j = k
    BY <1>1, <1>5, <2>1, <2>2 DEF KeyInv, Owns
  <2>3. CASE j # k
    BY <1>1, <1>5, <2>1, <2>3 DEF KeyInv, Owns
  <2>. QED BY <2>2, <2>3
<1>. QED BY <1>2, <1>3, <1>6, <1>7, <1>8 DEF Inv, CommitInv

LEMMA SinkPersistsInv == ASSUME Inv, NEW s \in Submissions, SinkPersists(s) PROVE Inv'
<1>1. /\ promise[s] = "persisting" /\ UNCHANGED <<brokerVars, callVars, sub, inFlight, receipts>>
      /\ promise' = [promise EXCEPT ![s] = "resolved"]
      /\ persisted' = [persisted EXCEPT ![sub[s].key] = @ + 1]
  BY DEF SinkPersists
<1>2. BrokerType' /\ LedgerType' /\ LedgerInv'
  BY <1>1, LedgerQuiet DEF Inv, BrokerType, brokerVars
<1>3. Owns(s) /\ sub[s].at = "waiting"
  BY <1>1 DEF Inv, CommitInv, OwnerInv
<1>4. PICK k \in Keys : k = sub[s].key
  BY <1>3 DEF Inv, CommitInv, OwnerInv, CommitType
<1>5. inFlight[k] = s
  BY <1>3, <1>4 DEF Inv, CommitInv, OwnerInv
<1>6. CommitType'
  BY <1>1, <1>4 DEF Inv, CommitType
<1>7. /\ \A r \in Submissions : promise'[r] = IF r = s THEN "resolved" ELSE promise[r]
      /\ \A j \in Keys : persisted'[j] = IF j = k THEN persisted[j] + 1 ELSE persisted[j]
  BY <1>1, <1>4 DEF Inv, CommitType
<1>8. ASSUME NEW r \in Submissions PROVE OwnerInv(r)' /\ SharerInv(r)'
  BY <1>1, <1>3, <1>7 DEF Inv, CommitInv, OwnerInv, SharerInv, Owns
<1>9. ASSUME NEW j \in Keys PROVE KeyInv(j)'
  <2>1. KeyInv(j) /\ inFlight[j] \in Submissions \cup {None} /\ persisted[j] \in Nat
    BY DEF Inv, CommitInv, CommitType
  <2>2. CASE j = k
    BY <1>1, <1>3, <1>5, <1>7, <2>1, <2>2 DEF KeyInv, Owns
  <2>3. CASE j # k
    <3>1. inFlight[j] # s
      BY <1>4, <2>1, <2>3 DEF KeyInv
    <3>. QED BY <1>1, <1>7, <2>1, <2>3, <3>1 DEF KeyInv, Owns
  <2>. QED BY <2>2, <2>3
<1>. QED BY <1>2, <1>6, <1>8, <1>9 DEF Inv, CommitInv

LEMMA SinkFailsInv == ASSUME Inv, NEW s \in Submissions, SinkFails(s) PROVE Inv'
<1>1. /\ promise[s] = "persisting"
      /\ UNCHANGED <<brokerVars, callVars, sub, inFlight, receipts, persisted>>
      /\ promise' = [promise EXCEPT ![s] = "rejected"]
  BY DEF SinkFails
<1>2. BrokerType' /\ LedgerType' /\ LedgerInv'
  BY <1>1, LedgerQuiet DEF Inv, BrokerType, brokerVars
<1>3. CommitType'
  BY <1>1 DEF Inv, CommitType
<1>4. \A r \in Submissions : promise'[r] = IF r = s THEN "rejected" ELSE promise[r]
  BY <1>1 DEF Inv, CommitType
<1>5. ASSUME NEW r \in Submissions PROVE OwnerInv(r)' /\ SharerInv(r)'
  BY <1>1, <1>4 DEF Inv, CommitInv, OwnerInv, SharerInv, Owns
<1>6. ASSUME NEW j \in Keys PROVE KeyInv(j)'
  <2>1. KeyInv(j) /\ inFlight[j] \in Submissions \cup {None}
    BY DEF Inv, CommitInv, CommitType
  <2>. QED BY <1>1, <1>4, <2>1 DEF KeyInv, Owns
<1>. QED BY <1>2, <1>3, <1>5, <1>6 DEF Inv, CommitInv

LEMMA OwnerResumesInv == ASSUME Inv, NEW s \in Submissions, OwnerResumes(s) PROVE Inv'
<1>1. /\ sub[s].at = "waiting" /\ Owns(s)
      /\ UNCHANGED <<brokerVars, callVars, promise, persisted>>
  BY DEF OwnerResumes, Owns
<1>2. BrokerType' /\ LedgerType' /\ LedgerInv'
  BY <1>1, LedgerQuiet DEF Inv, BrokerType, brokerVars
<1>3. PICK k \in Keys : k = sub[s].key
  BY <1>1 DEF Inv, CommitInv, OwnerInv, CommitType
<1>4. inFlight[k] = s
  BY <1>1, <1>3 DEF Inv, CommitInv, OwnerInv
<1>5. \A r \in Submissions : sub[r].owner = s /\ r # s => sub[r].at = "waiting"
  BY <1>1 DEF Inv, CommitInv, SharerInv
<1>6. CASE promise[s] = "resolved"
  <2>1. /\ receipts' = receipts \cup {k} /\ sub' = [sub EXCEPT ![s].at = "accepted"]
        /\ UNCHANGED inFlight
    BY <1>3, <1>6 DEF OwnerResumes
  <2>0. /\ sub \in [Submissions -> [at : SubStates, key : Keys \cup {None},
                                   owner : Submissions \cup {None}]]
        /\ inFlight \in [Keys -> Submissions \cup {None}]
    BY DEF Inv, CommitType
  <2>t. "accepted" \in SubStates
    BY DEF SubStates
  <2>s. sub' \in [Submissions -> [at : SubStates, key : Keys \cup {None},
                                 owner : Submissions \cup {None}]]
    BY <2>0, <2>1, <2>t
  <2>p. \A r \in Submissions : /\ sub'[r].at = IF r = s THEN "accepted" ELSE sub[r].at
                              /\ sub'[r].key = sub[r].key /\ sub'[r].owner = sub[r].owner
    BY <2>0, <2>1
  <2>2. /\ CommitType'
        /\ \A r \in Submissions : /\ sub'[r].at = IF r = s THEN "accepted" ELSE sub[r].at
                                  /\ sub'[r].key = sub[r].key /\ sub'[r].owner = sub[r].owner
    BY <1>1, <2>0, <2>1, <2>s, <2>p DEF Inv, CommitType
  <2>3. ASSUME NEW r \in Submissions PROVE OwnerInv(r)'
    BY <1>1, <1>4, <1>6, <2>1, <2>2 DEF Inv, CommitInv, OwnerInv, Owns
  <2>4. ASSUME NEW r \in Submissions PROVE SharerInv(r)'
    <3>1. SharerInv(r) /\ sub[r].owner \in Submissions \cup {None}
      BY DEF Inv, CommitInv, CommitType
    <3>. QED BY <1>1, <1>5, <2>2, <3>1 DEF SharerInv, Owns
  <2>5. ASSUME NEW j \in Keys PROVE KeyInv(j)'
    <3>1. KeyInv(j) /\ inFlight[j] \in Submissions \cup {None}
      BY DEF Inv, CommitInv, CommitType
    <3>. QED BY <1>1, <1>3, <1>4, <1>6, <2>1, <2>2, <3>1 DEF KeyInv, Owns
  <2>. QED BY <1>2, <2>2, <2>3, <2>4, <2>5 DEF Inv, CommitInv
<1>7. CASE promise[s] = "rejected"
  <2>1. /\ inFlight' = [inFlight EXCEPT ![k] = None] /\ sub' = [sub EXCEPT ![s].at = "rejected"]
        /\ UNCHANGED receipts
    BY <1>3, <1>7 DEF OwnerResumes
  <2>0. /\ sub \in [Submissions -> [at : SubStates, key : Keys \cup {None},
                                   owner : Submissions \cup {None}]]
        /\ inFlight \in [Keys -> Submissions \cup {None}]
    BY DEF Inv, CommitType
  <2>t. "rejected" \in SubStates
    BY DEF SubStates
  <2>s. sub' \in [Submissions -> [at : SubStates, key : Keys \cup {None},
                                 owner : Submissions \cup {None}]]
    BY <2>0, <2>1, <2>t
  <2>p. \A r \in Submissions : /\ sub'[r].at = IF r = s THEN "rejected" ELSE sub[r].at
                              /\ sub'[r].key = sub[r].key /\ sub'[r].owner = sub[r].owner
    BY <2>0, <2>1
  <2>2. /\ CommitType'
        /\ \A r \in Submissions : /\ sub'[r].at = IF r = s THEN "rejected" ELSE sub[r].at
                                  /\ sub'[r].key = sub[r].key /\ sub'[r].owner = sub[r].owner
        /\ \A j \in Keys : inFlight'[j] = IF j = k THEN None ELSE inFlight[j]
    BY <1>1, <2>0, <2>1, <2>s, <2>p DEF Inv, CommitType
  <2>3. ASSUME NEW r \in Submissions PROVE OwnerInv(r)'
    <3>1. CASE r = s
      BY <1>1, <1>7, <2>1, <2>2, <3>1 DEF Inv, CommitInv, OwnerInv, Owns
    <3>2. CASE r # s
      <4>1. OwnerInv(r) /\ sub[r].key \in Keys \cup {None}
        BY DEF Inv, CommitInv, CommitType
      <4>2. Owns(r) /\ sub[r].at \in {"waiting", "accepted"} => sub[r].key # k
        BY <1>4, <3>2, <4>1 DEF OwnerInv
      <4>3. sub[r].at # "idle" => sub[r].key \in Keys
        BY <4>1 DEF OwnerInv
      <4>. QED BY <1>1, <2>1, <2>2, <3>2, <4>1, <4>2, <4>3 DEF OwnerInv, Owns
    <3>. QED BY <3>1, <3>2
  <2>4. ASSUME NEW r \in Submissions PROVE SharerInv(r)'
    <3>1. SharerInv(r) /\ sub[r].owner \in Submissions \cup {None}
      BY DEF Inv, CommitInv, CommitType
    <3>. QED BY <1>1, <1>5, <2>2, <3>1 DEF SharerInv, Owns
  <2>5. ASSUME NEW j \in Keys PROVE KeyInv(j)'
    <3>1. KeyInv(j) /\ KeyInv(k) /\ inFlight[j] \in Submissions \cup {None}
      BY DEF Inv, CommitInv, CommitType
    <3>2. CASE j = k
      BY <1>1, <1>4, <1>7, <2>1, <2>2, <3>1, <3>2 DEF KeyInv
    <3>3. CASE j # k
      <4>1. inFlight[j] # s
        BY <1>3, <3>1, <3>3 DEF KeyInv
      <4>. QED BY <1>1, <2>1, <2>2, <3>1, <3>3, <4>1 DEF KeyInv, Owns
    <3>. QED BY <3>2, <3>3
  <2>. QED BY <1>2, <2>2, <2>3, <2>4, <2>5 DEF Inv, CommitInv
<1>. QED BY <1>6, <1>7 DEF OwnerResumes

LEMMA SharerResumesInv == ASSUME Inv, NEW s \in Submissions, SharerResumes(s) PROVE Inv'
<1>1. PICK o \in Submissions : o = sub[s].owner
  BY DEF SharerResumes, Inv, CommitInv, OwnerInv
<1>2. /\ sub[s].at = "waiting" /\ o # s /\ sub[o].at \in {"accepted", "rejected"}
      /\ sub' = [sub EXCEPT ![s].at = sub[o].at]
      /\ UNCHANGED <<brokerVars, callVars, promise, inFlight, receipts, persisted>>
  BY <1>1 DEF SharerResumes
<1>3. BrokerType' /\ LedgerType' /\ LedgerInv'
  BY <1>2, LedgerQuiet DEF Inv, BrokerType, brokerVars
<1>4. /\ CommitType'
      /\ \A r \in Submissions : /\ sub'[r].at = IF r = s THEN sub[o].at ELSE sub[r].at
                                /\ sub'[r].key = sub[r].key /\ sub'[r].owner = sub[r].owner
  BY <1>2 DEF Inv, CommitType
<1>5. ~Owns(s) /\ promise[s] = "none"
  BY <1>1, <1>2 DEF Inv, CommitInv, OwnerInv, Owns
<1>6. ASSUME NEW r \in Submissions PROVE OwnerInv(r)'
  BY <1>1, <1>2, <1>4, <1>5 DEF Inv, CommitInv, OwnerInv, Owns
<1>7. \A r \in Submissions : sub[r].owner = s => r = s
  BY <1>5 DEF Inv, CommitInv, SharerInv
<1>8. ASSUME NEW r \in Submissions PROVE SharerInv(r)'
  BY <1>1, <1>2, <1>4, <1>7 DEF Inv, CommitInv, SharerInv, Owns, CommitType
<1>9. ASSUME NEW j \in Keys PROVE KeyInv(j)'
  <2>1. KeyInv(j) /\ inFlight[j] # s /\ inFlight[j] \in Submissions \cup {None}
    BY <1>5 DEF Inv, CommitInv, KeyInv, CommitType
  <2>. QED BY <1>2, <1>4, <2>1 DEF KeyInv, Owns
<1>. QED BY <1>3, <1>4, <1>6, <1>8, <1>9 DEF Inv, CommitInv

-----------------------------------------------------------------------------
(* The theorems.                                                           *)

LEMMA NextInv == Inv /\ [Next]_vars => Inv'
<1>. SUFFICES ASSUME Inv, [Next]_vars PROVE Inv'
  OBVIOUS
<1>1. CASE UNCHANGED vars
  <2>1. UNCHANGED brokerVars /\ UNCHANGED callVars /\ UNCHANGED commitVars
    BY <1>1 DEF vars
  <2>2. BrokerType'
    BY <2>1 DEF Inv, BrokerType, brokerVars
  <2>. QED BY <2>1, <2>2, LedgerQuiet, CommitQuiet DEF Inv
<1>2. CASE RunStep
  BY <1>2, HandleStepInv, SettleInv DEF RunStep
<1>3. CASE \E h \in Handles : HandleStep(h)
  BY <1>3, HandleStepInv
<1>4. CASE \E c \in Calls : CallStep(c)
  BY <1>4, InvokeRejectedInv, InvokeGrantedInv, HandlerReturnsInv, HandlerFailsInv DEF CallStep
<1>5. CASE \E s \in Submissions : SubmissionStep(s)
  BY <1>5, AcceptAnsweredInv, AcceptFreshInv, SinkPersistsInv, SinkFailsInv, OwnerResumesInv,
     SharerResumesInv DEF SubmissionStep
<1>. QED BY <1>1, <1>2, <1>3, <1>4, <1>5 DEF Next

LEMMA AlwaysInv == Spec => []Inv
  BY InitInv, NextInv, PTL DEF Spec

\* Every variable of the broker, the ledger and the coordinator keeps its type.
THEOREM CapabilitiesTypeCorrect == Spec => []TypeOK
<1>1. Inv => TypeOK
  BY TypeParts DEF Inv
<1>. QED BY <1>1, AlwaysInv, PTL

\* A budget holds exactly its calls in flight and has charged exactly those
\* that returned, the ones a cancellation cut apart.
THEOREM LedgerIsWhatRanHolds == Spec => []LedgerIsWhatRan
<1>1. Inv => LedgerIsWhatRan
  BY DEF Inv, LedgerInv, HandleInv, LedgerIsWhatRan, Of
<1>. QED BY <1>1, AlwaysInv, PTL

\* The tokens past a budget are bounded by the calls ever in flight together.
THEOREM OvershootBoundedHolds == Spec => []OvershootBounded
<1>1. Inv => OvershootBounded
  BY DEF Inv, LedgerInv, HandleInv, OvershootBounded
<1>. QED BY <1>1, AlwaysInv, PTL

\* One intent per key, and no acceptance without it.
THEOREM OneIntentPerKeyHolds == Spec => []OneIntentPerKey
<1>1. ASSUME Inv PROVE OneIntentPerKey
  <2>1. \A k \in Keys : persisted[k] <= 1
    BY <1>1 DEF Inv, CommitInv, KeyInv
  <2>2. ASSUME NEW s \in Submissions, sub[s].at = "duplicate" PROVE persisted[sub[s].key] = 1
    BY <1>1, <2>2 DEF Inv, CommitType, CommitInv, OwnerInv, KeyInv
  <2>3. ASSUME NEW s \in Submissions, sub[s].at = "accepted" PROVE persisted[sub[s].key] = 1
    <3>1. PICK o \in Submissions : o = sub[s].owner
      BY <1>1, <2>3 DEF Inv, CommitInv, OwnerInv
    <3>2. Owns(o) /\ sub[o].key = sub[s].key /\ sub[o].at = "accepted"
      BY <1>1, <2>3, <3>1 DEF Inv, CommitInv, SharerInv, Owns
    <3>3. sub[o].key \in Keys /\ inFlight[sub[o].key] = o /\ promise[o] = "resolved"
      BY <1>1, <3>2 DEF Inv, CommitType, CommitInv, OwnerInv
    <3>. QED BY <1>1, <3>2, <3>3 DEF Inv, CommitInv, KeyInv
  <2>. QED BY <2>1, <2>2, <2>3 DEF OneIntentPerKey
<1>. QED BY <1>1, AlwaysInv, PTL

\* A rejected submission finds its key free of the attempt that failed.
THEOREM RejectionFreesKeyHolds == Spec => []RejectionFreesKey
<1>1. ASSUME Inv, NEW s \in Submissions, sub[s].at = "rejected", sub[s].owner # None
      PROVE  inFlight[sub[s].key] # sub[s].owner
  <2>1. PICK o \in Submissions : o = sub[s].owner
    BY <1>1 DEF Inv, CommitType
  <2>2. sub[o].at = "rejected" /\ sub[s].key \in Keys
    BY <1>1, <2>1 DEF Inv, CommitInv, SharerInv, OwnerInv, CommitType
  <2>. QED BY <1>1, <2>1, <2>2 DEF Inv, CommitInv, KeyInv
<1>2. Inv => RejectionFreesKey
  BY <1>1 DEF RejectionFreesKey
<1>. QED BY <1>2, AlwaysInv, PTL

\* A key is accepted once and retried only after a failure.  (coordinator.ts)
THEOREM CommitsOnceHolds == Spec => []CommitsOnce
<1>1. OneIntentPerKey /\ RejectionFreesKey <=> CommitsOnce
  BY DEF CommitsOnce
<1>. QED BY <1>1, OneIntentPerKeyHolds, RejectionFreesKeyHolds, PTL

=============================================================================
