---------------------------- MODULE GatewayProofs ----------------------------
(***************************************************************************)
(* Theorems about Gateway, for any number of providers and requests, any   *)
(* thresholds, cooldowns, quotas and windows.                              *)
(***************************************************************************)
EXTENDS GatewayHistory, RuntimeStateProofs, FiniteSetTheorems, TLAPS

-----------------------------------------------------------------------------
(***************************************************************************)
(* The requests: one lemma for each way a step touches a slot.             *)
(***************************************************************************)
SlotInv == SlotTypeOK /\ RequestInv

Phases == Busy \cup Finished

\* A request that settles leaves its slot in order.
LEMMA SettleSlot ==
  ASSUME SlotInv, NEW s \in Slot, NEW outcome \in Finished, Settle(s, outcome)
  PROVE  SlotInv'
<1> USE DEF SlotInv, Settle, Busy, Calling, Finished
<1>1. SlotTypeOK'
  BY DEF SlotTypeOK
<1>2. ASSUME NEW t \in Slot PROVE RequestOK(t)'
  <2>1. CASE t = s
    BY <2>1, FS_EmptySet, GatewayAssumption DEF SlotTypeOK, RequestOK
  <2>2. CASE t # s
    BY <2>2 DEF SlotTypeOK, RequestInv, RequestOK
  <2> QED
    BY <2>1, <2>2
<1> QED
  BY <1>1, <1>2 DEF RequestInv

\* A request that nobody has been heard for is sent to p, one of the
\* candidates C.
LEMMA SendSlot ==
  ASSUME SlotInv, NEW s \in Slot, NEW C \in SUBSET Provider, NEW p \in C,
         NEW ph \in Calling, Send(s, p, C, ph),
         compatible' \in [Slot -> SUBSET Provider],
         \A t \in Slot \ {s} : compatible'[t] = compatible[t],
         voices' = voices, voices[s] = {},
         C \cap tried[s] = {}, C \cup tried[s] \subseteq compatible'[s],
         Cardinality(C) + Cardinality(tried[s]) <= MaxAttempts
  PROVE  SlotInv'
<1> USE DEF SlotInv, Send, Busy, Calling, Finished
<1>1. SlotTypeOK'
  BY DEF SlotTypeOK
<1>2. ASSUME NEW t \in Slot PROVE RequestOK(t)'
  <2>1. CASE t = s
    <3>1. IsFiniteSet(C) /\ IsFiniteSet(tried[s])
      BY FS_Subset, GatewayAssumption DEF SlotTypeOK
    <3>2. /\ Cardinality(C \ {p}) = Cardinality(C) - 1
          /\ Cardinality(tried[s] \cup {p}) = Cardinality(tried[s]) + 1
      BY <3>1, FS_RemoveElement, FS_AddElement
    <3>3. Cardinality(C) \in Nat /\ Cardinality(tried[s]) \in Nat
      BY <3>1, FS_CardinalityType
    <3>4. /\ phase'[s] = ph /\ current'[s] = p /\ committed'[s] = FALSE
          /\ candidates'[s] = C \ {p} /\ tried'[s] = tried[s] \cup {p}
          /\ voices'[s] = {}
      BY DEF SlotTypeOK
    <3>5. Cardinality(C \ {p}) + Cardinality(tried[s] \cup {p}) <= MaxAttempts
      BY <3>2, <3>3, GatewayAssumption
    <3> QED
      BY <2>1, <3>4, <3>5 DEF RequestOK
  <2>2. CASE t # s
    BY <2>2 DEF SlotTypeOK, RequestInv, RequestOK
  <2> QED
    BY <2>1, <2>2
<1> QED
  BY <1>1, <1>2 DEF RequestInv

\* The slice of a ranking: no more providers than MaxAttempts.
LEMMA SliceBound ==
  ASSUME NEW R \in SUBSET Provider, NEW C \in AttemptSlices(R)
  PROVE  C \in SUBSET R /\ Cardinality(C) <= MaxAttempts
<1>1. IsFiniteSet(R) /\ Cardinality(R) \in Nat
  BY FS_Subset, FS_CardinalityType, GatewayAssumption
<1> QED
  BY <1>1, GatewayAssumption DEF AttemptSlices

\* rank() and the first attempt, for a request that is not being served yet.
LEMMA RankAndSendSlot ==
  ASSUME SlotInv, NEW s \in Slot, phase[s] \notin Calling,
         NEW profile \in SUBSET Provider, NEW ph \in Calling,
         RankAndSend(s, profile, ph),
         compatible' = [compatible EXCEPT ![s] = profile], voices' = voices
  PROVE  SlotInv'
<1>0. PICK C \in AttemptSlices(Ranked(profile)) : \E p \in C : Send(s, p, C, ph)
  BY DEF RankAndSend
<1>1. PICK p \in C : Send(s, p, C, ph)
  BY <1>0
<1>2. Ranked(profile) \in SUBSET profile
  BY DEF Ranked
<1>3. C \in SUBSET profile /\ Cardinality(C) <= MaxAttempts
  BY <1>0, <1>2, SliceBound
<1>4. tried[s] = {} /\ voices[s] = {}
  BY DEF SlotInv, RequestInv, RequestOK
<1>5. Cardinality(C) \in Nat
  BY <1>3, FS_Subset, FS_CardinalityType, GatewayAssumption
<1>6. Cardinality(C) + Cardinality(tried[s]) <= MaxAttempts
  BY <1>3, <1>4, <1>5, FS_EmptySet, GatewayAssumption
<1>7. /\ compatible' \in [Slot -> SUBSET Provider]
      /\ compatible'[s] = profile
      /\ \A t \in Slot \ {s} : compatible'[t] = compatible[t]
  BY DEF SlotInv, SlotTypeOK
<1> QED
  BY <1>1, <1>3, <1>4, <1>6, <1>7, SendSlot

-----------------------------------------------------------------------------
(***************************************************************************)
(* The inductive invariant of Gateway, without the quota bound.            *)
(***************************************************************************)
GatewayInv == CircuitInv /\ QuotaInv /\ SlotInv

\* Ranking refreshes configured providers.
LEMMA RefreshedByRankType == RefreshedByRank \in SUBSET Provider
BY DEF RefreshedByRank

\* The gateway starts with closed circuits, no window and no request.
LEMMA InitInv == Init => GatewayInv
<1> SUFFICES ASSUME Init PROVE GatewayInv
  OBVIOUS
<1> USE DEF Init, StateInit
<1>1. CircuitInv
  BY ConfigAssumption DEF CircuitInv, CircuitTypeOK, OpenCircuitHasStreak, Available
<1>2. QuotaInv
  BY ConfigAssumption DEF QuotaInv, QuotaTypeOK, WindowMatchesAttempts, WindowAge, Unset
<1>3. SlotTypeOK
  BY DEF SlotTypeOK, Busy, Finished
<1>4. RequestInv
  BY FS_EmptySet, GatewayAssumption DEF RequestInv, RequestOK, Calling, Busy, Finished
<1> QED
  BY <1>1, <1>2, <1>3, <1>4 DEF GatewayInv, SlotInv

\* A request that is turned away changes quotas by their refresh only.
LEMMA RejectInv ==
  ASSUME GatewayInv, NEW s \in Slot, NEW profile \in SUBSET Provider,
         NEW outcome \in Finished, Reject(s, profile, outcome), UNCHANGED circuitVars
  PROVE  GatewayInv'
<1>1. CircuitInv'
  BY DEF GatewayInv, circuitVars, CircuitInv, CircuitTypeOK, OpenCircuitHasStreak, Available
<1>2. QuotaInv'
  BY RefreshQuotaQuota, RefreshedByRankType DEF Reject, GatewayInv
<1>3. SlotInv'
  BY SettleSlot DEF Reject, GatewayInv
<1> QED
  BY <1>1, <1>2, <1>3 DEF GatewayInv

\* Ranking and the first attempt keep the invariant.
LEMMA RankAndSendInv ==
  ASSUME GatewayInv, NEW s \in Slot, phase[s] \notin Calling,
         NEW profile \in SUBSET Provider, NEW ph \in Calling,
         RankAndSend(s, profile, ph), UNCHANGED circuitVars,
         compatible' = [compatible EXCEPT ![s] = profile], voices' = voices
  PROVE  GatewayInv'
<1>1. CircuitInv'
  BY DEF GatewayInv, circuitVars, CircuitInv, CircuitTypeOK, OpenCircuitHasStreak, Available
<1>2. QuotaInv'
  <2>1. PICK C \in AttemptSlices(Ranked(profile)) :
               \E p \in C : RecordAttempt(p, RefreshedByRank)
    BY DEF RankAndSend
  <2>2. PICK p \in C : RecordAttempt(p, RefreshedByRank)
    BY <2>1
  <2>3. p \in Provider
    BY <2>1, <2>2, SliceBound DEF Ranked
  <2> QED
    BY <2>2, <2>3, RecordAttemptQuota, RefreshedByRankType DEF GatewayInv
<1>3. SlotInv'
  BY RankAndSendSlot DEF GatewayInv
<1> QED
  BY <1>1, <1>2, <1>3 DEF GatewayInv

\* A failed attempt keeps it, whether the request falls back or gives up.
LEMMA ProviderFailsInv ==
  ASSUME GatewayInv, NEW s \in Slot, NEW retryable \in BOOLEAN, ProviderFails(s, retryable)
  PROVE  GatewayInv'
<1>1. phase[s] \in Calling /\ current[s] \in Provider
  BY DEF ProviderFails, GatewayInv, SlotInv, SlotTypeOK, RequestInv, RequestOK
<1>2. CircuitInv'
  BY <1>1, RecordFailureCircuit DEF ProviderFails, GatewayInv
<1>3. CASE GiveUp(s, retryable)
  <2>1. PICK outcome \in Finished : Settle(s, outcome) /\ UNCHANGED quotaVars
    BY <1>3 DEF ProviderFails, Finished
  <2>2. SlotInv'
    BY <2>1, SettleSlot DEF GatewayInv
  <2>3. QuotaInv'
    BY <2>1 DEF GatewayInv, quotaVars, QuotaInv, QuotaTypeOK, WindowMatchesAttempts, WindowAge
  <2> QED
    BY <1>2, <2>2, <2>3 DEF GatewayInv
<1>4. CASE ~GiveUp(s, retryable)
  <2>1. PICK p \in candidates[s] :
               RecordAttempt(p, {}) /\ Send(s, p, candidates[s], phase[s])
    BY <1>4 DEF ProviderFails
  <2>2. candidates[s] \in SUBSET Provider /\ p \in Provider
    BY <2>1 DEF GatewayInv, SlotInv, SlotTypeOK
  <2>3. QuotaInv'
    BY <2>1, <2>2, RecordAttemptQuota DEF GatewayInv
  <2>4. ~committed[s] /\ voices[s] = {}
    BY <1>4 DEF GiveUp, GatewayInv, SlotInv, RequestInv, RequestOK
  <2>5. compatible' = compatible /\ voices' = voices
    BY <1>4 DEF ProviderFails
  <2>6. compatible' \in [Slot -> SUBSET Provider]
    BY <2>5 DEF GatewayInv, SlotInv, SlotTypeOK
  <2>7. SlotInv'
    BY <1>1, <2>1, <2>2, <2>4, <2>5, <2>6, SendSlot
       DEF GatewayInv, SlotInv, RequestInv, RequestOK
  <2> QED
    BY <1>2, <2>3, <2>7 DEF GatewayInv
<1> QED
  BY <1>3, <1>4

\* The first chunk with content: the client hears the provider it waits for.
LEMMA CommitChunkInv ==
  ASSUME GatewayInv, NEW s \in Slot, CommitChunk(s)
  PROVE  GatewayInv'
<1> USE DEF CommitChunk, GatewayInv, SlotInv, Calling, Busy, Finished
<1>1. CircuitInv' /\ QuotaInv'
  BY DEF stateVars, circuitVars, quotaVars, CircuitInv, CircuitTypeOK, OpenCircuitHasStreak,
         Available, QuotaInv, QuotaTypeOK, WindowMatchesAttempts, WindowAge
<1>2. current[s] \in Provider /\ voices[s] = {}
  BY DEF SlotTypeOK, RequestInv, RequestOK
<1>3. SlotTypeOK'
  BY <1>2 DEF SlotTypeOK
<1>4. ASSUME NEW t \in Slot PROVE RequestOK(t)'
  BY <1>2 DEF SlotTypeOK, RequestInv, RequestOK
<1> QED
  BY <1>1, <1>3, <1>4 DEF RequestInv

\* GatewayInv is inductive.
LEMMA NextInv == GatewayInv /\ [Next]_vars => GatewayInv'
<1> SUFFICES ASSUME GatewayInv, [Next]_vars PROVE GatewayInv'
  OBVIOUS
<1> USE GatewayAssumption
<1>1. ASSUME NEW s \in Slot, StartComplete(s) PROVE GatewayInv'
  <2>1. PICK profile \in Profile :
          \/ Reject(s, profile, "rejected")
          \/ /\ RankAndSend(s, profile, "awaiting")
             /\ compatible' = [compatible EXCEPT ![s] = profile]
             /\ UNCHANGED voices
    BY <1>1 DEF StartComplete
  <2> QED
    BY <1>1, <2>1, RejectInv, RankAndSendInv DEF StartComplete, Finished, Calling
<1>2. ASSUME NEW s \in Slot, Preflight(s) PROVE GatewayInv'
  <2>1. PICK profile \in Profile :
          \/ Reject(s, profile, "rejected")
          \/ /\ RefreshQuota(RefreshedByRank)
             /\ phase' = [phase EXCEPT ![s] = "admitted"]
             /\ compatible' = [compatible EXCEPT ![s] = profile]
             /\ UNCHANGED <<candidates, current, committed, tried, voices>>
    BY <1>2 DEF Preflight
  <2>2. CASE Reject(s, profile, "rejected")
    BY <1>2, <2>2, RejectInv DEF Preflight, Finished
  <2>3. CASE ~Reject(s, profile, "rejected")
    <3>1. CircuitInv'
      BY <1>2 DEF Preflight, GatewayInv, circuitVars, CircuitInv, CircuitTypeOK,
                  OpenCircuitHasStreak, Available
    <3>2. QuotaInv'
      BY <2>1, <2>3, RefreshQuotaQuota, RefreshedByRankType DEF GatewayInv
    <3>3. SlotTypeOK'
      BY <2>1, <2>3 DEF GatewayInv, SlotInv, SlotTypeOK, Busy
    <3>4. ASSUME NEW t \in Slot PROVE RequestOK(t)'
      <4>1. CASE t # s
        <5>1. phase'[t] = phase[t] /\ compatible'[t] = compatible[t]
          BY <2>1, <2>3, <4>1 DEF GatewayInv, SlotInv, SlotTypeOK
        <5>2. UNCHANGED <<candidates, current, committed, tried, voices>>
          BY <2>1, <2>3
        <5> QED
          BY <5>1, <5>2 DEF GatewayInv, SlotInv, RequestInv, RequestOK
      <4>2. phase[s] \notin Calling
        BY <1>2 DEF Preflight, Calling, Finished
      <4>3. /\ current'[s] = NoProvider /\ candidates'[s] = {} /\ tried'[s] = {}
            /\ committed'[s] = FALSE /\ voices'[s] = {} /\ phase'[s] = "admitted"
        BY <2>1, <2>3, <4>2 DEF GatewayInv, SlotInv, SlotTypeOK, RequestInv, RequestOK
      <4>4. Cardinality({}) + Cardinality({}) <= MaxAttempts
        BY FS_EmptySet
      <4>5. CASE t = s
        BY <4>3, <4>4, <4>5 DEF RequestOK, Calling, Finished
      <4> QED
        BY <4>1, <4>5
    <3> QED
      BY <3>1, <3>2, <3>3, <3>4 DEF GatewayInv, SlotInv, RequestInv
  <2> QED
    BY <2>2, <2>3
<1>3. ASSUME NEW s \in Slot, StartStream(s) PROVE GatewayInv'
  <2>1. compatible[s] \in SUBSET Provider
    BY DEF GatewayInv, SlotInv, SlotTypeOK
  <2>2. compatible = [compatible EXCEPT ![s] = compatible[s]]
    BY DEF GatewayInv, SlotInv, SlotTypeOK
  <2> QED
    BY <1>3, <2>1, <2>2, RejectInv, RankAndSendInv DEF StartStream, Finished, Calling
<1>4. ASSUME NEW s \in Slot, CommitChunk(s) PROVE GatewayInv'
  BY <1>4, CommitChunkInv
<1>5. ASSUME NEW s \in Slot, ProviderSucceeds(s) PROVE GatewayInv'
  <2>1. current[s] \in Provider
    BY <1>5 DEF ProviderSucceeds, GatewayInv, SlotInv, SlotTypeOK, RequestInv, RequestOK
  <2>2. CircuitInv'
    BY <1>5, <2>1, RecordSuccessCircuit DEF ProviderSucceeds, GatewayInv
  <2>3. QuotaInv'
    BY <1>5 DEF ProviderSucceeds, GatewayInv, quotaVars, QuotaInv, QuotaTypeOK,
                WindowMatchesAttempts, WindowAge
  <2>4. SlotInv'
    BY <1>5, SettleSlot DEF ProviderSucceeds, GatewayInv, Finished
  <2> QED
    BY <2>2, <2>3, <2>4 DEF GatewayInv
<1>6. ASSUME NEW s \in Slot, NEW retryable \in BOOLEAN, ProviderFails(s, retryable)
      PROVE  GatewayInv'
  BY <1>6, ProviderFailsInv
<1>7. ASSUME NEW s \in Slot, UnexpectedError(s) \/ Disconnect(s) PROVE GatewayInv'
  <2>1. Settle(s, "aborted") /\ UNCHANGED stateVars
    BY <1>7 DEF UnexpectedError, Disconnect
  <2>2. CircuitInv' /\ QuotaInv'
    BY <2>1 DEF GatewayInv, stateVars, circuitVars, quotaVars, CircuitInv, CircuitTypeOK,
                OpenCircuitHasStreak, Available, QuotaInv, QuotaTypeOK,
                WindowMatchesAttempts, WindowAge
  <2>3. SlotInv'
    BY <2>1, SettleSlot DEF GatewayInv, Finished
  <2> QED
    BY <2>2, <2>3 DEF GatewayInv
<1>8. CASE AdminProviders \/ Tick
  <2>1. SlotInv'
    BY <1>8 DEF AdminProviders, Tick, slotVars, GatewayInv, SlotInv, SlotTypeOK, RequestInv,
                RequestOK
  <2>2. CASE AdminProviders
    <3>1. CircuitInv'
      BY <2>2 DEF AdminProviders, GatewayInv, circuitVars, CircuitInv, CircuitTypeOK,
                  OpenCircuitHasStreak, Available
    <3>2. QuotaInv'
      BY <2>2, RefreshQuotaQuota DEF AdminProviders, GatewayInv
    <3> QED
      BY <2>1, <3>1, <3>2 DEF GatewayInv
  <2>3. CASE Tick
    BY <2>1, <2>3, TimePassesState DEF Tick, GatewayInv
  <2> QED
    BY <1>8, <2>2, <2>3
<1>9. CASE UNCHANGED vars
  BY <1>9 DEF vars, stateVars, slotVars, circuitVars, quotaVars, GatewayInv, CircuitInv,
              CircuitTypeOK, OpenCircuitHasStreak, Available, QuotaInv, QuotaTypeOK,
              WindowMatchesAttempts, WindowAge, SlotInv, SlotTypeOK, RequestInv, RequestOK
<1> QED
  BY <1>1, <1>2, <1>3, <1>4, <1>5, <1>6, <1>7, <1>8, <1>9 DEF Next, SlotStep

\* Every reachable state is well typed.
THEOREM TypeCorrect == Spec => []TypeOK
<1>1. GatewayInv => TypeOK
  BY DEF GatewayInv, CircuitInv, QuotaInv, SlotInv, TypeOK
<1> QED
  BY <1>1, InitInv, NextInv, PTL DEF Spec

\* The store's pairs stay consistent under every interleaving of requests.
THEOREM WindowCorrect == Spec => []WindowMatchesAttempts
<1>1. GatewayInv => WindowMatchesAttempts
  BY DEF GatewayInv, QuotaInv
<1> QED
  BY <1>1, InitInv, NextInv, PTL DEF Spec

\* A circuit is open only after FailureThreshold failures without a success.
THEOREM CircuitCorrect == Spec => []OpenCircuitHasStreak
<1>1. GatewayInv => OpenCircuitHasStreak
  BY DEF GatewayInv, CircuitInv
<1> QED
  BY <1>1, InitInv, NextInv, PTL DEF Spec

\* A request tries no provider twice and at most max_attempts of them, and
\* holds what its phase says it holds (RequestInv), whatever others do.
THEOREM RequestsCorrect == Spec => []RequestInv
<1>1. GatewayInv => RequestInv
  BY DEF GatewayInv, SlotInv
<1> QED
  BY <1>1, InitInv, NextInv, PTL DEF Spec

-----------------------------------------------------------------------------
(***************************************************************************)
(* The quota bound.  A step that counts no attempt for p leaves QuotaHeld- *)
(* By(p) true because no slot starts to hold p; a step that counts one     *)
(* takes p from a slot that then holds it no more.                         *)
(***************************************************************************)
LEMMA HoldersFinite ==
  ASSUME NEW p \in Provider
  PROVE  /\ IsFiniteSet(Holders(p)) /\ Cardinality(Holders(p)) \in Nat
         /\ IsFiniteSet(Holders(p)') /\ Cardinality(Holders(p)') \in Nat
         /\ Cardinality(Slot) \in Nat
<1>1. Holders(p) \in SUBSET Slot /\ Holders(p)' \in SUBSET Slot
  BY DEF Holders
<1> QED
  BY <1>1, FS_Subset, FS_CardinalityType, GatewayAssumption

\* QuotaHeld survives a step that counts no attempt and takes on no candidate.
LEMMA NoAttemptHeld ==
  ASSUME QuotaTypeOK, NEW p \in Limited, QuotaHeldBy(p),
         quota_attempts'[p] \in {0, quota_attempts[p]},
         quota_attempts'[p] >= QuotaLimit[p] =>
           \A t \in Slot : p \in candidates'[t] => p \in candidates[t]
  PROVE  QuotaHeldBy(p)'
<1> SUFFICES ASSUME quota_attempts'[p] >= QuotaLimit[p]
             PROVE  quota_attempts'[p] + Cardinality(Holders(p)')
                      <= QuotaLimit[p] + Cardinality(Slot) - 1
  BY DEF QuotaHeldBy
<1>1. p \in Provider /\ QuotaLimit[p] \in Nat \ {0}
  BY ConfigAssumption
<1>2. quota_attempts'[p] = quota_attempts[p] /\ quota_attempts[p] \in Nat
  BY <1>1 DEF QuotaTypeOK
<1>3. Holders(p)' \in SUBSET Holders(p)
  BY DEF Holders
<1>4. Cardinality(Holders(p)') <= Cardinality(Holders(p))
  BY <1>1, <1>3, HoldersFinite, FS_Subset
<1> QED
  BY <1>1, <1>2, <1>4, HoldersFinite DEF QuotaHeldBy

\* The attempt that reaches the limit: the slot that made it holds p no more.
LEMMA LastAttemptHeld ==
  ASSUME NEW p \in Limited, NEW s \in Slot, p \notin candidates'[s],
         quota_attempts'[p] \in Nat, quota_attempts'[p] <= QuotaLimit[p]
  PROVE  QuotaHeldBy(p)'
<1>1. p \in Provider /\ QuotaLimit[p] \in Nat \ {0}
  BY ConfigAssumption
<1>2. Holders(p)' \in SUBSET (Slot \ {s})
  BY DEF Holders
<1>3. /\ IsFiniteSet(Slot \ {s}) /\ Cardinality(Slot \ {s}) = Cardinality(Slot) - 1
  BY FS_RemoveElement, GatewayAssumption
<1>4. Cardinality(Holders(p)') <= Cardinality(Slot) - 1
  BY <1>2, <1>3, FS_Subset
<1> QED
  BY <1>1, <1>4, HoldersFinite DEF QuotaHeldBy

\* An attempt past the limit: it is a fallback, so a slot held p.
LEMMA ExtraAttemptHeld ==
  ASSUME QuotaTypeOK, NEW p \in Limited, QuotaHeldBy(p), NEW s \in Slot,
         p \in candidates[s], p \notin candidates'[s],
         \A t \in Slot : p \in candidates'[t] => p \in candidates[t],
         quota_attempts[p] >= QuotaLimit[p], quota_attempts'[p] = quota_attempts[p] + 1
  PROVE  QuotaHeldBy(p)'
<1>1. p \in Provider /\ QuotaLimit[p] \in Nat \ {0} /\ quota_attempts[p] \in Nat
  BY ConfigAssumption DEF QuotaTypeOK
<1>2. Holders(p)' \in SUBSET (Holders(p) \ {s}) /\ s \in Holders(p)
  BY DEF Holders
<1>3. /\ IsFiniteSet(Holders(p) \ {s})
      /\ Cardinality(Holders(p) \ {s}) = Cardinality(Holders(p)) - 1
  BY <1>1, <1>2, HoldersFinite, FS_RemoveElement
<1>4. Cardinality(Holders(p)') <= Cardinality(Holders(p)) - 1
  BY <1>2, <1>3, FS_Subset
<1> QED
  BY <1>1, <1>4, HoldersFinite DEF QuotaHeldBy

\* A window refresh counts no attempt.
LEMMA RefreshCounts ==
  ASSUME NEW P, NEW p \in Provider
  PROVE  AttemptsRefreshed(P)[p] \in {0, quota_attempts[p]}
BY DEF AttemptsRefreshed

\* A ranking holds no provider whose quota is used up.
LEMMA RankedBelowLimit ==
  ASSUME QuotaTypeOK, NEW profile \in SUBSET Provider, NEW p \in Limited \cap Ranked(profile)
  PROVE  /\ p \in RefreshedByRank
         /\ AttemptsRefreshed(RefreshedByRank \cup {p})[p] < QuotaLimit[p]
         /\ AttemptsRefreshed(RefreshedByRank \cup {p})[p] \in Nat
         /\ \A q \in Provider : AttemptsRefreshed(RefreshedByRank \cup {q})[p]
                                  = AttemptsRefreshed(RefreshedByRank \cup {p})[p]
BY ConfigAssumption
   DEF QuotaTypeOK, Ranked, Feasible, QuotaExhausted, AttemptsRefreshed, RefreshedByRank

\* A ranking takes on a limited provider only while its quota lasts.
LEMMA RankAndSendHeld ==
  ASSUME GatewayInv, QuotaHeld, NEW s \in Slot, NEW profile \in SUBSET Provider,
         NEW ph \in Calling, RankAndSend(s, profile, ph)
  PROVE  QuotaHeld'
<1>1. PICK C \in AttemptSlices(Ranked(profile)) :
             \E p \in C : RecordAttempt(p, RefreshedByRank) /\ Send(s, p, C, ph)
  BY DEF RankAndSend
<1>2. PICK p \in C : RecordAttempt(p, RefreshedByRank) /\ Send(s, p, C, ph)
  BY <1>1
<1>3. C \in SUBSET Ranked(profile) /\ p \in Provider
  BY <1>1, SliceBound DEF Ranked
<1>4. /\ candidates'[s] = C \ {p}
      /\ \A t \in Slot \ {s} : candidates'[t] = candidates[t]
  BY <1>2 DEF Send, GatewayInv, SlotInv, SlotTypeOK
<1>5. QuotaTypeOK
  BY DEF GatewayInv, QuotaInv
<1>6. ASSUME NEW q \in Limited PROVE QuotaHeldBy(q)'
  <2>1. q \in Provider /\ QuotaLimit[q] \in Nat \ {0}
    BY ConfigAssumption
  <2>2. CASE q = p
    <3>1. q \in Limited \cap Ranked(profile)
      BY <1>3, <2>2
    <3>2. quota_attempts'[q] = AttemptsRefreshed(RefreshedByRank \cup {q})[q] + 1
      BY <1>2, <2>1, <2>2 DEF RecordAttempt, AttemptsRefreshed
    <3>3. /\ AttemptsRefreshed(RefreshedByRank \cup {q})[q] \in Nat
          /\ AttemptsRefreshed(RefreshedByRank \cup {q})[q] < QuotaLimit[q]
      BY <1>5, <3>1, RankedBelowLimit
    <3>4. quota_attempts'[q] \in Nat /\ quota_attempts'[q] <= QuotaLimit[q]
      BY <2>1, <3>2, <3>3
    <3> QED
      BY <1>4, <2>2, <3>4, LastAttemptHeld
  <2>3. CASE q # p
    <3>1. quota_attempts'[q] = AttemptsRefreshed(RefreshedByRank \cup {p})[q]
      BY <1>2, <2>1, <2>3 DEF RecordAttempt, AttemptsRefreshed
    <3>2. quota_attempts'[q] \in {0, quota_attempts[q]}
      BY <2>1, <3>1, RefreshCounts
    <3>3. ASSUME quota_attempts'[q] >= QuotaLimit[q] PROVE q \notin Ranked(profile)
      <4> SUFFICES ASSUME q \in Ranked(profile) PROVE FALSE
        OBVIOUS
      <4>1. AttemptsRefreshed(RefreshedByRank \cup {p})[q] \in Nat
            /\ AttemptsRefreshed(RefreshedByRank \cup {p})[q] < QuotaLimit[q]
        BY <1>3, <1>5, RankedBelowLimit
      <4> QED
        BY <2>1, <3>1, <3>3, <4>1
    <3>4. quota_attempts'[q] >= QuotaLimit[q] =>
            \A t \in Slot : q \in candidates'[t] => q \in candidates[t]
      BY <1>3, <1>4, <3>3
    <3> QED
      BY <1>5, <3>2, <3>4, NoAttemptHeld DEF QuotaHeld
  <2> QED
    BY <2>2, <2>3
<1> QED
  BY <1>6 DEF QuotaHeld

\* A fallback spends the candidate that may overshoot the quota.
LEMMA FallbackHeld ==
  ASSUME GatewayInv, QuotaHeld, NEW s \in Slot, NEW p \in candidates[s],
         NEW ph \in Calling, RecordAttempt(p, {}), Send(s, p, candidates[s], ph)
  PROVE  QuotaHeld'
<1>1. candidates[s] \in SUBSET Provider /\ p \in Provider
  BY DEF GatewayInv, SlotInv, SlotTypeOK
<1>2. /\ candidates'[s] = candidates[s] \ {p}
      /\ \A t \in Slot \ {s} : candidates'[t] = candidates[t]
  BY DEF Send, GatewayInv, SlotInv, SlotTypeOK
<1>3. QuotaTypeOK
  BY DEF GatewayInv, QuotaInv
<1>4. \A q \in Provider, t \in Slot : q \in candidates'[t] => q \in candidates[t]
  BY <1>2
<1>5. ASSUME NEW q \in Limited PROVE QuotaHeldBy(q)'
  <2>1. q \in Provider /\ QuotaLimit[q] \in Nat \ {0} /\ quota_attempts[q] \in Nat
    BY <1>3, ConfigAssumption DEF QuotaTypeOK
  <2>2. CASE q # p
    <3>1. quota_attempts'[q] = quota_attempts[q]
      BY <2>1, <2>2 DEF RecordAttempt, AttemptsRefreshed
    <3> QED
      BY <1>3, <1>4, <2>1, <3>1, NoAttemptHeld DEF QuotaHeld
  <2>3. CASE q = p
    <3>1. PICK n \in {0, quota_attempts[q]} : quota_attempts'[q] = n + 1
      BY <2>1, <2>3 DEF RecordAttempt, AttemptsRefreshed
    <3>2. CASE n < QuotaLimit[q]
      BY <1>2, <2>1, <2>3, <3>1, <3>2, LastAttemptHeld
    <3>3. CASE n >= QuotaLimit[q]
      <4>1. n = quota_attempts[q]
        BY <2>1, <3>1, <3>3
      <4> QED
        BY <1>2, <1>3, <1>4, <2>1, <2>3, <3>1, <3>3, <4>1, ExtraAttemptHeld DEF QuotaHeld
    <3> QED
      BY <2>1, <3>1, <3>2, <3>3
  <2> QED
    BY <2>2, <2>3
<1> QED
  BY <1>5 DEF QuotaHeld

\* Every other step counts no attempt, and gives no slot a candidate.
LEMMA OtherStepHeld ==
  ASSUME GatewayInv, QuotaHeld,
         \A q \in Provider : quota_attempts'[q] \in {0, quota_attempts[q]},
         \A t \in Slot : candidates'[t] \subseteq candidates[t]
  PROVE  QuotaHeld'
BY NoAttemptHeld, ConfigAssumption DEF GatewayInv, QuotaInv, QuotaHeld

\* Settling gives up candidates and takes on none.
LEMMA SettleShrinks ==
  ASSUME SlotInv, NEW s \in Slot, NEW outcome, Settle(s, outcome)
  PROVE  \A t \in Slot : candidates'[t] \subseteq candidates[t]
BY DEF Settle, SlotInv, SlotTypeOK

\* A refresh keeps a count or resets it.
LEMMA RefreshSteps ==
  ASSUME NEW P, RefreshQuota(P)
  PROVE  \A q \in Provider : quota_attempts'[q] \in {0, quota_attempts[q]}
BY RefreshCounts DEF RefreshQuota

\* QuotaHeld is inductive, given GatewayInv.
LEMMA NextHeld == GatewayInv /\ QuotaHeld /\ [Next]_vars => QuotaHeld'
<1> SUFFICES ASSUME GatewayInv, QuotaHeld, [Next]_vars PROVE QuotaHeld'
  OBVIOUS
<1>0. SlotInv
  BY DEF GatewayInv
<1>1. ASSUME NEW s \in Slot, NEW profile, NEW outcome, Reject(s, profile, outcome)
      PROVE  QuotaHeld'
  BY <1>0, <1>1, OtherStepHeld, SettleShrinks, RefreshSteps DEF Reject
<1>2. ASSUME NEW s \in Slot, NEW outcome, Settle(s, outcome), UNCHANGED quotaVars
      PROVE  QuotaHeld'
  BY <1>0, <1>2, OtherStepHeld, SettleShrinks DEF quotaVars
<1>3. ASSUME NEW s \in Slot, StartComplete(s) PROVE QuotaHeld'
  BY <1>1, <1>3, RankAndSendHeld, GatewayAssumption DEF StartComplete, Calling
<1>4. ASSUME NEW s \in Slot, Preflight(s) PROVE QuotaHeld'
  <2>1. CASE \E profile \in Profile : Reject(s, profile, "rejected")
    BY <1>1, <2>1
  <2>2. CASE RefreshQuota(RefreshedByRank) /\ UNCHANGED candidates
    BY <2>2, OtherStepHeld, RefreshSteps
  <2> QED
    BY <1>4, <2>1, <2>2 DEF Preflight
<1>5. ASSUME NEW s \in Slot, StartStream(s) PROVE QuotaHeld'
  <2>1. compatible[s] \in SUBSET Provider
    BY <1>0 DEF SlotInv, SlotTypeOK
  <2> QED
    BY <1>1, <1>5, <2>1, RankAndSendHeld DEF StartStream, Calling
<1>6. ASSUME NEW s \in Slot, NEW retryable \in BOOLEAN, ProviderFails(s, retryable)
      PROVE  QuotaHeld'
  <2>1. CASE GiveUp(s, retryable)
    BY <1>2, <1>6, <2>1 DEF ProviderFails
  <2>2. CASE ~GiveUp(s, retryable)
    BY <1>6, <2>2, FallbackHeld DEF ProviderFails
  <2> QED
    BY <2>1, <2>2
<1>7. ASSUME NEW s \in Slot, ProviderSucceeds(s) \/ UnexpectedError(s) \/ Disconnect(s)
      PROVE  QuotaHeld'
  BY <1>2, <1>7 DEF ProviderSucceeds, UnexpectedError, Disconnect, stateVars
<1>8. CASE \/ \E s \in Slot : CommitChunk(s)
           \/ Tick
           \/ UNCHANGED vars
  <2>1. quota_attempts' = quota_attempts /\ candidates' = candidates
    BY <1>8 DEF CommitChunk, Tick, TimePasses, vars, stateVars, quotaVars, slotVars
  <2> QED
    BY <2>1, OtherStepHeld
<1>9. CASE AdminProviders
  BY <1>9, OtherStepHeld, RefreshSteps DEF AdminProviders, slotVars
<1> QED
  BY <1>3, <1>4, <1>5, <1>6, <1>7, <1>8, <1>9 DEF Next, SlotStep

\* No attempt is counted at the start.
LEMMA InitHeld == Init => QuotaHeld
BY ConfigAssumption DEF Init, StateInit, QuotaHeld, QuotaHeldBy

\* Stale rankings let a provider exceed its quota by less than the number of
\* requests in progress, however many attempts, windows and failures there are.
THEOREM QuotaOvershoot == Spec => []QuotaOvershootBounded
<1>1. ASSUME GatewayInv, QuotaHeld PROVE QuotaOvershootBounded
  <2> SUFFICES ASSUME NEW p \in Limited
               PROVE  quota_attempts[p] <= QuotaLimit[p] + Cardinality(Slot) - 1
    BY DEF QuotaOvershootBounded
  <2>1. p \in Provider /\ QuotaLimit[p] \in Nat \ {0} /\ quota_attempts[p] \in Nat
    BY <1>1, ConfigAssumption DEF GatewayInv, QuotaInv, QuotaTypeOK
  <2>2. Cardinality(Slot) \in Nat /\ Cardinality(Slot) # 0 /\ Cardinality(Holders(p)) \in Nat
    BY <1>1, <2>1, HoldersFinite, FS_EmptySet, GatewayAssumption
  <2> QED
    BY <1>1, <2>1, <2>2 DEF QuotaHeld, QuotaHeldBy
<1> QED
  BY <1>1, InitInv, NextInv, InitHeld, NextHeld, PTL DEF Spec

\* What keeps the overshoot bounded is itself a theorem: once a quota is used
\* up, each attempt past it uses up a ranking that was held then.
THEOREM QuotaHeldAlways == Spec => []QuotaHeld
BY InitInv, NextInv, InitHeld, NextHeld, PTL DEF Spec

-----------------------------------------------------------------------------
(***************************************************************************)
(* Without failover the quota is hard: a request that may be sent to one   *)
(* provider only never holds a stale candidate.                            *)
(***************************************************************************)
LEMMA NoCandidates ==
  ASSUME GatewayInv, MaxAttempts = 1, NEW s \in Slot
  PROVE  candidates[s] = {}
<1> USE DEF GatewayInv, SlotInv
<1>1. RequestOK(s)
  BY DEF RequestInv
<1>2. CASE phase[s] \notin Calling
  BY <1>1, <1>2 DEF RequestOK
<1>3. CASE phase[s] \in Calling
  <2>1. IsFiniteSet(candidates[s]) /\ IsFiniteSet(tried[s]) /\ tried[s] # {}
    BY <1>1, <1>3, FS_Subset, GatewayAssumption DEF SlotTypeOK, RequestOK
  <2>2. /\ Cardinality(candidates[s]) \in Nat
        /\ Cardinality(tried[s]) \in Nat /\ Cardinality(tried[s]) # 0
    BY <2>1, FS_CardinalityType, FS_EmptySet
  <2>3. Cardinality(candidates[s]) = 0
    BY <1>1, <2>2 DEF RequestOK
  <2> QED
    BY <2>1, <2>3, FS_EmptySet
<1> QED
  BY <1>2, <1>3

\* With one attempt per request every attempt follows its own ranking.
LEMMA NextHard ==
  ASSUME MaxAttempts = 1
  PROVE  GatewayInv /\ QuotaIsHard /\ [Next]_vars => QuotaIsHard'
<1> SUFFICES ASSUME GatewayInv, QuotaIsHard, [Next]_vars PROVE QuotaIsHard'
  OBVIOUS
<1>0. QuotaTypeOK
  BY DEF GatewayInv, QuotaInv
<1>1. ASSUME \A p \in Limited : quota_attempts'[p] \in {0, quota_attempts[p]}
      PROVE  QuotaIsHard'
  <2> SUFFICES ASSUME NEW p \in Limited PROVE quota_attempts'[p] <= QuotaLimit[p]
    BY DEF QuotaIsHard
  <2>1. QuotaLimit[p] \in Nat \ {0} /\ quota_attempts[p] <= QuotaLimit[p]
    BY ConfigAssumption DEF QuotaIsHard
  <2>2. quota_attempts'[p] \in {0, quota_attempts[p]}
    BY <1>1
  <2> QED
    BY <2>1, <2>2
<1>2. ASSUME NEW P, RefreshQuota(P) PROVE QuotaIsHard'
  BY <1>1, <1>2, RefreshSteps, ConfigAssumption
<1>3. ASSUME UNCHANGED quota_attempts PROVE QuotaIsHard'
  BY <1>1, <1>3
<1>4. ASSUME NEW s \in Slot, NEW profile \in SUBSET Provider, NEW ph,
             RankAndSend(s, profile, ph)
      PROVE  QuotaIsHard'
  <2>1. PICK C \in AttemptSlices(Ranked(profile)) :
               \E p \in C : RecordAttempt(p, RefreshedByRank)
    BY <1>4 DEF RankAndSend
  <2>2. PICK p \in C : RecordAttempt(p, RefreshedByRank)
    BY <2>1
  <2>3. p \in Ranked(profile) /\ p \in Provider
    BY <2>1, SliceBound DEF Ranked
  <2>4. ASSUME NEW q \in Limited PROVE quota_attempts'[q] <= QuotaLimit[q]
    <3>1. q \in Provider /\ QuotaLimit[q] \in Nat \ {0} /\ quota_attempts[q] <= QuotaLimit[q]
      BY ConfigAssumption DEF QuotaIsHard
    <3>2. CASE q = p
      <4>1. quota_attempts'[q] = AttemptsRefreshed(RefreshedByRank \cup {q})[q] + 1
        BY <2>2, <3>1, <3>2 DEF RecordAttempt, AttemptsRefreshed
      <4>2. /\ AttemptsRefreshed(RefreshedByRank \cup {q})[q] \in Nat
            /\ AttemptsRefreshed(RefreshedByRank \cup {q})[q] < QuotaLimit[q]
        BY <1>0, <2>3, <3>2, RankedBelowLimit
      <4> QED
        BY <3>1, <4>1, <4>2
    <3>3. CASE q # p
      <4>1. quota_attempts'[q] \in {0, quota_attempts[q]}
        BY <2>2, <3>1, <3>3, RefreshCounts DEF RecordAttempt, AttemptsRefreshed
      <4> QED
        BY <3>1, <4>1
    <3> QED
      BY <3>2, <3>3
  <2> QED
    BY <2>4 DEF QuotaIsHard
<1>5. ASSUME NEW s \in Slot, StartComplete(s) \/ Preflight(s) PROVE QuotaIsHard'
  BY <1>2, <1>4, <1>5, GatewayAssumption DEF StartComplete, Preflight, Reject
<1>6. ASSUME NEW s \in Slot, StartStream(s) PROVE QuotaIsHard'
  <2>1. compatible[s] \in SUBSET Provider
    BY DEF GatewayInv, SlotInv, SlotTypeOK
  <2> QED
    BY <1>2, <1>4, <1>6, <2>1 DEF StartStream, Reject
<1>7. ASSUME NEW s \in Slot, NEW retryable \in BOOLEAN, ProviderFails(s, retryable)
      PROVE  QuotaIsHard'
  BY <1>3, <1>7, NoCandidates DEF ProviderFails, GiveUp, quotaVars
<1>8. CASE \/ \E s \in Slot : \/ CommitChunk(s) \/ ProviderSucceeds(s)
                              \/ UnexpectedError(s) \/ Disconnect(s)
           \/ Tick
           \/ UNCHANGED vars
  BY <1>3, <1>8 DEF CommitChunk, ProviderSucceeds, UnexpectedError, Disconnect, Tick,
                    TimePasses, vars, stateVars, quotaVars
<1>9. CASE AdminProviders
  BY <1>2, <1>9 DEF AdminProviders
<1> QED
  BY <1>5, <1>6, <1>7, <1>8, <1>9 DEF Next, SlotStep

\* With max_attempts = 1 no provider is ever sent more than its quota.
THEOREM OneAttemptQuota ==
  ASSUME MaxAttempts = 1
  PROVE  Spec => []QuotaIsHard
<1>1. Init => QuotaIsHard
  <2> SUFFICES ASSUME Init, NEW p \in Limited PROVE quota_attempts[p] <= QuotaLimit[p]
    BY DEF QuotaIsHard
  <2> QED
    BY ConfigAssumption DEF Init, StateInit
<1> QED
  BY <1>1, InitInv, NextInv, NextHard, PTL DEF Spec

-----------------------------------------------------------------------------
(***************************************************************************)
(* Gateway implements Failover.                                            *)
(***************************************************************************)
\* The contract's cardinality, which it has of its own FiniteSets.
LEMMA ContractCardinality == \A S : Contract!Cardinality(S) = Cardinality(S)
BY Zenon DEF Contract!Cardinality, Cardinality

Open == {s \in Slot : phase[s] \in Busy}

\* The end of a request is one in the contract, or no step of it when the
\* request was rejected before it was accepted.
LEMMA SettleContract ==
  ASSUME SlotInv, NEW s \in Slot, NEW outcome \in Finished, Settle(s, outcome)
  PROVE  [Contract!Next]_(Contract!vars)
<1> USE DEF SlotInv, Settle, Busy, Calling, Finished
<1>1. CASE phase[s] \in Busy
  <2>1. Contract!Settle(s)
    BY <1>1 DEF SlotTypeOK, Contract!Settle
  <2> QED
    BY <2>1 DEF Contract!Next
<1>2. CASE phase[s] \notin Busy
  <2>1. /\ compatible[s] = {} /\ current[s] = NoProvider
        /\ tried[s] = {} /\ voices[s] = {}
    BY <1>2 DEF SlotTypeOK, RequestInv, RequestOK
  <2>2. /\ compatible' = compatible /\ current' = current
        /\ tried' = tried /\ voices' = voices
    BY <2>1 DEF SlotTypeOK
  <2>3. Open' = Open
    BY <1>2 DEF SlotTypeOK, Open
  <2> QED
    BY <2>2, <2>3 DEF Contract!vars, Open
<1> QED
  BY <1>1, <1>2

\* An attempt is one in the contract.
LEMMA SendContract ==
  ASSUME SlotInv, NEW s \in Slot, NEW C \in SUBSET Provider, NEW p \in C,
         NEW ph \in Calling, Send(s, p, C, ph),
         NEW profile \in SUBSET Provider,
         compatible' = [compatible EXCEPT ![s] = profile],
         s \in Open => profile = compatible[s],
         voices' = voices, voices[s] = {},
         C \cap tried[s] = {}, C \subseteq profile,
         Cardinality(C) + Cardinality(tried[s]) <= MaxAttempts
  PROVE  Contract!Next
<1> USE DEF SlotInv, Send, Busy, Calling, Finished
<1>1. Open' = Open \cup {s}
  BY DEF SlotTypeOK, Open
<1>2. s \in Open => compatible' = compatible
  BY DEF SlotTypeOK
<1>3. p \in compatible'[s] \ tried[s]
  BY DEF SlotTypeOK
<1>4. Cardinality(tried[s]) < MaxAttempts
  <2>1. IsFiniteSet(C) /\ IsFiniteSet(tried[s]) /\ C # {}
    BY FS_Subset, GatewayAssumption DEF SlotTypeOK
  <2>2. Cardinality(C) \in Nat /\ Cardinality(C) # 0 /\ Cardinality(tried[s]) \in Nat
    BY <2>1, FS_CardinalityType, FS_EmptySet
  <2> QED
    BY <2>2, GatewayAssumption
<1>5. \E D \in SUBSET Provider : compatible' = [compatible EXCEPT ![s] = D]
  OBVIOUS
<1>6. /\ current' = [current EXCEPT ![s] = p]
      /\ tried' = [tried EXCEPT ![s] = @ \cup {p}]
  OBVIOUS
<1>7. Contract!Attempt(s, p)
  <2> HIDE DEF SlotInv, Send, Busy, Calling, Finished
  <2>1. CASE s \in Open
    BY <1>1, <1>2, <1>3, <1>4, <1>6, <2>1, ContractCardinality DEF Contract!Attempt, Open
  <2>2. CASE s \notin Open
    BY <1>1, <1>3, <1>4, <1>5, <1>6, <2>2, ContractCardinality DEF Contract!Attempt, Open
  <2> QED
    BY <2>1, <2>2
<1> QED
  BY <1>7 DEF Contract!Next

\* The first attempt is a step of the contract.
LEMMA RankAndSendContract ==
  ASSUME SlotInv, NEW s \in Slot, phase[s] \notin Calling,
         NEW profile \in SUBSET Provider, NEW ph \in Calling,
         RankAndSend(s, profile, ph),
         compatible' = [compatible EXCEPT ![s] = profile],
         s \in Open => profile = compatible[s], voices' = voices
  PROVE  Contract!Next
<1>1. PICK C \in AttemptSlices(Ranked(profile)) : \E p \in C : Send(s, p, C, ph)
  BY DEF RankAndSend
<1>2. PICK p \in C : Send(s, p, C, ph)
  BY <1>1
<1>3. Ranked(profile) \in SUBSET profile
  BY DEF Ranked
<1>4. C \in SUBSET profile /\ Cardinality(C) <= MaxAttempts
  BY <1>1, <1>3, SliceBound
<1>5. tried[s] = {} /\ voices[s] = {}
  BY DEF SlotInv, RequestInv, RequestOK
<1>6. Cardinality(C) \in Nat
  BY <1>4, FS_Subset, FS_CardinalityType, GatewayAssumption
<1>7. Cardinality(C) + Cardinality(tried[s]) <= MaxAttempts
  BY <1>4, <1>5, <1>6, FS_EmptySet, GatewayAssumption
<1>8. C \in SUBSET Provider /\ C \cap tried[s] = {}
  BY <1>4, <1>5
<1> QED
  BY <1>2, <1>4, <1>5, <1>7, <1>8, SendContract

\* Every step of the gateway is one of the contract or a stutter.
LEMMA ContractStep == GatewayInv /\ [Next]_vars => [Contract!Next]_(Contract!vars)
<1> SUFFICES ASSUME GatewayInv, [Next]_vars PROVE [Contract!Next]_(Contract!vars)
  OBVIOUS
<1>0. SlotInv
  BY DEF GatewayInv
<1>1. ASSUME NEW s \in Slot, NEW profile \in SUBSET Provider, NEW outcome \in Finished,
             Reject(s, profile, outcome)
      PROVE  [Contract!Next]_(Contract!vars)
  BY <1>0, <1>1, SettleContract DEF Reject
<1>2. ASSUME NEW s \in Slot, StartComplete(s) PROVE [Contract!Next]_(Contract!vars)
  <2>1. phase[s] \notin Calling /\ s \notin Open /\ "rejected" \in Finished
    BY <1>2 DEF StartComplete, Open, Busy, Calling, Finished
  <2> QED
    BY <1>0, <1>1, <1>2, <2>1, RankAndSendContract, GatewayAssumption
       DEF StartComplete, Calling
<1>3. ASSUME NEW s \in Slot, Preflight(s) PROVE [Contract!Next]_(Contract!vars)
  <2>1. PICK profile \in Profile :
          \/ Reject(s, profile, "rejected")
          \/ /\ phase' = [phase EXCEPT ![s] = "admitted"]
             /\ compatible' = [compatible EXCEPT ![s] = profile]
             /\ UNCHANGED <<candidates, current, committed, tried, voices>>
    BY <1>3 DEF Preflight
  <2>2. profile \in SUBSET Provider /\ "rejected" \in Finished
    BY GatewayAssumption DEF Finished
  <2>3. CASE Reject(s, profile, "rejected")
    BY <1>1, <2>2, <2>3
  <2>4. CASE ~Reject(s, profile, "rejected")
    <3>1. s \notin Open
      BY <1>3 DEF Preflight, Open, Busy, Calling, Finished
    <3>2. Open' = Open \cup {s}
      BY <1>0, <2>1, <2>4 DEF SlotInv, SlotTypeOK, Open, Busy
    <3>3. \E D \in SUBSET Provider : compatible' = [compatible EXCEPT ![s] = D]
      BY <2>1, <2>2, <2>4
    <3>4. UNCHANGED <<current, tried, voices>>
      BY <2>1, <2>4
    <3>5. Contract!Accept(s)
      BY <3>1, <3>2, <3>3, <3>4 DEF Contract!Accept, Open
    <3> QED
      BY <3>5 DEF Contract!Next
  <2> QED
    BY <2>3, <2>4
<1>4. ASSUME NEW s \in Slot, StartStream(s) PROVE [Contract!Next]_(Contract!vars)
  <2>1. /\ phase[s] \notin Calling /\ "dropped" \in Finished
        /\ compatible[s] \in SUBSET Provider
        /\ compatible = [compatible EXCEPT ![s] = compatible[s]]
    BY <1>0, <1>4 DEF StartStream, Calling, Finished, SlotInv, SlotTypeOK
  <2> QED
    BY <1>0, <1>1, <1>4, <2>1, RankAndSendContract DEF StartStream, Calling
<1>5. ASSUME NEW s \in Slot, CommitChunk(s) PROVE [Contract!Next]_(Contract!vars)
  <2>1. phase[s] \in Busy /\ current[s] \in Provider /\ voices[s] = {}
    BY <1>0, <1>5 DEF CommitChunk, Busy, Calling, SlotInv, SlotTypeOK, RequestInv, RequestOK
  <2>2. current[s] # NoProvider
    BY <2>1, GatewayAssumption
  <2>3. voices' = [voices EXCEPT ![s] = {current[s]}]
    BY <1>5, <2>1 DEF CommitChunk
  <2>4. UNCHANGED <<phase, compatible, current, tried>>
    BY <1>5 DEF CommitChunk
  <2>5. Contract!Speak(s)
    BY <2>1, <2>2, <2>3, <2>4 DEF Contract!Speak
  <2> QED
    BY <2>5 DEF Contract!Next
<1>6. ASSUME NEW s \in Slot, NEW retryable \in BOOLEAN, ProviderFails(s, retryable)
      PROVE  [Contract!Next]_(Contract!vars)
  <2>1. CASE GiveUp(s, retryable)
    <3>1. PICK outcome \in Finished : Settle(s, outcome)
      BY <1>6, <2>1 DEF ProviderFails, Finished
    <3> QED
      BY <1>0, <3>1, SettleContract
  <2>2. CASE ~GiveUp(s, retryable)
    <3>1. PICK p \in candidates[s] : Send(s, p, candidates[s], phase[s])
      BY <1>6, <2>2 DEF ProviderFails
    <3>2. /\ candidates[s] \in SUBSET Provider /\ compatible[s] \in SUBSET Provider
          /\ phase[s] \in Calling
          /\ compatible' = [compatible EXCEPT ![s] = compatible[s]]
          /\ voices' = voices
      BY <1>0, <1>6, <2>2 DEF ProviderFails, SlotInv, SlotTypeOK
    <3>3. /\ voices[s] = {}
          /\ candidates[s] \cap tried[s] = {}
          /\ candidates[s] \subseteq compatible[s]
          /\ Cardinality(candidates[s]) + Cardinality(tried[s]) <= MaxAttempts
      BY <1>0, <2>2 DEF GiveUp, SlotInv, RequestInv, RequestOK
    <3> QED
      BY <1>0, <3>1, <3>2, <3>3, SendContract
  <2> QED
    BY <2>1, <2>2
<1>7. ASSUME NEW s \in Slot, ProviderSucceeds(s) \/ UnexpectedError(s) \/ Disconnect(s)
      PROVE  [Contract!Next]_(Contract!vars)
  <2>1. PICK outcome \in Finished : Settle(s, outcome)
    BY <1>7 DEF ProviderSucceeds, UnexpectedError, Disconnect, Finished
  <2> QED
    BY <1>0, <2>1, SettleContract
<1>8. CASE AdminProviders \/ Tick \/ UNCHANGED vars
  BY <1>8 DEF AdminProviders, Tick, vars, slotVars, Contract!vars
<1> QED
  BY <1>2, <1>3, <1>4, <1>5, <1>6, <1>7, <1>8 DEF Next, SlotStep

\* For each request at once: only providers that support it, none twice, at
\* most MaxAttempts, and no other provider once content of one was read.
THEOREM ImplementsContract == Spec => FailoverContract
<1>1. Init => Contract!Init
  BY DEF Init, Contract!Init, Busy, Calling
<1> QED
  BY <1>1, InitInv, NextInv, ContractStep, PTL DEF Spec, FailoverContract, Contract!Spec

-----------------------------------------------------------------------------
(***************************************************************************)
(* How far concurrent requests break the promises of the documentation:    *)
(* GatewayHistory.                                                         *)
(***************************************************************************)

\* A refresh only ever gives quota back.
LEMMA RefreshKeepsFeasible ==
  ASSUME QuotaTypeOK, NEW P \in SUBSET Provider, RefreshQuota(P),
         UNCHANGED circuitVars, NEW p \in Provider, Feasible(p)
  PROVE  Feasible(p)'
<1>1. Available(p)'
  BY DEF Feasible, Available, circuitVars
<1>2. ASSUME p \in Limited PROVE AttemptsRefreshed({p})'[p] < QuotaLimit[p]
  BY <1>2, ConfigAssumption
     DEF QuotaTypeOK, Feasible, QuotaExhausted, RefreshQuota, AttemptsRefreshed, AgeRefreshed,
         WindowElapsed, Unset
<1>3. ASSUME p \in Limited PROVE AttemptsRefreshed({p})'[p] \in Int /\ QuotaLimit[p] \in Int
  BY <1>3, ConfigAssumption DEF QuotaTypeOK, RefreshQuota, AttemptsRefreshed
<1> QED
  BY <1>1, <1>2, <1>3 DEF Feasible, QuotaExhausted

\* So does time, and it closes circuits.
LEMMA TimeKeepsFeasible ==
  ASSUME QuotaTypeOK, CircuitTypeOK, TimePasses(1), NEW p \in Provider
  PROVE  /\ Available(p) => Available(p)'
         /\ Feasible(p) => Feasible(p)'
<1>1. Available(p) => Available(p)'
  BY DEF Available, TimePasses, CountDown
<1>2. ASSUME p \in Limited
      PROVE  AttemptsRefreshed({p})'[p] <= AttemptsRefreshed({p})[p]
  BY <1>2, ConfigAssumption
     DEF QuotaTypeOK, TimePasses, Older, AttemptsRefreshed, WindowElapsed, Unset
<1>3. ASSUME p \in Limited
      PROVE  /\ AttemptsRefreshed({p})'[p] \in Int /\ AttemptsRefreshed({p})[p] \in Int
             /\ QuotaLimit[p] \in Int
  BY <1>3, ConfigAssumption DEF QuotaTypeOK, TimePasses, AttemptsRefreshed
<1> QED
  BY <1>1, <1>2, <1>3 DEF Feasible, QuotaExhausted

\* What a request starts to hold, when it ranks, is available.
LEMMA RankAndSendCalls ==
  ASSUME SlotTypeOK, NEW s \in Slot, NEW profile \in SUBSET Provider, NEW ph,
         RankAndSend(s, profile, ph)
  PROVE  \E p \in Ranked(profile) :
           /\ RecordAttempt(p, RefreshedByRank)
           /\ current' = [current EXCEPT ![s] = p]
           /\ phase' = [phase EXCEPT ![s] = ph]
           /\ candidates'[s] \subseteq Ranked(profile) \ {p}
           /\ \A t \in Slot \ {s} : candidates'[t] = candidates[t]
<1>1. PICK C \in AttemptSlices(Ranked(profile)) :
             \E p \in C : RecordAttempt(p, RefreshedByRank) /\ Send(s, p, C, ph)
  BY DEF RankAndSend
<1>2. PICK p \in C : RecordAttempt(p, RefreshedByRank) /\ Send(s, p, C, ph)
  BY <1>1
<1>3. C \in SUBSET Ranked(profile)
  BY <1>1, SliceBound DEF Ranked
<1> QED
  BY <1>2, <1>3 DEF Send, SlotTypeOK

\* What a step may do to the requests that hold p: one that begins to hold it
\* finds it available, one that calls it while its circuit is open held it and
\* holds it no more, and one that opens its circuit does not hold it.
CallsOK(p) ==
  /\ \A t \in Slot : p \in candidates'[t] => p \in candidates[t] \/ circuit_left'[p] = 0
  /\ Called(p) /\ ~Available(p) =>
       \E s \in Slot : p \in candidates[s] /\ p \notin candidates'[s]
  /\ Tripped(p) => \E s \in Slot : p \notin candidates'[s]

\* A step that sends no request anywhere and reports no failure.
LEMMA QuietCalls ==
  ASSUME NEW p \in Provider,
         \A t \in Slot : /\ candidates'[t] \subseteq candidates[t]
                         /\ current'[t] \in {current[t], NoProvider},
         ~Tripped(p)
  PROVE  CallsOK(p)
BY GatewayAssumption DEF CallsOK, Called

\* A request that settles calls nobody.
LEMMA SettleQuiet ==
  ASSUME SlotTypeOK, NEW s \in Slot, NEW outcome, Settle(s, outcome)
  PROVE  /\ \A t \in Slot : /\ candidates'[t] \subseteq candidates[t]
                            /\ current'[t] \in {current[t], NoProvider}
         /\ candidates'[s] = {}
BY DEF Settle, SlotTypeOK

\* A ranking calls an available provider and holds available providers.
LEMMA RankCalls ==
  ASSUME SlotTypeOK, CircuitTypeOK, NEW s \in Slot, NEW profile \in SUBSET Provider, NEW ph,
         RankAndSend(s, profile, ph), UNCHANGED circuitVars, NEW p \in Provider
  PROVE  CallsOK(p)
<1>1. PICK q \in Ranked(profile) :
        /\ current' = [current EXCEPT ![s] = q]
        /\ candidates'[s] \subseteq Ranked(profile) \ {q}
        /\ \A t \in Slot \ {s} : candidates'[t] = candidates[t]
  BY RankAndSendCalls
<1>2. \A r \in Ranked(profile) : circuit_left'[r] = 0 /\ Available(r)
  BY DEF Ranked, Feasible, Available, circuitVars
<1>3. Called(p) => p = q
  BY <1>1 DEF Called, SlotTypeOK
<1>4. ~Tripped(p)
  BY DEF Tripped, circuitVars, CircuitTypeOK
<1> QED
  BY <1>1, <1>2, <1>3, <1>4 DEF CallsOK

\* Every step.
LEMMA CallStep ==
  ASSUME GatewayInv, [Next]_vars, NEW p \in Provider
  PROVE  CallsOK(p)
<1>0. SlotTypeOK /\ CircuitTypeOK
  BY DEF GatewayInv, SlotInv, CircuitInv
<1>1. ASSUME NEW s \in Slot, NEW outcome, Settle(s, outcome), ~Tripped(p)
      PROVE  CallsOK(p)
  BY <1>0, <1>1, QuietCalls, SettleQuiet
<1>2. UNCHANGED circuitVars => ~Tripped(p)
  BY <1>0 DEF Tripped, circuitVars, CircuitTypeOK
<1>3. ASSUME NEW s \in Slot, StartComplete(s) PROVE CallsOK(p)
  BY <1>0, <1>1, <1>2, <1>3, RankCalls, GatewayAssumption DEF StartComplete, Reject
<1>4. ASSUME NEW s \in Slot, Preflight(s) PROVE CallsOK(p)
  <2>1. CASE \E profile \in Profile : Reject(s, profile, "rejected")
    BY <1>1, <1>2, <1>4, <2>1 DEF Preflight, Reject
  <2>2. CASE candidates' = candidates /\ current' = current
    BY <1>2, <1>4, <2>2, QuietCalls DEF Preflight
  <2> QED
    BY <1>4, <2>1, <2>2 DEF Preflight
<1>5. ASSUME NEW s \in Slot, StartStream(s) PROVE CallsOK(p)
  <2>1. compatible[s] \in SUBSET Provider
    BY <1>0 DEF SlotTypeOK
  <2> QED
    BY <1>0, <1>1, <1>2, <1>5, <2>1, RankCalls DEF StartStream, Reject
<1>6. ASSUME NEW s \in Slot, NEW retryable \in BOOLEAN, ProviderFails(s, retryable)
      PROVE  CallsOK(p)
  <2>1. phase[s] \in Calling /\ RecordFailure(current[s])
    BY <1>6 DEF ProviderFails
  <2>2. current[s] \in tried[s] /\ current[s] \notin candidates[s]
    BY <2>1 DEF GatewayInv, SlotInv, RequestInv, RequestOK
  <2>3. Tripped(p) => p = current[s]
    BY <1>0, <2>1 DEF Tripped, RecordFailure, CircuitTypeOK
  <2>4. CASE GiveUp(s, retryable)
    <3>1. PICK outcome : Settle(s, outcome)
      BY <1>6, <2>4 DEF ProviderFails
    <3> QED
      BY <1>0, <3>1, SettleQuiet, GatewayAssumption DEF CallsOK, Called
  <2>5. CASE ~GiveUp(s, retryable)
    <3>1. PICK q \in candidates[s] : Send(s, q, candidates[s], phase[s])
      BY <1>6, <2>5 DEF ProviderFails
    <3>2. /\ candidates'[s] = candidates[s] \ {q}
          /\ \A t \in Slot \ {s} : candidates'[t] = candidates[t]
          /\ Called(p) => p = q
      BY <1>0, <3>1 DEF Send, SlotTypeOK, Called
    <3> QED
      BY <2>2, <2>3, <3>1, <3>2 DEF CallsOK
  <2> QED
    BY <2>4, <2>5
<1>7. ASSUME NEW s \in Slot, ProviderSucceeds(s) PROVE CallsOK(p)
  <2>1. ~Tripped(p)
    BY <1>0, <1>7 DEF ProviderSucceeds, RecordSuccess, Tripped, CircuitTypeOK
  <2> QED
    BY <1>1, <1>7, <2>1 DEF ProviderSucceeds
<1>8. ASSUME NEW s \in Slot, UnexpectedError(s) \/ Disconnect(s) PROVE CallsOK(p)
  BY <1>1, <1>2, <1>8 DEF UnexpectedError, Disconnect, stateVars
<1>9. CASE \/ \E s \in Slot : CommitChunk(s)
           \/ AdminProviders
           \/ UNCHANGED vars
  <2>1. UNCHANGED circuitVars /\ candidates' = candidates /\ current' = current
    BY <1>9 DEF CommitChunk, AdminProviders, vars, stateVars, slotVars
  <2> QED
    BY <1>2, <2>1, QuietCalls
<1>10. CASE Tick
  <2>1. ~Tripped(p)
    BY <1>0, <1>10, ConfigAssumption DEF Tick, TimePasses, CountDown, Tripped, CircuitTypeOK
  <2>2. candidates' = candidates /\ current' = current
    BY <1>10 DEF Tick, slotVars
  <2> QED
    BY <2>1, <2>2, QuietCalls
<1> QED
  BY <1>3, <1>4, <1>5, <1>6, <1>7, <1>8, <1>9, <1>10 DEF Next, SlotStep

-----------------------------------------------------------------------------
\* The invariant of the calls to open circuits.
OpenInv ==
  /\ open_calls \in [Provider -> Nat]
  /\ \A p \in Provider : Available(p) => open_calls[p] = 0
  /\ OpenCallsHeld

\* A step of the history is one of the gateway.
LEMMA HistoryStep == [HistoryNext]_historyVars => [Next]_vars
BY DEF HistoryNext, historyVars

\* At first no circuit is open.
LEMMA OpenInit == HistoryInit => OpenInv
BY DEF HistoryInit, Init, StateInit, OpenInv, OpenCallsHeld, Available

\* A call while the circuit is open spends one of the rankings that hold it.
LEMMA OpenNext == GatewayInv /\ OpenInv /\ [HistoryNext]_historyVars => OpenInv'
<1> SUFFICES ASSUME GatewayInv, OpenInv, [HistoryNext]_historyVars PROVE OpenInv'
  OBVIOUS
<1>1. CASE UNCHANGED historyVars
  BY <1>1 DEF historyVars, vars, stateVars, circuitVars, slotVars, OpenInv, OpenCallsHeld,
              Available, Holders
<1>2. CASE HistoryNext
  <2>1. [Next]_vars /\ RecordOpenCalls
    BY <1>2 DEF HistoryNext
  <2>2. open_calls' \in [Provider -> Nat]
    BY <2>1 DEF RecordOpenCalls, OpenInv
  <2>3. \A p \in Provider : Available(p)' => open_calls'[p] = 0
    BY <2>1 DEF RecordOpenCalls, Available
  <2>4. ASSUME NEW p \in Provider, ~Available(p)'
        PROVE  open_calls'[p] + Cardinality(Holders(p)') <= Cardinality(Slot) - 1
    <3>1. CallsOK(p)
      BY <2>1, CallStep
    <3>2. /\ Cardinality(Holders(p)') \in Nat /\ Cardinality(Holders(p)) \in Nat
          /\ Cardinality(Slot) \in Nat
          /\ IsFiniteSet(Holders(p)) /\ IsFiniteSet(Slot)
      BY HoldersFinite, GatewayAssumption
    <3>3. circuit_left'[p] # 0 /\ open_calls[p] \in Nat
      BY <2>4 DEF Available, OpenInv
    <3>4. CASE Available(p)
      <4>1. open_calls'[p] = 0
        BY <2>1, <3>3, <3>4 DEF RecordOpenCalls, OpenInv
      <4>2. circuit_left[p] = 0 /\ circuit_left'[p] \in 0 .. Cooldown
        BY <2>1, <3>4, NextInv DEF Available, GatewayInv, CircuitInv, CircuitTypeOK
      <4>3. Tripped(p)
        BY <3>3, <4>2, ConfigAssumption DEF Tripped
      <4>4. PICK s \in Slot : p \notin candidates'[s]
        BY <3>1, <4>3 DEF CallsOK
      <4>5. Holders(p)' \in SUBSET (Slot \ {s})
        BY <4>4 DEF Holders
      <4>6. Cardinality(Slot \ {s}) = Cardinality(Slot) - 1 /\ IsFiniteSet(Slot \ {s})
        BY <3>2, FS_RemoveElement
      <4>7. Cardinality(Holders(p)') <= Cardinality(Slot) - 1
        BY <4>5, <4>6, FS_Subset
      <4> QED
        BY <3>2, <4>1, <4>7
    <3>5. CASE ~Available(p)
      <4>1. open_calls[p] + Cardinality(Holders(p)) <= Cardinality(Slot) - 1
        BY <3>5 DEF OpenInv, OpenCallsHeld
      <4>2. Holders(p)' \in SUBSET Holders(p)
        BY <3>1, <3>3 DEF CallsOK, Holders
      <4>3. CASE Called(p)
        <5>1. open_calls'[p] = open_calls[p] + 1
          BY <2>1, <3>3, <3>5, <4>3 DEF RecordOpenCalls
        <5>2. PICK s \in Slot : p \in candidates[s] /\ p \notin candidates'[s]
          BY <3>1, <3>5, <4>3 DEF CallsOK
        <5>3. Holders(p)' \in SUBSET (Holders(p) \ {s}) /\ s \in Holders(p)
          BY <4>2, <5>2 DEF Holders
        <5>4. /\ Cardinality(Holders(p) \ {s}) = Cardinality(Holders(p)) - 1
              /\ IsFiniteSet(Holders(p) \ {s})
          BY <3>2, <5>3, FS_RemoveElement
        <5>5. Cardinality(Holders(p)') <= Cardinality(Holders(p)) - 1
          BY <5>3, <5>4, FS_Subset
        <5> QED
          BY <3>2, <3>3, <4>1, <5>1, <5>5
      <4>4. CASE ~Called(p)
        <5>1. open_calls'[p] = open_calls[p]
          BY <2>1, <3>3, <4>4 DEF RecordOpenCalls
        <5>2. Cardinality(Holders(p)') <= Cardinality(Holders(p))
          BY <3>2, <4>2, FS_Subset
        <5> QED
          BY <3>2, <3>3, <4>1, <5>1, <5>2
      <4> QED
        BY <4>3, <4>4
    <3> QED
      BY <3>4, <3>5
  <2> QED
    BY <2>2, <2>3, <2>4 DEF OpenInv, OpenCallsHeld
<1> QED
  BY <1>1, <1>2

\* Between the opening of a circuit and its next closing a provider is called
\* less often than there are requests in progress.
THEOREM OpenCallsAreBounded == HistorySpec => []OpenCallsBounded
<1>1. ASSUME OpenInv PROVE OpenCallsBounded
  <2> SUFFICES ASSUME NEW p \in Provider PROVE open_calls[p] <= Cardinality(Slot) - 1
    BY DEF OpenCallsBounded
  <2>1. /\ Cardinality(Slot) \in Nat /\ Cardinality(Slot) # 0
        /\ Cardinality(Holders(p)) \in Nat /\ open_calls[p] \in Nat
    BY <1>1, HoldersFinite, FS_EmptySet, GatewayAssumption DEF OpenInv
  <2> QED
    BY <1>1, <2>1 DEF OpenInv, OpenCallsHeld
<1>2. HistoryInit => Init
  BY DEF HistoryInit
<1> QED
  BY <1>1, <1>2, HistoryStep, InitInv, NextInv, OpenInit, OpenNext, PTL DEF HistorySpec

-----------------------------------------------------------------------------
\* What takes a provider out of a ranking: a call of it or a failure of it.
LEMMA FeasibleStep ==
  ASSUME GatewayInv, [Next]_vars, NEW p \in Provider, Feasible(p), ~Feasible(p)'
  PROVE  Called(p) \/ Tripped(p)
<1>0. SlotTypeOK /\ CircuitTypeOK /\ QuotaTypeOK
  BY DEF GatewayInv, SlotInv, CircuitInv, QuotaInv
<1>1. ASSUME NEW P \in SUBSET Provider, RefreshQuota(P), UNCHANGED circuitVars
      PROVE  FALSE
  BY <1>0, <1>1, RefreshKeepsFeasible
<1>2. ASSUME UNCHANGED quotaVars, ~Tripped(p), circuit_left'[p] \in 0 .. Cooldown
      PROVE  FALSE
  <2>1. Available(p)'
    BY <1>0, <1>2, ConfigAssumption DEF Tripped, Feasible, Available, CircuitTypeOK
  <2> QED
    BY <1>2, <2>1 DEF Feasible, QuotaExhausted, quotaVars, AttemptsRefreshed, WindowElapsed
<1>3. circuit_left'[p] \in 0 .. Cooldown
  BY NextInv DEF GatewayInv, CircuitInv, CircuitTypeOK
<1>4. UNCHANGED circuitVars => ~Tripped(p)
  BY <1>0 DEF Tripped, circuitVars, CircuitTypeOK
<1>5. RefreshedByRank \in SUBSET Provider
  BY RefreshedByRankType
<1>6. ASSUME NEW q \in Provider, q # p, NEW P \in SUBSET Provider, RecordAttempt(q, P),
             Available(p)'
      PROVE  FALSE
  <2>1. p \in Limited => /\ AttemptsRefreshed({p})'[p] \in Int
                         /\ AttemptsRefreshed({p})[p] \in Int /\ QuotaLimit[p] \in Int
    BY <1>0, <1>6, ConfigAssumption DEF QuotaTypeOK, RecordAttempt, AttemptsRefreshed
  <2>2. p \in Limited => AttemptsRefreshed({p})'[p] <= AttemptsRefreshed({p})[p]
    BY <1>0, <1>6, ConfigAssumption
       DEF QuotaTypeOK, RecordAttempt, AttemptsRefreshed, AgeRefreshed, WindowElapsed, Unset
  <2> QED
    BY <1>6, <2>1, <2>2 DEF Feasible, QuotaExhausted
<1>7. ASSUME NEW s \in Slot, NEW profile \in SUBSET Provider, NEW ph,
             RankAndSend(s, profile, ph), UNCHANGED circuitVars, phase[s] \notin Calling
      PROVE  Called(p)
  <2>1. PICK q \in Ranked(profile) :
          /\ RecordAttempt(q, RefreshedByRank)
          /\ current' = [current EXCEPT ![s] = q]
    BY <1>0, <1>7, RankAndSendCalls
  <2>2. q \in Provider /\ Available(p)'
    BY <1>7, <2>1 DEF Ranked, Feasible, Available, circuitVars
  <2>3. q = p
    BY <1>5, <1>6, <2>1, <2>2
  <2>4. current[s] = NoProvider
    BY <1>7 DEF GatewayInv, SlotInv, RequestInv, RequestOK
  <2> QED
    BY <1>0, <2>1, <2>3, <2>4, GatewayAssumption DEF Called, SlotTypeOK
<1>8. ASSUME NEW s \in Slot, StartComplete(s) PROVE Called(p)
  BY <1>1, <1>5, <1>7, <1>8, GatewayAssumption DEF StartComplete, Reject, Finished, Calling
<1>9. ASSUME NEW s \in Slot, StartStream(s) PROVE Called(p)
  <2>1. compatible[s] \in SUBSET Provider
    BY <1>0 DEF SlotTypeOK
  <2> QED
    BY <1>1, <1>5, <1>7, <1>9, <2>1 DEF StartStream, Reject, Calling
<1>10. ASSUME NEW s \in Slot, Preflight(s) PROVE FALSE
  BY <1>1, <1>5, <1>10 DEF Preflight, Reject
<1>11. ASSUME NEW s \in Slot, NEW retryable \in BOOLEAN, ProviderFails(s, retryable),
              ~Tripped(p)
       PROVE  Called(p)
  <2>1. CASE UNCHANGED quotaVars
    BY <1>2, <1>3, <1>11, <2>1
  <2>2. CASE ~UNCHANGED quotaVars
    <3>1. PICK q \in candidates[s] :
                 RecordAttempt(q, {}) /\ Send(s, q, candidates[s], phase[s])
      BY <1>11, <2>2 DEF ProviderFails
    <3>2. Available(p)' /\ q \in Provider /\ phase[s] \in Calling
      BY <1>0, <1>3, <1>11, <3>1, ConfigAssumption
         DEF Tripped, Feasible, Available, CircuitTypeOK, SlotTypeOK, ProviderFails
    <3>3. q = p
      BY <1>6, <3>1, <3>2
    <3>4. current[s] # q
      BY <3>1, <3>2 DEF GatewayInv, SlotInv, RequestInv, RequestOK
    <3> QED
      BY <1>0, <3>1, <3>3, <3>4 DEF Called, Send, SlotTypeOK
  <2> QED
    BY <2>1, <2>2
<1>12. ASSUME NEW s \in Slot, ProviderSucceeds(s) PROVE FALSE
  <2>1. ~Tripped(p)
    BY <1>0, <1>12 DEF ProviderSucceeds, RecordSuccess, Tripped, CircuitTypeOK
  <2> QED
    BY <1>2, <1>3, <1>12, <2>1 DEF ProviderSucceeds
<1>13. ASSUME \/ \E s \in Slot : CommitChunk(s) \/ UnexpectedError(s) \/ Disconnect(s)
              \/ UNCHANGED vars
       PROVE  FALSE
  <2>1. UNCHANGED circuitVars /\ UNCHANGED quotaVars
    BY <1>13 DEF CommitChunk, UnexpectedError, Disconnect, vars, stateVars
  <2> QED
    BY <1>2, <1>3, <1>4, <2>1
<1>14. ASSUME AdminProviders PROVE FALSE
  BY <1>1, <1>14 DEF AdminProviders
<1>15. ASSUME Tick PROVE FALSE
  BY <1>0, <1>15, TimeKeepsFeasible DEF Tick
<1> QED
  BY <1>8, <1>9, <1>10, <1>11, <1>12, <1>13, <1>14, <1>15 DEF Next, SlotStep

\* How a request comes to be admitted, stays admitted and is dropped.
LEMMA AdmittedStep ==
  ASSUME GatewayInv, [Next]_vars, NEW s \in Slot
  PROVE  /\ phase[s] # "admitted" /\ phase'[s] = "admitted" =>
              Ranked(compatible'[s]) # {} /\ UNCHANGED circuitVars
                /\ RefreshQuota(RefreshedByRank)
         /\ Waits(s) => compatible'[s] = compatible[s]
         /\ phase[s] = "admitted" /\ phase'[s] = "dropped" => Ranked(compatible[s]) = {}
<1>0. SlotTypeOK
  BY DEF GatewayInv, SlotInv
<1>1. ASSUME NEW t \in Slot, NEW outcome \in Finished, Settle(t, outcome)
      PROVE  /\ phase'[s] = IF s = t THEN outcome ELSE phase[s]
             /\ s # t => compatible'[s] = compatible[s]
             /\ outcome # "admitted"
  BY <1>0, <1>1 DEF Settle, SlotTypeOK, Finished
<1>2. ASSUME NEW t \in Slot, NEW profile, NEW ph, RankAndSend(t, profile, ph)
      PROVE  phase'[s] = IF s = t THEN ph ELSE phase[s]
  BY <1>0, <1>2 DEF RankAndSend, Send, SlotTypeOK
<1>3. ASSUME NEW t \in Slot, StartComplete(t)
      PROVE  /\ s # t => phase'[s] = phase[s] /\ compatible'[s] = compatible[s]
             /\ s = t => phase[s] # "admitted" /\ phase'[s] # "admitted"
  <2>1. PICK profile \in Profile :
          \/ Settle(t, "rejected")
          \/ /\ RankAndSend(t, profile, "awaiting")
             /\ compatible' = [compatible EXCEPT ![t] = profile]
    BY <1>3 DEF StartComplete, Reject
  <2>2. phase[t] # "admitted"
    BY <1>3 DEF StartComplete, Finished
  <2>3. CASE Settle(t, "rejected")
    BY <1>1, <2>2, <2>3 DEF Finished
  <2>4. CASE RankAndSend(t, profile, "awaiting") /\ compatible' = [compatible EXCEPT ![t] = profile]
    BY <1>0, <1>2, <2>2, <2>4 DEF SlotTypeOK
  <2> QED
    BY <2>1, <2>3, <2>4
<1>4. ASSUME NEW t \in Slot, Preflight(t)
      PROVE  /\ s # t => phase'[s] = phase[s] /\ compatible'[s] = compatible[s]
             /\ s = t => /\ phase[s] # "admitted"
                         /\ phase'[s] = "admitted" =>
                              Ranked(compatible'[s]) # {} /\ UNCHANGED circuitVars
                                /\ RefreshQuota(RefreshedByRank)
  <2>1. PICK profile \in Profile :
          \/ Settle(t, "rejected")
          \/ /\ Ranked(profile) # {} /\ RefreshQuota(RefreshedByRank)
             /\ phase' = [phase EXCEPT ![t] = "admitted"]
             /\ compatible' = [compatible EXCEPT ![t] = profile]
    BY <1>4 DEF Preflight, Reject, EnsureEligible
  <2>2. phase[t] # "admitted" /\ UNCHANGED circuitVars
    BY <1>4 DEF Preflight, Finished
  <2>3. CASE Settle(t, "rejected")
    BY <1>1, <2>2, <2>3 DEF Finished
  <2>4. CASE ~Settle(t, "rejected")
    BY <1>0, <2>1, <2>2, <2>4 DEF SlotTypeOK
  <2> QED
    BY <2>3, <2>4
<1>5. ASSUME NEW t \in Slot, StartStream(t)
      PROVE  /\ s # t => phase'[s] = phase[s] /\ compatible'[s] = compatible[s]
             /\ s = t => /\ phase'[s] # "admitted"
                         /\ phase'[s] = "dropped" => Ranked(compatible[s]) = {}
  <2>1. CASE Reject(t, compatible[t], "dropped")
    BY <1>1, <2>1 DEF Reject, Finished
  <2>2. CASE RankAndSend(t, compatible[t], "streaming") /\ UNCHANGED compatible
    BY <1>2, <2>2
  <2> QED
    BY <1>5, <2>1, <2>2 DEF StartStream
<1>6. ASSUME NEW t \in Slot, NEW retryable \in BOOLEAN, ProviderFails(t, retryable)
      PROVE  /\ s # t => phase'[s] = phase[s] /\ compatible'[s] = compatible[s]
             /\ s = t => phase[s] # "admitted" /\ phase'[s] # "admitted"
  <2>1. phase[t] \in Calling
    BY <1>6 DEF ProviderFails
  <2>2. CASE GiveUp(t, retryable)
    <3>1. PICK outcome \in Finished : Settle(t, outcome)
      BY <1>6, <2>2 DEF ProviderFails, Finished
    <3> QED
      BY <1>1, <2>1, <3>1 DEF Calling
  <2>3. CASE ~GiveUp(t, retryable)
    BY <1>0, <1>6, <2>1, <2>3 DEF ProviderFails, Send, SlotTypeOK, Calling
  <2> QED
    BY <2>2, <2>3
<1>7. ASSUME NEW t \in Slot, ProviderSucceeds(t) \/ UnexpectedError(t) \/ Disconnect(t)
      PROVE  /\ s # t => phase'[s] = phase[s] /\ compatible'[s] = compatible[s]
             /\ s = t => phase'[s] \in {"served", "aborted"}
  BY <1>1, <1>7 DEF ProviderSucceeds, UnexpectedError, Disconnect, Finished
<1>8. ASSUME \/ \E t \in Slot : CommitChunk(t)
             \/ AdminProviders
             \/ Tick
             \/ UNCHANGED vars
      PROVE  phase' = phase /\ compatible' = compatible
  BY <1>8 DEF CommitChunk, AdminProviders, Tick, vars, slotVars
<1> QED
  BY <1>3, <1>4, <1>5, <1>6, <1>7, <1>8 DEF Next, SlotStep, Waits

\* The invariant of the promises.
PromiseInv ==
  /\ promised \in [Slot -> SUBSET Provider]
  /\ touched \in [Slot -> SUBSET Provider]
  /\ PromiseKept

\* At first no stream is admitted.
LEMMA PromiseInit == HistoryInit => PromiseInv
BY DEF HistoryInit, Init, PromiseInv, PromiseKept

\* A promised provider stays feasible until another request touches it.
LEMMA PromiseNext ==
  GatewayInv /\ PromiseInv /\ [HistoryNext]_historyVars => PromiseInv'
<1> SUFFICES ASSUME GatewayInv, PromiseInv, [HistoryNext]_historyVars PROVE PromiseInv'
  OBVIOUS
<1>0. SlotTypeOK /\ SlotTypeOK' /\ QuotaTypeOK
  BY HistoryStep, NextInv DEF GatewayInv, SlotInv, QuotaInv
<1>1. CASE UNCHANGED historyVars
  BY <1>1 DEF historyVars, vars, stateVars, circuitVars, quotaVars, slotVars, PromiseInv,
              PromiseKept, Feasible, Available, QuotaExhausted, AttemptsRefreshed, WindowElapsed
<1>2. CASE HistoryNext
  <2>1. [Next]_vars /\ RecordPromises
    BY <1>2 DEF HistoryNext
  <2>2. \A s \in Slot : Ranked(compatible'[s]) \in SUBSET Provider
    BY <1>0 DEF Ranked, SlotTypeOK
  <2>3. promised' \in [Slot -> SUBSET Provider] /\ touched' \in [Slot -> SUBSET Provider]
    BY <2>1, <2>2 DEF RecordPromises, PromiseInv
  <2>4. ASSUME NEW s \in Slot, phase'[s] = "admitted"
        PROVE  /\ promised'[s] # {}
               /\ promised'[s] \subseteq compatible'[s]
               /\ \A p \in promised'[s] \ touched'[s] : Feasible(p)'
    <3>1. CASE Waits(s)
      <4>1. /\ promised'[s] = promised[s]
            /\ touched'[s] = touched[s] \cup {p \in Provider : Called(p) \/ Tripped(p)}
            /\ compatible'[s] = compatible[s]
        BY <2>1, <2>4, <3>1, AdmittedStep DEF RecordPromises
      <4>2. /\ promised[s] # {} /\ promised[s] \subseteq compatible[s]
            /\ promised[s] \subseteq Provider
            /\ \A p \in promised[s] \ touched[s] : Feasible(p)
        BY <3>1 DEF Waits, PromiseInv, PromiseKept
      <4>3. ASSUME NEW p \in promised'[s] \ touched'[s] PROVE Feasible(p)'
        BY <2>1, <4>1, <4>2, <4>3, FeasibleStep
      <4> QED
        BY <4>1, <4>2, <4>3
    <3>2. CASE ~Waits(s)
      <4>1. /\ promised'[s] = Ranked(compatible'[s])
            /\ phase[s] # "admitted"
        BY <2>1, <2>4, <3>2 DEF RecordPromises, Waits
      <4>2. /\ Ranked(compatible'[s]) # {} /\ UNCHANGED circuitVars
            /\ RefreshQuota(RefreshedByRank)
        BY <2>1, <2>4, <4>1, AdmittedStep
      <4>3. ASSUME NEW p \in Ranked(compatible'[s]) PROVE p \in Provider /\ Feasible(p)
        BY <2>2 DEF Ranked
      <4>4. ASSUME NEW p \in Ranked(compatible'[s]) PROVE Feasible(p)'
        BY <1>0, <4>2, <4>3, RefreshedByRankType, RefreshKeepsFeasible
      <4> QED
        BY <4>1, <4>2, <4>4 DEF Ranked
    <3> QED
      BY <3>1, <3>2
  <2> QED
    BY <2>3, <2>4 DEF PromiseInv, PromiseKept
<1> QED
  BY <1>1, <1>2

\* A stream is turned away after its header only when other requests have
\* called or failed everything it was promised.
THEOREM DropsAreExplained == HistorySpec => DropIsExplained
<1>1. ASSUME GatewayInv, PromiseInv, [HistoryNext]_historyVars,
             NEW s \in Slot, phase[s] = "admitted", phase'[s] = "dropped"
      PROVE  promised[s] # {} /\ promised[s] \subseteq touched[s]
  <2>1. Ranked(compatible[s]) = {}
    BY <1>1, HistoryStep, AdmittedStep
  <2> QED
    BY <1>1, <2>1 DEF PromiseInv, PromiseKept, Ranked
<1>2. GatewayInv /\ PromiseInv /\ [HistoryNext]_historyVars =>
        [\A s \in Slot :
           phase[s] = "admitted" /\ phase'[s] = "dropped" =>
             promised[s] # {} /\ promised[s] \subseteq touched[s]]_historyVars
  BY <1>1
<1>3. HistoryInit => Init
  BY DEF HistoryInit
<1> QED
  BY <1>2, <1>3, HistoryStep, InitInv, NextInv, PromiseInit, PromiseNext, PTL
     DEF HistorySpec, DropIsExplained

=============================================================================
