-------------------------- MODULE RuntimeStateProofs --------------------------
(***************************************************************************)
(* Lemmas about the methods of RuntimeStateStore: each preserves the       *)
(* invariant of the half of the state it touches, whoever calls it.  The   *)
(* gateway and the simulator call the same methods.                        *)
(***************************************************************************)
EXTENDS RuntimeState, TLAPS

CircuitInv == CircuitTypeOK /\ OpenCircuitHasStreak
QuotaInv   == QuotaTypeOK /\ WindowMatchesAttempts

\* A success resets the streak and closes the circuit.
LEMMA RecordSuccessCircuit ==
  ASSUME CircuitInv, NEW p \in Provider, RecordSuccess(p)
  PROVE  CircuitInv'
BY ConfigAssumption
   DEF CircuitInv, CircuitTypeOK, OpenCircuitHasStreak, Available, RecordSuccess

\* A failure that opens the circuit leaves a streak behind it.
LEMMA RecordFailureCircuit ==
  ASSUME CircuitInv, NEW p \in Provider, RecordFailure(p)
  PROVE  CircuitInv'
BY ConfigAssumption
   DEF CircuitInv, CircuitTypeOK, OpenCircuitHasStreak, Available, RecordFailure, FailuresAfter

\* Time closes circuits and ages windows, and breaks neither invariant.
LEMMA TimePassesState ==
  ASSUME CircuitInv, QuotaInv, NEW ticks \in Nat, TimePasses(ticks)
  PROVE  CircuitInv' /\ QuotaInv'
<1>1. CircuitInv'
  BY ConfigAssumption
     DEF CircuitInv, CircuitTypeOK, OpenCircuitHasStreak, Available, TimePasses, CountDown
<1>2. QuotaInv'
  BY ConfigAssumption
     DEF QuotaInv, QuotaTypeOK, WindowMatchesAttempts, TimePasses, Older, WindowAge, Unset
<1> QED
  BY <1>1, <1>2

\* A refresh resets a window together with its count.
LEMMA RefreshQuotaQuota ==
  ASSUME QuotaInv, NEW P \in SUBSET Provider, RefreshQuota(P)
  PROVE  QuotaInv'
BY ConfigAssumption
   DEF QuotaInv, QuotaTypeOK, WindowMatchesAttempts, RefreshQuota, AttemptsRefreshed,
       AgeRefreshed, WindowElapsed, WindowAge, Unset

\* An attempt is counted in a window that is running.
LEMMA RecordAttemptQuota ==
  ASSUME QuotaInv, NEW P \in SUBSET Provider, NEW p \in Provider, RecordAttempt(p, P)
  PROVE  QuotaInv'
BY ConfigAssumption
   DEF QuotaInv, QuotaTypeOK, WindowMatchesAttempts, RecordAttempt, AttemptsRefreshed,
       AgeRefreshed, WindowElapsed, WindowAge, Unset

=============================================================================
