---------------------------- MODULE RuntimeState ----------------------------
(***************************************************************************)
(* The runtime state AgentMesh keeps for each configured provider          *)
(* (routing/state.py): the circuit breaker and the local request-quota     *)
(* window.  The module declares that state and one operator per method of  *)
(* RuntimeStateStore; Gateway calls them inside its actions.               *)
(*                                                                         *)
(* Time is counted in ticks.  The code stores absolute monotonic instants; *)
(* the model stores the distance to them, which is all the code compares:  *)
(* circuit_left is circuit_open_until - now, never below 0, and window_age *)
(* is now - quota_window_started_at, never above the window.               *)
(***************************************************************************)
EXTENDS Integers, FiniteSets

CONSTANTS
  Provider,          \* the names RuntimeStateStore was built with
  FailureThreshold,  \* consecutive failures that open a circuit
  Cooldown,          \* ticks an opened circuit stays open
  Limited,           \* providers with request_quota_limit and _window_seconds
  QuotaLimit,        \* their request_quota_limit
  QuotaWindow        \* their request_quota_window_seconds, in ticks

\* What config.py accepts: ProviderSpec.from_dict wants both quota fields or
\* neither, and both positive; Settings.from_env a threshold of at least one
\* and a cooldown that is not negative.
ASSUME ConfigAssumption ==
  /\ FailureThreshold \in Nat \ {0}
  /\ Cooldown \in Nat
  /\ Limited \subseteq Provider
  /\ QuotaLimit \in [Limited -> Nat \ {0}]
  /\ QuotaWindow \in [Limited -> Nat \ {0}]

VARIABLES
  consecutive_failures,  \* failures since the last success, up to the threshold
  circuit_left,          \* ticks until the circuit is available again
  quota_attempts,        \* attempts counted in the current window
  window_age             \* age of the current window, or Unset

circuitVars == <<consecutive_failures, circuit_left>>
quotaVars   == <<quota_attempts, window_age>>
stateVars   == <<circuitVars, quotaVars>>

\* quota_window_started_at = None: no attempt since the last reset.
Unset == -1

WindowAge(p) == {Unset} \cup (IF p \in Limited THEN 0 .. QuotaWindow[p] ELSE {})

CircuitTypeOK ==
  /\ consecutive_failures \in [Provider -> 0 .. FailureThreshold]
  /\ circuit_left \in [Provider -> 0 .. Cooldown]

QuotaTypeOK ==
  /\ quota_attempts \in [Provider -> Nat]
  /\ window_age \in [Provider -> Int]
  /\ \A p \in Provider : window_age[p] \in WindowAge(p)

StateInit ==
  /\ consecutive_failures = [p \in Provider |-> 0]
  /\ circuit_left = [p \in Provider |-> 0]
  /\ quota_attempts = [p \in Provider |-> 0]
  /\ window_age = [p \in Provider |-> Unset]

-----------------------------------------------------------------------------
(***************************************************************************)
(* The circuit breaker.                                                    *)
(***************************************************************************)
Available(p) == circuit_left[p] = 0

RecordSuccess_KeepsCircuit(p) ==
  /\ consecutive_failures' = [consecutive_failures EXCEPT ![p] = 0]
  /\ UNCHANGED circuit_left

RecordSuccess(p) ==
  /\ consecutive_failures' = [consecutive_failures EXCEPT ![p] = 0]
  /\ circuit_left' = [circuit_left EXCEPT ![p] = 0]

\* The count is only ever compared with the threshold, so it stops there.
FailuresAfter(p) ==
  IF consecutive_failures[p] < FailureThreshold THEN consecutive_failures[p] + 1
                                                ELSE FailureThreshold

\* Every failure at or past the threshold restarts the whole cooldown, also
\* when the circuit is open already.
RecordFailure(p) ==
  /\ consecutive_failures' = [consecutive_failures EXCEPT ![p] = FailuresAfter(p)]
  /\ circuit_left' =
       [circuit_left EXCEPT
          ![p] = IF FailuresAfter(p) >= FailureThreshold THEN Cooldown ELSE @]

-----------------------------------------------------------------------------
(***************************************************************************)
(* The request-quota window.  Nothing resets it when it elapses: every     *)
(* method refreshes the window of the provider it is called for, first.    *)
(***************************************************************************)
WindowElapsed(p) ==
  /\ p \in Limited
  /\ window_age[p] # Unset
  /\ window_age[p] >= QuotaWindow[p]

AttemptsRefreshed_KeepsCount(P) == quota_attempts

\* quota_attempts and window_age once _refresh_quota has run for each
\* provider of P.
AttemptsRefreshed(P) ==
  [p \in Provider |-> IF p \in P /\ WindowElapsed(p) THEN 0 ELSE quota_attempts[p]]

AgeRefreshed(P) ==
  [p \in Provider |-> IF p \in P /\ WindowElapsed(p) THEN Unset ELSE window_age[p]]

RefreshQuota(P) ==
  /\ quota_attempts' = AttemptsRefreshed(P)
  /\ window_age' = AgeRefreshed(P)

QuotaExhausted_OneMore(p) ==
  /\ p \in Limited
  /\ AttemptsRefreshed({p})[p] > QuotaLimit[p]

\* quota_exhausted(p), after the refresh it starts with.
QuotaExhausted(p) ==
  /\ p \in Limited
  /\ AttemptsRefreshed({p})[p] >= QuotaLimit[p]

\* record_attempt(p) in a step that has refreshed the providers of P before.
\* It does not look at the limit.
RecordAttempt(p, P) ==
  /\ quota_attempts' =
       [AttemptsRefreshed(P \cup {p}) EXCEPT ![p] = IF p \in Limited THEN @ + 1 ELSE @]
  /\ window_age' =
       [AgeRefreshed(P \cup {p}) EXCEPT ![p] = IF p \in Limited /\ @ = Unset THEN 0 ELSE @]

-----------------------------------------------------------------------------
\* Ticks of the clock, which both the circuits and the windows read.
CountDown_PastZero(left, ticks) == left - ticks

CountDown(left, ticks) == IF left > ticks THEN left - ticks ELSE 0

Older(p, ticks) ==
  IF window_age[p] = Unset THEN Unset
  ELSE IF window_age[p] + ticks < QuotaWindow[p] THEN window_age[p] + ticks
  ELSE QuotaWindow[p]

TimePasses(ticks) ==
  /\ circuit_left' = [p \in Provider |-> CountDown(circuit_left[p], ticks)]
  /\ window_age' = [p \in Provider |-> Older(p, ticks)]
  /\ UNCHANGED <<consecutive_failures, quota_attempts>>

-----------------------------------------------------------------------------
\* A quota window exists exactly while attempts are counted in it: it starts
\* with the first attempt and the two are reset together, whichever of
\* rank(), record_attempt() and quota_snapshot() finds the window elapsed.
WindowMatchesAttempts ==
  \A p \in Provider : window_age[p] = Unset <=> quota_attempts[p] = 0

\* A circuit is open only after FailureThreshold failures with no success
\* between them: a success that comes late closes the circuit and starts the
\* count again, and no interleaving of requests leaves one without the other.
OpenCircuitHasStreak ==
  \A p \in Provider : ~Available(p) => consecutive_failures[p] = FailureThreshold

=============================================================================
