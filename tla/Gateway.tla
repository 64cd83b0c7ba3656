------------------------------- MODULE Gateway -------------------------------
(***************************************************************************)
(* GatewayService: concurrent client requests, each ranked against the     *)
(* shared runtime state, sent to one provider after another, and answered, *)
(* refused or abandoned (gateway/service.py, with the route handlers of    *)
(* api/app.py that call it).                                               *)
(*                                                                         *)
(* The server runs its handlers on one event loop, so what a handler does  *)
(* between two awaits is one action here.  A request awaits the provider's *)
(* answer (complete), the provider's next chunk (stream), or the server,   *)
(* which starts a StreamingResponse only after the route has returned.     *)
(* What a request carries over an await, it may find stale afterwards: the *)
(* list of candidates it has ranked, and the eligibility it has checked.   *)
(***************************************************************************)
EXTENDS RuntimeState

CONSTANTS
  Slot,         \* request slots: the requests that may be in progress at once
  Profile,      \* for each kind of request, the providers that support it
  MaxAttempts,  \* max_attempts
  NoProvider    \* no provider is being awaited

ASSUME GatewayAssumption ==
  /\ IsFiniteSet(Slot) /\ Slot # {}
  /\ IsFiniteSet(Provider)
  /\ Profile \subseteq SUBSET Provider
  /\ MaxAttempts \in Nat \ {0}
  /\ NoProvider \notin Provider

VARIABLES
  phase,       \* where the request of a slot is
  compatible,  \* providers its model, protocol and capabilities allow
  candidates,  \* candidates[: max_attempts] that it has not been sent to yet
  current,     \* the provider it is waiting for
  committed,   \* the local of stream(): a chunk with content was yielded
  tried,       \* history: the providers it has been sent to
  voices       \* history: the providers whose content its client has read

slotVars == <<phase, compatible, candidates, current, committed, tried, voices>>
vars == <<stateVars, slotVars>>

(***************************************************************************)
(* Phases.  An "admitted" streaming request has passed ensure_eligible and *)
(* its 200 header is on the way, but stream() has not begun.  A request    *)
(* that is over was "served"; "failed" upstream (502); "refused" by a      *)
(* terminal provider error (the provider's 4xx); "rejected" before any     *)
(* attempt (503); "dropped", refused by stream() after the 200 header; or  *)
(* "aborted" by a disconnect or by an exception that is no ProviderError.  *)
(* A slot is taken again by any later request.                             *)
(***************************************************************************)
Calling  == {"awaiting", "streaming"}
Busy     == Calling \cup {"admitted"}
Finished == {"idle", "served", "failed", "refused", "rejected", "dropped", "aborted"}

SlotTypeOK ==
  /\ phase \in [Slot -> Busy \cup Finished]
  /\ compatible \in [Slot -> SUBSET Provider]
  /\ candidates \in [Slot -> SUBSET Provider]
  /\ current \in [Slot -> Provider \cup {NoProvider}]
  /\ committed \in [Slot -> BOOLEAN]
  /\ tried \in [Slot -> SUBSET Provider]
  /\ voices \in [Slot -> SUBSET Provider]

TypeOK == CircuitTypeOK /\ QuotaTypeOK /\ SlotTypeOK

Init ==
  /\ StateInit
  /\ phase = [s \in Slot |-> "idle"]
  /\ compatible = [s \in Slot |-> {}]
  /\ candidates = [s \in Slot |-> {}]
  /\ current = [s \in Slot |-> NoProvider]
  /\ committed = [s \in Slot |-> FALSE]
  /\ tried = [s \in Slot |-> {}]
  /\ voices = [s \in Slot |-> {}]

-----------------------------------------------------------------------------
(***************************************************************************)
(* Router.rank, as far as the runtime state decides it.  The order in      *)
(* which a policy puts the feasible providers is Router's business: here a *)
(* request may try them in any order, and the slice to max_attempts keeps  *)
(* any of them.                                                            *)
(***************************************************************************)
Feasible_OpenCircuit(p) == ~QuotaExhausted(p)
Feasible_OverQuota(p) == Available(p)
Feasible(p) == Available(p) /\ ~QuotaExhausted(p)

Ranked(profile) == {p \in profile : Feasible(p)}

\* rank() asks quota_exhausted, which refreshes the window, of every provider
\* with a closed circuit, whatever the request needs.
RefreshedByRank == {p \in Provider : Available(p)}

AttemptSlices_OneMore(R) ==
  IF Cardinality(R) <= MaxAttempts + 1
    THEN {R}
    ELSE {C \in SUBSET R : Cardinality(C) = MaxAttempts + 1}

AttemptSlices(R) ==
  IF Cardinality(R) <= MaxAttempts
    THEN {R}
    ELSE {C \in SUBSET R : Cardinality(C) = MaxAttempts}

Send_KeepsCandidate(s, p, C, ph) ==
  /\ phase' = [phase EXCEPT ![s] = ph]
  /\ candidates' = [candidates EXCEPT ![s] = C]
  /\ current' = [current EXCEPT ![s] = p]
  /\ committed' = [committed EXCEPT ![s] = FALSE]
  /\ tried' = [tried EXCEPT ![s] = @ \cup {p}]

\* The request of s is sent to p, and C is what is left of its candidates.
Send(s, p, C, ph) ==
  /\ phase' = [phase EXCEPT ![s] = ph]
  /\ candidates' = [candidates EXCEPT ![s] = C \ {p}]
  /\ current' = [current EXCEPT ![s] = p]
  /\ committed' = [committed EXCEPT ![s] = FALSE]
  /\ tried' = [tried EXCEPT ![s] = @ \cup {p}]

\* The request of s is over; nothing of it survives in the gateway.
Settle(s, outcome) ==
  /\ phase' = [phase EXCEPT ![s] = outcome]
  /\ compatible' = [compatible EXCEPT ![s] = {}]
  /\ candidates' = [candidates EXCEPT ![s] = {}]
  /\ current' = [current EXCEPT ![s] = NoProvider]
  /\ committed' = [committed EXCEPT ![s] = FALSE]
  /\ tried' = [tried EXCEPT ![s] = {}]
  /\ voices' = [voices EXCEPT ![s] = {}]

EnsureEligible_CircuitOnly(profile) == \E p \in profile : Available(p)

\* ensure_eligible, which a streaming route calls before it answers.
EnsureEligible(profile) == Ranked(profile) # {}

\* rank() finds no provider: NoProviderAvailable.
Reject(s, profile, outcome) ==
  /\ Ranked(profile) = {}
  /\ RefreshQuota(RefreshedByRank)
  /\ Settle(s, outcome)

\* rank() finds some and the first of them is called, with no await between.
RankAndSend(s, profile, ph) ==
  \E C \in AttemptSlices(Ranked(profile)) : \E p \in C :
    /\ RecordAttempt(p, RefreshedByRank)
    /\ Send(s, p, C, ph)

-----------------------------------------------------------------------------
\* A route handler calls complete() for a request that does not stream.
StartComplete(s) ==
  /\ phase[s] \in Finished
  /\ UNCHANGED circuitVars
  /\ \E profile \in Profile :
       \/ Reject(s, profile, "rejected")
       \/ /\ RankAndSend(s, profile, "awaiting")
          /\ compatible' = [compatible EXCEPT ![s] = profile]
          /\ UNCHANGED voices

\* A route handler checks ensure_eligible for a request that streams, drops
\* the ranking it has made for that, and returns the StreamingResponse.
Preflight(s) ==
  /\ phase[s] \in Finished
  /\ UNCHANGED circuitVars
  /\ \E profile \in Profile :
       \/ Reject(s, profile, "rejected")
       \/ /\ EnsureEligible(profile)
          /\ RefreshQuota(RefreshedByRank)
          /\ phase' = [phase EXCEPT ![s] = "admitted"]
          /\ compatible' = [compatible EXCEPT ![s] = profile]
          /\ UNCHANGED <<candidates, current, committed, tried, voices>>

\* The server has sent the header and iterates stream(), which ranks again.
StartStream(s) ==
  /\ phase[s] = "admitted"
  /\ UNCHANGED circuitVars
  /\ \/ Reject(s, compatible[s], "dropped")
     \/ /\ RankAndSend(s, compatible[s], "streaming")
        /\ UNCHANGED <<compatible, voices>>

\* The provider yields the first chunk with text, a done mark, a function
\* call delta or a native event, and the client reads it.  Other chunks
\* change nothing the gateway looks at again.
CommitChunk(s) ==
  /\ phase[s] = "streaming"
  /\ ~committed[s]
  /\ committed' = [committed EXCEPT ![s] = TRUE]
  /\ voices' = [voices EXCEPT ![s] = @ \cup {current[s]}]
  /\ UNCHANGED <<stateVars, phase, compatible, candidates, current, tried>>

\* The provider's answer arrives, or its stream ends.
ProviderSucceeds(s) ==
  /\ phase[s] \in Calling
  /\ RecordSuccess(current[s])
  /\ Settle(s, "served")
  /\ UNCHANGED quotaVars

GiveUp_IgnoresCommit(s, retryable) == ~retryable \/ candidates[s] = {}

\* What a ProviderError does to the request once it is recorded.
GiveUp(s, retryable) == ~retryable \/ committed[s] \/ candidates[s] = {}

\* The provider raises ProviderError.  The failure is recorded first, and
\* the error looked at afterwards: it is raised to the client, or the next
\* candidate is called without ranking again.
ProviderFails(s, retryable) ==
  /\ phase[s] \in Calling
  /\ RecordFailure(current[s])
  /\ \/ /\ GiveUp(s, retryable)
        /\ Settle(s, IF retryable THEN "failed" ELSE "refused")
        /\ UNCHANGED quotaVars
     \/ /\ ~GiveUp(s, retryable)
        /\ \E p \in candidates[s] :
             /\ RecordAttempt(p, {})
             /\ Send(s, p, candidates[s], phase[s])
        /\ UNCHANGED <<compatible, voices>>

\* The adapter raises anything else (a malformed upstream body, say): no
\* handler of complete() or stream() runs, and nothing is recorded.
UnexpectedError(s) ==
  /\ phase[s] \in Calling
  /\ Settle(s, "aborted")
  /\ UNCHANGED stateVars

\* The client of a streaming response goes away, or the renderer fails: the
\* server cancels or closes the generator, and nothing is recorded.
Disconnect(s) ==
  /\ phase[s] \in {"admitted", "streaming"}
  /\ Settle(s, "aborted")
  /\ UNCHANGED stateVars

\* GET /admin/providers takes a quota_snapshot of every provider.
AdminProviders ==
  /\ \E p \in Provider : WindowElapsed(p)
  /\ RefreshQuota(Provider)
  /\ UNCHANGED <<circuitVars, slotVars>>

\* Nothing else changes while time passes; a tick with no timer running
\* would be a stuttering step.
Tick ==
  /\ \E p \in Provider : circuit_left[p] > 0 \/ Older(p, 1) # window_age[p]
  /\ TimePasses(1)
  /\ UNCHANGED slotVars

SlotStep(s) ==
  \/ StartComplete(s)
  \/ Preflight(s)
  \/ StartStream(s)
  \/ CommitChunk(s)
  \/ ProviderSucceeds(s)
  \/ \E retryable \in BOOLEAN : ProviderFails(s, retryable)
  \/ UnexpectedError(s)
  \/ Disconnect(s)

Next ==
  \/ \E s \in Slot : SlotStep(s)
  \/ AdminProviders
  \/ Tick

\* What an await in progress may come back with.  Every adapter gives its
\* HTTP client timeout_seconds, so a call that is awaited returns or raises;
\* that a provider's stream is finite is assumed.
AwaitReturns(s) ==
  \/ StartStream(s)
  \/ ProviderSucceeds(s)
  \/ \E retryable \in BOOLEAN : ProviderFails(s, retryable)
  \/ UnexpectedError(s)

Fairness ==
  /\ WF_vars(Tick)
  /\ \A s \in Slot : WF_vars(AwaitReturns(s))

Spec == Init /\ [][Next]_vars
FairSpec == Spec /\ Fairness

-----------------------------------------------------------------------------
(***************************************************************************)
(* Safety.                                                                 *)
(***************************************************************************)

\* The requests that hold p among the candidates they ranked earlier.
Holders(p) == {s \in Slot : p \in candidates[s]}

\* Falling back on candidates ranked before an await lets a provider be sent
\* more than its quota, but by fewer attempts than there are requests in
\* progress, since each of them holds a stale ranking at most once.
QuotaOvershootBounded ==
  \A p \in Limited : quota_attempts[p] <= QuotaLimit[p] + Cardinality(Slot) - 1

\* The quota as ADR 0006 states it: no attempt is made past the limit.  It
\* holds for concurrent requests while MaxAttempts is 1, since the ranking and
\* the attempt are then one step, and fails with any fallback.
QuotaIsHard ==
  \A p \in Limited : quota_attempts[p] <= QuotaLimit[p]

\* An error that is terminal because the request itself is wrong does not
\* open, or keep open, the circuit of the provider that reported it.
TerminalErrorLeavesCircuit ==
  [][\A s \in Slot :
       phase[s] # "refused" /\ phase'[s] = "refused" =>
         circuit_left'[current[s]] <= circuit_left[current[s]]]_vars

\* Failover as the client sees it: compatible providers only, none twice, at
\* most MaxAttempts, and none after content of another was read.
Contract == INSTANCE Failover WITH open <- {s \in Slot : phase[s] \in Busy}

FailoverContract == Contract!Spec

-----------------------------------------------------------------------------
(***************************************************************************)
(* The inductive invariants that carry the safety properties.              *)
(***************************************************************************)

\* What a handler's locals say of one another at every await: no request is
\* over with candidates left, the candidates not tried yet and the providers
\* tried are disjoint and together within the slice, and content was read
\* only from the provider the request is still waiting for.
RequestOK(s) ==
  /\ phase[s] \in Calling => current[s] \in tried[s]
  /\ phase[s] \notin Calling =>
       /\ current[s] = NoProvider
       /\ candidates[s] = {} /\ tried[s] = {}
       /\ ~committed[s]
  /\ phase[s] \in Finished => compatible[s] = {}
  /\ candidates[s] \cap tried[s] = {}
  /\ candidates[s] \cup tried[s] \subseteq compatible[s]
  /\ Cardinality(candidates[s]) + Cardinality(tried[s]) <= MaxAttempts
  /\ voices[s] = IF committed[s] THEN {current[s]} ELSE {}

RequestInv == \A s \in Slot : RequestOK(s)

\* Once a provider's quota is used up no request starts to hold it, so every
\* attempt past the limit uses up one of the rankings held at that moment.
QuotaHeldBy(p) ==
  quota_attempts[p] >= QuotaLimit[p] =>
    quota_attempts[p] + Cardinality(Holders(p)) <= QuotaLimit[p] + Cardinality(Slot) - 1

QuotaHeld == \A p \in Limited : QuotaHeldBy(p)

-----------------------------------------------------------------------------
(***************************************************************************)
(* Liveness, under FairSpec.                                               *)
(***************************************************************************)

\* Every request is answered, refused or abandoned: failover ends.
RequestsSettle ==
  \A s \in Slot : phase[s] \in Busy ~> phase[s] \in Finished

\* An open circuit is available again some time later, although requests
\* that ranked the provider before keep failing on it and restart the
\* cooldown, and new requests keep coming.
CircuitsRecover ==
  \A p \in Provider : ~Available(p) ~> Available(p)

\* A provider whose quota is used up becomes feasible for the quota again.
QuotasRecover ==
  \A p \in Limited : QuotaExhausted(p) ~> ~QuotaExhausted(p)

=============================================================================
