----------------------------- MODULE ReplayProofs -----------------------------
(***************************************************************************)
(* A policy that is replayed again, after others, gives the same result.   *)
(*                                                                         *)
(* Simulation keeps one store and empties it between two policies, so the  *)
(* theorem compares what lies apart in a behaviour.  The argument is that  *)
(* a replay is a function of its policy and of the trace: below, the       *)
(* operators of Simulation are stated once more of a state given as a      *)
(* record, a replay leaves a history of such records, and two histories of *)
(* one policy are equal, one after the other.  Outcomes that are drawn     *)
(* later change nothing in the histories of the replays before.            *)
(***************************************************************************)
EXTENDS SimulationProofs

-----------------------------------------------------------------------------
(***************************************************************************)
(* A replay as a function.                                                 *)
(***************************************************************************)
State(f, l, a, w, s, b, r) ==
  [failures |-> f, left |-> l, attempts |-> a, age |-> w, stats |-> s, bandit |-> b, rows |-> r]

Here == State(consecutive_failures, circuit_left, quota_attempts, window_age, stats, bandit, rows)

Fresh ==
  State([p \in Provider |-> 0], [p \in Provider |-> 0], [p \in Provider |-> 0],
        [p \in Provider |-> Unset], FreshStats, NoBandit, <<>>)

\* The clock is set, so many ticks later.
TickedIn(L, ticks) ==
  State(L.failures, [p \in Provider |-> CountDown(L.left[p], ticks)], L.attempts,
        [p \in Provider |-> IF L.age[p] = Unset THEN Unset
                            ELSE IF L.age[p] + ticks < QuotaWindow[p] THEN L.age[p] + ticks
                            ELSE QuotaWindow[p]],
        L.stats, L.bandit, L.rows)

\* The ticks from the item before, or from the start of the clock.
Gap(t, k) == t[k].at - (IF k = 1 THEN 0 ELSE t[k - 1].at)

ElapsedIn(L, p) == p \in Limited /\ L.age[p] # Unset /\ L.age[p] >= QuotaWindow[p]
AttemptsIn(L) == [p \in Provider |-> IF ElapsedIn(L, p) THEN 0 ELSE L.attempts[p]]
AgeIn(L) == [p \in Provider |-> IF ElapsedIn(L, p) THEN Unset ELSE L.age[p]]

FeasibleIn(L, q) ==
  {p \in Provider :
     /\ L.left[p] = 0 /\ ~(p \in Limited /\ AttemptsIn(L)[p] >= QuotaLimit[p])
     /\ ServesModel(p, q)
     /\ Route!SupportsRequest(p, RequestFromTrace(q))}

RouterScoreIn(policy, L, p) ==
  LET latency == LatencyNorm(L.stats[p])
      cost    == Clamp(CostHint[p])
      penalty == One - Clamp(QualityHint[p])
  IN  CASE policy = "latency"  -> 100 * latency
        [] policy = "cost"     -> 100 * cost
        [] policy = "quality"  -> 100 * penalty
        [] policy = "balanced" -> 45 * latency + 30 * cost + 25 * penalty

DivisorIn(policy, p) ==
  IF policy \notin StaticPolicies THEN 1 ELSE IF Weight[p] < 1 THEN 1 ELSE Weight[p]

PenaltyIn(L, p, q) ==
  Penalty(LatencyNorm(L.stats[p]), CostNorm(p, L.stats[p]), QualityPrior(p, q),
          Pressure(p, AttemptsIn(L)))

UtilityIn(L, p, q, C) ==
  LET stat  == L.bandit[<<ClassOf(q), p>>]
      total == SumFunctionOnSet([c \in C |-> L.bandit[<<ClassOf(q), c>>].count], C)
  IN  (IF stat.count > 0 THEN stat.mean ELSE Full - PenaltyIn(L, p, q)) + Bonus[total][stat.count]

RatingIn(policy, L, p, q, C) ==
  CASE policy = "ordered"           -> 0
    [] policy = "adaptive_balanced" -> PenaltyIn(L, p, q)
    [] policy = "constrained_ucb"   -> -UtilityIn(L, p, q, C)
    [] OTHER                        -> RouterScoreIn(policy, L, p)

ChosenIn(policy, L, p, q, C) ==
  \A c \in C \ {p} :
    LET mine  == RatingIn(policy, L, p, q, C) * DivisorIn(policy, c)
        other == RatingIn(policy, L, c, q, C) * DivisorIn(policy, p)
    IN  mine < other \/ (mine = other /\ Position[p] < Position[c])

\* The counts of the window once p has been attempted.
CountedIn(L, p) == [AttemptsIn(L) EXCEPT ![p] = IF p \in Limited THEN @ + 1 ELSE @]
StartedIn(L, p) == [AgeIn(L) EXCEPT ![p] = IF p \in Limited /\ @ = Unset THEN 0 ELSE @]

RowOf(p, q, status, profile, pressure) ==
  [provider |-> p, class |-> ClassOf(q), status |-> status,
   latency |-> None, cost |-> None, quality |-> None,
   profile_quality |-> profile, pressure |-> pressure]

TaughtIn(policy, L, p, q, reward) ==
  IF policy = "constrained_ucb"
    THEN [L.bandit EXCEPT ![<<ClassOf(q), p>>] = Updated(@, reward)] ELSE L.bandit

NobodyIn(L, q) ==
  State(L.failures, L.left, AttemptsIn(L), AgeIn(L), L.stats, L.bandit,
        Append(L.rows, RowOf(NoProvider, q, "no_provider", None, None)))

MissingIn(L, p, q) ==
  State(L.failures, L.left, CountedIn(L, p), StartedIn(L, p), L.stats, L.bandit,
        Append(L.rows, RowOf(p, q, "missing_outcome", ProfileQuality(p, q),
                             ShownPressure(p, CountedIn(L, p)))))

MoreFailuresIn(L, p) ==
  IF L.failures[p] < FailureThreshold THEN L.failures[p] + 1 ELSE FailureThreshold

FailureIn(policy, L, p, q) ==
  State([L.failures EXCEPT ![p] = MoreFailuresIn(L, p)],
        [L.left EXCEPT ![p] = IF MoreFailuresIn(L, p) >= FailureThreshold THEN Cooldown ELSE @],
        CountedIn(L, p), StartedIn(L, p),
        [L.stats EXCEPT ![p] = AfterFailure(@)], TaughtIn(policy, L, p, q, 0),
        Append(L.rows, RowOf(p, q, "provider_failure", ProfileQuality(p, q),
                             ShownPressure(p, CountedIn(L, p)))))

CostIn(p, o) == ObservedCost(InputPrice[p], OutputPrice[p], o.input, o.output)

AnsweredIn(L, p, o) ==
  [L.stats EXCEPT
     ![p] = AfterUsage(AfterSuccess(@, o.latency),
                       [input |-> o.input, output |-> o.output, cost |-> CostIn(p, o)])]

RewardIn(L, p, q, o) ==
  Full - Penalty(LatencyNormOf(o.latency),
                 IF CostIn(p, o) = None THEN CostNorm(p, AnsweredIn(L, p, o)[p])
                                        ELSE CostNormOf(CostIn(p, o)),
                 IF o.quality = None THEN QualityPrior(p, q) ELSE o.quality,
                 Pressure(p, CountedIn(L, p)))

SuccessIn(policy, L, p, q, o) ==
  State([L.failures EXCEPT ![p] = 0], [L.left EXCEPT ![p] = 0],
        CountedIn(L, p), StartedIn(L, p),
        AnsweredIn(L, p, o), TaughtIn(policy, L, p, q, RewardIn(L, p, q, o)),
        Append(L.rows, [provider |-> p, class |-> ClassOf(q), status |-> "success",
                        latency |-> o.latency, cost |-> CostIn(p, o), quality |-> o.quality,
                        profile_quality |-> ProfileQuality(p, q),
                        pressure |-> ShownPressure(p, CountedIn(L, p))]))

AttemptIn(policy, L, p, q, o) ==
  IF o.kind = "missing" THEN MissingIn(L, p, q)
  ELSE IF o.kind = "failure" THEN FailureIn(policy, L, p, q) ELSE SuccessIn(policy, L, p, q, o)

\* What the replay of one request makes of L.
ReplayedIn(policy, item, L, M) ==
  LET q == item.request
      C == FeasibleIn(L, q)
  IN  \/ C = {} /\ M = NobodyIn(L, q)
      \/ \E p \in C :
           /\ ChosenIn(policy, L, p, q, C)
           /\ \A c \in C : RatingIn(policy, L, c, q, C) \in Int
           /\ item.outcome[p] \in Outcome
           /\ M = AttemptIn(policy, L, p, q, item.outcome[p])

-----------------------------------------------------------------------------
(***************************************************************************)
(* The steps of Simulation are steps of that function.                     *)
(***************************************************************************)

\* The fields of the state.
LEMMA HereIs ==
  /\ Here.failures = consecutive_failures /\ Here.left = circuit_left
  /\ Here.attempts = quota_attempts /\ Here.age = window_age
  /\ Here.stats = stats /\ Here.bandit = bandit /\ Here.rows = rows
  BY DEF Here, State

\* The windows.
LEMMA WindowsHere ==
  /\ \A p \in Provider : WindowElapsed(p) <=> ElapsedIn(Here, p)
  /\ AttemptsIn(Here) = AttemptsRefreshed(Provider)
  /\ AgeIn(Here) = AgeRefreshed(Provider)
  BY HereIs DEF WindowElapsed, ElapsedIn, AttemptsIn, AgeIn, AttemptsRefreshed, AgeRefreshed

\* Who is feasible.
LEMMA FeasibleHere == ASSUME NEW q PROVE FeasibleIn(Here, q) = Feasible(q)
  <1>1. \A p \in Provider : AttemptsIn(Here)[p] = AttemptsRefreshed({p})[p]
    BY WindowsHere DEF AttemptsRefreshed
  <1> QED
    BY <1>1, HereIs DEF FeasibleIn, Feasible, Available, QuotaExhausted

\* Scores.
LEMMA RatingHere ==
  ASSUME NEW p, NEW q, NEW C
  PROVE  RatingIn(Policy, Here, p, q, C) = Rating(p, q, C) /\ DivisorIn(Policy, p) = Divisor(p)
  <1>1. PenaltyIn(Here, p, q) = AdaptivePenalty(p, q)
    BY HereIs, WindowsHere DEF PenaltyIn, AdaptivePenalty
  <1>2. UtilityIn(Here, p, q, C) = Utility(p, q, C)
    BY <1>1, HereIs DEF UtilityIn, Utility
  <1>3. RouterScoreIn(Policy, Here, p) = RouterScore(p)
    BY HereIs DEF RouterScoreIn, RouterScore
  <1>4. DivisorIn(Policy, p) = Divisor(p)
    BY DEF DivisorIn, Divisor
  <1> QED
    BY <1>1, <1>2, <1>3, <1>4 DEF RatingIn, Rating

\* Who is chosen.
LEMMA ChosenHere ==
  ASSUME NEW p, NEW q, NEW C
  PROVE  ChosenIn(Policy, Here, p, q, C) <=> Chosen(p, q, C)
  BY RatingHere DEF ChosenIn, Chosen

\* The clock, for any number of ticks.
LEMMA TickIs ==
  ASSUME NEW ticks, TimePasses(ticks), UNCHANGED <<rows, bandit, stats>>
  PROVE  Here' = TickedIn(Here, ticks)
  <1>1. circuit_left' = [p \in Provider |-> CountDown(Here.left[p], ticks)]
    BY HereIs DEF TimePasses
  <1>2. window_age' = [p \in Provider |->
                         IF Here.age[p] = Unset THEN Unset
                         ELSE IF Here.age[p] + ticks < QuotaWindow[p] THEN Here.age[p] + ticks
                         ELSE QuotaWindow[p]]
    BY HereIs DEF TimePasses, Older
  <1>3. consecutive_failures' = Here.failures /\ quota_attempts' = Here.attempts
    BY HereIs DEF TimePasses
  <1>4. stats' = Here.stats /\ bandit' = Here.bandit /\ rows' = Here.rows
    BY HereIs
  <1> QED
    BY <1>1, <1>2, <1>3, <1>4, Zenon DEF TickedIn, Here

\* The clock, for the time of the next item.
LEMMA TickHere ==
  ASSUME TypeInv, SetClock, stage' = "rank"
  PROVE  Here' = TickedIn(Here, Gap(trace', Len(rows) + 1))
  <1> DEFINE n == Len(rows)
  <1>1. TimePasses(trace'[n + 1].at - Clock) /\ UNCHANGED <<rows, bandit, stats>>
    BY ClockSteps DEF SetClock
  <1>2. n \in Nat /\ (rows = <<>> <=> n = 0)
    BY DEF TypeInv, SimulationTypeOK
  <1>3. n # 0 => trace'[n] = trace[n]
    <2>1. trace \in Seq(TraceItem) /\ n <= Len(trace)
      BY DEF TypeInv, SimulationTypeOK
    <2>2. UNCHANGED trace \/ \E item : trace' = Append(trace, item)
      BY DEF SetClock
    <2> QED
      BY <1>2, <2>1, <2>2
  <1> HIDE DEF n
  <1>4. Gap(trace', n + 1) = trace'[n + 1].at - Clock
    <2>1. CASE n = 0
      BY <1>2, <2>1 DEF Gap, Clock
    <2>2. CASE n # 0
      <3>1. n + 1 # 1 /\ (n + 1) - 1 = n
        BY <1>2, <2>2
      <3>2. Clock = trace'[n].at
        BY <1>2, <1>3, <2>2 DEF Clock, n
      <3> QED
        BY <3>1, <3>2 DEF Gap
    <2> QED
      BY <2>1, <2>2
  <1>5. Here' = TickedIn(Here, trace'[n + 1].at - Clock)
    BY <1>1, TickIs
  <1> QED
    BY <1>4, <1>5 DEF n

\* A request nobody can take.
LEMMA NobodyHere ==
  ASSUME NobodyEligible
  PROVE  Here' = NobodyIn(Here, Item.request)
  <1>1. /\ quota_attempts' = AttemptsIn(Here) /\ window_age' = AgeIn(Here)
    BY WindowsHere DEF NobodyEligible, RefreshQuota
  <1>2. rows' = Append(rows, RowOf(NoProvider, Item.request, "no_provider", None, None))
    BY DEF NobodyEligible, NextRow, EmptyRow, RowOf
  <1>3. UNCHANGED <<consecutive_failures, circuit_left, bandit, stats>>
    BY DEF NobodyEligible
  <1> QED
    BY <1>1, <1>2, <1>3, HereIs DEF NobodyIn, Here

\* The window of the provider that is called.
LEMMA CountedHere ==
  ASSUME NEW p \in Provider, RecordAttempt(p, Provider)
  PROVE  quota_attempts' = CountedIn(Here, p) /\ window_age' = StartedIn(Here, p)
  <1>1. Provider \cup {p} = Provider
    OBVIOUS
  <1> QED
    BY <1>1, WindowsHere DEF RecordAttempt, CountedIn, StartedIn

\* The trace says nothing.
LEMMA MissingHere ==
  ASSUME NEW p \in Provider, NEW o, MissingOutcome(p, o)
  PROVE  Here' = MissingIn(Here, p, Item.request)
  <1>1. quota_attempts' = CountedIn(Here, p) /\ window_age' = StartedIn(Here, p)
    BY CountedHere DEF MissingOutcome
  <1>2. rows' = Append(rows, RowOf(p, Item.request, "missing_outcome",
                                   ProfileQuality(p, Item.request),
                                   ShownPressure(p, CountedIn(Here, p))))
    BY <1>1 DEF MissingOutcome, NextRow, RowWithout, EmptyRow, RowOf
  <1>3. UNCHANGED <<consecutive_failures, circuit_left, bandit, stats>>
    BY DEF MissingOutcome, circuitVars
  <1> QED
    BY <1>1, <1>2, <1>3, HereIs DEF MissingIn, Here

\* What the policy learns.
LEMMA TaughtHere ==
  ASSUME NEW p, NEW r, Feedback(p, r)
  PROVE  bandit' = TaughtIn(Policy, Here, p, Item.request, r)
  BY HereIs DEF Feedback, TaughtIn

\* The provider fails.
LEMMA FailureHere ==
  ASSUME NEW p \in Provider, NEW o, ProviderFailure(p, o)
  PROVE  Here' = FailureIn(Policy, Here, p, Item.request)
  <1>1. quota_attempts' = CountedIn(Here, p) /\ window_age' = StartedIn(Here, p)
    BY CountedHere DEF ProviderFailure
  <1>2. rows' = Append(rows, RowOf(p, Item.request, "provider_failure",
                                   ProfileQuality(p, Item.request),
                                   ShownPressure(p, CountedIn(Here, p))))
    BY <1>1 DEF ProviderFailure, NextRow, RowWithout, EmptyRow, RowOf
  <1>3. bandit' = TaughtIn(Policy, Here, p, Item.request, 0)
    BY TaughtHere DEF ProviderFailure
  <1>4. /\ consecutive_failures' = [Here.failures EXCEPT ![p] = MoreFailuresIn(Here, p)]
        /\ circuit_left' = [Here.left EXCEPT ![p] = IF MoreFailuresIn(Here, p) >= FailureThreshold
                                                      THEN Cooldown ELSE @]
    BY HereIs DEF ProviderFailure, RecordFailure, FailuresAfter, MoreFailuresIn
  <1>5. stats' = [Here.stats EXCEPT ![p] = AfterFailure(@)]
    BY HereIs DEF ProviderFailure
  <1> QED
    BY <1>1, <1>2, <1>3, <1>4, <1>5, HereIs DEF FailureIn, Here

\* The provider answers.
LEMMA SuccessHere ==
  ASSUME NEW p \in Provider, NEW o, Success(p, o)
  PROVE  Here' = SuccessIn(Policy, Here, p, Item.request, o)
  <1>1. quota_attempts' = CountedIn(Here, p) /\ window_age' = StartedIn(Here, p)
    BY CountedHere DEF Success
  <1>2. stats' = AnsweredIn(Here, p, o)
    BY HereIs DEF Success, AnsweredIn, CostIn
  <1>3. Reward(p, o, CostIn(p, o)) = RewardIn(Here, p, Item.request, o)
    BY <1>1, <1>2 DEF Reward, RewardIn
  <1>4. bandit' = TaughtIn(Policy, Here, p, Item.request, RewardIn(Here, p, Item.request, o))
    <2>1. Feedback(p, Reward(p, o, CostIn(p, o)))
      BY DEF Success, CostIn
    <2> QED
      BY <1>3, <2>1, TaughtHere
  <1>5. rows' = Append(rows, [provider |-> p, class |-> ClassOf(Item.request), status |-> "success",
                              latency |-> o.latency, cost |-> CostIn(p, o), quality |-> o.quality,
                              profile_quality |-> ProfileQuality(p, Item.request),
                              pressure |-> ShownPressure(p, CountedIn(Here, p))])
    BY <1>1 DEF Success, NextRow, CostIn
  <1>6. /\ consecutive_failures' = [Here.failures EXCEPT ![p] = 0]
        /\ circuit_left' = [Here.left EXCEPT ![p] = 0]
    BY HereIs DEF Success, RecordSuccess
  <1> QED
    BY <1>1, <1>2, <1>4, <1>5, <1>6, HereIs DEF SuccessIn, Here

\* An attempt with a row to show for it.
LEMMA AttemptHere ==
  ASSUME NEW p \in Provider, NEW o \in Outcome,
         MissingOutcome(p, o) \/ ProviderFailure(p, o) \/ Success(p, o)
  PROVE  Here' = AttemptIn(Policy, Here, p, Item.request, o)
  <1>1. CASE MissingOutcome(p, o)
    BY <1>1, MissingHere DEF MissingOutcome, AttemptIn
  <1>2. CASE ProviderFailure(p, o)
    BY <1>2, FailureHere DEF ProviderFailure, AttemptIn
  <1>3. CASE Success(p, o)
    BY <1>3, SuccessHere DEF Success, AttemptIn
  <1> QED
    BY <1>1, <1>2, <1>3

-----------------------------------------------------------------------------
(***************************************************************************)
(* It is a function: there is one choice and one result of it.             *)
(***************************************************************************)

\* Two providers are not both ahead of each other.
LEMMA ChosenOnce ==
  ASSUME NEW policy, NEW L, NEW q, NEW C \in SUBSET Provider,
         \A c \in C : RatingIn(policy, L, c, q, C) \in Int,
         NEW p \in C, ChosenIn(policy, L, p, q, C),
         NEW r \in C, ChosenIn(policy, L, r, q, C)
  PROVE  p = r
  <1> SUFFICES ASSUME p # r PROVE FALSE
    OBVIOUS
  <1> DEFINE a == RatingIn(policy, L, p, q, C)
             b == RatingIn(policy, L, r, q, C)
             d == DivisorIn(policy, p)
             e == DivisorIn(policy, r)
  <1>1. a \in Int /\ b \in Int
    OBVIOUS
  <1>2. d \in Int /\ e \in Int
    BY SimulationAssumption DEF DivisorIn
  <1>3. Position[p] \in Nat /\ Position[r] \in Nat
    BY SimulationAssumption
  <1>4. a * e < b * d \/ (a * e = b * d /\ Position[p] < Position[r])
    BY DEF ChosenIn
  <1>5. b * d < a * e \/ (b * d = a * e /\ Position[r] < Position[p])
    BY DEF ChosenIn
  <1> HIDE DEF a, b, d, e
  <1>6. a * e \in Int /\ b * d \in Int
    BY <1>1, <1>2, SMTT(30)
  <1> QED
    BY <1>3, <1>4, <1>5, <1>6

\* One item takes a state to one other.
LEMMA ReplayedOnce ==
  ASSUME NEW policy, NEW item, NEW L,
         NEW M, ReplayedIn(policy, item, L, M), NEW N, ReplayedIn(policy, item, L, N)
  PROVE  M = N
  <1> DEFINE q == item.request
             C == FeasibleIn(L, q)
             By(p, K) == /\ ChosenIn(policy, L, p, q, C)
                         /\ \A c \in C : RatingIn(policy, L, c, q, C) \in Int
                         /\ item.outcome[p] \in Outcome
                         /\ K = AttemptIn(policy, L, p, q, item.outcome[p])
  <1>1. C \in SUBSET Provider
    BY DEF FeasibleIn
  <1>2. /\ (C = {} /\ M = NobodyIn(L, q)) \/ (\E p \in C : By(p, M))
        /\ (C = {} /\ N = NobodyIn(L, q)) \/ (\E p \in C : By(p, N))
    BY DEF ReplayedIn
  <1> HIDE DEF C
  <1>3. CASE C = {}
    BY <1>2, <1>3
  <1>4. CASE C # {}
    <2>1. PICK p \in C : By(p, M)
      BY <1>2, <1>4
    <2>2. PICK r \in C : By(r, N)
      BY <1>2, <1>4
    <2>3. p = r
      BY <1>1, <2>1, <2>2, ChosenOnce
    <2> QED
      BY <2>1, <2>2, <2>3
  <1> QED
    BY <1>3, <1>4

\* The new item is the old one, with an outcome drawn perhaps.
Extends(new, old) ==
  /\ new.request = old.request /\ new.at = old.at
  /\ \A p \in Provider : old.outcome[p] \in Outcome => new.outcome[p] = old.outcome[p]

\* What is drawn later makes no difference to what has been replayed.
LEMMA ReplayedKept ==
  ASSUME NEW policy, NEW old, NEW new, Extends(new, old), NEW L,
         NEW M, ReplayedIn(policy, old, L, M)
  PROVE  ReplayedIn(policy, new, L, M)
  <1> DEFINE q == old.request
             C == FeasibleIn(L, q)
  <1>1. new.request = q
    BY DEF Extends
  <1>2. CASE C = {} /\ M = NobodyIn(L, q)
    BY <1>1, <1>2, Zenon DEF ReplayedIn
  <1>3. CASE \E p \in C : /\ ChosenIn(policy, L, p, q, C)
                          /\ \A c \in C : RatingIn(policy, L, c, q, C) \in Int
                          /\ old.outcome[p] \in Outcome
                          /\ M = AttemptIn(policy, L, p, q, old.outcome[p])
    <2>1. PICK p \in C : /\ ChosenIn(policy, L, p, q, C)
                         /\ \A c \in C : RatingIn(policy, L, c, q, C) \in Int
                         /\ old.outcome[p] \in Outcome
                         /\ M = AttemptIn(policy, L, p, q, old.outcome[p])
      BY <1>3
    <2>2. p \in Provider
      BY DEF FeasibleIn
    <2>3. new.outcome[p] = old.outcome[p]
      BY <2>1, <2>2 DEF Extends
    <2>4. /\ new.outcome[p] \in Outcome
          /\ M = AttemptIn(policy, L, p, q, new.outcome[p])
      BY <2>1, <2>3
    <2> QED
      BY <1>1, <2>1, <2>4, Zenon DEF ReplayedIn
  <1> QED
    BY <1>2, <1>3 DEF ReplayedIn

-----------------------------------------------------------------------------
(***************************************************************************)
(* The history of a replay.                                                *)
(***************************************************************************)

\* h[m] is the state after m items of the trace t.
History(h, t, policy, n) ==
  /\ h[0] = Fresh
  /\ \A m \in 0 .. n - 1 :
       ReplayedIn(policy, t[m + 1], TickedIn(h[m], Gap(t, m + 1)), h[m + 1])

\* There is one history of a policy and a trace.
LEMMA HistoriesAgree ==
  ASSUME NEW t, NEW policy, NEW n \in Nat,
         NEW g, History(g, t, policy, n), NEW h, History(h, t, policy, n)
  PROVE  g[n] = h[n]
  <1> DEFINE Same == {m \in Nat : m <= n => g[m] = h[m]}
  <1>1. 0 \in Same
    BY DEF History
  <1>2. ASSUME NEW m \in Same PROVE m + 1 \in Same
    <2> SUFFICES ASSUME m + 1 <= n PROVE g[m + 1] = h[m + 1]
      OBVIOUS
    <2>1. m \in Nat /\ m \in 0 .. n - 1 /\ g[m] = h[m]
      OBVIOUS
    <2>2. /\ ReplayedIn(policy, t[m + 1], TickedIn(g[m], Gap(t, m + 1)), g[m + 1])
          /\ ReplayedIn(policy, t[m + 1], TickedIn(g[m], Gap(t, m + 1)), h[m + 1])
      BY <2>1 DEF History
    <2>3. \A item, L, M, N :
            ReplayedIn(policy, item, L, M) /\ ReplayedIn(policy, item, L, N) => M = N
      BY ReplayedOnce
    <2> QED
      BY <2>2, <2>3
  <1>3. Same = Nat
    <2>1. Same \in SUBSET Nat
      OBVIOUS
    <2> HIDE DEF Same
    <2> QED
      BY <1>1, <1>2, <2>1, NatInductionOnSet
  <1> QED
    BY <1>3

\* A history stays one when outcomes and items are drawn.
LEMMA HistoryKept ==
  ASSUME NEW t, NEW u, NEW policy, NEW n \in Nat, \A k \in 1 .. n : Extends(u[k], t[k]),
         NEW h, History(h, t, policy, n)
  PROVE  History(h, u, policy, n)
  <1> SUFFICES ASSUME NEW m \in 0 .. n - 1
               PROVE  ReplayedIn(policy, u[m + 1], TickedIn(h[m], Gap(u, m + 1)), h[m + 1])
    BY DEF History
  <1>1. ReplayedIn(policy, t[m + 1], TickedIn(h[m], Gap(t, m + 1)), h[m + 1])
    BY DEF History
  <1>2. m + 1 \in 1 .. n
    OBVIOUS
  <1>3. Extends(u[m + 1], t[m + 1])
    BY <1>2
  <1>4. Gap(u, m + 1) = Gap(t, m + 1)
    <2>1. u[m + 1].at = t[m + 1].at
      BY <1>3 DEF Extends
    <2>2. CASE m = 0
      BY <2>1, <2>2 DEF Gap
    <2>3. CASE m # 0
      <3>1. m \in 1 .. n /\ (m + 1) - 1 = m /\ m + 1 # 1
        BY <2>3
      <3>2. u[m].at = t[m].at
        BY <3>1 DEF Extends
      <3> QED
        BY <2>1, <3>1, <3>2 DEF Gap
    <2> QED
      BY <2>2, <2>3
  <1> QED
    BY <1>1, <1>3, <1>4, ReplayedKept

\* There is a history of n items that ends with L.
Leads(t, policy, n, L) == \E h : History(h, t, policy, n) /\ h[n] = L

\* A history goes on with the next item.
LEMMA HistoryGoesOn ==
  ASSUME NEW t, NEW policy, NEW n \in Nat, NEW h, History(h, t, policy, n),
         NEW M, ReplayedIn(policy, t[n + 1], TickedIn(h[n], Gap(t, n + 1)), M)
  PROVE  Leads(t, policy, n + 1, M)
  <1>1. PICK g : g = [m \in 0 .. n + 1 |-> IF m = n + 1 THEN M ELSE h[m]]
    OBVIOUS
  <1>2. g[n + 1] = M /\ \A m \in 0 .. n : g[m] = h[m]
    BY <1>1
  <1>3. g[0] = Fresh
    BY <1>2 DEF History
  <1>4. ASSUME NEW m \in 0 .. (n + 1) - 1
        PROVE  ReplayedIn(policy, t[m + 1], TickedIn(g[m], Gap(t, m + 1)), g[m + 1])
    <2>1. CASE m = n
      BY <1>2, <2>1
    <2>2. CASE m # n
      <3>1. m \in 0 .. n - 1 /\ m \in 0 .. n /\ m + 1 \in 0 .. n
        BY <2>2
      <3>2. g[m] = h[m] /\ g[m + 1] = h[m + 1]
        BY <1>2, <3>1
      <3>3. ReplayedIn(policy, t[m + 1], TickedIn(h[m], Gap(t, m + 1)), h[m + 1])
        BY <3>1 DEF History
      <3> QED
        BY <3>2, <3>3
    <2> QED
      BY <2>1, <2>2
  <1> QED
    <2>1. History(g, t, policy, n + 1)
      BY <1>3, <1>4, Zenon DEF History
    <2> QED
      BY <1>2, <2>1 DEF Leads

-----------------------------------------------------------------------------
(***************************************************************************)
(* Scores are numbers: the bonus is looked up where there is one, because  *)
(* the observations of a class are no more than the rows.                  *)
(***************************************************************************)
Observed(class) == [p \in Provider |-> bandit[<<class, p>>].count]

CountsInv ==
  \A class \in Route!TaskClass : SumFunctionOnSet(Observed(class), Provider) <= Len(rows)

\* The statistics of a provider in a class.
LEMMA StatType ==
  ASSUME TypeInv, NEW class \in Route!TaskClass, NEW p \in Provider
  PROVE  /\ bandit[<<class, p>>].count \in Nat /\ bandit[<<class, p>>].mean \in Int
         /\ Observed(class)[p] = bandit[<<class, p>>].count
  <1>1. bandit[<<class, p>>] \in [count : Nat, mean : 0 .. Full]
    BY DEF TypeInv, SimulationTypeOK
  <1> QED
    BY <1>1, Wholes DEF Observed

\* There is a bonus for every provider the policy looks at.
LEMMA BonusType ==
  ASSUME TypeInv, CountsInv, stage = "rank", NEW q, NEW p \in Feasible(q)
  PROVE  Utility(p, q, Feasible(q)) \in Int
  <1> DEFINE class == ClassOf(q)
             C == Feasible(q)
             f == [c \in C |-> bandit[<<class, c>>].count]
             g == Observed(class)
             total == SumFunctionOnSet(f, C)
             stat == bandit[<<class, p>>]
  <1>1. C \in SUBSET Provider /\ p \in C /\ p \in Provider /\ class \in Route!TaskClass
    BY ClassType DEF Feasible
  <1>2. \A c \in Provider : g[c] \in Nat /\ g[c] = bandit[<<class, c>>].count
    BY <1>1, StatType
  <1>3. /\ \A c \in C : g[c] \in Int /\ f[c] = g[c]
        /\ \A c \in Provider : g[c] \in Int
    <2>1. ASSUME NEW c \in Provider PROVE g[c] \in Int
      <3>1. g[c] \in Nat
        BY <1>2
      <3> QED
        BY <3>1
    <2>2. ASSUME NEW c \in C PROVE f[c] = g[c]
      BY <1>1, <1>2
    <2> QED
      BY <1>1, <2>1, <2>2
  <1>4. IsFiniteSet(Provider) /\ IsFiniteSet(C)
    BY <1>1, SimulationAssumption, FS_Subset
  <1>5. stat.count \in Nat /\ stat.mean \in Int /\ g[p] = stat.count
    BY <1>1, StatType
  <1>6. /\ Utility(p, q, C) = (IF stat.count > 0 THEN stat.mean ELSE Full - AdaptivePenalty(p, q))
                                + Bonus[total][stat.count]
    BY DEF Utility
  <1>7. SumFunctionOnSet(g, Provider) <= Len(rows)
    BY <1>1 DEF CountsInv
  <1> HIDE DEF class, C, f, g
  <1>8. total = SumFunctionOnSet(g, C)
    BY <1>3, <1>4, SumSame
  <1>9. /\ SumFunctionOnSet(g, C) \in Nat
        /\ SumFunctionOnSet(g, C) <= SumFunctionOnSet(g, Provider)
        /\ g[p] <= SumFunctionOnSet(g, C)
    BY <1>1, <1>2, <1>4, SumPart
  <1>10. SumFunctionOnSet(g, Provider) \in Int
    BY <1>3, <1>4, SumType
  <1>11. /\ Len(rows) \in Nat /\ Len(rows) < simulation.length /\ simulation.length \in Nat
         /\ simulation \in Simulations
    BY SimulationType DEF TypeInv, SimulationTypeOK
  <1> HIDE DEF total, stat
  <1>12. total \in 0 .. simulation.length - 1 /\ stat.count \in 0 .. total
    BY <1>5, <1>7, <1>8, <1>9, <1>10, <1>11
  <1>13. Bonus[total][stat.count] \in Int
    BY <1>11, <1>12, SimulationAssumption
  <1>14. AdaptivePenalty(p, q) \in Int
    BY TermTypes, Wholes DEF AdaptivePenalty, Penalty
  <1> QED
    BY <1>5, <1>6, <1>13, <1>14, Wholes DEF C

\* Every feasible provider has a score.
LEMMA RatingType ==
  ASSUME TypeInv, CountsInv, stage = "rank", NEW q, NEW p \in Feasible(q)
  PROVE  Rating(p, q, Feasible(q)) \in Int
  <1>1. Policy \in SimulationPolicies
    BY PolicyType
  <1>2. Utility(p, q, Feasible(q)) \in Int
    BY BonusType
  <1>3. AdaptivePenalty(p, q) \in Int
    BY TermTypes, Wholes DEF AdaptivePenalty, Penalty
  <1>4. Policy \in {"latency", "cost", "quality", "balanced"} => RouterScore(p) \in Int
    BY TermTypes, Wholes DEF RouterScore
  <1> QED
    BY <1>1, <1>2, <1>3, <1>4 DEF Rating, SimulationPolicies, StaticPolicies

\* Feedback is one observation at most, and comes with a row.
LEMMA CountsMore ==
  ASSUME TypeInv, CountsInv, NEW p \in Provider, NEW r, Feedback(p, r),
         NEW row, rows' = Append(rows, row)
  PROVE  CountsInv'
  <1> SUFFICES ASSUME NEW class \in Route!TaskClass
               PROVE  SumFunctionOnSet(Observed(class)', Provider) <= Len(rows')
    BY DEF CountsInv
  <1> DEFINE f == Observed(class)
             g == Observed(class)'
  <1>1. Len(rows') = Len(rows) + 1 /\ Len(rows) \in Nat
    BY DEF TypeInv, SimulationTypeOK
  <1>2. \A c \in Provider : f[c] \in Int
    <2> SUFFICES ASSUME NEW c \in Provider PROVE Observed(class)[c] \in Int
      OBVIOUS
    <2>1. bandit[<<class, c>>].count \in Nat /\ Observed(class)[c] = bandit[<<class, c>>].count
      BY StatType
    <2> QED
      BY <2>1
  <1>3. /\ \A c \in Provider \ {p} : g[c] = f[c]
        /\ g[p] = f[p] \/ g[p] = f[p] + 1
    <2>1. bandit \in Banditry
      BY DEF TypeInv, SimulationTypeOK, Banditry
    <2>2. ClassOf(Item.request) \in Route!TaskClass
      BY ClassType
    <2>3. \A key \in Route!TaskClass \X Provider :
            IF key = <<ClassOf(Item.request), p>>
              THEN bandit'[key].count = bandit[key].count
                     \/ bandit'[key].count = bandit[key].count + 1
              ELSE bandit'[key] = bandit[key]
      BY <2>1, <2>2 DEF Feedback, Updated, Banditry
    <2>4. \A c \in Provider :
            g[c] = bandit'[<<class, c>>].count /\ f[c] = bandit[<<class, c>>].count
      BY DEF Observed
    <2>5. ASSUME NEW c \in Provider \ {p} PROVE g[c] = f[c]
      <3>1. /\ <<class, c>> \in Route!TaskClass \X Provider
            /\ <<class, c>> # <<ClassOf(Item.request), p>>
        OBVIOUS
      <3>2. bandit'[<<class, c>>] = bandit[<<class, c>>]
        BY <2>3, <3>1
      <3> QED
        BY <2>4, <3>2
    <2>6. <<class, p>> \in Route!TaskClass \X Provider
      OBVIOUS
    <2>7. \/ bandit'[<<class, p>>].count = bandit[<<class, p>>].count
          \/ bandit'[<<class, p>>].count = bandit[<<class, p>>].count + 1
      BY <2>3, <2>6
    <2> QED
      BY <2>4, <2>5, <2>7
  <1>4. IsFiniteSet(Provider)
    BY SimulationAssumption
  <1>5. SumFunctionOnSet(f, Provider) <= Len(rows)
    BY DEF CountsInv
  <1> HIDE DEF f, g
  <1>6. g[p] \in Int /\ f[p] \in Int
    BY <1>2, <1>3
  <1>7. SumFunctionOnSet(g, Provider) = SumFunctionOnSet(f, Provider) + (g[p] - f[p])
    BY <1>2, <1>3, <1>4, <1>6, SumChange
  <1>8. SumFunctionOnSet(f, Provider) \in Int
    BY <1>2, <1>4, SumType
  <1>9. SumFunctionOnSet(g, Provider) <= Len(rows')
    BY <1>1, <1>3, <1>5, <1>6, <1>7, <1>8
  <1> QED
    BY <1>9 DEF g

\* Without feedback there is nothing to count.
LEMMA CountsKept ==
  ASSUME TypeInv, CountsInv, UNCHANGED bandit, NEW n \in Nat, Len(rows') = Len(rows) + n
  PROVE  CountsInv'
  <1> SUFFICES ASSUME NEW class \in Route!TaskClass
               PROVE  SumFunctionOnSet(Observed(class), Provider) <= Len(rows')
    BY DEF CountsInv, Observed
  <1>1. Len(rows) \in Nat
    BY DEF TypeInv, SimulationTypeOK
  <1>2. \A c \in Provider : Observed(class)[c] \in Int
    <2> SUFFICES ASSUME NEW c \in Provider PROVE Observed(class)[c] \in Int
      OBVIOUS
    <2>1. bandit[<<class, c>>].count \in Nat /\ Observed(class)[c] = bandit[<<class, c>>].count
      BY StatType
    <2> QED
      BY <2>1
  <1>3. SumFunctionOnSet(Observed(class), Provider) \in Int
    BY <1>2, SumType, SimulationAssumption
  <1>4. SumFunctionOnSet(Observed(class), Provider) <= Len(rows)
    BY DEF CountsInv
  <1> QED
    BY <1>1, <1>3, <1>4

\* A policy starts without observations.
LEMMA CountsStart ==
  ASSUME bandit = NoBandit, rows = <<>>
  PROVE  CountsInv
  <1> SUFFICES ASSUME NEW class \in Route!TaskClass
               PROVE  SumFunctionOnSet(Observed(class), Provider) <= Len(rows)
    BY DEF CountsInv
  <1>1. \A p \in Provider : Observed(class)[p] = 0
    BY DEF Observed, NoBandit
  <1>2. SumFunctionOnSet(Observed(class), Provider) = 0
    BY <1>1, NoTotal
  <1>3. Len(<<>>) = 0
    OBVIOUS
  <1> QED
    BY <1>2, <1>3

\* Every step keeps the observations within the rows.
LEMMA CountsStep ==
  ASSUME TypeInv, CountsInv, [Next]_vars
  PROVE  CountsInv'
  <1>1. rows \in Seq(Row) /\ Len(rows) \in Nat
    BY DEF TypeInv, SimulationTypeOK
  <1>2. CASE UNCHANGED <<rows, bandit>>
    BY <1>1, <1>2, CountsKept
  <1>3. ASSUME NEW row, rows' = Append(rows, row), UNCHANGED bandit
        PROVE  CountsInv'
    <2>1. Len(rows') = Len(rows) + 1
      BY <1>1, <1>3
    <2> QED
      BY <1>3, <2>1, CountsKept
  <1>4. CASE NobodyEligible
    BY <1>3, <1>4 DEF NobodyEligible, NextRow
  <1>5. ASSUME NEW p \in Provider, NEW o \in Outcome, MissingOutcome(p, o)
        PROVE  CountsInv'
    BY <1>3, <1>5 DEF MissingOutcome, NextRow
  <1>6. ASSUME NEW p \in Provider, NEW o \in Outcome, ProviderFailure(p, o)
        PROVE  CountsInv'
    <2>1. rows' = Append(rows, RowWithout(p, "provider_failure")) /\ Feedback(p, 0)
      BY <1>6 DEF ProviderFailure, NextRow
    <2> QED
      BY <2>1, CountsMore
  <1>7. ASSUME NEW p \in Provider, NEW o \in Outcome, Success(p, o)
        PROVE  CountsInv'
    <2>1. \E row, r : rows' = Append(rows, row) /\ Feedback(p, r)
      BY <1>7 DEF Success, NextRow
    <2> QED
      BY <2>1, CountsMore
  <1>8. CASE EndPolicy
    <2>1. bandit' = NoBandit /\ rows' = <<>>
      BY <1>8 DEF EndPolicy
    <2>2. \A class : Observed(class)' = [p \in Provider |-> NoBandit[<<class, p>>].count]
      BY <2>1 DEF Observed
    <2>3. \A class \in Route!TaskClass : \A p \in Provider : Observed(class)'[p] = 0
      BY <2>2 DEF NoBandit
    <2>4. \A class \in Route!TaskClass : SumFunctionOnSet(Observed(class)', Provider) = 0
      <3> TAKE class \in Route!TaskClass
      <3>1. \A p \in Provider : Observed(class)'[p] = 0
        BY <2>3
      <3> QED
        BY <3>1, NoTotal
    <2>5. Len(rows') = 0
      BY <2>1
    <2> QED
      BY <2>4, <2>5 DEF CountsInv
  <1>9. CASE UNCHANGED vars \/ SetClock \/ \E p \in Provider, o \in Outcome : InvalidOutcome(p, o)
    BY <1>2, <1>9 DEF vars, simVars, SetClock, InvalidOutcome
  <1> QED
    BY <1>4, <1>5, <1>6, <1>7, <1>8, <1>9 DEF Next, AttemptStep

-----------------------------------------------------------------------------
(***************************************************************************)
(* What the replays have left is explained by histories.                   *)
(***************************************************************************)
ResultOf(policy, L) ==
  [policy |-> policy, rows |-> L.rows, summary |-> Summary(L.rows), bandit |-> L.bandit]

\* A result is what a replay of the whole trace leaves.
Explains(result, t, length) ==
  \E h : /\ History(h, t, result.policy, length)
         /\ result = ResultOf(result.policy, h[length])

\* The state is where the history of the rows, and the clock, have led.
Arrived(h) ==
  /\ History(h, trace, Policy, Len(rows))
  /\ Here = IF stage = "clock" THEN h[Len(rows)] ELSE TickedIn(h[Len(rows)], Gap(trace, Len(rows) + 1))

ResultsInv ==
  \A i \in DOMAIN results :
    simulation.length <= Len(trace) /\ Explains(results[i], trace, simulation.length)

ArrivedInv == stage \in {"clock", "rank"} => \E h : Arrived(h)

ReplayInv == CountsInv /\ ResultsInv /\ ArrivedInv

\* Two results of one policy are what the one history leaves.
LEMMA ReplayInvEnough == TypeInv /\ ReplayInv => Reproducible
  <1> SUFFICES ASSUME TypeInv, ReplayInv, NEW i \in DOMAIN results, NEW j \in DOMAIN results,
                      results[i].policy = results[j].policy
               PROVE  results[i] = results[j]
    BY DEF Reproducible
  <1> DEFINE n == simulation.length
             policy == results[i].policy
  <1>1. n \in Nat
    BY SimulationType
  <1>2. PICK g : History(g, trace, policy, n) /\ results[i] = ResultOf(policy, g[n])
    BY DEF ReplayInv, ResultsInv, Explains
  <1>3. PICK h : History(h, trace, policy, n) /\ results[j] = ResultOf(policy, h[n])
    BY DEF ReplayInv, ResultsInv, Explains
  <1> HIDE DEF n
  <1>4. g[n] = h[n]
    BY <1>1, <1>2, <1>3, HistoriesAgree
  <1> QED
    BY <1>2, <1>3, <1>4

\* A choice extends the item it is made for.
LEMMA ChooseExtends ==
  ASSUME TypeInv, NEW p \in Provider, NEW o \in Outcome, Choose(p, o)
  PROVE  /\ Len(trace') = Len(trace)
         /\ \A k \in 1 .. Len(trace) : Extends(trace'[k], trace[k])
         /\ trace'[Len(rows) + 1].outcome[p] = o
         /\ Len(rows) + 1 \in 1 .. Len(trace)
  <1> DEFINE n == Len(rows) + 1
             drawn == [trace[n].outcome EXCEPT ![p] = o]
             item == [trace[n] EXCEPT !.outcome = drawn]
  <1>1. trace \in Seq(TraceItem) /\ n \in 1 .. Len(trace) /\ trace[n] \in TraceItem
    BY ItemType DEF TypeInv, SimulationTypeOK, Choose, Item
  <1>2. trace' = [trace EXCEPT ![n] = item]
    BY DEF Choose
  <1>3. trace[n].outcome[p] \in {Undrawn, o}
    BY DEF Choose, Item
  <1>4. Undrawn \notin Outcome
    BY SimulationAssumption DEF Outcomes, OutcomeKind, Undrawn
  <1>5. drawn[p] = o /\ \A c \in Provider \ {p} : drawn[c] = trace[n].outcome[c]
    BY <1>1 DEF TraceItem
  <1>6. \A c \in Provider : trace[n].outcome[c] \in Outcome => drawn[c] = trace[n].outcome[c]
    BY <1>3, <1>4, <1>5
  <1> HIDE DEF drawn
  <1>7. item.request = trace[n].request /\ item.at = trace[n].at /\ item.outcome = drawn
    BY <1>1 DEF TraceItem
  <1>8. Extends(item, trace[n])
    BY <1>6, <1>7 DEF Extends
  <1> HIDE DEF item
  <1>9. /\ Len(trace') = Len(trace) /\ trace'[n] = item
        /\ \A k \in 1 .. Len(trace) : k # n => trace'[k] = trace[k]
    BY <1>1, <1>2
  <1>10. \A x : Extends(x, x)
    BY DEF Extends
  <1>11. ASSUME NEW k \in 1 .. Len(trace) PROVE Extends(trace'[k], trace[k])
    <2>1. CASE k = n
      BY <1>8, <1>9, <2>1
    <2>2. CASE k # n
      <3>1. trace'[k] = trace[k]
        BY <1>9, <2>2
      <3> QED
        BY <1>10, <3>1
    <2> QED
      BY <2>1, <2>2
  <1>12. trace'[n].outcome[p] = o
    BY <1>5, <1>7, <1>9
  <1> QED
    BY <1>1, <1>9, <1>11, <1>12

\* No step takes anything back from the trace.
LEMMA TraceExtends ==
  ASSUME TypeInv, [Next]_vars
  PROVE  /\ Len(trace') \in Nat /\ Len(trace) \in Nat /\ Len(trace) <= Len(trace')
         /\ \A k \in 1 .. Len(trace) : Extends(trace'[k], trace[k])
  <1>1. trace \in Seq(TraceItem) /\ Len(trace) \in Nat
    BY DEF TypeInv, SimulationTypeOK
  <1>2. \A x : Extends(x, x)
    BY DEF Extends
  <1>3. CASE UNCHANGED trace
    BY <1>1, <1>2, <1>3
  <1>4. ASSUME NEW item, trace' = Append(trace, item)
        PROVE  /\ Len(trace') = Len(trace) + 1
               /\ \A k \in 1 .. Len(trace) : trace'[k] = trace[k]
    BY <1>1, <1>4
  <1>5. CASE \E item : trace' = Append(trace, item)
    BY <1>1, <1>2, <1>4, <1>5
  <1>6. ASSUME NEW p \in Provider, NEW o \in Outcome, AttemptStep(p, o)
        PROVE  /\ Len(trace') = Len(trace)
               /\ \A k \in 1 .. Len(trace) : Extends(trace'[k], trace[k])
    <2>1. Choose(p, o)
      BY <1>6 DEF AttemptStep, MissingOutcome, ProviderFailure, Success, InvalidOutcome
    <2> QED
      BY <2>1, ChooseExtends
  <1>7. UNCHANGED vars \/ NobodyEligible \/ EndPolicy => UNCHANGED trace
    BY DEF vars, simVars, NobodyEligible, EndPolicy
  <1>8. SetClock => UNCHANGED trace \/ \E item : trace' = Append(trace, item)
    BY DEF SetClock
  <1> QED
    BY <1>1, <1>3, <1>5, <1>6, <1>7, <1>8 DEF Next


\* A history of the items replayed is one of the trace a step leaves.
LEMMA StepKeepsHistory ==
  ASSUME TypeInv, [Next]_vars, NEW policy, NEW n \in Nat, n <= Len(trace),
         NEW h, History(h, trace, policy, n)
  PROVE  History(h, trace', policy, n)
  <1>1. \A k \in 1 .. Len(trace) : Extends(trace'[k], trace[k])
    BY TraceExtends
  <1>2. Len(trace) \in Nat
    BY TraceExtends
  <1>3. \A k \in 1 .. n : Extends(trace'[k], trace[k])
    BY <1>1, <1>2
  <1> QED
    BY <1>3, HistoryKept

\* Every step leaves the results explained.
LEMMA ResultsStep ==
  ASSUME TypeInv, ResultsInv, ArrivedInv, [Next]_vars
  PROVE  ResultsInv'
  <1> DEFINE n == simulation.length
  <1>1. n \in Nat /\ Len(trace) <= Len(trace') /\ Len(trace) \in Nat /\ Len(trace') \in Nat
    BY SimulationType, TraceExtends
  <1>2. UNCHANGED simulation /\ (UNCHANGED results \/ EndPolicy)
    <2>1. ASSUME NEW p \in Provider, NEW o \in Outcome, AttemptStep(p, o)
          PROVE  UNCHANGED <<simulation, results>>
      <3>1. Choose(p, o)
        BY <2>1 DEF AttemptStep, MissingOutcome, ProviderFailure, Success, InvalidOutcome
      <3> QED
        BY <3>1 DEF Choose
    <2>2. SetClock => UNCHANGED <<simulation, results>>
      BY DEF SetClock
    <2>3. NobodyEligible => UNCHANGED <<simulation, results>>
      BY DEF NobodyEligible
    <2>4. EndPolicy => UNCHANGED simulation
      BY DEF EndPolicy
    <2>5. UNCHANGED vars => UNCHANGED <<simulation, results>>
      BY DEF vars, simVars
    <2> QED
      BY <2>1, <2>2, <2>3, <2>4, <2>5 DEF Next
  <1>3. ASSUME NEW i \in DOMAIN results
        PROVE  n <= Len(trace') /\ Explains(results[i], trace', n)
    <2>1. n <= Len(trace) /\ Explains(results[i], trace, n)
      BY DEF ResultsInv
    <2>2. PICK h : /\ History(h, trace, results[i].policy, n)
                   /\ results[i] = ResultOf(results[i].policy, h[n])
      BY <2>1 DEF Explains
    <2> HIDE DEF n
    <2>3. History(h, trace', results[i].policy, n)
      BY <1>1, <2>1, <2>2, StepKeepsHistory
    <2> QED
      BY <1>1, <2>1, <2>2, <2>3 DEF Explains
  <1>4. CASE UNCHANGED results
    BY <1>2, <1>3, <1>4 DEF ResultsInv
  <1>5. CASE EndPolicy
    <2>1. PICK h : Arrived(h)
      BY <1>5 DEF EndPolicy, ArrivedInv
    <2>2. /\ Len(rows) = n /\ UNCHANGED trace /\ stage = "clock"
          /\ results' = Append(results, Result)
      BY <1>5 DEF EndPolicy
    <2>3. History(h, trace, Policy, n) /\ Here = h[n]
      BY <2>1, <2>2 DEF Arrived
    <2>4. Result = ResultOf(Policy, h[n]) /\ Result.policy = Policy
      BY <2>3, HereIs DEF Result, ResultOf
    <2>5. Explains(Result, trace', n)
      BY <2>2, <2>3, <2>4 DEF Explains
    <2>6. n <= Len(trace')
      BY <2>2 DEF TypeInv, SimulationTypeOK
    <2>7. \A i \in DOMAIN results' :
            results'[i] = Result \/ (i \in DOMAIN results /\ results'[i] = results[i])
      BY <2>2 DEF TypeInv, ResultsOK
    <2> HIDE DEF n
    <2>8. ASSUME NEW i \in DOMAIN results'
          PROVE  n <= Len(trace') /\ Explains(results'[i], trace', n)
      <3>1. CASE results'[i] = Result
        BY <2>5, <2>6, <3>1
      <3>2. CASE i \in DOMAIN results /\ results'[i] = results[i]
        BY <1>3, <3>2
      <3> QED
        BY <2>7, <3>1, <3>2
    <2> QED
      BY <1>2, <2>8 DEF ResultsInv, n
  <1> QED
    BY <1>2, <1>4, <1>5

\* When a request is replayed, the history goes on with the state it leaves.
LEMMA ReplayArrives ==
  ASSUME TypeInv, [Next]_vars, ArrivedInv, stage = "rank", stage' = "clock",
         UNCHANGED <<simulation, results>>, Len(rows') = Len(rows) + 1,
         ReplayedIn(Policy, trace'[Len(rows) + 1], Here, Here')
  PROVE  ArrivedInv'
  <1>1. PICK h : Arrived(h)
    BY DEF ArrivedInv
  <1>2. PICK n : n = Len(rows)
    OBVIOUS
  <1>3. n \in Nat /\ n < Len(trace) /\ Len(trace) \in Nat
    BY <1>2 DEF TypeInv, SimulationTypeOK
  <1>4. History(h, trace, Policy, n) /\ Here = TickedIn(h[n], Gap(trace, n + 1))
    BY <1>1, <1>2 DEF Arrived
  <1>5. History(h, trace', Policy, n)
    BY <1>3, <1>4, StepKeepsHistory
  <1>6. \A k \in 1 .. n + 1 : trace'[k].at = trace[k].at
    <2>1. \A k \in 1 .. Len(trace) : Extends(trace'[k], trace[k])
      BY TraceExtends
    <2> QED
      BY <1>3, <2>1 DEF Extends
  <1>7. Gap(trace', n + 1) = Gap(trace, n + 1)
    <2>1. n + 1 # 1 => (n + 1) - 1 \in 1 .. n + 1
      BY <1>3
    <2>2. n + 1 \in 1 .. n + 1
      BY <1>3
    <2> QED
      BY <1>6, <2>1, <2>2 DEF Gap
  <1>8. ReplayedIn(Policy, trace'[n + 1], TickedIn(h[n], Gap(trace', n + 1)), Here')
    BY <1>2, <1>4, <1>7
  <1>9. PICK g : History(g, trace', Policy, n + 1) /\ g[n + 1] = Here'
    <2>1. n \in Nat
      BY <1>3
    <2>2. Leads(trace', Policy, n + 1, Here')
      BY <1>5, <1>8, <2>1, HistoryGoesOn
    <2> QED
      BY <2>2 DEF Leads
  <1>10. Policy' = Policy /\ Len(rows') = n + 1
    BY <1>2 DEF Policy
  <1>11. History(g, trace', Policy', Len(rows')) /\ Here' = g[Len(rows')]
    BY <1>9, <1>10
  <1> QED
    BY <1>11 DEF ArrivedInv, Arrived

\* A request somebody takes is replayed as the function says.
LEMMA AttemptReplays ==
  ASSUME TypeInv, CountsInv, NEW p \in Provider, NEW o \in Outcome,
         MissingOutcome(p, o) \/ ProviderFailure(p, o) \/ Success(p, o)
  PROVE  ReplayedIn(Policy, trace'[Len(rows) + 1], Here, Here')
  <1> DEFINE q == Item.request
             C == Feasible(q)
             item == trace'[Len(rows) + 1]
  <1>1. Choose(p, o)
    BY DEF MissingOutcome, ProviderFailure, Success
  <1>2. stage = "rank" /\ p \in C /\ Chosen(p, q, C)
    BY <1>1 DEF Choose
  <1>3. item.request = q /\ item.outcome[p] = o
    BY <1>1, ChooseExtends DEF Item, Extends
  <1>4. FeasibleIn(Here, q) = C /\ ChosenIn(Policy, Here, p, q, C)
    BY <1>2, FeasibleHere, ChosenHere
  <1>5. \A c \in C : RatingIn(Policy, Here, c, q, C) \in Int
    <2> SUFFICES ASSUME NEW c \in C PROVE RatingIn(Policy, Here, c, q, C) \in Int
      OBVIOUS
    <2>1. Rating(c, q, C) \in Int
      BY <1>2, RatingType
    <2> QED
      BY <2>1, RatingHere
  <1>6. Here' = AttemptIn(Policy, Here, p, q, o)
    BY AttemptHere
  <1> HIDE DEF q, C, item
  <1>7. /\ ChosenIn(Policy, Here, p, item.request, FeasibleIn(Here, item.request))
        /\ \A c \in FeasibleIn(Here, item.request) :
             RatingIn(Policy, Here, c, item.request, FeasibleIn(Here, item.request)) \in Int
        /\ p \in FeasibleIn(Here, item.request)
        /\ item.outcome[p] \in Outcome
        /\ Here' = AttemptIn(Policy, Here, p, item.request, item.outcome[p])
    BY <1>2, <1>3, <1>4, <1>5, <1>6
  <1>8. ReplayedIn(Policy, item, Here, Here')
    BY <1>7, Zenon DEF ReplayedIn
  <1> QED
    BY <1>8 DEF item

\* Every step leaves the state explained.
LEMMA ArrivedStep ==
  ASSUME TypeInv, CountsInv, ArrivedInv, [Next]_vars
  PROVE  ArrivedInv'
  <1>1. rows \in Seq(Row) /\ Len(rows) \in Nat /\ Len(rows) <= Len(trace)
    BY DEF TypeInv, SimulationTypeOK
  <1>2. CASE UNCHANGED vars
    <2>1. UNCHANGED <<simulation, trace, stage, rows, bandit, stats, results>>
            /\ UNCHANGED stateVars
      BY <1>2 DEF vars, simVars
    <2>2. UNCHANGED <<Here, Policy, Item>>
      BY <2>1 DEF Here, Policy, Item, stateVars, circuitVars, quotaVars
    <2> QED
      BY <2>1, <2>2 DEF ArrivedInv, Arrived
  <1>3. CASE SetClock
    <2> SUFFICES ASSUME stage' = "rank" PROVE ArrivedInv'
      BY <1>3 DEF SetClock, ArrivedInv
    <2>1. stage = "clock" /\ UNCHANGED <<simulation, rows, results>>
      BY <1>3 DEF SetClock
    <2>2. PICK h : Arrived(h)
      BY <2>1 DEF ArrivedInv
    <2>3. History(h, trace, Policy, Len(rows)) /\ Here = h[Len(rows)]
      BY <2>1, <2>2 DEF Arrived
    <2>4. History(h, trace', Policy, Len(rows))
      BY <1>1, <2>3, StepKeepsHistory
    <2>5. Here' = TickedIn(h[Len(rows)], Gap(trace', Len(rows) + 1))
      BY <1>3, <2>3, TickHere
    <2>6. Policy' = Policy /\ Len(rows') = Len(rows)
      BY <2>1 DEF Policy
    <2>7. /\ History(h, trace', Policy', Len(rows'))
          /\ Here' = TickedIn(h[Len(rows')], Gap(trace', Len(rows') + 1))
      BY <2>4, <2>5, <2>6
    <2> QED
      BY <2>7 DEF ArrivedInv, Arrived
  <1>4. CASE NobodyEligible
    <2>1. /\ stage = "rank" /\ stage' = "clock" /\ UNCHANGED <<simulation, trace, results>>
          /\ Feasible(Item.request) = {}
      BY <1>4 DEF NobodyEligible, NextRow
    <2>2. Len(rows') = Len(rows) + 1
      BY <1>1, <1>4 DEF NobodyEligible, NextRow
    <2>3. FeasibleIn(Here, Item.request) = {} /\ Here' = NobodyIn(Here, Item.request)
      BY <1>4, <2>1, FeasibleHere, NobodyHere
    <2>4. trace'[Len(rows) + 1] = Item
      BY <2>1 DEF Item
    <2>5. ReplayedIn(Policy, Item, Here, Here')
      BY <2>3 DEF ReplayedIn
    <2> QED
      BY <2>1, <2>2, <2>4, <2>5, ReplayArrives
  <1>5. ASSUME NEW p \in Provider, NEW o \in Outcome,
               MissingOutcome(p, o) \/ ProviderFailure(p, o) \/ Success(p, o)
        PROVE  ArrivedInv'
    <2>1. /\ stage = "rank" /\ stage' = "clock" /\ UNCHANGED <<simulation, results>>
          /\ \E row : rows' = Append(rows, row)
      BY <1>5 DEF MissingOutcome, ProviderFailure, Success, Choose, NextRow
    <2>2. Len(rows') = Len(rows) + 1
      BY <1>1, <2>1
    <2>3. ReplayedIn(Policy, trace'[Len(rows) + 1], Here, Here')
      BY <1>5, AttemptReplays
    <2> QED
      BY <2>1, <2>2, <2>3, ReplayArrives
  <1>6. ASSUME NEW p \in Provider, NEW o \in Outcome, InvalidOutcome(p, o)
        PROVE  ArrivedInv'
    BY <1>6 DEF InvalidOutcome, ArrivedInv
  <1>7. CASE EndPolicy
    <2>1. PICK h : h = [m \in {0} |-> Fresh]
      OBVIOUS
    <2>2. /\ rows' = <<>> /\ bandit' = NoBandit /\ stats' = FreshStats
          /\ consecutive_failures' = [p \in Provider |-> 0]
          /\ circuit_left' = [p \in Provider |-> 0]
          /\ quota_attempts' = [p \in Provider |-> 0]
          /\ window_age' = [p \in Provider |-> Unset]
          /\ stage' \in {"clock", "done"}
      BY <1>7 DEF EndPolicy
    <2>3. Here' = Fresh
      BY <2>2, Zenon DEF Here, Fresh
    <2>4. Len(rows') = 0
      BY <2>2
    <2>5. h[0] = Fresh
      BY <2>1
    <2>6. History(h, trace', Policy', Len(rows'))
      BY <2>4, <2>5 DEF History
    <2>7. stage' \in {"clock", "rank"} => Arrived(h)'
      BY <2>2, <2>3, <2>4, <2>5, <2>6 DEF Arrived
    <2> QED
      BY <2>7 DEF ArrivedInv
  <1> QED
    BY <1>2, <1>3, <1>4, <1>5, <1>6, <1>7 DEF Next, AttemptStep

\* simulate() starts as the histories do.
LEMMA ReplayInit == Init => ReplayInv
  <1> SUFFICES ASSUME Init PROVE ReplayInv
    OBVIOUS
  <1>1. CountsInv
    BY CountsStart DEF Init
  <1>2. ResultsInv
    BY DEF Init, ResultsInv
  <1>3. PICK h : h = [m \in {0} |-> Fresh]
    OBVIOUS
  <1>4. Here = Fresh
    BY DEF Init, StateInit, Here, Fresh
  <1>5. h[0] = Fresh /\ Len(rows) = 0 /\ stage = "clock"
    BY <1>3 DEF Init
  <1>6. Arrived(h)
    BY <1>4, <1>5 DEF Arrived, History
  <1> QED
    BY <1>1, <1>2, <1>6 DEF ReplayInv, ArrivedInv

\* simulate_policy makes a clock, a store, a router and bandit statistics of
\* its own for every policy: one that is simulated again after others, over
\* outcomes that have been drawn for those as well, gives the same result.
THEOREM ReproducibleAlways == Spec => []Reproducible
  <1>1. Init => StoreInv /\ TypeInv /\ ReplayInv
    BY InitStore, InitType, ReplayInit
  <1>2. StoreInv /\ TypeInv /\ ReplayInv /\ [Next]_vars => (StoreInv /\ TypeInv /\ ReplayInv)'
    BY StoreStep, TypeStep, CountsStep, ResultsStep, ArrivedStep DEF ReplayInv
  <1>3. TypeInv /\ ReplayInv => Reproducible
    BY ReplayInvEnough
  <1> QED
    BY <1>1, <1>2, <1>3, PTL DEF Spec

===============================================================================
