--------------------------- MODULE SimulationProofs ---------------------------
(***************************************************************************)
(* Theorems about Simulation, for any providers, prices, quotas, profiles, *)
(* traces and lists of policies.                                           *)
(***************************************************************************)
EXTENDS Simulation, RuntimeStateProofs, DataFacts

-----------------------------------------------------------------------------
(***************************************************************************)
(* Numbers.                                                                *)
(***************************************************************************)

\* What the division of the model gives.
LEMMA Quotient ==
  ASSUME NEW n \in Int, NEW d \in Nat \ {0}
  PROVE  /\ n \div d \in Int
         /\ d * (n \div d) <= n
         /\ n < d * (n \div d) + d
  BY SMTT(30)

\* A share of something countable is a natural number.
LEMMA QuotientNat ==
  ASSUME NEW n \in Nat, NEW d \in Nat \ {0}
  PROVE  n \div d \in Nat
  BY SMTT(30)

\* Token counts times prices.
LEMMA ProductNat ==
  ASSUME NEW a \in Nat, NEW b \in Nat
  PROVE  a * b \in Nat
  BY SMTT(30)

\* A step towards r that is a share of the way ends between m and r.
LEMMA PartOfTheWay ==
  ASSUME NEW B \in Nat, NEW m \in 0 .. B, NEW r \in 0 .. B, NEW d \in Nat \ {0},
         NEW q \in Int, d * q <= r - m, r - m < d * q + d
  PROVE  m + q \in 0 .. B
  <1>1. CASE q >= 0
    <2>1. (d - 1) * q \in Nat
      BY <1>1, ProductNat
    <2>2. q <= d * q
      BY <2>1, SMTT(30)
    <2> QED
      BY <1>1, <2>2
  <1>2. CASE q < 0
    <2>1. q + 1 <= 0 /\ r - m < d * (q + 1)
      BY <1>2, SMTT(30)
    <2>2. (d - 1) * (0 - (q + 1)) \in Nat
      <3>1. d - 1 \in Nat /\ 0 - (q + 1) \in Nat
        BY <2>1
      <3> QED
        BY <3>1, ProductNat
    <2>3. (d - 1) * (0 - (q + 1)) = (q + 1) - d * (q + 1)
      BY SMTT(30)
    <2>4. d * (q + 1) \in Int
      BY SMTT(30)
    <2>5. d * (q + 1) <= q + 1
      BY <2>2, <2>3, <2>4
    <2>6. r - m <= q
      BY <2>1, <2>4, <2>5
    <2> QED
      BY <1>2, <2>6
  <1> QED
    BY <1>1, <1>2

\* The whole of a score and of its parts.
LEMMA Wholes == One \in Nat /\ Full \in Nat /\ Full = 100 * One
  BY DEF Full, One

\* Clamping is total.
LEMMA ClampType == \A n \in Int : Clamp(n) \in 0 .. One
  BY Wholes DEF Clamp

\* BanditStat.update keeps a mean of rewards among the rewards.
LEMMA MeanBound ==
  ASSUME NEW B \in Nat, NEW m \in 0 .. B, NEW r \in 0 .. B, NEW d \in Nat \ {0}
  PROVE  m + ((r - m) \div d) \in 0 .. B
  <1>1. r - m \in Int
    OBVIOUS
  <1>2. /\ (r - m) \div d \in Int
        /\ d * ((r - m) \div d) <= r - m
        /\ r - m < d * ((r - m) \div d) + d
    BY <1>1, Quotient
  <1> QED
    BY <1>2, PartOfTheWay

-----------------------------------------------------------------------------
(***************************************************************************)
(* The statistics of a provider.                                           *)
(***************************************************************************)

\* The average moves from the old one towards the new latency.
LEMMA EwmaBetween ==
  ASSUME NEW old \in Optional, NEW l \in Nat
  PROVE  /\ Ewma(old, l) \in Nat
         /\ old = None => Ewma(old, l) = l
         /\ old # None /\ old <= l => old <= Ewma(old, l) /\ Ewma(old, l) <= l
         /\ old # None /\ l <= old => l <= Ewma(old, l) /\ Ewma(old, l) <= old
  BY DEF Ewma, Optional, None

\* The window holds latencies.
LEMMA PushedType ==
  ASSUME NEW samples \in Seq(Nat), NEW l \in Nat
  PROVE  Pushed(samples, l) \in Seq(Nat)
  <1>1. Append(samples, l) \in Seq(Nat)
    OBVIOUS
  <1>2. CASE Len(samples) < LatencyWindow
    BY <1>1, <1>2 DEF Pushed
  <1>3. CASE ~(Len(samples) < LatencyWindow)
    <2>1. samples # <<>>
      BY <1>3, MetricsAssumption
    <2>2. Tail(samples) \in Seq(Nat)
      BY <2>1
    <2> QED
      BY <1>3, <2>2 DEF Pushed
  <1> QED
    BY <1>2, <1>3

\* record_success on the statistics.
LEMMA AfterSuccessType ==
  ASSUME NEW s \in Stats, NEW l \in Nat
  PROVE  /\ AfterSuccess(s, l) \in Stats
         /\ AfterSuccess(s, l).latency_ewma = Ewma(s.latency_ewma, l)
  <1> DEFINE n == s.successes + 1
             e == Ewma(s.latency_ewma, l)
             w == Pushed(s.latency_samples, l)
  <1>1. s.latency_ewma \in Optional /\ s.latency_samples \in Seq(Nat) /\ s.successes \in Nat
    BY DEF Stats
  <1>2. n \in Nat
    BY <1>1
  <1>3. e \in Optional
    BY <1>1, EwmaBetween DEF Optional
  <1>4. w \in Seq(Nat)
    BY <1>1, PushedType
  <1>5. AfterSuccess(s, l) = [s EXCEPT !.successes = n, !.latency_ewma = e, !.latency_samples = w]
    BY DEF AfterSuccess
  <1> HIDE DEF n, e, w
  <1>6. [s EXCEPT !.successes = n, !.latency_ewma = e, !.latency_samples = w] \in Stats
    BY <1>2, <1>3, <1>4 DEF Stats
  <1>7. [s EXCEPT !.successes = n, !.latency_ewma = e, !.latency_samples = w].latency_ewma = e
    BY DEF Stats
  <1> QED
    BY <1>5, <1>6, <1>7 DEF e

\* record_failure on the statistics.
LEMMA AfterFailureType ==
  ASSUME NEW s \in Stats
  PROVE  AfterFailure(s) \in Stats /\ AfterFailure(s).latency_ewma = s.latency_ewma
  <1> DEFINE n == s.failures + 1
  <1>1. n \in Nat
    BY DEF Stats
  <1>2. AfterFailure(s) = [s EXCEPT !.failures = n]
    BY DEF AfterFailure
  <1> HIDE DEF n
  <1>3. [s EXCEPT !.failures = n] \in Stats /\ [s EXCEPT !.failures = n].latency_ewma = s.latency_ewma
    BY <1>1 DEF Stats
  <1> QED
    BY <1>2, <1>3

\* record_usage on the statistics.
LEMMA AfterUsageType ==
  ASSUME NEW s \in Stats, NEW u \in Usage
  PROVE  AfterUsage(s, u) \in Stats /\ AfterUsage(s, u).latency_ewma = s.latency_ewma
  <1> DEFINE n == s.token_observations + 1
             i == s.input_total + Known(u.input)
             o == s.output_total + Known(u.output)
             c == s.cost_total + Known(u.cost)
             k == s.cost_observations + (IF u.cost = None THEN 0 ELSE 1)
             t == [s EXCEPT !.token_observations = n, !.last_usage = u, !.input_total = i,
                            !.output_total = o, !.cost_total = c, !.cost_observations = k]
  <1>1. u.input \in Optional /\ u.output \in Optional /\ u.cost \in Optional
    BY DEF Usage
  <1>2. Known(u.input) \in Nat /\ Known(u.output) \in Nat /\ Known(u.cost) \in Nat
    BY <1>1 DEF Known, Optional
  <1>3. n \in Nat /\ i \in Nat /\ o \in Nat /\ c \in Nat /\ k \in Nat
    <2>1. (IF u.cost = None THEN 0 ELSE 1) \in Nat
      OBVIOUS
    <2>2. /\ s.token_observations \in Nat /\ s.input_total \in Nat /\ s.output_total \in Nat
          /\ s.cost_total \in Nat /\ s.cost_observations \in Nat
      BY DEF Stats
    <2> QED
      BY <1>2, <2>1, <2>2
  <1>4. AfterUsage(s, u) = s \/ AfterUsage(s, u) = t
    BY DEF AfterUsage
  <1> HIDE DEF n, i, o, c, k
  <1> DEFINE h == [s EXCEPT !.token_observations = n, !.last_usage = u, !.input_total = i]
  <1>5. h \in Stats /\ h.latency_ewma = s.latency_ewma
    BY <1>3 DEF Stats
  <1>6. t = [h EXCEPT !.output_total = o, !.cost_total = c, !.cost_observations = k]
    OBVIOUS
  <1> HIDE DEF h
  <1>7. /\ [h EXCEPT !.output_total = o, !.cost_total = c, !.cost_observations = k] \in Stats
        /\ [h EXCEPT !.output_total = o, !.cost_total = c, !.cost_observations = k].latency_ewma
             = h.latency_ewma
    BY <1>3, <1>5 DEF Stats
  <1> HIDE DEF t
  <1> QED
    BY <1>4, <1>5, <1>6, <1>7

\* The price of an answer.
LEMMA CostType ==
  ASSUME NEW a \in Optional, NEW b \in Optional, NEW i \in Optional, NEW o \in Optional
  PROVE  ObservedCost(a, b, i, o) \in Optional
  <1>1. CASE None \in {i, o, a, b}
    BY <1>1 DEF ObservedCost, Optional
  <1>2. CASE None \notin {i, o, a, b}
    <2>1. i \in Nat /\ o \in Nat /\ a \in Nat /\ b \in Nat
      BY <1>2 DEF Optional
    <2>2. i * a \in Nat /\ o * b \in Nat
      BY <2>1, ProductNat
    <2>3. i * a + o * b \in Nat
      BY <2>2
    <2> QED
      BY <1>2, <2>3 DEF ObservedCost, Optional
  <1> QED
    BY <1>1, <1>2

-----------------------------------------------------------------------------
(***************************************************************************)
(* Scores.                                                                 *)
(***************************************************************************)

\* A share of a countable whole is an integer.
LEMMA ShareType ==
  ASSUME NEW n \in Nat, NEW whole \in Nat \ {0}
  PROVE  Share(n, whole) \in Nat
  <1>1. n * One \in Nat
    BY DEF One
  <1> QED
    BY <1>1, QuotientNat DEF Share

\* Latencies between nothing and the worst.
LEMMA LatencyNormType == \A l \in Nat : LatencyNormOf(l) \in 0 .. One
  <1> TAKE l \in Nat
  <1>1. Share(l, 5000) \in Nat
    BY ShareType
  <1> QED
    BY <1>1, ClampType DEF LatencyNormOf

\* Costs between nothing and the worst.
LEMMA CostNormOfType == \A c \in Nat : CostNormOf(c) \in 0 .. One
  <1> TAKE c \in Nat
  <1>1. Share(c, 10000) \in Nat
    BY ShareType
  <1> QED
    BY <1>1, ClampType DEF CostNormOf

\* The cost of a provider that has been observed, or its hint.
LEMMA CostNormType ==
  ASSUME NEW p \in Provider, NEW s \in Stats
  PROVE  CostNorm(p, s) \in 0 .. One
  <1>1. s.cost_observations \in Nat /\ s.cost_total \in Nat
    BY DEF Stats
  <1>2. CASE s.cost_observations > 0
    <2>1. s.cost_total \div s.cost_observations \in Nat
      BY <1>1, <1>2, QuotientNat
    <2> QED
      BY <1>2, <2>1, CostNormOfType DEF CostNorm
  <1>3. CASE ~(s.cost_observations > 0)
    <2>1. CostHint[p] \in Int
      BY SimulationAssumption
    <2> QED
      BY <1>3, <2>1, ClampType DEF CostNorm
  <1> QED
    BY <1>2, <1>3

\* Four norms weigh no more than the whole.
LEMMA PenaltyType ==
  ASSUME NEW l \in 0 .. One, NEW c \in 0 .. One, NEW q \in 0 .. One, NEW z \in 0 .. One
  PROVE  Full - Penalty(l, c, q, z) \in 0 .. Full
  <1> DEFINE a == 40 * l
             b == 25 * c
             d == 25 * (One - q)
             e == 10 * z
  <1>1. Penalty(l, c, q, z) = a + b + d + e
    BY DEF Penalty
  <1>2. a \in Int /\ 0 <= a /\ a <= 40 * One
    BY Wholes
  <1>3. b \in Int /\ 0 <= b /\ b <= 25 * One
    BY Wholes
  <1>4. d \in Int /\ 0 <= d /\ d <= 25 * One
    BY Wholes
  <1>5. e \in Int /\ 0 <= e /\ e <= 10 * One
    BY Wholes
  <1> HIDE DEF a, b, d, e
  <1>6. Full - (a + b + d + e) \in 0 .. Full
    BY <1>2, <1>3, <1>4, <1>5, Wholes
  <1> QED
    BY <1>1, <1>6

\* Every request has a class.
LEMMA ClassType == \A q : ClassOf(q) \in Route!TaskClass
  BY DEF ClassOf, Route!ClassifyTask, Route!TaskClass

\* A provider that serves a request has a profile for the model it resolves to.
LEMMA ProfileType ==
  ASSUME NEW p \in Provider, NEW q, ServesModel(p, q)
  PROVE  ProfileQuality(p, q) \in Norm
  <1>1. Models[p] \in Seq(STRING) \ {<<>>}
    BY SimulationAssumption
  <1>2. 1 \in DOMAIN Models[p]
    BY <1>1
  <1>3. \E i \in DOMAIN Models[p] : ResolvedModel(p, q) = Models[p][i]
    BY <1>2 DEF ServesModel, ResolvedModel
  <1> QED
    BY <1>3, ClassType, SimulationAssumption DEF ProfileQuality

\* The quality a request expects of a provider that serves it.
LEMMA PriorType ==
  ASSUME NEW p \in Provider, NEW q, ServesModel(p, q)
  PROVE  QualityPrior(p, q) \in 0 .. One
  <1>1. ProfileQuality(p, q) \in Norm
    BY ProfileType
  <1>2. QualityHint[p] \in Int
    BY SimulationAssumption
  <1>3. (IF ProfileQuality(p, q) = None THEN QualityHint[p] ELSE ProfileQuality(p, q)) \in Int
    BY <1>1, <1>2, Wholes DEF Norm
  <1> QED
    BY <1>3, ClampType DEF QualityPrior

\* The share of a quota that is used.
LEMMA PressureType ==
  ASSUME NEW p \in Provider, NEW attempts \in [Provider -> Nat]
  PROVE  Pressure(p, attempts) \in 0 .. One /\ ShownPressure(p, attempts) \in Optional
  <1>1. CASE p \in Limited
    <2>1. Share(attempts[p], QuotaLimit[p]) \in Nat
      BY <1>1, ShareType, ConfigAssumption
    <2> QED
      BY <1>1, <2>1, ClampType DEF Pressure, ShownPressure, Optional
  <1>2. CASE p \notin Limited
    BY <1>2, Wholes DEF Pressure, ShownPressure, Optional
  <1> QED
    BY <1>1, <1>2

\* BanditStat.update on a reward keeps the mean a share.
LEMMA UpdatedType ==
  ASSUME NEW stat \in [count : Nat, mean : 0 .. Full], NEW r \in 0 .. Full
  PROVE  Updated(stat, r) \in [count : Nat, mean : 0 .. Full]
  <1>1. stat.count \in Nat /\ stat.mean \in 0 .. Full
    OBVIOUS
  <1>2. stat.count + 1 \in Nat \ {0}
    BY <1>1
  <1>3. stat.mean + ((r - stat.mean) \div (stat.count + 1)) \in 0 .. Full
    BY <1>1, <1>2, MeanBound, Wholes
  <1> QED
    BY <1>2, <1>3 DEF Updated

-----------------------------------------------------------------------------
(***************************************************************************)
(* The store.                                                              *)
(***************************************************************************)
StoreInv == CircuitInv /\ QuotaInv /\ QuotaNeverOverrun

\* The store and the trace start empty.
LEMMA InitStore == Init => StoreInv
  BY ConfigAssumption
     DEF Init, StateInit, StoreInv, CircuitInv, QuotaInv, CircuitTypeOK, QuotaTypeOK,
         OpenCircuitHasStreak, WindowMatchesAttempts, Available, WindowAge, Unset,
         QuotaNeverOverrun

\* An attempt of a provider that is not exhausted stays within its quota.
LEMMA AttemptWithinQuota ==
  ASSUME StoreInv, NEW p \in Provider, ~QuotaExhausted(p), RecordAttempt(p, Provider)
  PROVE  QuotaInv' /\ QuotaNeverOverrun'
  <1>1. QuotaInv'
    BY RecordAttemptQuota DEF StoreInv
  <1>2. ASSUME NEW q \in Limited
        PROVE  quota_attempts'[q] <= QuotaLimit[q]
    <2>1. /\ q \in Provider /\ QuotaLimit[q] \in Nat /\ 1 <= QuotaLimit[q]
          /\ quota_attempts[q] \in Nat /\ quota_attempts[q] <= QuotaLimit[q]
      BY ConfigAssumption DEF StoreInv, QuotaInv, QuotaTypeOK, QuotaNeverOverrun
    <2>2. CASE q = p
      BY <2>1, <2>2 DEF RecordAttempt, QuotaExhausted, AttemptsRefreshed
    <2>3. CASE q # p
      BY <2>1, <2>3 DEF RecordAttempt, AttemptsRefreshed
    <2> QED
      BY <2>2, <2>3
  <1> QED
    BY <1>1, <1>2 DEF QuotaNeverOverrun

\* Looking at the windows alone counts nothing.
LEMMA RefreshWithinQuota ==
  ASSUME StoreInv, RefreshQuota(Provider)
  PROVE  QuotaInv' /\ QuotaNeverOverrun'
  <1>1. QuotaInv'
    BY RefreshQuotaQuota DEF StoreInv
  <1>2. ASSUME NEW q \in Limited
        PROVE  quota_attempts'[q] <= QuotaLimit[q]
    BY ConfigAssumption
       DEF StoreInv, QuotaInv, QuotaTypeOK, QuotaNeverOverrun, RefreshQuota, AttemptsRefreshed
  <1> QED
    BY <1>1, <1>2 DEF QuotaNeverOverrun

\* Whoever is chosen is feasible, and nobody feasible is exhausted.
LEMMA ChosenNotExhausted ==
  ASSUME NEW p \in Provider, NEW o, Choose(p, o)
  PROVE  ~QuotaExhausted(p)
  BY DEF Choose, Feasible

-----------------------------------------------------------------------------
(***************************************************************************)
(* Types.                                                                  *)
(***************************************************************************)
Banditry == [Route!TaskClass \X Provider -> [count : Nat, mean : 0 .. Full]]

ResultsOK == \E S : results \in Seq(S)

TypeInv == SimulationTypeOK /\ ResultsOK

\* What the traces have for a provider.
LEMMA OutcomeType ==
  ASSUME NEW o \in Outcome
  PROVE  /\ o.latency \in Nat /\ o.input \in Optional /\ o.output \in Optional
         /\ o.quality \in Norm
  BY SimulationAssumption DEF Outcomes

\* A simulation has policies, requests and a length.
LEMMA SimulationType ==
  ASSUME TypeInv
  PROVE  /\ simulation.policies \in Seq(SimulationPolicies) /\ simulation.policies # <<>>
         /\ simulation.length \in Nat
  BY SimulationAssumption DEF TypeInv, SimulationTypeOK

\* The request being replayed is an item of the trace.
LEMMA ItemType ==
  ASSUME TypeInv, stage = "rank"
  PROVE  Item \in TraceItem /\ Len(rows) + 1 \in 1 .. Len(trace)
  <1>1. trace \in Seq(TraceItem) /\ rows \in Seq(Row) /\ Len(rows) < Len(trace)
    BY DEF TypeInv, SimulationTypeOK
  <1>2. Len(rows) + 1 \in 1 .. Len(trace)
    BY <1>1
  <1> QED
    BY <1>1, <1>2 DEF Item

\* A choice writes an outcome into the item and nothing else.
LEMMA ChooseType ==
  ASSUME TypeInv, NEW p \in Provider, NEW o \in Outcome, Choose(p, o)
  PROVE  trace' \in Seq(TraceItem) /\ Len(trace') = Len(trace)
  <1> DEFINE k == Len(rows) + 1
             item == [trace[k] EXCEPT !.outcome = [trace[k].outcome EXCEPT ![p] = o]]
  <1>1. trace[k] \in TraceItem /\ k \in 1 .. Len(trace)
    BY ItemType DEF Choose, Item
  <1>2. trace \in Seq(TraceItem)
    BY DEF TypeInv, SimulationTypeOK
  <1>3. [trace[k].outcome EXCEPT ![p] = o] \in [Provider -> Outcome \cup {Undrawn}]
    BY <1>1 DEF TraceItem
  <1>4. item \in TraceItem
    BY <1>1, <1>3 DEF TraceItem
  <1>5. trace' = [trace EXCEPT ![k] = item]
    BY DEF Choose
  <1> HIDE DEF item
  <1> QED
    BY <1>1, <1>2, <1>4, <1>5

\* Whoever is chosen serves the model that is asked for.
LEMMA ChosenServes ==
  ASSUME NEW p \in Provider, NEW o, Choose(p, o)
  PROVE  ServesModel(p, Item.request)
  BY DEF Choose, Feasible

\* The row of an attempt without an answer, and of no attempt.
LEMMA RowWithoutType ==
  ASSUME NEW p \in Provider, ServesModel(p, Item.request), QuotaTypeOK',
         NEW status \in {"provider_failure", "missing_outcome"}
  PROVE  RowWithout(p, status) \in Row /\ RowWithout(p, status).status = status
  <1>1. ProfileQuality(p, Item.request) \in Norm
    BY ProfileType
  <1>2. ShownPressure(p, quota_attempts') \in Optional
    BY PressureType DEF QuotaTypeOK
  <1>3. None \in Optional /\ None \in Norm
    BY DEF Optional, Norm
  <1>4. ClassOf(Item.request) \in Route!TaskClass
    BY ClassType
  <1> QED
    BY <1>1, <1>2, <1>3, <1>4 DEF RowWithout, EmptyRow, Row

\* What a success is worth.
LEMMA RewardType ==
  ASSUME NEW p \in Provider, NEW o \in Outcome, NEW cost \in Optional,
         ServesModel(p, Item.request), QuotaTypeOK', stats'[p] \in Stats
  PROVE  Reward(p, o, cost) \in 0 .. Full
  <1> DEFINE c == IF cost = None THEN CostNorm(p, stats'[p]) ELSE CostNormOf(cost)
             q == IF o.quality = None THEN QualityPrior(p, Item.request) ELSE o.quality
  <1>1. LatencyNormOf(o.latency) \in 0 .. One
    BY OutcomeType, LatencyNormType
  <1>2. c \in 0 .. One
    BY CostNormType, CostNormOfType DEF Optional
  <1>3. q \in 0 .. One
    BY OutcomeType, PriorType DEF Norm
  <1>4. Pressure(p, quota_attempts') \in 0 .. One
    BY PressureType DEF QuotaTypeOK
  <1>5. Reward(p, o, cost) = Full - Penalty(LatencyNormOf(o.latency), c, q,
                                            Pressure(p, quota_attempts'))
    BY DEF Reward
  <1> HIDE DEF c, q
  <1> QED
    BY <1>1, <1>2, <1>3, <1>4, <1>5, PenaltyType

\* Feedback updates the statistics of the chosen provider.
LEMMA FeedbackType ==
  ASSUME bandit \in Banditry, NEW p \in Provider, NEW r \in 0 .. Full, Feedback(p, r)
  PROVE  bandit' \in Banditry
  <1> DEFINE key == <<ClassOf(Item.request), p>>
             u == Updated(bandit[key], r)
  <1>1. key \in Route!TaskClass \X Provider
    BY ClassType
  <1>2. u \in [count : Nat, mean : 0 .. Full]
    BY <1>1, UpdatedType DEF Banditry
  <1>3. bandit' = bandit \/ bandit' = [bandit EXCEPT ![key] = u]
    BY DEF Feedback
  <1> HIDE DEF key, u
  <1> QED
    BY <1>1, <1>2, <1>3 DEF Banditry

\* Nothing has been replayed at first.
LEMMA InitType == Init => TypeInv
  <1> SUFFICES ASSUME Init PROVE TypeInv
    OBVIOUS
  <1>1. CircuitTypeOK /\ QuotaTypeOK
    BY InitStore DEF StoreInv, CircuitInv, QuotaInv
  <1>2. simulation.policies \in Seq(SimulationPolicies) /\ simulation.policies # <<>>
    BY SimulationAssumption DEF Init
  <1>3. simulation.length \in Nat
    BY SimulationAssumption DEF Init
  <1>4. bandit \in Banditry
    BY Wholes DEF Init, NoBandit, Banditry
  <1>5. NoStats \in Stats
    BY DEF NoStats, Stats, NoUsage, Usage, Optional
  <1>6. stats \in [Provider -> Stats]
    BY <1>5 DEF Init, FreshStats
  <1>7. results \in Seq({}) /\ Len(results) = 0
    BY DEF Init
  <1>8. rows \in Seq(Row) /\ Len(rows) = 0 /\ trace \in Seq(TraceItem) /\ Len(trace) = 0
    BY DEF Init
  <1>9. Len(results) < Len(simulation.policies)
    BY <1>2, <1>7
  <1>10. simulation \in Simulations /\ stage = "clock"
    BY DEF Init
  <1> QED
    BY <1>1, <1>3, <1>4, <1>6, <1>7, <1>8, <1>9, <1>10
       DEF TypeInv, ResultsOK, SimulationTypeOK, Banditry

\* An item that is drawn is an item.
LEMMA NewItemType == \A item \in NewItems : item \in TraceItem
  BY DEF NewItems, TraceItem, Undrawn

\* Items have a time.
LEMMA TimeType ==
  ASSUME NEW s \in Seq(TraceItem), NEW k \in 1 .. Len(s)
  PROVE  s[k].at \in Int
  <1>1. s[k] \in TraceItem
    OBVIOUS
  <1> QED
    BY <1>1 DEF TraceItem

\* The clock is set: some time passes, or it would go back.
LEMMA ClockSteps ==
  ASSUME TypeInv, SetClock
  PROVE  \/ UNCHANGED stateVars /\ stage' = "error"
         \/ /\ stage' = "rank" /\ trace'[Len(rows) + 1].at - Clock \in Nat
            /\ TimePasses(trace'[Len(rows) + 1].at - Clock)
  <1>1. trace \in Seq(TraceItem) /\ rows \in Seq(Row) /\ Len(rows) <= Len(trace)
    BY DEF TypeInv, SimulationTypeOK
  <1>2. Clock \in Int
    <2>1. rows # <<>> => Len(rows) \in 1 .. Len(trace)
      BY <1>1
    <2>2. \A k \in 1 .. Len(trace) : trace[k].at \in Int
      BY <1>1, TimeType
    <2> QED
      BY <2>1, <2>2 DEF Clock
  <1>3. trace'[Len(rows) + 1].at \in Int
    <2>1. CASE Len(trace) > Len(rows) /\ UNCHANGED trace
      <3>1. Len(rows) + 1 \in 1 .. Len(trace)
        BY <1>1, <2>1
      <3> QED
        BY <1>1, <2>1, <3>1, TimeType
    <2>2. ASSUME NEW item \in NewItems, trace' = Append(trace, item), Len(trace) = Len(rows)
          PROVE  trace'[Len(rows) + 1].at \in Int
      <3>1. trace'[Len(rows) + 1] = item
        BY <1>1, <2>2
      <3>2. item.at \in Int
        BY NewItemType DEF TraceItem
      <3> QED
        BY <3>1, <3>2
    <2> QED
      BY <2>1, <2>2 DEF SetClock
  <1> QED
    BY <1>2, <1>3 DEF SetClock

\* Every step keeps the store within its quotas.
LEMMA StoreStep ==
  ASSUME TypeInv, StoreInv, [Next]_vars
  PROVE  StoreInv'
  <1>1. CASE SetClock
    <2>1. ASSUME NEW ticks \in Nat, TimePasses(ticks) PROVE StoreInv'
      <3>1. CircuitInv' /\ QuotaInv'
        BY <2>1, TimePassesState DEF StoreInv
      <3> QED
        BY <2>1, <3>1 DEF StoreInv, QuotaNeverOverrun, TimePasses
    <2>2. CASE UNCHANGED stateVars
      BY <2>2
         DEF StoreInv, CircuitInv, QuotaInv, CircuitTypeOK, QuotaTypeOK, OpenCircuitHasStreak,
             WindowMatchesAttempts, Available, QuotaNeverOverrun,
             stateVars, circuitVars, quotaVars
    <2>3. UNCHANGED stateVars \/ \E ticks \in Nat : TimePasses(ticks)
      BY <1>1, ClockSteps
    <2> QED
      BY <2>1, <2>2, <2>3
  <1>2. CASE NobodyEligible
    <2>1. QuotaInv' /\ QuotaNeverOverrun'
      BY <1>2, RefreshWithinQuota DEF NobodyEligible
    <2>2. CircuitInv'
      BY <1>2 DEF NobodyEligible, StoreInv, CircuitInv, CircuitTypeOK, OpenCircuitHasStreak,
                  Available
    <2> QED
      BY <2>1, <2>2 DEF StoreInv
  <1>3. ASSUME NEW p \in Provider, NEW o \in Outcome, AttemptStep(p, o)
        PROVE  StoreInv'
    <2>1. Choose(p, o) /\ RecordAttempt(p, Provider)
      BY <1>3 DEF AttemptStep, MissingOutcome, ProviderFailure, Success, InvalidOutcome
    <2>2. QuotaInv' /\ QuotaNeverOverrun'
      BY <2>1, ChosenNotExhausted, AttemptWithinQuota
    <2>3. RecordFailure(p) \/ RecordSuccess(p) \/ UNCHANGED circuitVars
      BY <1>3 DEF AttemptStep, MissingOutcome, ProviderFailure, Success, InvalidOutcome
    <2>4. CircuitInv'
      <3>1. CASE RecordFailure(p)
        BY <3>1, RecordFailureCircuit DEF StoreInv
      <3>2. CASE RecordSuccess(p)
        BY <3>2, RecordSuccessCircuit DEF StoreInv
      <3>3. CASE UNCHANGED circuitVars
        BY <3>3 DEF StoreInv, CircuitInv, CircuitTypeOK, OpenCircuitHasStreak, Available,
                    circuitVars
      <3> QED
        BY <2>3, <3>1, <3>2, <3>3
    <2> QED
      BY <2>2, <2>4 DEF StoreInv
  <1>4. CASE EndPolicy
    BY <1>4, ConfigAssumption
       DEF EndPolicy, StoreInv, CircuitInv, QuotaInv, CircuitTypeOK, QuotaTypeOK,
           OpenCircuitHasStreak, WindowMatchesAttempts, Available, WindowAge, Unset,
           QuotaNeverOverrun
  <1>5. CASE UNCHANGED vars
    BY <1>5
       DEF StoreInv, CircuitInv, QuotaInv, CircuitTypeOK, QuotaTypeOK, OpenCircuitHasStreak,
           WindowMatchesAttempts, Available, QuotaNeverOverrun,
           vars, stateVars, circuitVars, quotaVars
  <1> QED
    BY <1>1, <1>2, <1>3, <1>4, <1>5 DEF Next

\* The clock draws the next item if no replay has.
LEMMA SetClockType ==
  ASSUME TypeInv, StoreInv', SetClock
  PROVE  TypeInv'
  <1>1. CircuitTypeOK' /\ QuotaTypeOK'
    BY DEF StoreInv, CircuitInv, QuotaInv
  <1>2. /\ trace \in Seq(TraceItem) /\ rows \in Seq(Row) /\ simulation.length \in Nat
        /\ Len(rows) <= Len(trace) /\ Len(trace) <= simulation.length
        /\ Len(rows) < simulation.length
    BY SimulationType DEF TypeInv, SimulationTypeOK, SetClock
  <1>3. /\ trace' \in Seq(TraceItem)
        /\ Len(rows) < Len(trace') /\ Len(trace') <= simulation.length
    <2>1. CASE Len(trace) > Len(rows) /\ UNCHANGED trace
      BY <1>2, <2>1
    <2>2. CASE Len(trace) = Len(rows) /\ \E item \in NewItems : trace' = Append(trace, item)
      <3>1. PICK item \in NewItems : trace' = Append(trace, item)
        BY <2>2
      <3>2. item \in TraceItem
        BY <3>1, NewItemType
      <3>3. trace' \in Seq(TraceItem) /\ Len(trace') = Len(trace) + 1
        BY <1>2, <3>1, <3>2
      <3> QED
        BY <1>2, <2>2, <3>3
    <2> QED
      BY <2>1, <2>2 DEF SetClock
  <1>4. stage' \in {"error", "rank"} /\ stage = "clock"
    BY DEF SetClock
  <1>5. TraceItem' = TraceItem
    BY DEF TraceItem, SetClock
  <1>6. UNCHANGED <<simulation, rows, bandit, stats, results>>
    BY DEF SetClock
  <1>7. trace' \in Seq(TraceItem')
    BY <1>3, <1>5
  <1> HIDE DEF TraceItem
  <1> QED
    BY <1>1, <1>2, <1>3, <1>4, <1>6, <1>7 DEF TypeInv, SimulationTypeOK, ResultsOK, Row

\* A replayed item adds one row.
LEMMA NextRowType ==
  ASSUME TypeInv, NEW row \in Row, NextRow(row)
  PROVE  rows' \in Seq(Row) /\ Len(rows') = Len(rows) + 1 /\ stage' = "clock"
  BY DEF TypeInv, SimulationTypeOK, NextRow

\* What is left of the types when the step keeps the list of results.
LEMMA RowAddedType ==
  ASSUME TypeInv, StoreInv', stage = "rank", stage' = "clock",
         UNCHANGED <<simulation, results>>,
         trace' \in Seq(TraceItem), Len(trace') = Len(trace),
         rows' \in Seq(Row), Len(rows') = Len(rows) + 1,
         bandit' \in Banditry, stats' \in [Provider -> Stats]
  PROVE  TypeInv'
  <1>1. CircuitTypeOK' /\ QuotaTypeOK'
    BY DEF StoreInv, CircuitInv, QuotaInv
  <1>2. trace \in Seq(TraceItem) /\ rows \in Seq(Row) /\ Len(rows) < Len(trace)
    BY DEF TypeInv, SimulationTypeOK
  <1>3. Len(rows') <= Len(trace')
    BY <1>2
  <1>4. trace' \in Seq(TraceItem')
    BY DEF TraceItem
  <1>5. Len(trace') <= simulation'.length
    BY DEF TypeInv, SimulationTypeOK
  <1> HIDE DEF TraceItem
  <1> QED
    BY <1>1, <1>3, <1>4, <1>5 DEF TypeInv, SimulationTypeOK, ResultsOK, Row, Banditry

\* A request nobody takes, or an attempt.
LEMMA RankType ==
  ASSUME TypeInv, StoreInv',
         NobodyEligible \/ \E p \in Provider, o \in Outcome : AttemptStep(p, o)
  PROVE  TypeInv'
  <1>1. /\ QuotaTypeOK' /\ bandit \in Banditry /\ stats \in [Provider -> Stats]
        /\ trace \in Seq(TraceItem)
    BY DEF StoreInv, QuotaInv, TypeInv, SimulationTypeOK, Banditry
  <1>2. CASE NobodyEligible
    <2> DEFINE row == EmptyRow(NoProvider, "no_provider", None, None)
    <2>1. row \in Row
      BY ClassType DEF EmptyRow, Row, Optional, Norm
    <2>2. NextRow(row) /\ stage = "rank" /\ UNCHANGED <<simulation, trace, bandit, stats, results>>
      BY <1>2 DEF NobodyEligible
    <2> HIDE DEF row
    <2>3. rows' \in Seq(Row) /\ Len(rows') = Len(rows) + 1 /\ stage' = "clock"
      BY <2>1, <2>2, NextRowType
    <2> QED
      BY <1>1, <2>2, <2>3, RowAddedType
  <1>3. ASSUME NEW p \in Provider, NEW o \in Outcome, AttemptStep(p, o)
        PROVE  TypeInv'
    <2>1. Choose(p, o) /\ stage = "rank" /\ UNCHANGED <<simulation, results>>
      BY <1>3 DEF AttemptStep, MissingOutcome, ProviderFailure, Success, InvalidOutcome, Choose
    <2>2. trace' \in Seq(TraceItem) /\ Len(trace') = Len(trace) /\ ServesModel(p, Item.request)
      BY <2>1, ChooseType, ChosenServes
    <2>3. CASE MissingOutcome(p, o)
      <3>1. RowWithout(p, "missing_outcome") \in Row
        BY <1>1, <2>2, RowWithoutType
      <3>2. rows' \in Seq(Row) /\ Len(rows') = Len(rows) + 1 /\ stage' = "clock"
        BY <2>3, <3>1, NextRowType DEF MissingOutcome
      <3>3. UNCHANGED <<bandit, stats>>
        BY <2>3 DEF MissingOutcome
      <3> QED
        BY <1>1, <2>1, <2>2, <3>2, <3>3, RowAddedType
    <2>4. CASE ProviderFailure(p, o)
      <3>1. RowWithout(p, "provider_failure") \in Row
        BY <1>1, <2>2, RowWithoutType
      <3>2. rows' \in Seq(Row) /\ Len(rows') = Len(rows) + 1 /\ stage' = "clock"
        BY <2>4, <3>1, NextRowType DEF ProviderFailure
      <3>3. stats' \in [Provider -> Stats]
        <4>1. AfterFailure(stats[p]) \in Stats
          BY <1>1, AfterFailureType
        <4>2. stats' = [stats EXCEPT ![p] = AfterFailure(stats[p])]
          BY <2>4 DEF ProviderFailure
        <4> QED
          BY <1>1, <4>1, <4>2
      <3>4. bandit' \in Banditry
        <4>1. Feedback(p, 0) /\ 0 \in 0 .. Full
          BY <2>4, Wholes DEF ProviderFailure
        <4> QED
          BY <1>1, <4>1, FeedbackType
      <3> QED
        BY <2>1, <2>2, <3>2, <3>3, <3>4, RowAddedType
    <2>5. CASE Success(p, o)
      <3> DEFINE cost  == ObservedCost(InputPrice[p], OutputPrice[p], o.input, o.output)
                 usage == [input |-> o.input, output |-> o.output, cost |-> cost]
                 row   == [provider |-> p, class |-> ClassOf(Item.request), status |-> "success",
                           latency |-> o.latency, cost |-> cost, quality |-> o.quality,
                           profile_quality |-> ProfileQuality(p, Item.request),
                           pressure |-> ShownPressure(p, quota_attempts')]
                 after == AfterUsage(AfterSuccess(stats[p], o.latency), usage)
      <3>1. cost \in Optional
        <4>1. InputPrice[p] \in Optional /\ OutputPrice[p] \in Optional
          BY SimulationAssumption
        <4> QED
          BY <4>1, OutcomeType, CostType
      <3>2. /\ NextRow(row) /\ Feedback(p, Reward(p, o, cost))
            /\ stats' = [stats EXCEPT ![p] = after]
        BY <2>5 DEF Success
      <3>3. row \in Row
        <4>1. ProfileQuality(p, Item.request) \in Norm
          BY <2>2, ProfileType
        <4>2. ShownPressure(p, quota_attempts') \in Optional
          BY <1>1, PressureType DEF QuotaTypeOK
        <4>3. o.latency \in Optional /\ o.quality \in Norm
          BY OutcomeType DEF Optional
        <4>4. ClassOf(Item.request) \in Route!TaskClass
          BY ClassType
        <4> HIDE DEF cost
        <4> QED
          BY <3>1, <4>1, <4>2, <4>3, <4>4 DEF Row
      <3>4. usage \in Usage
        BY <3>1, OutcomeType DEF Usage
      <3>5. after \in Stats
        <4>1. AfterSuccess(stats[p], o.latency) \in Stats
          BY <1>1, OutcomeType, AfterSuccessType
        <4> HIDE DEF usage
        <4> QED
          BY <3>4, <4>1, AfterUsageType
      <3> HIDE DEF cost, row, after
      <3>6. stats' \in [Provider -> Stats]
        BY <1>1, <3>2, <3>5
      <3>7. rows' \in Seq(Row) /\ Len(rows') = Len(rows) + 1 /\ stage' = "clock"
        BY <3>2, <3>3, NextRowType
      <3>8. Reward(p, o, cost) \in 0 .. Full
        BY <1>1, <2>2, <3>1, <3>6, RewardType
      <3>9. bandit' \in Banditry
        BY <1>1, <3>2, <3>8, FeedbackType
      <3> QED
        BY <2>1, <2>2, <3>6, <3>7, <3>9, RowAddedType
    <2>6. CASE InvalidOutcome(p, o)
      <3>1. stage' = "error" /\ UNCHANGED <<rows, bandit, stats>>
        BY <2>6 DEF InvalidOutcome
      <3>2. CircuitTypeOK' /\ QuotaTypeOK'
        BY DEF StoreInv, CircuitInv, QuotaInv
      <3>3. trace' \in Seq(TraceItem')
        BY <2>1, <2>2 DEF TraceItem
      <3> HIDE DEF TraceItem
      <3> QED
        BY <2>1, <2>2, <3>1, <3>2, <3>3 DEF TypeInv, SimulationTypeOK, ResultsOK, Row
    <2> QED
      BY <1>3, <2>3, <2>4, <2>5, <2>6 DEF AttemptStep
  <1> QED
    BY <1>2, <1>3

\* A policy adds one result.
LEMMA EndPolicyType ==
  ASSUME TypeInv, StoreInv', EndPolicy
  PROVE  TypeInv'
  <1>1. CircuitTypeOK' /\ QuotaTypeOK'
    BY DEF StoreInv, CircuitInv, QuotaInv
  <1>2. PICK S : results \in Seq(S)
    BY DEF TypeInv, ResultsOK
  <1>3. results' \in Seq(S \cup {Result}) /\ Len(results') = Len(results) + 1
    <2>1. results \in Seq(S \cup {Result})
      BY <1>2
    <2>2. results' = Append(results, Result)
      BY DEF EndPolicy
    <2> HIDE DEF Result
    <2> QED
      BY <2>1, <2>2
  <1>4. /\ Len(results) < Len(simulation.policies) /\ Len(simulation.policies) \in Nat
        /\ Len(results) \in Nat
    BY <1>2, SimulationType DEF TypeInv, SimulationTypeOK, EndPolicy
  <1>5. /\ stage' = IF Len(results') = Len(simulation.policies) THEN "done" ELSE "clock"
        /\ rows' = <<>> /\ UNCHANGED <<simulation, trace>>
    BY DEF EndPolicy
  <1>6. stage' # "done" => Len(results') < Len(simulation'.policies)
    BY <1>3, <1>4, <1>5
  <1>7. trace' \in Seq(TraceItem') /\ Len(trace') \in Nat /\ Len(trace') <= simulation'.length
    BY <1>5 DEF TypeInv, SimulationTypeOK, TraceItem
  <1>8. rows' \in Seq(Row) /\ Len(rows') = 0
    BY <1>5
  <1>9. bandit' \in Banditry
    BY Wholes DEF EndPolicy, NoBandit, Banditry
  <1>10. stats' \in [Provider -> Stats]
    <2>1. NoStats \in Stats
      BY DEF NoStats, Stats, NoUsage, Usage, Optional
    <2> QED
      BY <2>1 DEF EndPolicy, FreshStats
  <1>11. simulation' \in Simulations /\ stage' \in {"clock", "done"}
    BY <1>5 DEF TypeInv, SimulationTypeOK
  <1>12. ResultsOK'
    BY <1>3 DEF ResultsOK
  <1> HIDE DEF TraceItem
  <1> QED
    BY <1>1, <1>6, <1>7, <1>8, <1>9, <1>10, <1>11, <1>12 DEF TypeInv, SimulationTypeOK, Banditry, Row

\* Every step keeps the types.
LEMMA TypeStep ==
  ASSUME TypeInv, StoreInv, [Next]_vars
  PROVE  TypeInv'
  <1>1. StoreInv'
    BY StoreStep
  <1>2. CASE UNCHANGED vars
    <2>1. CircuitTypeOK' /\ QuotaTypeOK'
      BY <1>1 DEF StoreInv, CircuitInv, QuotaInv
    <2>2. UNCHANGED <<simulation, trace, stage, rows, bandit, stats, results>>
      BY <1>2 DEF vars, simVars
    <2> QED
      BY <2>1, <2>2 DEF TypeInv, SimulationTypeOK, ResultsOK, TraceItem, Row
  <1> QED
    BY <1>1, <1>2, SetClockType, RankType, EndPolicyType DEF Next

\* The state of a simulation has its type, whatever is simulated: scores stay
\* on their scales although costs and latencies have no bound, so the mean of
\* the rewards never leaves 0 to 1.
THEOREM SimulationTypeCorrect == Spec => []SimulationTypeOK
  <1>1. Init => StoreInv /\ TypeInv
    BY InitStore, InitType
  <1>2. StoreInv /\ TypeInv /\ [Next]_vars => (StoreInv /\ TypeInv)'
    BY StoreStep, TypeStep
  <1>3. StoreInv /\ TypeInv => SimulationTypeOK
    BY DEF TypeInv
  <1> QED
    BY <1>1, <1>2, <1>3, PTL DEF Spec

\* No policy takes a provider past its quota: requests are replayed one at a
\* time, so what the filter of rank() read still holds when record_attempt()
\* counts.
THEOREM QuotaNeverOverrunAlways == Spec => []QuotaNeverOverrun
  <1>1. Init => StoreInv /\ TypeInv
    BY InitStore, InitType
  <1>2. StoreInv /\ TypeInv /\ [Next]_vars => (StoreInv /\ TypeInv)'
    BY StoreStep, TypeStep
  <1>3. StoreInv => QuotaNeverOverrun
    BY DEF StoreInv
  <1> QED
    BY <1>1, <1>2, <1>3, PTL DEF Spec

-----------------------------------------------------------------------------
(***************************************************************************)
(* The average latency.                                                    *)
(***************************************************************************)

\* A row that is no answer of p leaves what bounds its average.
LEMMA AverageKept ==
  ASSUME TypeInv, AverageWithinLatencies, NEW p \in Provider, NEW row \in Row,
         rows' = Append(rows, row), ~(row.provider = p /\ row.status = "success"),
         stats'[p].latency_ewma = stats[p].latency_ewma
  PROVE  IF Answers(p)' = {} THEN stats'[p].latency_ewma = None
         ELSE \E i, j \in Answers(p)' :
                stats'[p].latency_ewma \in rows'[i].latency .. rows'[j].latency
  <1>1. rows \in Seq(Row)
    BY DEF TypeInv, SimulationTypeOK
  <1>2. /\ DOMAIN rows' = 1 .. (Len(rows) + 1) /\ rows'[Len(rows) + 1] = row
        /\ \A i \in DOMAIN rows : i \in 1 .. Len(rows) /\ rows'[i] = rows[i]
    BY <1>1
  <1>3. DOMAIN rows = 1 .. Len(rows) /\ Len(rows) \in Nat
    BY <1>1
  <1>4. Answers(p)' = Answers(p)
    BY <1>2, <1>3 DEF Answers, WithStatus
  <1>5. \A i \in Answers(p) : rows'[i].latency = rows[i].latency
    BY <1>2 DEF Answers, WithStatus
  <1> QED
    BY <1>4, <1>5, ZenonT(30) DEF AverageWithinLatencies

\* A new answer moves the average towards it.
LEMMA AverageMoved ==
  ASSUME TypeInv, AverageWithinLatencies, NEW p \in Provider, NEW row \in Row,
         rows' = Append(rows, row), row.provider = p, row.status = "success",
         row.latency \in Nat,
         stats'[p].latency_ewma = Ewma(stats[p].latency_ewma, row.latency)
  PROVE  /\ Answers(p)' # {}
         /\ \E i, j \in Answers(p)' :
              stats'[p].latency_ewma \in rows'[i].latency .. rows'[j].latency
  <1> DEFINE k == Len(rows) + 1
             old == stats[p].latency_ewma
             new == stats'[p].latency_ewma
             l == row.latency
  <1>1. rows \in Seq(Row) /\ stats[p] \in Stats
    BY DEF TypeInv, SimulationTypeOK
  <1>2. old \in Optional
    BY <1>1 DEF Stats
  <1>3. /\ DOMAIN rows' = 1 .. k /\ rows'[k] = row /\ k \in 1 .. k
        /\ \A i \in DOMAIN rows : i \in 1 .. k /\ rows'[i] = rows[i]
    BY <1>1
  <1>4. k \in Answers(p)' /\ rows'[k].latency = l
    BY <1>3 DEF Answers, WithStatus
  <1>5. \A i \in Answers(p) : i \in Answers(p)' /\ rows'[i].latency = rows[i].latency
    BY <1>3 DEF Answers, WithStatus
  <1>6. /\ new \in Nat
        /\ old = None => new = l
        /\ old # None /\ old <= l => old <= new /\ new <= l
        /\ old # None /\ l <= old => l <= new /\ new <= old
    BY <1>2, EwmaBetween
  <1>7. l \in Int /\ new \in Int
    BY <1>6
  <1>8. (IF Answers(p) = {} THEN old = None
         ELSE \E i, j \in Answers(p) : old \in rows[i].latency .. rows[j].latency)
    BY DEF AverageWithinLatencies
  <1> SUFFICES \E i, j \in Answers(p)' : new \in rows'[i].latency .. rows'[j].latency
    BY <1>4
  <1> HIDE DEF new, old, k, l
  <1>9. CASE old = None
    <2>1. new \in l .. l
      BY <1>6, <1>7, <1>9
    <2> QED
      BY <1>4, <2>1
  <1>10. CASE old # None
    <2>1. PICK i \in Answers(p), j \in Answers(p) : old \in rows[i].latency .. rows[j].latency
      BY <1>8, <1>10
    <2>2. rows[i].latency \in Int /\ rows[j].latency \in Int
      <3>1. rows[i] \in Row /\ rows[j] \in Row
        BY <1>1, <2>1 DEF Answers, WithStatus
      <3> QED
        BY <3>1 DEF Row, Optional, None
    <2>3. old \in Int
      BY <1>2 DEF Optional, None
    <2>4. CASE old <= l
      <3>1. new \in rows[i].latency .. l
        BY <1>6, <1>7, <1>10, <2>1, <2>2, <2>3, <2>4
      <3>2. new \in rows'[i].latency .. rows'[k].latency
        BY <1>4, <1>5, <2>1, <3>1
      <3> QED
        BY <1>4, <1>5, <2>1, <3>2
    <2>5. CASE l <= old
      <3>1. new \in l .. rows[j].latency
        BY <1>6, <1>7, <1>10, <2>1, <2>2, <2>3, <2>5
      <3>2. new \in rows'[k].latency .. rows'[j].latency
        BY <1>4, <1>5, <2>1, <3>1
      <3> QED
        BY <1>4, <1>5, <2>1, <3>2
    <2>6. old <= l \/ l <= old
      BY <1>7, <2>3
    <2> QED
      BY <2>4, <2>5, <2>6
  <1> QED
    BY <1>9, <1>10

\* Every step keeps each average within its latencies.
LEMMA AverageStep ==
  ASSUME TypeInv, StoreInv, AverageWithinLatencies, [Next]_vars
  PROVE  AverageWithinLatencies'
  <1>1. rows \in Seq(Row) /\ stats \in [Provider -> Stats]
    BY DEF TypeInv, SimulationTypeOK
  <1>2. QuotaTypeOK'
    BY StoreStep DEF StoreInv, QuotaInv
  <1>3. CASE UNCHANGED <<rows, stats>>
    BY <1>3 DEF AverageWithinLatencies, Answers, WithStatus
  <1>4. CASE NobodyEligible
    <2> DEFINE row == EmptyRow(NoProvider, "no_provider", None, None)
    <2>1. rows' = Append(rows, row) /\ UNCHANGED stats
      BY <1>4 DEF NobodyEligible, NextRow
    <2>2. row \in Row /\ row.status # "success"
      BY ClassType DEF EmptyRow, Row, Optional, Norm
    <2> HIDE DEF row
    <2> SUFFICES ASSUME NEW p \in Provider
                 PROVE  IF Answers(p)' = {} THEN stats'[p].latency_ewma = None
                        ELSE \E i, j \in Answers(p)' :
                               stats'[p].latency_ewma \in rows'[i].latency .. rows'[j].latency
      BY DEF AverageWithinLatencies
    <2> QED
      BY <2>1, <2>2, AverageKept
  <1>5. ASSUME NEW q \in Provider, NEW o \in Outcome,
               MissingOutcome(q, o) \/ ProviderFailure(q, o)
        PROVE  AverageWithinLatencies'
    <2>1. PICK status \in {"provider_failure", "missing_outcome"} :
            rows' = Append(rows, RowWithout(q, status))
      BY <1>5 DEF MissingOutcome, ProviderFailure, NextRow
    <2> DEFINE row == RowWithout(q, status)
    <2>2. row \in Row /\ row.status # "success"
      <3>1. Choose(q, o)
        BY <1>5 DEF MissingOutcome, ProviderFailure
      <3> QED
        BY <1>2, <3>1, ChosenServes, RowWithoutType
    <2>3. stats' = stats \/ stats' = [stats EXCEPT ![q] = AfterFailure(stats[q])]
      BY <1>5 DEF MissingOutcome, ProviderFailure
    <2>4. AfterFailure(stats[q]).latency_ewma = stats[q].latency_ewma
      BY <1>1, AfterFailureType
    <2>5. \A p \in Provider : stats'[p].latency_ewma = stats[p].latency_ewma
      BY <1>1, <2>3, <2>4
    <2> HIDE DEF row
    <2> SUFFICES ASSUME NEW p \in Provider
                 PROVE  IF Answers(p)' = {} THEN stats'[p].latency_ewma = None
                        ELSE \E i, j \in Answers(p)' :
                               stats'[p].latency_ewma \in rows'[i].latency .. rows'[j].latency
      BY DEF AverageWithinLatencies
    <2>6. rows' = Append(rows, row)
      BY <2>1 DEF row
    <2> QED
      BY <2>2, <2>5, <2>6, AverageKept
  <1>6. ASSUME NEW q \in Provider, NEW o \in Outcome, Success(q, o)
        PROVE  AverageWithinLatencies'
    <2> DEFINE cost  == ObservedCost(InputPrice[q], OutputPrice[q], o.input, o.output)
               usage == [input |-> o.input, output |-> o.output, cost |-> cost]
               first == AfterSuccess(stats[q], o.latency)
               after == AfterUsage(first, usage)
               row   == [provider |-> q, class |-> ClassOf(Item.request), status |-> "success",
                         latency |-> o.latency, cost |-> cost, quality |-> o.quality,
                         profile_quality |-> ProfileQuality(q, Item.request),
                         pressure |-> ShownPressure(q, quota_attempts')]
    <2>1. rows' = Append(rows, row) /\ stats' = [stats EXCEPT ![q] = after]
      BY <1>6 DEF Success, NextRow
    <2>2. row.provider = q /\ row.status = "success" /\ row.latency = o.latency
      OBVIOUS
    <2>3. o.latency \in Nat /\ cost \in Optional
      <3>1. InputPrice[q] \in Optional /\ OutputPrice[q] \in Optional
        BY SimulationAssumption
      <3> QED
        BY <3>1, OutcomeType, CostType
    <2>4. row \in Row
      <3>1. Choose(q, o)
        BY <1>6 DEF Success
      <3>2. ProfileQuality(q, Item.request) \in Norm
        BY <3>1, ChosenServes, ProfileType
      <3>3. ShownPressure(q, quota_attempts') \in Optional
        BY <1>2, PressureType DEF QuotaTypeOK
      <3>4. o.latency \in Optional /\ o.quality \in Norm
        BY OutcomeType DEF Optional
      <3>5. ClassOf(Item.request) \in Route!TaskClass
        BY ClassType
      <3> HIDE DEF cost
      <3> QED
        BY <2>3, <3>2, <3>3, <3>4, <3>5 DEF Row
    <2>5. after.latency_ewma = Ewma(stats[q].latency_ewma, o.latency)
      <3>1. usage \in Usage
        BY <2>3, OutcomeType DEF Usage
      <3>2. first \in Stats /\ first.latency_ewma = Ewma(stats[q].latency_ewma, o.latency)
        BY <1>1, <2>3, AfterSuccessType
      <3> HIDE DEF usage, first
      <3> QED
        BY <3>1, <3>2, AfterUsageType
    <2> HIDE DEF cost, row, after
    <2>6. stats'[q].latency_ewma = Ewma(stats[q].latency_ewma, row.latency)
      BY <1>1, <2>1, <2>2, <2>5
    <2> SUFFICES ASSUME NEW p \in Provider
                 PROVE  IF Answers(p)' = {} THEN stats'[p].latency_ewma = None
                        ELSE \E i, j \in Answers(p)' :
                               stats'[p].latency_ewma \in rows'[i].latency .. rows'[j].latency
      BY DEF AverageWithinLatencies
    <2>7. CASE p = q
      <3>1. /\ Answers(q)' # {}
            /\ \E i, j \in Answers(q)' :
                 stats'[q].latency_ewma \in rows'[i].latency .. rows'[j].latency
        BY <2>1, <2>2, <2>3, <2>4, <2>6, AverageMoved
      <3> QED
        BY <2>7, <3>1
    <2>8. CASE p # q
      <3>1. stats'[p].latency_ewma = stats[p].latency_ewma
        BY <1>1, <2>1, <2>8
      <3> QED
        BY <2>1, <2>2, <2>4, <2>8, <3>1, AverageKept
    <2> QED
      BY <2>7, <2>8
  <1>7. CASE EndPolicy
    <2>1. rows' = <<>> /\ stats' = FreshStats
      BY <1>7 DEF EndPolicy
    <2>2. \A p \in Provider : Answers(p)' = {} /\ stats'[p].latency_ewma = None
      BY <2>1 DEF Answers, WithStatus, FreshStats, NoStats
    <2> QED
      BY <2>2 DEF AverageWithinLatencies
  <1> QED
    BY <1>3, <1>4, <1>5, <1>6, <1>7
       DEF Next, AttemptStep, SetClock, InvalidOutcome, vars, simVars

\* The moving average of a provider's latencies never leaves them, however
\* long the replay and whatever fails in it.
THEOREM AverageAlwaysWithin == Spec => []AverageWithinLatencies
  <1>1. Init => StoreInv /\ TypeInv /\ AverageWithinLatencies
    <2>1. Init => AverageWithinLatencies
      BY DEF Init, AverageWithinLatencies, Answers, WithStatus, FreshStats, NoStats
    <2> QED
      BY <2>1, InitStore, InitType
  <1>2. /\ StoreInv /\ TypeInv /\ AverageWithinLatencies
        /\ [Next]_vars
        => (StoreInv /\ TypeInv /\ AverageWithinLatencies)'
    BY StoreStep, TypeStep, AverageStep
  <1> QED
    BY <1>1, <1>2, PTL DEF Spec

-----------------------------------------------------------------------------
(***************************************************************************)
(* Rows and what is counted in them.                                       *)
(***************************************************************************)

\* A set of places and the place after the last.
LEMMA OneMore ==
  ASSUME NEW n \in Nat, NEW S \in SUBSET (1 .. n)
  PROVE  /\ IsFiniteSet(S) /\ Cardinality(S) \in Nat /\ n + 1 \notin S
         /\ IsFiniteSet(S \cup {n + 1}) /\ Cardinality(S \cup {n + 1}) = Cardinality(S) + 1
  <1>1. IsFiniteSet(1 .. n)
    BY FS_Interval
  <1>2. IsFiniteSet(S)
    BY <1>1, FS_Subset
  <1>3. n + 1 \notin S
    OBVIOUS
  <1> QED
    BY <1>2, <1>3, FS_AddElement, FS_CardinalityType

\* The row of a failure.
LEMMA FailureRow ==
  ASSUME TypeInv, StoreInv', NEW p \in Provider, NEW o \in Outcome, ProviderFailure(p, o)
  PROVE  \E row \in Row : /\ rows' = Append(rows, row) /\ row.provider = p
                          /\ row.class = ClassOf(Item.request)
                          /\ row.status = "provider_failure"
  <1> DEFINE row == RowWithout(p, "provider_failure")
  <1>1. rows' = Append(rows, row) /\ Choose(p, o)
    BY DEF ProviderFailure, NextRow
  <1>2. row \in Row
    BY <1>1, ChosenServes, RowWithoutType DEF StoreInv, QuotaInv
  <1>3. row.provider = p /\ row.class = ClassOf(Item.request) /\ row.status = "provider_failure"
    BY DEF RowWithout, EmptyRow
  <1> QED
    BY <1>1, <1>2, <1>3

\* The row of an outcome the trace does not have.
LEMMA MissingRow ==
  ASSUME TypeInv, StoreInv', NEW p \in Provider, NEW o \in Outcome, MissingOutcome(p, o)
  PROVE  \E row \in Row : /\ rows' = Append(rows, row) /\ row.provider = p
                          /\ row.class = ClassOf(Item.request)
                          /\ row.status = "missing_outcome"
  <1> DEFINE row == RowWithout(p, "missing_outcome")
  <1>1. rows' = Append(rows, row) /\ Choose(p, o)
    BY DEF MissingOutcome, NextRow
  <1>2. row \in Row
    BY <1>1, ChosenServes, RowWithoutType DEF StoreInv, QuotaInv
  <1>3. row.provider = p /\ row.class = ClassOf(Item.request) /\ row.status = "missing_outcome"
    BY DEF RowWithout, EmptyRow
  <1> QED
    BY <1>1, <1>2, <1>3

\* The row of a request nobody takes.
LEMMA NobodyRow ==
  ASSUME NobodyEligible
  PROVE  \E row \in Row : /\ rows' = Append(rows, row) /\ row.provider = NoProvider
                          /\ row.status = "no_provider"
  <1> DEFINE row == EmptyRow(NoProvider, "no_provider", None, None)
  <1>1. rows' = Append(rows, row)
    BY DEF NobodyEligible, NextRow
  <1>2. row \in Row /\ row.provider = NoProvider /\ row.status = "no_provider"
    BY ClassType DEF EmptyRow, Row, Optional, Norm
  <1> QED
    BY <1>1, <1>2

\* What an answer of p costs, and its usage.
CostOf(p, o) == ObservedCost(InputPrice[p], OutputPrice[p], o.input, o.output)
UsageOf(p, o) == [input |-> o.input, output |-> o.output, cost |-> CostOf(p, o)]

\* Cost and usage of an answer.
LEMMA UsageType ==
  ASSUME NEW p \in Provider, NEW o \in Outcome
  PROVE  CostOf(p, o) \in Optional /\ UsageOf(p, o) \in Usage
  <1>1. InputPrice[p] \in Optional /\ OutputPrice[p] \in Optional
    BY SimulationAssumption
  <1>2. CostOf(p, o) \in Optional
    BY <1>1, OutcomeType, CostType DEF CostOf
  <1> QED
    BY <1>2, OutcomeType DEF UsageOf, Usage

\* The row of an answer, and what the store makes of it.
LEMMA SuccessRow ==
  ASSUME TypeInv, StoreInv', NEW p \in Provider, NEW o \in Outcome, Success(p, o)
  PROVE  /\ \E row \in Row : /\ rows' = Append(rows, row) /\ row.provider = p
                             /\ row.class = ClassOf(Item.request) /\ row.status = "success"
                             /\ row.latency = o.latency /\ row.cost = CostOf(p, o)
                             /\ row.quality = o.quality
         /\ stats' = [stats EXCEPT ![p] = AfterUsage(AfterSuccess(stats[p], o.latency),
                                                     UsageOf(p, o))]
         /\ Reward(p, o, CostOf(p, o)) \in 0 .. Full /\ Feedback(p, Reward(p, o, CostOf(p, o)))
  <1> DEFINE cost  == CostOf(p, o)
             after == AfterUsage(AfterSuccess(stats[p], o.latency), UsageOf(p, o))
             row   == [provider |-> p, class |-> ClassOf(Item.request), status |-> "success",
                       latency |-> o.latency, cost |-> cost, quality |-> o.quality,
                       profile_quality |-> ProfileQuality(p, Item.request),
                       pressure |-> ShownPressure(p, quota_attempts')]
  <1>1. /\ Choose(p, o) /\ rows' = Append(rows, row) /\ stats' = [stats EXCEPT ![p] = after]
        /\ Feedback(p, Reward(p, o, cost))
    BY DEF Success, NextRow, CostOf, UsageOf
  <1>2. ServesModel(p, Item.request)
    BY <1>1, ChosenServes
  <1>3. QuotaTypeOK' /\ stats \in [Provider -> Stats]
    BY DEF StoreInv, QuotaInv, TypeInv, SimulationTypeOK
  <1>4. cost \in Optional /\ UsageOf(p, o) \in Usage
    BY UsageType
  <1> HIDE DEF cost
  <1>5. row \in Row
    <2>1. ProfileQuality(p, Item.request) \in Norm
      BY <1>2, ProfileType
    <2>2. ShownPressure(p, quota_attempts') \in Optional
      BY <1>3, PressureType DEF QuotaTypeOK
    <2>3. o.latency \in Optional /\ o.quality \in Norm
      BY OutcomeType DEF Optional
    <2>4. ClassOf(Item.request) \in Route!TaskClass
      BY ClassType
    <2> QED
      BY <1>4, <2>1, <2>2, <2>3, <2>4 DEF Row
  <1>6. after \in Stats
    <2>1. AfterSuccess(stats[p], o.latency) \in Stats
      BY <1>3, OutcomeType, AfterSuccessType
    <2> QED
      BY <1>4, <2>1, AfterUsageType
  <1>7. /\ row.provider = p /\ row.class = ClassOf(Item.request) /\ row.status = "success"
        /\ row.latency = o.latency /\ row.cost = cost /\ row.quality = o.quality
    OBVIOUS
  <1> HIDE DEF row, after
  <1>8. stats'[p] \in Stats
    BY <1>1, <1>3, <1>6
  <1>9. Reward(p, o, cost) \in 0 .. Full
    BY <1>2, <1>3, <1>4, <1>8, RewardType
  <1> QED
    BY <1>1, <1>5, <1>7, <1>9 DEF cost, after

-----------------------------------------------------------------------------
(***************************************************************************)
(* What the bandit learns.                                                 *)
(***************************************************************************)

\* A row more is counted where it belongs.
LEMMA SeenMore ==
  ASSUME TypeInv, NEW row \in Row, rows' = Append(rows, row),
         NEW class, NEW p, NEW status
  PROVE  /\ Cardinality(Seen(class, p, status)) \in Nat
         /\ Cardinality(Seen(class, p, status)')
              = Cardinality(Seen(class, p, status))
                  + (IF row.provider = p /\ row.class = class /\ row.status = status
                       THEN 1 ELSE 0)
  <1> DEFINE n == Len(rows)
             S == Seen(class, p, status)
  <1>1. /\ n \in Nat /\ DOMAIN rows = 1 .. n /\ DOMAIN rows' = 1 .. n + 1
        /\ rows'[n + 1] = row /\ \A i \in 1 .. n : rows'[i] = rows[i]
    BY DEF TypeInv, SimulationTypeOK
  <1>2. S \in SUBSET (1 .. n)
    BY <1>1 DEF Seen, WithStatus
  <1> HIDE DEF S
  <1>3. /\ Cardinality(S) \in Nat
        /\ Cardinality(S \cup {n + 1}) = Cardinality(S) + 1
    BY <1>1, <1>2, OneMore
  <1>4. CASE row.provider = p /\ row.class = class /\ row.status = status
    <2>1. Seen(class, p, status)' = S \cup {n + 1}
      BY <1>1, <1>4 DEF Seen, WithStatus, S
    <2> QED
      BY <1>3, <1>4, <2>1 DEF S
  <1>5. CASE ~(row.provider = p /\ row.class = class /\ row.status = status)
    <2>1. Seen(class, p, status)' = S
      BY <1>1, <1>5 DEF Seen, WithStatus, S
    <2> QED
      BY <1>3, <1>5, <2>1 DEF S
  <1> QED
    BY <1>4, <1>5

\* BanditStat.update never adds more than the reward.
LEMMA TotalReward ==
  ASSUME NEW stat \in [count : Nat, mean : 0 .. Full], NEW r \in 0 .. Full
  PROVE  /\ Updated(stat, r).count = stat.count + 1
         /\ Updated(stat, r).mean * (stat.count + 1) <= stat.mean * stat.count + r
  <1> DEFINE m == stat.mean
             d == stat.count + 1
             q == (r - m) \div d
  <1>1. stat.count \in Nat /\ m \in Int /\ r \in Int /\ d \in Nat \ {0} /\ stat.count = d - 1
    BY Wholes
  <1>2. q \in Int /\ d * q <= r - m
    <2>1. r - m \in Int
      BY <1>1
    <2> QED
      BY <1>1, <2>1, Quotient
  <1>3. Updated(stat, r).count = d /\ Updated(stat, r).mean = m + q
    BY DEF Updated
  <1> HIDE DEF m, d, q
  <1>4. (m + q) * d <= m * (d - 1) + r
    <2>1. (m + q) * d = m * d + d * q /\ m * (d - 1) = m * d - m /\ m * d \in Int /\ d * q \in Int
      BY <1>1, <1>2, SMTT(30)
    <2> QED
      BY <1>1, <1>2, <2>1
  <1> QED
    BY <1>1, <1>3, <1>4 DEF m, d

\* LearnsFromChosen for one provider and one class.
Learned(class, p) ==
  LET stat == bandit[<<class, p>>]
      successes == Cardinality(Seen(class, p, "success"))
  IN  /\ stat.count = successes + Cardinality(Seen(class, p, "provider_failure"))
      /\ stat.mean * stat.count <= Full * successes

\* The chosen provider and its class learn one reward more, of which a failure
\* has nothing.
LEMMA LearnedMore ==
  ASSUME TypeInv, NEW row \in Row, rows' = Append(rows, row),
         NEW class \in Route!TaskClass, NEW p \in Provider, Learned(class, p),
         row.provider = p, row.class = class,
         NEW r \in 0 .. Full, bandit'[<<class, p>>] = Updated(bandit[<<class, p>>], r),
         \/ row.status = "success"
         \/ row.status = "provider_failure" /\ r = 0
  PROVE  Learned(class, p)'
  <1> DEFINE stat == bandit[<<class, p>>]
             new  == bandit'[<<class, p>>]
             s == Cardinality(Seen(class, p, "success"))
             f == Cardinality(Seen(class, p, "provider_failure"))
             t == Cardinality(Seen(class, p, "success")')
             g == Cardinality(Seen(class, p, "provider_failure")')
  <1>1. /\ s \in Nat /\ f \in Nat
        /\ t = s + (IF row.status = "success" THEN 1 ELSE 0)
        /\ g = f + (IF row.status = "provider_failure" THEN 1 ELSE 0)
    BY SeenMore
  <1>2. stat \in [count : Nat, mean : 0 .. Full]
    BY DEF TypeInv, SimulationTypeOK
  <1>3. stat.count = s + f /\ stat.mean * stat.count <= Full * s
    BY DEF Learned
  <1>4. new.count = stat.count + 1 /\ new.mean * (stat.count + 1) <= stat.mean * stat.count + r
    <2>1. new = Updated(stat, r)
      OBVIOUS
    <2> HIDE DEF new, stat
    <2>2. /\ Updated(stat, r).count = stat.count + 1
          /\ Updated(stat, r).mean * (stat.count + 1) <= stat.mean * stat.count + r
      BY <1>2, TotalReward
    <2> QED
      BY <2>1, <2>2, Zenon
  <1>5. new.mean \in Int /\ stat.mean \in Int /\ stat.count \in Nat
    <2>1. Updated(stat, r) \in [count : Nat, mean : 0 .. Full]
      BY <1>2, UpdatedType
    <2>2. new \in [count : Nat, mean : 0 .. Full]
      BY <2>1, Zenon
    <2> HIDE DEF new, stat
    <2> QED
      BY <1>2, <2>2, Wholes
  <1> HIDE DEF s, f, t, g
  <1>6. new.count = t + g
    BY <1>1, <1>3, <1>4
  <1>7. new.mean * new.count <= Full * t
    <2> DEFINE a == new.mean * new.count
               b == stat.mean * stat.count
    <2>1. a \in Int /\ b \in Int /\ Full * s \in Int /\ Full * (s + 1) = Full * s + Full
      BY <1>1, <1>4, <1>5, Wholes, SMTT(30)
    <2>2. a <= b + r /\ b <= Full * s
      BY <1>3, <1>4
    <2>3. r \in Int /\ r <= Full /\ Full \in Nat
      BY Wholes
    <2> HIDE DEF a, b
    <2>4. CASE row.status = "success"
      <3>1. t = s + 1
        BY <1>1, <2>4
      <3>2. a <= Full * s + Full
        BY <2>1, <2>2, <2>3
      <3> QED
        BY <2>1, <3>1, <3>2 DEF a
    <2>5. CASE row.status = "provider_failure" /\ r = 0
      <3>1. t = s
        BY <1>1, <2>5
      <3>2. a <= Full * s
        BY <2>1, <2>2, <2>5
      <3> QED
        BY <3>1, <3>2 DEF a
    <2> QED
      BY <2>4, <2>5
  <1> QED
    BY <1>6, <1>7 DEF Learned, t, g

\* A row that is no outcome of p in the class teaches nothing.
LEMMA LearnedKept ==
  ASSUME TypeInv, NEW row \in Row, rows' = Append(rows, row),
         NEW class \in Route!TaskClass, NEW p \in Provider, Learned(class, p),
         \/ row.provider # p \/ row.class # class
         \/ row.status \notin {"success", "provider_failure"},
         bandit'[<<class, p>>] = bandit[<<class, p>>]
  PROVE  Learned(class, p)'
  <1>1. /\ Cardinality(Seen(class, p, "success")) \in Nat
        /\ Cardinality(Seen(class, p, "success")') = Cardinality(Seen(class, p, "success")) + 0
    BY SeenMore
  <1>2. /\ Cardinality(Seen(class, p, "provider_failure")) \in Nat
        /\ Cardinality(Seen(class, p, "provider_failure")')
             = Cardinality(Seen(class, p, "provider_failure")) + 0
    BY SeenMore
  <1> QED
    BY <1>1, <1>2 DEF Learned

\* An outcome of q teaches the UCB policy about q in the class of the request.
LEMMA LearnsStep ==
  ASSUME TypeInv, LearnsFromChosen, stage = "rank", stage' = "clock",
         UNCHANGED <<simulation, results>>,
         NEW q \in Provider, NEW row \in Row, rows' = Append(rows, row),
         row.provider = q, row.class = ClassOf(Item.request),
         NEW r \in 0 .. Full, Feedback(q, r),
         \/ row.status = "success"
         \/ row.status = "provider_failure" /\ r = 0
  PROVE  LearnsFromChosen'
  <1>1. Policy' = Policy
    BY DEF Policy
  <1>2. CASE Policy # "constrained_ucb"
    BY <1>1, <1>2 DEF LearnsFromChosen, Feedback
  <1>3. CASE Policy = "constrained_ucb"
    <2> DEFINE key == <<ClassOf(Item.request), q>>
    <2>1. bandit' = [bandit EXCEPT ![key] = Updated(bandit[key], r)]
      BY <1>3 DEF Feedback
    <2>2. key \in Route!TaskClass \X Provider /\ bandit \in Banditry
      BY ClassType DEF TypeInv, SimulationTypeOK, Banditry
    <2>3. ASSUME NEW class \in Route!TaskClass, NEW p \in Provider
          PROVE  Learned(class, p)'
      <3>1. Learned(class, p)
        BY <1>3 DEF LearnsFromChosen, Learned
      <3>2. CASE class = ClassOf(Item.request) /\ p = q
        <4>1. bandit'[<<class, p>>] = Updated(bandit[<<class, p>>], r)
          BY <2>1, <2>2, <3>2 DEF Banditry
        <4> QED
          BY <3>1, <3>2, <4>1, LearnedMore
      <3>3. CASE ~(class = ClassOf(Item.request) /\ p = q)
        <4>1. bandit'[<<class, p>>] = bandit[<<class, p>>]
          BY <2>1, <2>2, <3>3 DEF Banditry
        <4> QED
          BY <3>1, <3>3, <4>1, LearnedKept
      <3> QED
        BY <3>2, <3>3
    <2> QED
      BY <1>1, <1>3, <2>3 DEF LearnsFromChosen, Learned
  <1> QED
    BY <1>2, <1>3

\* A row without an outcome teaches nobody.
LEMMA LearnsNothing ==
  ASSUME TypeInv, LearnsFromChosen, stage = "rank", stage' = "clock",
         UNCHANGED <<simulation, results, bandit>>,
         NEW row \in Row, rows' = Append(rows, row),
         row.status \notin {"success", "provider_failure"}
  PROVE  LearnsFromChosen'
  <1>1. Policy' = Policy
    BY DEF Policy
  <1>2. \A class \in Route!TaskClass, p \in Provider : Learned(class, p) => Learned(class, p)'
    BY LearnedKept
  <1> QED
    BY <1>1, <1>2 DEF LearnsFromChosen, Learned

\* Every step keeps what was learned equal to what was chosen.
LEMMA LearningStep ==
  ASSUME TypeInv, StoreInv, LearnsFromChosen, [Next]_vars
  PROVE  LearnsFromChosen'
  <1>1. StoreInv'
    BY StoreStep
  <1>2. CASE /\ UNCHANGED <<simulation, rows, bandit, results>>
             /\ stage' = stage \/ (stage = "clock" /\ stage' \in {"rank", "error"})
                  \/ (stage = "rank" /\ stage' = "error")
    <2>1. Policy' = Policy
      BY <1>2 DEF Policy
    <2> QED
      BY <1>2, <2>1 DEF LearnsFromChosen, Seen, WithStatus
  <1>3. CASE NobodyEligible
    <2>1. PICK row \in Row : rows' = Append(rows, row) /\ row.status = "no_provider"
      BY <1>3, NobodyRow
    <2> QED
      BY <1>3, <2>1, LearnsNothing DEF NobodyEligible, NextRow
  <1>4. ASSUME NEW p \in Provider, NEW o \in Outcome, MissingOutcome(p, o)
        PROVE  LearnsFromChosen'
    <2>1. PICK row \in Row : rows' = Append(rows, row) /\ row.status = "missing_outcome"
      BY <1>1, <1>4, MissingRow
    <2> QED
      BY <1>4, <2>1, LearnsNothing DEF MissingOutcome, NextRow, Choose
  <1>5. ASSUME NEW p \in Provider, NEW o \in Outcome, ProviderFailure(p, o)
        PROVE  LearnsFromChosen'
    <2>1. PICK row \in Row : /\ rows' = Append(rows, row) /\ row.provider = p
                             /\ row.class = ClassOf(Item.request)
                             /\ row.status = "provider_failure"
      BY <1>1, <1>5, FailureRow
    <2>2. /\ stage = "rank" /\ stage' = "clock" /\ UNCHANGED <<simulation, results>>
          /\ Feedback(p, 0) /\ 0 \in 0 .. Full
      BY <1>5, Wholes DEF ProviderFailure, NextRow, Choose
    <2> QED
      BY <2>1, <2>2, LearnsStep
  <1>6. ASSUME NEW p \in Provider, NEW o \in Outcome, Success(p, o)
        PROVE  LearnsFromChosen'
    <2>1. PICK row \in Row : /\ rows' = Append(rows, row) /\ row.provider = p
                             /\ row.class = ClassOf(Item.request)
                             /\ row.status = "success"
      BY <1>1, <1>6, SuccessRow
    <2>2. stage = "rank" /\ stage' = "clock" /\ UNCHANGED <<simulation, results>>
      BY <1>6 DEF Success, NextRow, Choose
    <2>3. Reward(p, o, CostOf(p, o)) \in 0 .. Full /\ Feedback(p, Reward(p, o, CostOf(p, o)))
      BY <1>1, <1>6, SuccessRow
    <2> QED
      BY <2>1, <2>2, <2>3, LearnsStep
  <1>7. CASE EndPolicy
    <2>1. rows' = <<>> /\ bandit' = NoBandit
      BY <1>7 DEF EndPolicy
    <2>2. \A class, p, status : Seen(class, p, status)' = {}
      BY <2>1 DEF Seen, WithStatus
    <2>3. \A class \in Route!TaskClass, p \in Provider :
            bandit'[<<class, p>>] = [count |-> 0, mean |-> 0]
      BY <2>1 DEF NoBandit
    <2>4. \A class \in Route!TaskClass, p \in Provider : Learned(class, p)'
      <3> SUFFICES ASSUME NEW class \in Route!TaskClass, NEW p \in Provider
                   PROVE  Learned(class, p)'
        OBVIOUS
      <3>1. bandit'[<<class, p>>].count = 0 /\ bandit'[<<class, p>>].mean = 0
        BY <2>3
      <3>2. \A status : Cardinality(Seen(class, p, status)') = 0
        BY <2>2, FS_EmptySet
      <3>3. Full * 0 = 0
        BY Wholes
      <3> QED
        BY <3>1, <3>2, <3>3 DEF Learned
    <2> QED
      BY <2>1, <2>4 DEF LearnsFromChosen, Learned
  <1>8. CASE UNCHANGED vars
    BY <1>2, <1>8 DEF vars, simVars
  <1>9. CASE SetClock
    BY <1>2, <1>9 DEF SetClock
  <1>10. ASSUME NEW p \in Provider, NEW o \in Outcome, InvalidOutcome(p, o)
         PROVE  LearnsFromChosen'
    BY <1>2, <1>10 DEF InvalidOutcome, Choose
  <1> QED
    BY <1>3, <1>4, <1>5, <1>6, <1>7, <1>8, <1>9, <1>10 DEF Next, AttemptStep

\* The UCB policy learns exactly from what it chose: as many observations as
\* outcomes, none of them worth more than a success, for any trace.
THEOREM LearnsFromChosenAlways == Spec => []LearnsFromChosen
  <1>1. Init => StoreInv /\ TypeInv /\ LearnsFromChosen
    <2> SUFFICES ASSUME Init PROVE LearnsFromChosen
      BY InitStore, InitType
    <2>1. \A class, p, status : Seen(class, p, status) = {}
      BY DEF Init, Seen, WithStatus
    <2>2. bandit = NoBandit
      BY DEF Init
    <2>3. \A class \in Route!TaskClass, p \in Provider :
            bandit[<<class, p>>] = [count |-> 0, mean |-> 0]
      BY <2>2 DEF NoBandit
    <2> QED
      BY <2>1, <2>2, <2>3, FS_EmptySet, Wholes DEF LearnsFromChosen
  <1>2. StoreInv /\ TypeInv /\ LearnsFromChosen /\ [Next]_vars
          => (StoreInv /\ TypeInv /\ LearnsFromChosen)'
    BY StoreStep, TypeStep, LearningStep
  <1> QED
    BY <1>1, <1>2, PTL DEF Spec

-----------------------------------------------------------------------------
(***************************************************************************)
(* No scoring policy takes a provider that another one beats.              *)
(***************************************************************************)
Scoring == SimulationPolicies \ {"ordered", "constrained_ucb"}

\* What is worse in everything stays worse when both are divided by what the
\* better one has more of.
LEMMA WorseByWeight ==
  ASSUME NEW a \in Nat, NEW b \in Int, a < b,
         NEW d \in Nat \ {0}, NEW e \in Nat \ {0}, d <= e
  PROVE  a * d < b * e
  <1>1. a * (e - d) \in Nat
    BY ProductNat
  <1>2. a * (e - d) = a * e - a * d /\ a * e \in Int /\ a * d \in Int
    BY SMTT(30)
  <1>3. (b - a - 1) * e \in Nat
    <2>1. b - a - 1 \in Nat /\ e \in Nat
      OBVIOUS
    <2> QED
      BY <2>1, ProductNat
  <1>4. (b - a - 1) * e = b * e - a * e - e /\ b * e \in Int
    BY SMTT(30)
  <1> QED
    BY <1>1, <1>2, <1>3, <1>4

\* Norms of a provider that serves a request.
LEMMA TermTypes ==
  ASSUME TypeInv, NEW q, NEW p \in Feasible(q)
  PROVE  /\ LatencyNorm(stats[p]) \in 0 .. One /\ CostNorm(p, stats[p]) \in 0 .. One
         /\ QualityPrior(p, q) \in 0 .. One /\ Pressure(p, AttemptsRefreshed(Provider)) \in 0 .. One
         /\ Clamp(CostHint[p]) \in 0 .. One /\ Clamp(QualityHint[p]) \in 0 .. One
         /\ Weight[p] \in Int
  <1>1. p \in Provider /\ ServesModel(p, q)
    BY DEF Feasible
  <1>2. stats[p] \in Stats
    BY <1>1 DEF TypeInv, SimulationTypeOK
  <1>3. LatencyNorm(stats[p]) \in 0 .. One
    <2>1. (IF stats[p].latency_ewma = None THEN 1000 ELSE stats[p].latency_ewma) \in Nat
      BY <1>2 DEF Stats, Optional
    <2> QED
      BY <2>1, LatencyNormType DEF LatencyNorm
  <1>4. AttemptsRefreshed(Provider) \in [Provider -> Nat]
    BY DEF TypeInv, SimulationTypeOK, QuotaTypeOK, AttemptsRefreshed
  <1>5. CostHint[p] \in Int /\ QualityHint[p] \in Int /\ Weight[p] \in Int
    BY <1>1, SimulationAssumption
  <1> QED
    BY <1>1, <1>2, <1>3, <1>4, <1>5, CostNormType, PriorType, PressureType, ClampType

\* Who is better in every term of a score has the lower one.
LEMMA LowerRating ==
  ASSUME TypeInv, NEW q, NEW p \in Feasible(q), NEW c \in Feasible(q), Dominates(c, p, q),
         NEW C, Policy \in Scoring
  PROVE  /\ Rating(c, q, C) \in Nat /\ Rating(p, q, C) \in Int
         /\ Rating(c, q, C) < Rating(p, q, C)
  <1>1. CASE Policy = "adaptive_balanced"
    <2> DEFINE lc == LatencyNorm(stats[c])
               lp == LatencyNorm(stats[p])
               cc == CostNorm(c, stats[c])
               cp == CostNorm(p, stats[p])
               qc == QualityPrior(c, q)
               qp == QualityPrior(p, q)
               zc == Pressure(c, AttemptsRefreshed(Provider))
               zp == Pressure(p, AttemptsRefreshed(Provider))
    <2>1. lc < lp /\ cc < cp /\ One - qc < One - qp /\ zc <= zp
      <3>1. \A i \in 1 .. 4 : Terms(c, q)[i] <= Terms(p, q)[i]
        BY DEF Dominates
      <3>2. \A i \in 1 .. 3 : Terms(c, q)[i] < Terms(p, q)[i]
        BY DEF Dominates
      <3>3. /\ Terms(c, q) = <<lc, cc, One - qc, zc>>
            /\ Terms(p, q) = <<lp, cp, One - qp, zp>>
        BY <1>1 DEF Terms
      <3> HIDE DEF lc, lp, cc, cp, qc, qp, zc, zp
      <3>4. 1 \in 1 .. 3 /\ 2 \in 1 .. 3 /\ 3 \in 1 .. 3 /\ 4 \in 1 .. 4
        OBVIOUS
      <3> QED
        BY <3>1, <3>2, <3>3, <3>4
    <2>2. /\ lc \in 0 .. One /\ cc \in 0 .. One /\ qc \in 0 .. One /\ zc \in 0 .. One
          /\ lp \in 0 .. One /\ cp \in 0 .. One /\ qp \in 0 .. One /\ zp \in 0 .. One
      BY TermTypes
    <2>3. /\ Rating(c, q, C) = 40 * lc + 25 * cc + 25 * (One - qc) + 10 * zc
          /\ Rating(p, q, C) = 40 * lp + 25 * cp + 25 * (One - qp) + 10 * zp
      BY <1>1 DEF Rating, AdaptivePenalty, Penalty
    <2> HIDE DEF lc, lp, cc, cp, qc, qp, zc, zp
    <2> QED
      BY <2>1, <2>2, <2>3, Wholes
  <1>2. CASE Policy \in {"latency", "cost", "quality", "balanced"}
    <2> DEFINE lc == LatencyNorm(stats[c])
               lp == LatencyNorm(stats[p])
               cc == Clamp(CostHint[c])
               cp == Clamp(CostHint[p])
               qc == Clamp(QualityHint[c])
               qp == Clamp(QualityHint[p])
    <2>1. lc < lp /\ cc < cp /\ One - qc < One - qp
      <3>1. \A i \in 1 .. 3 : Terms(c, q)[i] < Terms(p, q)[i]
        BY DEF Dominates
      <3>2. /\ Terms(c, q) = <<lc, cc, One - qc, -Weight[c]>>
            /\ Terms(p, q) = <<lp, cp, One - qp, -Weight[p]>>
        BY <1>2 DEF Terms
      <3> HIDE DEF lc, lp, cc, cp, qc, qp
      <3>3. 1 \in 1 .. 3 /\ 2 \in 1 .. 3 /\ 3 \in 1 .. 3
        OBVIOUS
      <3> QED
        BY <3>1, <3>2, <3>3
    <2>2. /\ lc \in 0 .. One /\ cc \in 0 .. One /\ qc \in 0 .. One
          /\ lp \in 0 .. One /\ cp \in 0 .. One /\ qp \in 0 .. One
      BY TermTypes
    <2>3. Rating(c, q, C) = RouterScore(c) /\ Rating(p, q, C) = RouterScore(p)
      BY <1>2 DEF Rating
    <2>4. \/ RouterScore(c) = 100 * lc /\ RouterScore(p) = 100 * lp
          \/ RouterScore(c) = 100 * cc /\ RouterScore(p) = 100 * cp
          \/ RouterScore(c) = 100 * (One - qc) /\ RouterScore(p) = 100 * (One - qp)
          \/ /\ RouterScore(c) = 45 * lc + 30 * cc + 25 * (One - qc)
             /\ RouterScore(p) = 45 * lp + 30 * cp + 25 * (One - qp)
      BY <1>2 DEF RouterScore
    <2> HIDE DEF lc, lp, cc, cp, qc, qp
    <2> QED
      BY <2>1, <2>2, <2>3, <2>4, Wholes
  <1> QED
    BY <1>1, <1>2 DEF Scoring, SimulationPolicies, StaticPolicies

\* Who is better in every term has at least the weight.
LEMMA GreaterDivisor ==
  ASSUME TypeInv, NEW q, NEW p \in Feasible(q), NEW c \in Feasible(q), Dominates(c, p, q)
  PROVE  Divisor(c) \in Nat \ {0} /\ Divisor(p) \in Nat \ {0} /\ Divisor(p) <= Divisor(c)
  <1>1. Weight[c] \in Int /\ Weight[p] \in Int
    BY TermTypes
  <1>2. CASE Policy \notin StaticPolicies
    BY <1>2 DEF Divisor
  <1>3. CASE Policy \in StaticPolicies
    <2>1. Terms(c, q)[4] = -Weight[c] /\ Terms(p, q)[4] = -Weight[p]
      BY <1>3 DEF Terms, StaticPolicies
    <2>2. Terms(c, q)[4] <= Terms(p, q)[4]
      BY DEF Dominates
    <2> QED
      BY <1>1, <1>3, <2>1, <2>2 DEF Divisor
  <1> QED
    BY <1>2, <1>3

\* Whoever is chosen is dominated by nobody who could have been.
LEMMA ChosenNotDominated ==
  ASSUME TypeInv, NEW p \in Provider, NEW o, Choose(p, o), Policy \in Scoring,
         NEW c \in Feasible(Item.request)
  PROVE  ~Dominates(c, p, Item.request)
  <1> SUFFICES ASSUME Dominates(c, p, Item.request) PROVE FALSE
    OBVIOUS
  <1> DEFINE q == Item.request
             C == Feasible(q)
             rc == Rating(c, q, C)
             rp == Rating(p, q, C)
             dc == Divisor(c)
             dp == Divisor(p)
  <1>1. p \in C /\ c \in C /\ Chosen(p, q, C)
    BY DEF Choose
  <1>2. rc \in Nat /\ rp \in Int /\ rc < rp
    BY <1>1, LowerRating
  <1>3. dc \in Nat \ {0} /\ dp \in Nat \ {0} /\ dp <= dc
    BY <1>1, GreaterDivisor
  <1>4. c # p
    BY <1>2
  <1>5. rp * dc < rc * dp \/ rp * dc = rc * dp
    BY <1>1, <1>4 DEF Chosen
  <1> HIDE DEF rc, rp, dc, dp
  <1>6. rc * dp < rp * dc
    BY <1>2, <1>3, WorseByWeight
  <1>7. rc * dp \in Int /\ rp * dc \in Int
    BY <1>2, <1>3, SMTT(30)
  <1> QED
    BY <1>5, <1>6, <1>7

\* A replay is of one of the policies.
LEMMA PolicyType ==
  ASSUME TypeInv, stage = "rank"
  PROVE  Policy \in SimulationPolicies
  <1>1. /\ simulation.policies \in Seq(SimulationPolicies)
        /\ Len(results) < Len(simulation.policies)
    BY SimulationType DEF TypeInv, SimulationTypeOK
  <1>2. Len(results) \in Nat
    BY DEF TypeInv, ResultsOK
  <1>3. Len(results) + 1 \in 1 .. Len(simulation.policies)
    BY <1>1, <1>2
  <1> QED
    BY <1>1, <1>3 DEF Policy

\* What NeverDominated says of a step.
LEMMA DominatedStep ==
  ASSUME TypeInv, StoreInv, Next, NEW p \in Provider,
         Len(rows') > Len(rows), rows'[Len(rows')].provider = p,
         Policy \notin {"ordered", "constrained_ucb"}, NEW c \in Feasible(Item.request)
  PROVE  ~Dominates(c, p, Item.request)
  <1>1. StoreInv' /\ rows \in Seq(Row) /\ Len(rows) \in Nat
    BY StoreStep DEF TypeInv, SimulationTypeOK
  <1>2. \A row \in Row : rows' = Append(rows, row) => row.provider = p
    BY <1>1
  <1>3. ~(UNCHANGED rows) /\ ~(rows' = <<>>)
    BY <1>1
  <1>4. ~NobodyEligible
    BY <1>2, NobodyRow, SimulationAssumption
  <1>5. PICK q \in Provider, o \in Outcome :
          MissingOutcome(q, o) \/ ProviderFailure(q, o) \/ Success(q, o)
    BY <1>3, <1>4 DEF Next, SetClock, EndPolicy, AttemptStep, InvalidOutcome
  <1>6. q = p
    BY <1>1, <1>2, <1>5, MissingRow, FailureRow, SuccessRow
  <1>7. Choose(p, o) /\ stage = "rank"
    BY <1>5, <1>6 DEF MissingOutcome, ProviderFailure, Success, Choose
  <1>8. Policy \in Scoring
    BY <1>7, PolicyType DEF Scoring
  <1> QED
    BY <1>7, <1>8, ChosenNotDominated

\* A policy that ranks by a penalty never takes a provider that another
\* feasible one dominates: one better on latency, on cost and on quality, under
\* no more quota pressure (adaptive_balanced) or of no smaller weight (static).
THEOREM NeverDominatedAlways == Spec => NeverDominated
  <1>1. Init => StoreInv /\ TypeInv
    BY InitStore, InitType
  <1>2. StoreInv /\ TypeInv /\ [Next]_vars => (StoreInv /\ TypeInv)'
    BY StoreStep, TypeStep
  <1>3. StoreInv /\ TypeInv /\ [Next]_vars =>
          [\A p \in Provider :
             /\ Len(rows') > Len(rows) /\ rows'[Len(rows')].provider = p
             /\ Policy \notin {"ordered", "constrained_ucb"}
             => \A c \in Feasible(Item.request) : ~Dominates(c, p, Item.request)]_vars
    BY DominatedStep
  <1> QED
    BY <1>1, <1>2, <1>3, PTL DEF Spec, NeverDominated

-----------------------------------------------------------------------------
(***************************************************************************)
(* Bursts.  A window of a provider starts with an attempt, row s.  Before  *)
(* it the provider was quiet: in the QuotaWindow up to s it had less than  *)
(* a quota of attempts, since the window before s had elapsed and had      *)
(* started with one of them.  So the attempts of any QuotaWindow ticks are *)
(* less than a quota before s and at most a quota from s on.               *)
(*                                                                         *)
(* First in numbers: R are the rows of a provider with n rows replayed, T  *)
(* are the times of the items, which are in order.                         *)
(***************************************************************************)
InOrder(T, m) ==
  /\ \A i \in 1 .. m : T[i] \in Int
  /\ \A i, j \in 1 .. m : i <= j => T[i] <= T[j]

\* In any w ticks up to item now there are less than l of the rows 1 to n.
Quiet(T, R, w, l, n, now) ==
  \A i \in 1 .. n : T[now] - T[i] < w => CountIn(R, i, n) < l

\* A window of that age and with so many attempts, of n rows, started with row s.
Started(T, R, w, l, n, now, s, age, count) ==
  /\ s \in 1 .. n /\ s \in R
  /\ age <= T[now] - T[s]
  /\ count = CountIn(R, s, n)
  /\ Quiet(T, R, w, l, s - 1, s)

\* The provider is quiet again once its window has elapsed.
LEMMA ElapsedQuiet ==
  ASSUME NEW T, NEW R, NEW w \in Nat, NEW l \in Nat, NEW n \in Nat, NEW now \in Nat,
         InOrder(T, now), n <= now,
         NEW s \in Nat, NEW age \in Nat, NEW count \in Nat,
         Started(T, R, w, l, n, now, s, age, count), w <= age, count <= l
  PROVE  Quiet(T, R, w, l, n, now)
  <1> SUFFICES ASSUME NEW i \in 1 .. n, T[now] - T[i] < w
               PROVE  CountIn(R, i, n) < l
    BY DEF Quiet
  <1>1. s \in 1 .. n /\ s \in R /\ age <= T[now] - T[s] /\ count = CountIn(R, s, n)
    BY DEF Started
  <1>2. i > s
    <2>1. T[now] \in Int /\ T[i] \in Int /\ T[s] \in Int /\ (i <= s => T[i] <= T[s])
      <3>1. now \in 1 .. now /\ i \in 1 .. now /\ s \in 1 .. now
        BY <1>1
      <3> QED
        BY <3>1 DEF InOrder
    <2> QED
      BY <1>1, <2>1
  <1>3. CountIn(R, s, n) = CountIn(R, s, s) + CountIn(R, s + 1, n)
    <2>1. s + 1 \in Int /\ s <= s + 1 /\ s + 1 <= n + 1 /\ (s + 1) - 1 = s
      BY <1>1
    <2> QED
      BY <2>1, CountSplit
  <1>4. CountIn(R, s, s) = 1
    BY <1>1, CountOne
  <1>5. CountIn(R, i, n) <= CountIn(R, s + 1, n)
    BY <1>2, CountMonotone
  <1>6. CountIn(R, i, n) \in Nat /\ CountIn(R, s + 1, n) \in Nat
    BY CountType
  <1> QED
    BY <1>1, <1>3, <1>4, <1>5, <1>6

\* A window and the quiet before it bound every burst that ends now.
LEMMA WindowBound ==
  ASSUME NEW T, NEW R, NEW w \in Nat, NEW l \in Nat \ {0}, NEW n \in Nat, InOrder(T, n),
         NEW s \in Nat, NEW age \in Nat, NEW count \in Nat,
         Started(T, R, w, l, n, n, s, age, count), count <= l,
         NEW i \in 1 .. n, T[n] - T[i] < w
  PROVE  CountIn(R, i, n) < 2 * l
  <1>1. /\ s \in 1 .. n /\ count = CountIn(R, s, n)
        /\ \A k \in 1 .. s - 1 : T[s] - T[k] < w => CountIn(R, k, s - 1) < l
    BY DEF Started, Quiet
  <1>2. CountIn(R, i, n) \in Nat /\ CountIn(R, i, s - 1) \in Nat
    <2>1. s - 1 \in Int
      OBVIOUS
    <2> QED
      BY <2>1, CountType
  <1>3. CASE s <= i
    <2>1. CountIn(R, i, n) <= CountIn(R, s, n)
      BY <1>3, CountMonotone
    <2> QED
      BY <1>1, <1>2, <2>1
  <1>4. CASE i < s
    <2>1. T[s] - T[i] < w
      <3>1. T[s] <= T[n] /\ T[s] \in Int /\ T[n] \in Int /\ T[i] \in Int
        <4>1. n \in 1 .. n /\ s <= n
          BY <1>1
        <4> QED
          BY <1>1, <4>1 DEF InOrder
      <3> QED
        BY <3>1
    <2>2. CountIn(R, i, s - 1) < l
      BY <1>1, <1>4, <2>1
    <2>3. CountIn(R, i, n) = CountIn(R, i, s - 1) + CountIn(R, s, n)
      <3>1. i <= s /\ s <= n + 1
        BY <1>1, <1>4
      <3> QED
        BY <3>1, CountSplit
    <2> QED
      BY <1>1, <1>2, <2>2, <2>3
  <1> QED
    BY <1>3, <1>4

\* Time that passes leaves the quiet as it is, and the start of a window.
LEMMA ClockAdvances ==
  ASSUME NEW T, NEW U, NEW R, NEW w \in Nat, NEW l \in Nat, NEW n \in Nat,
         \A k \in 1 .. n : U[k] = T[k], InOrder(U, n + 1)
  PROVE  /\ \A m \in 0 .. n : \A now \in m .. n : Quiet(T, R, w, l, m, now)
              => Quiet(U, R, w, l, m, now) /\ (now = n => Quiet(U, R, w, l, m, n + 1))
         /\ \A s \in Nat, age \in Nat, older \in Nat, count \in Nat :
              Started(T, R, w, l, n, n, s, age, count) /\ older <= age + (U[n + 1] - U[n])
              => Started(U, R, w, l, n, n + 1, s, older, count)
  <1>1. \A i \in 1 .. n + 1 : U[i] \in Int
    BY DEF InOrder
  <1>2. n \in 1 .. n => U[n] \in Int /\ U[n] <= U[n + 1] /\ U[n + 1] \in Int
    BY DEF InOrder
  <1>3. ASSUME NEW m \in 0 .. n, NEW now \in m .. n, Quiet(T, R, w, l, m, now)
        PROVE  Quiet(U, R, w, l, m, now) /\ (now = n => Quiet(U, R, w, l, m, n + 1))
    <2>1. ASSUME NEW i \in 1 .. m, U[now] - U[i] < w PROVE CountIn(R, i, m) < l
      <3>1. now \in 1 .. n /\ i \in 1 .. n
        OBVIOUS
      <3>2. T[now] - T[i] < w
        BY <2>1, <3>1
      <3> QED
        BY <1>3, <3>2 DEF Quiet
    <2>2. ASSUME now = n, NEW i \in 1 .. m, U[n + 1] - U[i] < w PROVE CountIn(R, i, m) < l
      <3>1. n \in 1 .. n /\ i \in 1 .. n + 1
        OBVIOUS
      <3>2. U[now] - U[i] < w
        BY <1>1, <1>2, <2>2, <3>1
      <3> QED
        BY <2>1, <3>2
    <2> QED
      BY <2>1, <2>2 DEF Quiet
  <1>4. ASSUME NEW s \in Nat, NEW age \in Nat, NEW older \in Nat, NEW count \in Nat,
               Started(T, R, w, l, n, n, s, age, count), older <= age + (U[n + 1] - U[n])
        PROVE  Started(U, R, w, l, n, n + 1, s, older, count)
    <2>1. /\ s \in 1 .. n /\ s \in R /\ age <= T[n] - T[s]
          /\ count = CountIn(R, s, n) /\ Quiet(T, R, w, l, s - 1, s)
      BY <1>4 DEF Started
    <2>2. n \in 1 .. n /\ T[n] = U[n] /\ T[s] = U[s] /\ U[s] \in Int
      BY <1>1, <2>1
    <2>3. older <= U[n + 1] - U[s]
      BY <1>2, <1>4, <2>1, <2>2
    <2>4. Quiet(U, R, w, l, s - 1, s)
      <3>1. s - 1 \in 0 .. n /\ s \in s - 1 .. n
        BY <2>1
      <3> QED
        BY <1>3, <2>1, <3>1
    <2> QED
      BY <2>1, <2>3, <2>4 DEF Started
  <1> QED
    BY <1>3, <1>4

\* A row of another provider changes nothing for this one.
LEMMA OtherRow ==
  ASSUME NEW T, NEW R, NEW w \in Nat, NEW l \in Nat \ {0}, NEW n \in Nat, n + 1 \notin R
  PROVE  /\ Quiet(T, R, w, l, n, n + 1) => Quiet(T, R, w, l, n + 1, n + 1)
         /\ \A s \in Nat, age \in Nat, count \in Nat :
              Started(T, R, w, l, n, n + 1, s, age, count)
                => Started(T, R, w, l, n + 1, n + 1, s, age, count)
  <1>1. \A i \in 1 .. n + 1 : CountIn(R, i, n + 1) = CountIn(R, i, n)
    <2> TAKE i \in 1 .. n + 1
    <2>1. CountIn(R, i, n + 1) = CountIn(R, i, n) + (IF n + 1 \in R THEN 1 ELSE 0)
      BY CountMore
    <2>2. CountIn(R, i, n) \in Nat
      BY CountType
    <2> QED
      BY <2>1, <2>2
  <1>2. CountIn(R, n + 1, n) = 0
    BY CountNone
  <1>3. ASSUME Quiet(T, R, w, l, n, n + 1)
        PROVE  Quiet(T, R, w, l, n + 1, n + 1)
    BY <1>1, <1>2, <1>3 DEF Quiet
  <1>4. ASSUME NEW s \in Nat, NEW age \in Nat, NEW count \in Nat,
               Started(T, R, w, l, n, n + 1, s, age, count)
        PROVE  Started(T, R, w, l, n + 1, n + 1, s, age, count)
    BY <1>1, <1>4 DEF Started
  <1> QED
    BY <1>3, <1>4

\* An attempt starts a window or is counted in it.  Q are the rows before it.
LEMMA AttemptRow ==
  ASSUME NEW T, NEW Q, NEW w \in Nat, NEW l \in Nat, NEW n \in Nat, NEW R,
         T[n + 1] \in Int, n + 1 \in R, \A k \in 1 .. n : k \in R <=> k \in Q
  PROVE  /\ Quiet(T, Q, w, l, n, n + 1) => Started(T, R, w, l, n + 1, n + 1, n + 1, 0, 1)
         /\ \A s \in Nat, age \in Nat, count \in Nat :
              Started(T, Q, w, l, n, n + 1, s, age, count)
                => Started(T, R, w, l, n + 1, n + 1, s, age, count + 1)
  <1>1. \A i \in 1 .. n + 1, m \in 0 .. n : CountIn(R, i, m) = CountIn(Q, i, m)
    BY CountSame
  <1>2. \A m \in 0 .. n, now \in Nat : Quiet(T, Q, w, l, m, now) => Quiet(T, R, w, l, m, now)
    BY <1>1 DEF Quiet
  <1>3. CountIn(R, n + 1, n + 1) = 1
    BY CountOne
  <1>4. T[n + 1] - T[n + 1] = 0
    OBVIOUS
  <1>5. ASSUME Quiet(T, Q, w, l, n, n + 1)
        PROVE  Started(T, R, w, l, n + 1, n + 1, n + 1, 0, 1)
    <2>1. Quiet(T, R, w, l, (n + 1) - 1, n + 1)
      BY <1>2, <1>5
    <2>2. n + 1 \in 1 .. n + 1 /\ 0 <= T[n + 1] - T[n + 1]
      BY <1>4
    <2> QED
      BY <1>3, <2>1, <2>2 DEF Started
  <1>6. ASSUME NEW s \in Nat, NEW age \in Nat, NEW count \in Nat,
               Started(T, Q, w, l, n, n + 1, s, age, count)
        PROVE  Started(T, R, w, l, n + 1, n + 1, s, age, count + 1)
    <2>1. /\ s \in 1 .. n /\ s \in Q /\ age <= T[n + 1] - T[s]
          /\ count = CountIn(Q, s, n) /\ Quiet(T, Q, w, l, s - 1, s)
      BY <1>6 DEF Started
    <2>2. CountIn(R, s, n + 1) = CountIn(R, s, n) + (IF n + 1 \in R THEN 1 ELSE 0)
      BY <2>1, CountMore
    <2>3. CountIn(R, s, n + 1) = count + 1
      BY <1>1, <2>1, <2>2
    <2>4. Quiet(T, R, w, l, s - 1, s)
      BY <1>2, <2>1
    <2>5. s \in 1 .. n + 1 /\ s \in R
      BY <2>1
    <2> QED
      BY <2>1, <2>3, <2>4, <2>5 DEF Started
  <1> QED
    BY <1>5, <1>6

\* The times of the items, and the rows of p.
Times == [k \in DOMAIN trace |-> trace[k].at]
RowsOf(p) == {k \in DOMAIN rows : rows[k].provider = p}

\* Window and attempts of p up to item now, as the rows explain them.
Explained(p, now, age, count) ==
  IF age = Unset
    THEN Quiet(Times, RowsOf(p), QuotaWindow[p], QuotaLimit[p], Len(rows), now)
    ELSE \E s \in Nat : Started(Times, RowsOf(p), QuotaWindow[p], QuotaLimit[p],
                                Len(rows), now, s, age, count)

\* The item that the clock has last been set for.
Now == IF stage = "rank" THEN Len(rows) + 1 ELSE Len(rows)

TimesInv == stage # "error" => InOrder(Times, Len(trace))

BurstInv ==
  /\ TimesInv
  /\ stage \in {"clock", "rank"} =>
       \A p \in Limited : Explained(p, Now, window_age[p], quota_attempts[p])

\* A choice changes no time.
LEMMA ChooseTimes ==
  ASSUME TypeInv, NEW p \in Provider, NEW o \in Outcome, Choose(p, o)
  PROVE  Times' = Times /\ Len(trace') = Len(trace)
  <1> DEFINE n == Len(rows) + 1
             item == [trace[n] EXCEPT !.outcome = [trace[n].outcome EXCEPT ![p] = o]]
  <1>1. trace \in Seq(TraceItem) /\ n \in DOMAIN trace
    BY ItemType DEF TypeInv, SimulationTypeOK, Choose
  <1>2. trace' = [trace EXCEPT ![n] = item]
    BY DEF Choose
  <1>3. item.at = trace[n].at
    <2>1. trace[n] \in TraceItem
      BY <1>1
    <2> QED
      BY <2>1 DEF TraceItem
  <1> HIDE DEF item
  <1>4. DOMAIN trace' = DOMAIN trace /\ \A k \in DOMAIN trace : trace'[k].at = trace[k].at
    BY <1>1, <1>2, <1>3
  <1> QED
    BY <1>1, <1>2, <1>4 DEF Times

\* The clock is set to a time that is not before the last.
LEMMA SetClockTimes ==
  ASSUME TypeInv, TimesInv, SetClock
  PROVE  TimesInv'
  <1> DEFINE n == Len(trace)
             T == Times
             U == Times'
  <1>1. trace \in Seq(TraceItem) /\ rows \in Seq(Row) /\ n \in Nat /\ stage = "clock"
    BY DEF TypeInv, SimulationTypeOK, SetClock
  <1>2. InOrder(T, n)
    BY <1>1 DEF TimesInv
  <1>3. CASE UNCHANGED trace
    BY <1>1, <1>3 DEF TimesInv, Times
  <1>4. ASSUME NEW item \in NewItems, trace' = Append(trace, item), n = Len(rows),
               stage' # "error"
        PROVE  InOrder(U, Len(trace'))
    <2>1. /\ Len(trace') = n + 1 /\ U[n + 1] = item.at
          /\ \A k \in 1 .. n : U[k] = T[k]
      BY <1>1, <1>4 DEF Times
    <2>2. item.at \in Int
      BY NewItemType DEF TraceItem
    <2>3. n \in 1 .. n => T[n] <= item.at
      <3>1. trace'[Len(rows) + 1].at = item.at
        BY <1>1, <1>4
      <3>2. item.at >= Clock
        BY <1>4, <3>1 DEF SetClock
      <3>3. n \in 1 .. n => Clock = T[n]
        BY <1>1, <1>4 DEF Clock, Times
      <3>4. n \in 1 .. n => T[n] \in Int
        BY <1>2 DEF InOrder
      <3> QED
        BY <2>2, <3>2, <3>3, <3>4
    <2> HIDE DEF n, T, U
    <2>4. \A k \in 1 .. n + 1 : k \in 1 .. n \/ k = n + 1
      BY <1>1
    <2>5. \A k \in 1 .. n + 1 : U[k] \in Int
      BY <1>2, <2>1, <2>2, <2>4 DEF InOrder
    <2>6. \A k \in 1 .. n : T[k] <= item.at /\ T[k] \in Int
      <3> TAKE k \in 1 .. n
      <3>1. n \in 1 .. n /\ k <= n
        BY <1>1
      <3> QED
        BY <1>2, <2>2, <2>3, <3>1 DEF InOrder
    <2>7. ASSUME NEW i \in 1 .. n + 1, NEW j \in 1 .. n + 1, i <= j
          PROVE  U[i] <= U[j]
      <3>1. CASE j \in 1 .. n
        <4>1. i \in 1 .. n
          BY <1>1, <2>7, <3>1
        <4> QED
          BY <1>2, <2>1, <2>7, <3>1, <4>1 DEF InOrder
      <3>2. CASE j = n + 1
        BY <2>1, <2>2, <2>4, <2>6, <3>2
      <3> QED
        BY <2>4, <3>1, <3>2
    <2> QED
      BY <2>1, <2>5, <2>7 DEF InOrder
  <1> HIDE DEF n, U
  <1> QED
    BY <1>3, <1>4 DEF SetClock, TimesInv, U, n

\* Every step keeps the items in order, unless it fails.
LEMMA TimesStep ==
  ASSUME TypeInv, TimesInv, [Next]_vars
  PROVE  TimesInv'
  <1>1. CASE SetClock
    BY <1>1, SetClockTimes
  <1>2. CASE UNCHANGED trace /\ (stage = "error" => stage' = "error")
    BY <1>2 DEF TimesInv, Times
  <1>3. ASSUME NEW p \in Provider, NEW o \in Outcome, AttemptStep(p, o)
        PROVE  TimesInv'
    <2>1. Choose(p, o) /\ stage = "rank"
      BY <1>3 DEF AttemptStep, MissingOutcome, ProviderFailure, Success, InvalidOutcome, Choose
    <2> QED
      BY <2>1, ChooseTimes DEF TimesInv
  <1> QED
    BY <1>1, <1>2, <1>3 DEF Next, NobodyEligible, EndPolicy, vars, simVars

\* The quota of a provider that has one, and its state.
LEMMA QuotaState ==
  ASSUME StoreInv, NEW p \in Limited
  PROVE  /\ p \in Provider /\ QuotaLimit[p] \in Nat \ {0} /\ QuotaWindow[p] \in Nat \ {0}
         /\ quota_attempts[p] \in Nat /\ quota_attempts[p] <= QuotaLimit[p]
         /\ window_age[p] = Unset \/ window_age[p] \in 0 .. QuotaWindow[p]
         /\ window_age[p] = Unset => quota_attempts[p] = 0
  BY ConfigAssumption DEF StoreInv, QuotaInv, QuotaTypeOK, WindowAge, WindowMatchesAttempts,
                          QuotaNeverOverrun

\* The clock goes on to the next item.
LEMMA ClockExplained ==
  ASSUME TypeInv, StoreInv, BurstInv, SetClock, stage' = "rank", NEW p \in Limited
  PROVE  Explained(p, Now, window_age[p], quota_attempts[p])'
  <1> DEFINE n == Len(rows)
             w == QuotaWindow[p]
             l == QuotaLimit[p]
             age == window_age[p]
             older == window_age'[p]
             count == quota_attempts[p]
             R == RowsOf(p)
             T == Times
             U == Times'
  <1>1. rows \in Seq(Row) /\ trace \in Seq(TraceItem) /\ n <= Len(trace) /\ n \in Nat
    BY DEF TypeInv, SimulationTypeOK
  <1>2. /\ stage = "clock" /\ UNCHANGED rows
        /\ UNCHANGED trace \/ \E item \in NewItems : trace' = Append(trace, item)
        /\ trace'[n + 1].at - Clock \in Nat /\ TimePasses(trace'[n + 1].at - Clock)
    BY ClockSteps DEF SetClock
  <1>3. /\ p \in Provider /\ l \in Nat \ {0} /\ w \in Nat \ {0}
        /\ count \in Nat /\ (age = Unset \/ age \in 0 .. w)
    BY QuotaState
  <1>4. /\ \A k \in 1 .. n : U[k] = T[k]
        /\ U[n + 1] = trace'[n + 1].at /\ (n \in 1 .. n => U[n] = Clock)
    <2>1. /\ n + 1 \in DOMAIN trace' /\ DOMAIN rows = 1 .. n
          /\ \A k \in 1 .. n : k \in DOMAIN trace /\ k \in DOMAIN trace' /\ trace'[k] = trace[k]
      BY <1>1, <1>2 DEF SetClock
    <2>2. \A k \in 1 .. n : U[k] = T[k] /\ T[k] = trace[k].at
      BY <2>1 DEF Times
    <2>3. U[n + 1] = trace'[n + 1].at
      BY <2>1 DEF Times
    <2>4. n \in 1 .. n => Clock = trace[n].at
      BY <1>1 DEF Clock
    <2> HIDE DEF T, U
    <2> QED
      BY <2>2, <2>3, <2>4
  <1>5. InOrder(U, n + 1)
    <2>1. InOrder(U, Len(trace'))
      BY TimesStep DEF BurstInv, TimesInv, Next
    <2>2. Len(trace') \in Nat /\ n + 1 <= Len(trace')
      BY <1>1, <1>2 DEF SetClock
    <2> HIDE DEF U, n
    <2> QED
      BY <1>1, <2>1, <2>2 DEF InOrder
  <1>6. /\ quota_attempts'[p] = count
        /\ age = Unset => older = Unset
        /\ age # Unset => /\ older # Unset /\ older \in Nat
                          /\ older <= age + (trace'[n + 1].at - Clock)
    <2> DEFINE ticks == trace'[n + 1].at - Clock
    <2>1. ticks \in Nat /\ TimePasses(ticks)
      BY <1>2
    <2> HIDE DEF ticks
    <2>2. /\ quota_attempts'[p] = count
          /\ age = Unset => older = Unset
          /\ age # Unset => older # Unset /\ older \in Nat /\ older <= age + ticks
      BY <1>3, <2>1 DEF TimePasses, Older, Unset
    <2> QED
      BY <2>2 DEF ticks
  <1>7. Explained(p, n, age, count)
    BY <1>2 DEF BurstInv, Now
  <1>8. R' = R /\ Len(rows') = n /\ Now' = n + 1
    BY <1>2 DEF RowsOf, Now
  <1>9. /\ age = Unset => Quiet(T, R, w, l, n, n)
        /\ age # Unset => \E s \in Nat : Started(T, R, w, l, n, n, s, age, count)
    BY <1>7 DEF Explained
  <1>10. /\ older = Unset => Quiet(U, R, w, l, n, n + 1)
         /\ older # Unset => \E s \in Nat : Started(U, R, w, l, n, n + 1, s, older, count)
    <2> HIDE DEF n, w, l, age, older, count, R, T, U
    <2>1. n \in 0 .. n /\ n \in n .. n
      BY <1>1
    <2>2. age # Unset => age \in Nat
      BY <1>3
    <2>3. /\ Quiet(T, R, w, l, n, n) => Quiet(U, R, w, l, n, n + 1)
          /\ \A s \in Nat, a \in Nat, o \in Nat, c \in Nat :
               Started(T, R, w, l, n, n, s, a, c) /\ o <= a + (U[n + 1] - U[n])
               => Started(U, R, w, l, n, n + 1, s, o, c)
      <3>1. w \in Nat /\ l \in Nat
        BY <1>3
      <3> QED
        BY <1>1, <1>4, <1>5, <2>1, <3>1, ClockAdvances
    <2>4. older = Unset => age = Unset
      BY <1>6
    <2>5. CASE older = Unset
      BY <1>9, <2>3, <2>4, <2>5
    <2>6. CASE older # Unset
      <3>1. age # Unset /\ older \in Nat
        BY <1>6, <2>6
      <3>2. PICK s \in Nat : Started(T, R, w, l, n, n, s, age, count)
        BY <1>9, <3>1
      <3>3. older <= age + (U[n + 1] - U[n])
        <4>1. n \in 1 .. n
          BY <1>1, <3>2 DEF Started
        <4> QED
          BY <1>4, <1>6, <3>1, <4>1
      <3>4. Started(U, R, w, l, n, n + 1, s, older, count)
        BY <1>3, <2>2, <2>3, <3>1, <3>2, <3>3
      <3> QED
        BY <2>6, <3>4
    <2> QED
      BY <2>5, <2>6
  <1>11. Explained(p, Now, window_age[p], quota_attempts[p])'
           <=> IF older = Unset THEN Quiet(U, R', w, l, Len(rows'), Now')
               ELSE \E s \in Nat : Started(U, R', w, l, Len(rows'), Now', s, older,
                                           quota_attempts'[p])
    BY DEF Explained
  <1> HIDE DEF n, w, l, age, older, count, R, T, U
  <1> QED
    BY <1>6, <1>8, <1>10, <1>11

\* While an item is replayed the items up to it are in order.
LEMMA RankOrder ==
  ASSUME TypeInv, TimesInv, stage = "rank"
  PROVE  InOrder(Times, Len(rows) + 1) /\ Times[Len(rows) + 1] \in Int
  <1> DEFINE n == Len(rows) + 1
  <1>1. n \in 1 .. Len(trace) /\ Len(trace) \in Nat
    BY DEF TypeInv, SimulationTypeOK
  <1>2. InOrder(Times, Len(trace))
    BY DEF TimesInv
  <1> HIDE DEF n
  <1>3. InOrder(Times, n) /\ Times[n] \in Int
    BY <1>1, <1>2 DEF InOrder
  <1> QED
    BY <1>3 DEF n

\* Nothing of what explains a window changes when an elapsed one is refreshed.
LEMMA RefreshExplained ==
  ASSUME TypeInv, StoreInv, BurstInv, stage = "rank", NEW p \in Limited
  PROVE  /\ Explained(p, Len(rows) + 1, AgeRefreshed(Provider)[p], AttemptsRefreshed(Provider)[p])
         /\ AgeRefreshed(Provider)[p] = Unset \/ AgeRefreshed(Provider)[p] \in Nat
         /\ AttemptsRefreshed(Provider)[p] \in Nat
         /\ AgeRefreshed(Provider)[p] = Unset => AttemptsRefreshed(Provider)[p] = 0
  <1> DEFINE n == Len(rows)
             w == QuotaWindow[p]
             l == QuotaLimit[p]
             age == window_age[p]
             count == quota_attempts[p]
  <1>1. n \in Nat
    BY DEF TypeInv, SimulationTypeOK
  <1>2. /\ p \in Provider /\ l \in Nat \ {0} /\ w \in Nat \ {0}
        /\ count \in Nat /\ count <= l /\ (age = Unset \/ age \in 0 .. w)
        /\ age = Unset => count = 0
    BY QuotaState
  <1>3. Explained(p, n + 1, age, count)
    BY DEF BurstInv, Now
  <1>6. InOrder(Times, n + 1)
    BY RankOrder DEF BurstInv
  <1>4. CASE ~WindowElapsed(p)
    <2>1. AgeRefreshed(Provider)[p] = age /\ AttemptsRefreshed(Provider)[p] = count
      BY <1>2, <1>4 DEF AgeRefreshed, AttemptsRefreshed
    <2>2. age = Unset \/ age \in Nat
      BY <1>2
    <2> HIDE DEF age, count
    <2> QED
      BY <1>2, <1>3, <2>1, <2>2
  <1>5. CASE WindowElapsed(p)
    <2>1. AgeRefreshed(Provider)[p] = Unset /\ AttemptsRefreshed(Provider)[p] = 0
      BY <1>2, <1>5 DEF AgeRefreshed, AttemptsRefreshed
    <2>2. age # Unset /\ w <= age /\ age \in Nat
      BY <1>2, <1>5 DEF WindowElapsed
    <2>3. PICK s \in Nat : Started(Times, RowsOf(p), w, l, n, n + 1, s, age, count)
      BY <1>3, <2>2 DEF Explained
    <2>4. Quiet(Times, RowsOf(p), w, l, n, n + 1)
      <3>1. n + 1 \in Nat /\ l \in Nat /\ w \in Nat /\ count \in Nat /\ count <= l
        BY <1>1, <1>2
      <3> HIDE DEF n, w, l, age, count
      <3> QED
        BY <1>1, <1>6, <2>2, <2>3, <3>1, ElapsedQuiet
    <2> QED
      BY <2>1, <2>4 DEF Explained
  <1> QED
    BY <1>4, <1>5

\* A row is added, of an attempt of q or of none.
LEMMA RowExplained ==
  ASSUME TypeInv, StoreInv, BurstInv, stage = "rank", stage' = "clock", Times' = Times,
         NEW row \in Row, rows' = Append(rows, row), NEW p \in Limited,
         \/ row.provider = p /\ RecordAttempt(p, Provider)
         \/ /\ row.provider # p
            /\ quota_attempts'[p] = AttemptsRefreshed(Provider)[p]
            /\ window_age'[p] = AgeRefreshed(Provider)[p]
  PROVE  Explained(p, Now, window_age[p], quota_attempts[p])'
  <1> DEFINE n == Len(rows)
             w == QuotaWindow[p]
             l == QuotaLimit[p]
             age == AgeRefreshed(Provider)[p]
             count == AttemptsRefreshed(Provider)[p]
             Q == RowsOf(p)
             R == RowsOf(p)'
             T == Times
  <1>1. rows \in Seq(Row) /\ n \in Nat
    BY DEF TypeInv, SimulationTypeOK
  <1>2. /\ p \in Provider /\ l \in Nat \ {0} /\ w \in Nat \ {0}
    BY QuotaState
  <1>3. /\ \A k \in 1 .. n : k \in R <=> k \in Q
        /\ n + 1 \in R <=> row.provider = p
        /\ Len(rows') = n + 1 /\ Now' = n + 1
    BY <1>1 DEF RowsOf, Now
  <1>4. Explained(p, n + 1, age, count)
    BY RefreshExplained
  <1>5. /\ age = Unset => Quiet(T, Q, w, l, n, n + 1)
        /\ age # Unset => \E s \in Nat : Started(T, Q, w, l, n, n + 1, s, age, count)
    BY <1>4 DEF Explained
  <1>6. age = Unset \/ age \in Nat
    BY RefreshExplained
  <1>7. count \in Nat /\ (age = Unset => count = 0)
    BY RefreshExplained
  <1>8. Explained(p, Now, window_age[p], quota_attempts[p])'
          <=> IF window_age'[p] = Unset THEN Quiet(T, R, w, l, Len(rows'), Now')
              ELSE \E s \in Nat : Started(T, R, w, l, Len(rows'), Now', s, window_age'[p],
                                          quota_attempts'[p])
    BY DEF Explained
  <1>11. T[n + 1] \in Int
    BY RankOrder DEF BurstInv
  <1>9. CASE row.provider = p /\ RecordAttempt(p, Provider)
    <2>1. /\ quota_attempts'[p] = count + 1
          /\ window_age'[p] = IF age = Unset THEN 0 ELSE age
      <3>1. Provider \cup {p} = Provider
        BY <1>2
      <3> QED
        BY <1>2, <1>9, <3>1 DEF RecordAttempt, AttemptsRefreshed, AgeRefreshed
    <2> HIDE DEF n, w, l, age, count, Q, R, T
    <2>2. CASE age = Unset
      <3>1. Started(T, R, w, l, n + 1, n + 1, n + 1, 0, 1)
        BY <1>1, <1>2, <1>3, <1>5, <1>9, <1>11, <2>2, AttemptRow
      <3>2. window_age'[p] = 0 /\ 0 # Unset /\ quota_attempts'[p] = 1 /\ n + 1 \in Nat
        BY <1>1, <1>7, <2>1, <2>2 DEF Unset
      <3> QED
        BY <1>3, <1>8, <3>1, <3>2
    <2>3. CASE age # Unset
      <3>1. PICK s \in Nat : Started(T, Q, w, l, n, n + 1, s, age, count)
        BY <1>5, <2>3
      <3>2. Started(T, R, w, l, n + 1, n + 1, s, age, count + 1)
        BY <1>1, <1>2, <1>3, <1>6, <1>7, <1>9, <1>11, <2>3, <3>1, AttemptRow
      <3> QED
        BY <1>3, <1>8, <2>1, <2>3, <3>2
    <2> QED
      BY <2>2, <2>3
  <1>10. CASE /\ row.provider # p
              /\ quota_attempts'[p] = count
              /\ window_age'[p] = age
    <2>1. n + 1 \notin R /\ R = Q
      <3>1. Q \subseteq 1 .. n
        BY <1>1 DEF RowsOf
      <3>3. R \subseteq 1 .. n + 1
        BY <1>1 DEF RowsOf
      <3>4. n + 1 \notin R
        BY <1>3, <1>10
      <3> HIDE DEF Q, R, n
      <3>2. \A k : k \in R <=> k \in Q
        <4>1. \A k \in 1 .. n + 1 : k = n + 1 \/ k \in 1 .. n
          BY <1>1
        <4> QED
          BY <1>3, <3>1, <3>3, <3>4, <4>1, Zenon
      <3> QED
        BY <1>3, <1>10, <3>2
    <2> HIDE DEF n, w, l, age, count, Q, R, T
    <2>2. CASE age = Unset
      <3>1. Quiet(T, R, w, l, n + 1, n + 1)
        BY <1>1, <1>2, <1>5, <2>1, <2>2, OtherRow
      <3> QED
        BY <1>3, <1>8, <1>10, <2>2, <3>1
    <2>3. CASE age # Unset
      <3>1. PICK s \in Nat : Started(T, Q, w, l, n, n + 1, s, age, count)
        BY <1>5, <2>3
      <3>2. Started(T, R, w, l, n + 1, n + 1, s, age, count)
        BY <1>1, <1>2, <1>6, <1>7, <2>1, <2>3, <3>1, OtherRow
      <3> QED
        BY <1>3, <1>8, <1>10, <2>3, <3>2
    <2> QED
      BY <2>2, <2>3
  <1> QED
    BY <1>9, <1>10

\* Rows and attempts of every action that replays an item.
LEMMA RowStep ==
  ASSUME TypeInv, StoreInv,
         NobodyEligible \/ \E p \in Provider, o \in Outcome : AttemptStep(p, o),
         stage' # "error"
  PROVE  \E row \in Row :
           /\ rows' = Append(rows, row) /\ stage' = "clock" /\ stage = "rank"
           /\ \/ row.provider \in Provider /\ RecordAttempt(row.provider, Provider)
              \/ row.provider = NoProvider /\ RefreshQuota(Provider)
           /\ \/ UNCHANGED trace
              \/ \E p \in Provider, o \in Outcome : Choose(p, o)
  <1>1. StoreInv'
    BY StoreStep DEF Next
  <1>2. CASE NobodyEligible
    <2>1. PICK row \in Row : rows' = Append(rows, row) /\ row.provider = NoProvider
      BY <1>2, NobodyRow
    <2> QED
      BY <1>2, <2>1 DEF NobodyEligible, NextRow
  <1>3. ASSUME NEW p \in Provider, NEW o \in Outcome, AttemptStep(p, o)
        PROVE  /\ \E row \in Row : rows' = Append(rows, row) /\ row.provider = p
               /\ stage' = "clock" /\ stage = "rank" /\ RecordAttempt(p, Provider) /\ Choose(p, o)
    <2>1. CASE MissingOutcome(p, o)
      BY <1>1, <2>1, MissingRow DEF MissingOutcome, NextRow, Choose
    <2>2. CASE ProviderFailure(p, o)
      BY <1>1, <2>2, FailureRow DEF ProviderFailure, NextRow, Choose
    <2>3. CASE Success(p, o)
      <3>1. \E row \in Row : rows' = Append(rows, row) /\ row.provider = p
        BY <1>1, <2>3, SuccessRow
      <3>2. /\ stage' = "clock" /\ RecordAttempt(p, Provider) /\ Choose(p, o)
        BY <2>3 DEF Success, NextRow
      <3> QED
        BY <3>1, <3>2 DEF Choose
    <2>4. ~InvalidOutcome(p, o)
      BY DEF InvalidOutcome
    <2> QED
      BY <1>3, <2>1, <2>2, <2>3, <2>4 DEF AttemptStep
  <1> QED
    BY <1>2, <1>3

\* Every step keeps the windows explained by the rows.
LEMMA BurstStep ==
  ASSUME TypeInv, StoreInv, BurstInv, [Next]_vars
  PROVE  BurstInv'
  <1> SUFFICES ASSUME stage' \in {"clock", "rank"}, NEW p \in Limited
               PROVE  Explained(p, Now, window_age[p], quota_attempts[p])'
    BY TimesStep DEF BurstInv
  <1>1. CASE SetClock
    <2>1. stage' = "rank"
      BY <1>1 DEF SetClock
    <2> QED
      BY <1>1, <2>1, ClockExplained
  <1>2. CASE NobodyEligible \/ \E q \in Provider, o \in Outcome : AttemptStep(q, o)
    <2>1. PICK row \in Row :
            /\ rows' = Append(rows, row) /\ stage' = "clock" /\ stage = "rank"
            /\ \/ row.provider \in Provider /\ RecordAttempt(row.provider, Provider)
               \/ row.provider = NoProvider /\ RefreshQuota(Provider)
            /\ \/ UNCHANGED trace
               \/ \E q \in Provider, o \in Outcome : Choose(q, o)
      BY <1>2, RowStep
    <2>2. Times' = Times
      BY <2>1, ChooseTimes DEF Times
    <2>3. p \in Provider /\ p # NoProvider
      BY ConfigAssumption, SimulationAssumption
    <2>4. CASE row.provider = p
      <3>1. RecordAttempt(p, Provider)
        BY <2>1, <2>3, <2>4
      <3> QED
        BY <2>1, <2>2, <2>4, <3>1, RowExplained
    <2>5. CASE row.provider # p
      <3>1. /\ quota_attempts'[p] = AttemptsRefreshed(Provider)[p]
            /\ window_age'[p] = AgeRefreshed(Provider)[p]
        <4>1. CASE RefreshQuota(Provider)
          BY <4>1 DEF RefreshQuota
        <4>2. CASE row.provider \in Provider /\ RecordAttempt(row.provider, Provider)
          <5>1. Provider \cup {row.provider} = Provider
            BY <4>2
          <5> QED
            BY <2>3, <2>5, <4>2, <5>1 DEF RecordAttempt, AttemptsRefreshed, AgeRefreshed
        <4> QED
          BY <2>1, <4>1, <4>2
      <3> QED
        BY <2>1, <2>2, <2>5, <3>1, RowExplained
    <2> QED
      BY <2>4, <2>5
  <1>3. CASE EndPolicy
    <2>1. rows' = <<>> /\ window_age'[p] = Unset
      BY <1>3, ConfigAssumption DEF EndPolicy
    <2>2. 1 .. Len(rows') = {} /\ (IF stage' = "rank" THEN Len(rows') + 1 ELSE Len(rows')) \in Int
      BY <2>1
    <2> QED
      BY <2>1, <2>2 DEF Explained, Quiet
  <1>4. CASE UNCHANGED vars
    BY <1>4 DEF vars, simVars, stateVars, quotaVars, BurstInv, Explained, Now, Times, RowsOf
  <1> QED
    BY <1>1, <1>2, <1>3, <1>4 DEF Next

\* What BurstBounded counts is counted in intervals.
LEMMA CountedBefore ==
  ASSUME NEW n \in Nat, DOMAIN rows = 1 .. n, NEW m \in Nat, DOMAIN trace = 1 .. m, n <= m,
         NEW p, NEW i \in DOMAIN rows, NEW j \in DOMAIN rows
  PROVE  /\ Attempts(p, i, j) = CountIn(RowsOf(p), i, j)
         /\ Elapsed(i, j) = Times[j] - Times[i]
  <1>1. /\ \A k \in i .. j : k \in DOMAIN rows
        /\ i \in DOMAIN trace /\ j \in DOMAIN trace
    OBVIOUS
  <1>2. {k \in i .. j : rows[k].provider = p} = RowsOf(p) \cap (i .. j)
    BY <1>1 DEF RowsOf
  <1>3. Elapsed(i, j) = Times[j] - Times[i]
    BY <1>1 DEF Elapsed, Times
  <1> QED
    BY <1>2, <1>3, Zenon DEF CountIn, Attempts

\* The same, after a step.
LEMMA CountedAfter ==
  ASSUME NEW n \in Nat, DOMAIN rows' = 1 .. n, NEW m \in Nat, DOMAIN trace' = 1 .. m, n <= m,
         NEW p, NEW i \in DOMAIN rows', NEW j \in DOMAIN rows'
  PROVE  /\ Attempts(p, i, j)' = CountIn(RowsOf(p)', i, j)
         /\ Elapsed(i, j)' = Times'[j] - Times'[i]
  <1>1. /\ \A k \in i .. j : k \in DOMAIN rows'
        /\ i \in DOMAIN trace' /\ j \in DOMAIN trace'
    OBVIOUS
  <1>2. {k \in i .. j : rows'[k].provider = p} = RowsOf(p)' \cap (i .. j)
    BY <1>1 DEF RowsOf
  <1>3. Elapsed(i, j)' = Times'[j] - Times'[i]
    BY <1>1 DEF Elapsed, Times
  <1> QED
    BY <1>2, <1>3, Zenon DEF CountIn, Attempts

\* Every step keeps the bursts bounded: those that end with an older row are
\* over, and those that end now are bounded by the window they end in.
LEMMA BoundStep ==
  ASSUME TypeInv, StoreInv, BurstInv, BurstBounded, [Next]_vars
  PROVE  BurstBounded'
  <1>1. TypeInv' /\ StoreInv' /\ BurstInv'
    BY TypeStep, StoreStep, BurstStep
  <1>2. /\ rows \in Seq(Row) /\ trace \in Seq(TraceItem) /\ Len(rows) <= Len(trace)
    BY DEF TypeInv, SimulationTypeOK
  <1>3. CASE rows' = <<>>
    BY <1>3 DEF BurstBounded
  <1>4. CASE /\ UNCHANGED rows
             /\ \A k \in DOMAIN rows : trace'[k].at = trace[k].at
    <2>1. \A i \in DOMAIN rows, j \in DOMAIN rows : Elapsed(i, j)' = Elapsed(i, j)
      BY <1>4 DEF Elapsed
    <2>2. \A p, i, j : Attempts(p, i, j)' = Attempts(p, i, j)
      BY <1>4 DEF Attempts
    <2> QED
      BY <1>4, <2>1, <2>2 DEF BurstBounded
  <1>5. CASE /\ \E row \in Row : rows' = Append(rows, row)
             /\ stage' = "clock" /\ Times' = Times /\ DOMAIN trace' = DOMAIN trace
    <2> DEFINE n == Len(rows)
    <2>1. /\ DOMAIN rows = 1 .. n /\ DOMAIN rows' = 1 .. n + 1 /\ n \in Nat
          /\ Len(rows') = n + 1 /\ rows' \in Seq(Row)
          /\ \A k \in 1 .. n : rows'[k] = rows[k]
      BY <1>2, <1>5
    <2>2. Len(rows') <= Len(trace') /\ trace' \in Seq(TraceItem')
      BY <1>1 DEF TypeInv, SimulationTypeOK
    <2>3. /\ DOMAIN trace = 1 .. Len(trace) /\ Len(trace) \in Nat
          /\ DOMAIN trace' = 1 .. Len(trace') /\ Len(trace') \in Nat
      BY <1>2, <2>2
    <2>4. ASSUME NEW p, NEW i \in DOMAIN rows, NEW j \in DOMAIN rows
          PROVE  /\ Attempts(p, i, j) = CountIn(RowsOf(p), i, j)
                 /\ Elapsed(i, j) = Times[j] - Times[i]
      BY <1>2, <2>1, <2>3, CountedBefore
    <2>5. ASSUME NEW p, NEW i \in DOMAIN rows', NEW j \in DOMAIN rows'
          PROVE  /\ Attempts(p, i, j)' = CountIn(RowsOf(p)', i, j)
                 /\ Elapsed(i, j)' = Times'[j] - Times'[i]
      <3>1. n + 1 \in Nat /\ n + 1 <= Len(trace')
        BY <2>1, <2>2
      <3> QED
        BY <2>1, <2>3, <3>1, CountedAfter
    <2> SUFFICES ASSUME NEW p \in Limited, NEW i \in DOMAIN rows', NEW j \in DOMAIN rows',
                        i <= j, Times[j] - Times[i] < QuotaWindow[p]
                 PROVE  CountIn(RowsOf(p)', i, j) < 2 * QuotaLimit[p]
      BY <1>5, <2>5, ZenonT(30) DEF BurstBounded
    <2>6. CASE j <= n
      <3>1. i \in DOMAIN rows /\ j \in DOMAIN rows
        BY <2>1, <2>6
      <3>2. Attempts(p, i, j) < 2 * QuotaLimit[p]
        BY <2>4, <3>1 DEF BurstBounded
      <3>3. \A k \in i .. j : k \in RowsOf(p)' <=> k \in RowsOf(p)
        BY <2>1, <3>1 DEF RowsOf
      <3>4. CountIn(RowsOf(p)', i, j) = CountIn(RowsOf(p), i, j)
        <4> DEFINE R == RowsOf(p)'
                   Q == RowsOf(p)
        <4>1. i \in Int /\ j \in Int
          BY <2>1
        <4>2. \A k \in i .. j : k \in R <=> k \in Q
          BY <3>3
        <4> HIDE DEF R, Q
        <4>3. CountIn(R, i, j) = CountIn(Q, i, j)
          BY <4>1, <4>2, CountSame
        <4> QED
          BY <4>3 DEF R, Q
      <3> QED
        BY <2>4, <3>1, <3>2, <3>4
    <2>7. CASE j = n + 1
      <3> DEFINE w == QuotaWindow[p]
                 l == QuotaLimit[p]
                 age == window_age'[p]
                 count == quota_attempts'[p]
                 R == RowsOf(p)'
                 T == Times
      <3>1. /\ l \in Nat \ {0} /\ w \in Nat \ {0} /\ count \in Nat /\ count <= l
            /\ age = Unset \/ age \in 0 .. w
        BY <1>1, ConfigAssumption
           DEF StoreInv, QuotaInv, QuotaTypeOK, WindowAge, WindowMatchesAttempts,
               QuotaNeverOverrun
      <3>2. Explained(p, Now, window_age[p], quota_attempts[p])'
        BY <1>1, <1>5 DEF BurstInv
      <3>3. /\ age = Unset => Quiet(T, R, w, l, n + 1, n + 1)
            /\ age # Unset => \E s \in Nat : Started(T, R, w, l, n + 1, n + 1, s, age, count)
        BY <1>5, <2>1, <3>2 DEF Explained, Now
      <3>4. i \in 1 .. n + 1 /\ i \in Int /\ n + 1 \in Nat
        BY <2>1
      <3>5. T[n + 1] - T[i] < w
        BY <2>7
      <3>8. InOrder(T, n + 1)
        <4>1. InOrder(T, Len(trace'))
          BY <1>1, <1>5 DEF BurstInv, TimesInv
        <4>2. n + 1 <= Len(trace') /\ Len(trace') \in Nat
          BY <2>1, <2>2
        <4> HIDE DEF n, T
        <4> QED
          BY <3>4, <4>1, <4>2 DEF InOrder
      <3>6. CASE age = Unset
        <4>1. CountIn(R, i, n + 1) < l
          BY <3>3, <3>4, <3>5, <3>6 DEF Quiet
        <4>2. CountIn(R, i, n + 1) \in Nat
          <5> HIDE DEF n, R
          <5> QED
            BY <3>4, CountType
        <4> HIDE DEF R, l
        <4> QED
          BY <2>7, <3>1, <4>1, <4>2 DEF R, l
      <3>7. CASE age # Unset
        <4>1. PICK s \in Nat : Started(T, R, w, l, n + 1, n + 1, s, age, count)
          BY <3>3, <3>7
        <4>2. w \in Nat /\ age \in Nat
          BY <3>1, <3>7
        <4>3. CountIn(R, i, n + 1) < 2 * l
          <5> HIDE DEF n, w, l, age, count, R, T
          <5> QED
            BY <3>1, <3>4, <3>5, <3>8, <4>1, <4>2, WindowBound
        <4> QED
          BY <2>7, <4>3
      <3> QED
        BY <3>6, <3>7
    <2>8. j <= n \/ j = n + 1
      BY <2>1
    <2> QED
      BY <2>6, <2>7, <2>8
  <1>6. CASE SetClock
    <2>1. UNCHANGED rows
      BY <1>6 DEF SetClock
    <2>2. \A k \in DOMAIN rows : trace'[k].at = trace[k].at
      <3>1. UNCHANGED trace \/ \E item \in NewItems : trace' = Append(trace, item)
        BY <1>6 DEF SetClock
      <3>2. \A k \in DOMAIN rows : k \in 1 .. Len(trace)
        BY <1>2
      <3> QED
        BY <1>2, <3>1, <3>2
    <2> QED
      BY <1>4, <2>1, <2>2
  <1>7. CASE NobodyEligible \/ \E q \in Provider, o \in Outcome : AttemptStep(q, o)
    <2>1. CASE stage' = "error"
      <3>1. PICK q \in Provider, o \in Outcome : InvalidOutcome(q, o)
        BY <1>7, <2>1 DEF NobodyEligible, AttemptStep, MissingOutcome, ProviderFailure, Success,
                          NextRow
      <3>2. UNCHANGED rows /\ Choose(q, o)
        BY <3>1 DEF InvalidOutcome
      <3>3. \A k \in DOMAIN rows : trace'[k].at = trace[k].at
        BY <1>2, <3>2 DEF Choose
      <3> QED
        BY <1>4, <3>2, <3>3
    <2>2. CASE stage' # "error"
      <3>1. PICK row \in Row :
              /\ rows' = Append(rows, row) /\ stage' = "clock"
              /\ UNCHANGED trace \/ \E q \in Provider, o \in Outcome : Choose(q, o)
        BY <1>7, <2>2, RowStep
      <3>2. Times' = Times
        BY <3>1, ChooseTimes DEF Times
      <3>3. DOMAIN trace' = DOMAIN trace
        BY <3>1 DEF Choose
      <3> QED
        BY <1>5, <3>1, <3>2, <3>3
    <2> QED
      BY <2>1, <2>2
  <1>8. CASE EndPolicy
    BY <1>3, <1>8 DEF EndPolicy
  <1>9. CASE UNCHANGED vars
    BY <1>4, <1>9 DEF vars, simVars
  <1> QED
    BY <1>6, <1>7, <1>8, <1>9 DEF Next

\* Windows that meet in the middle of a burst let a provider have fewer than
\* two quotas of attempts in any window of time, for any quotas and any trace.
THEOREM BurstBoundedAlways == Spec => []BurstBounded
  <1>1. Init => StoreInv /\ TypeInv /\ BurstInv /\ BurstBounded
    <2> SUFFICES ASSUME Init PROVE BurstInv /\ BurstBounded
      BY InitStore, InitType
    <2>1. rows = <<>> /\ \A p \in Limited : window_age[p] = Unset
      BY ConfigAssumption DEF Init, StateInit
    <2>2. InOrder(Times, Len(trace))
      BY DEF Init, InOrder
    <2> QED
      BY <2>1, <2>2 DEF BurstInv, TimesInv, BurstBounded, Explained, Quiet
  <1>2. StoreInv /\ TypeInv /\ BurstInv /\ BurstBounded /\ [Next]_vars
          => (StoreInv /\ TypeInv /\ BurstInv /\ BurstBounded)'
    BY StoreStep, TypeStep, BurstStep, BoundStep
  <1> QED
    BY <1>1, <1>2, PTL DEF Spec

-----------------------------------------------------------------------------
(***************************************************************************)
(* What the rows add up to.                                                *)
(***************************************************************************)

\* Totals of the store.
StoreSuccesses == SumFunctionOnSet([p \in Provider |-> stats[p].successes], Provider)
StoreFailures  == SumFunctionOnSet([p \in Provider |-> stats[p].failures], Provider)
StoreCost      == SumFunctionOnSet([p \in Provider |-> stats[p].cost_total], Provider)
StoreCosts     == SumFunctionOnSet([p \in Provider |-> stats[p].cost_observations], Provider)
StoreInput     == SumFunctionOnSet([p \in Provider |-> stats[p].input_total], Provider)
StoreOutput    == SumFunctionOnSet([p \in Provider |-> stats[p].output_total], Provider)
StoreTokens    == SumFunctionOnSet([p \in Provider |-> stats[p].token_observations], Provider)

\* Rows whose answers counted tokens, and totals of the rows.
WithInput  == {i \in WithStatus(rows, "success") : OutcomeOf(i).input # None}
WithOutput == {i \in WithStatus(rows, "success") : OutcomeOf(i).output # None}
RowsCost   == SumFunctionOnSet([i \in Priced(rows) |-> rows[i].cost], Priced(rows))
RowsInput  == SumFunctionOnSet([i \in WithInput |-> OutcomeOf(i).input], WithInput)
RowsOutput == SumFunctionOnSet([i \in WithOutput |-> OutcomeOf(i).output], WithOutput)

RowsAddUp ==
  Len(rows) = Cardinality(WithStatus(rows, "success"))
                + Cardinality(WithStatus(rows, "provider_failure"))
                + Cardinality(WithStatus(rows, "no_provider"))
                + Cardinality(WithStatus(rows, "missing_outcome"))

StoreAddsUp ==
  /\ Cardinality(WithStatus(rows, "success")) = StoreSuccesses
  /\ Cardinality(WithStatus(rows, "provider_failure")) = StoreFailures
  /\ RowsCost = StoreCost
  /\ Cardinality(Priced(rows)) = StoreCosts
  /\ RowsInput = StoreInput
  /\ RowsOutput = StoreOutput
  /\ Cardinality(WithInput \cup WithOutput) = StoreTokens

\* The property in these terms.
LEMMA SummaryParts == SummaryAgreesWithStore <=> RowsAddUp /\ StoreAddsUp
  BY Zenon DEF SummaryAgreesWithStore, Summary, RowsAddUp, StoreAddsUp, StoreSuccesses, StoreFailures,
         StoreCost, StoreCosts, StoreInput, StoreOutput, StoreTokens, WithInput, WithOutput,
         RowsCost, RowsInput, RowsOutput

\* What is in the rows of answers is what upstreams have answered.
AnswersDrawn == \A i \in WithStatus(rows, "success") : OutcomeOf(i) \in Outcome

SummaryInv == RowsAddUp /\ StoreAddsUp /\ AnswersDrawn

\* A count of rows and a total of the store that grow together.  P is whose
\* totals they are, and p is whose row it is, if anyone's.
LEMMA CountGrows ==
  ASSUME NEW n \in Nat, NEW S \in SUBSET (1 .. n), NEW T, NEW b \in BOOLEAN,
         T = IF b THEN S \cup {n + 1} ELSE S,
         NEW P, IsFiniteSet(P), NEW p, b => p \in P,
         NEW f, NEW g, \A q \in P : f[q] \in Int, \A q \in P \ {p} : g[q] = f[q],
         p \in P => g[p] = f[p] + (IF b THEN 1 ELSE 0),
         Cardinality(S) = SumFunctionOnSet(f, P)
  PROVE  Cardinality(T) = SumFunctionOnSet(g, P)
  <1>1. Cardinality(S) \in Nat /\ Cardinality(S \cup {n + 1}) = Cardinality(S) + 1
    BY OneMore
  <1>2. CASE p \in P
    <2>1. g[p] \in Int /\ f[p] \in Int
      BY <1>2
    <2>2. SumFunctionOnSet(g, P) = SumFunctionOnSet(f, P) + (g[p] - f[p])
      BY <1>2, <2>1, SumChange
    <2>3. g[p] - f[p] = IF b THEN 1 ELSE 0
      BY <1>2, <2>1
    <2> QED
      BY <1>1, <2>2, <2>3
  <1>3. CASE p \notin P
    <2>1. \A q \in P : f[q] \in Int /\ g[q] = f[q]
      BY <1>3
    <2>2. SumFunctionOnSet(g, P) = SumFunctionOnSet(f, P)
      BY <2>1, SumSame
    <2> QED
      BY <1>3, <2>2
  <1> QED
    BY <1>2, <1>3

\* A total of rows and a total of the store that grow together.
LEMMA TotalGrows ==
  ASSUME NEW n \in Nat, NEW S \in SUBSET (1 .. n), NEW T, NEW b \in BOOLEAN,
         T = IF b THEN S \cup {n + 1} ELSE S,
         NEW c, NEW d, \A i \in S : c[i] \in Int /\ d[i] = c[i], b => d[n + 1] \in Int,
         NEW P, IsFiniteSet(P), NEW p, b => p \in P,
         NEW f, NEW g, \A q \in P : f[q] \in Int, \A q \in P \ {p} : g[q] = f[q],
         p \in P => g[p] = f[p] + (IF b THEN d[n + 1] ELSE 0),
         SumFunctionOnSet(c, S) = SumFunctionOnSet(f, P)
  PROVE  SumFunctionOnSet(d, T) = SumFunctionOnSet(g, P)
  <1>1. IsFiniteSet(S) /\ n + 1 \notin S
    BY OneMore
  <1>2. SumFunctionOnSet(d, S) = SumFunctionOnSet(c, S) /\ SumFunctionOnSet(c, S) \in Int
    BY <1>1, SumSame, SumType
  <1>3. SumFunctionOnSet(d, T) = SumFunctionOnSet(c, S) + (IF b THEN d[n + 1] ELSE 0)
    <2>1. CASE b
      <3>1. \A i \in S : d[i] \in Int
        OBVIOUS
      <3> DEFINE x == n + 1
      <3>3. x \notin S /\ d[x] \in Int
        BY <1>1, <2>1
      <3> HIDE DEF x
      <3>2. SumFunctionOnSet(d, S \cup {x}) = SumFunctionOnSet(d, S) + d[x]
        BY <1>1, <3>1, <3>3, SumAdd, Zenon
      <3> USE DEF x
      <3> QED
        BY <1>2, <2>1, <3>2
    <2>2. CASE ~b
      BY <1>2, <2>2
    <2> QED
      BY <2>1, <2>2
  <1>4. CASE p \in P
    <2>1. g[p] \in Int /\ f[p] \in Int
      BY <1>4
    <2>2. SumFunctionOnSet(g, P) = SumFunctionOnSet(f, P) + (g[p] - f[p])
      BY <1>4, <2>1, SumChange
    <2>3. g[p] - f[p] = IF b THEN d[n + 1] ELSE 0
      BY <1>4, <2>1
    <2> QED
      BY <1>3, <2>2, <2>3
  <1>5. CASE p \notin P
    <2>1. \A q \in P : f[q] \in Int /\ g[q] = f[q]
      BY <1>5
    <2>2. SumFunctionOnSet(g, P) = SumFunctionOnSet(f, P)
      BY <2>1, SumSame
    <2> QED
      BY <1>2, <1>3, <1>5, <2>2
  <1> QED
    BY <1>4, <1>5

\* What a row adds to the statistics of its provider; o is what was answered.
Adds(row, o, s, t) ==
  LET success == row.status = "success"
  IN  /\ t.successes = s.successes + (IF success THEN 1 ELSE 0)
      /\ t.failures = s.failures + (IF row.status = "provider_failure" THEN 1 ELSE 0)
      /\ t.cost_total = s.cost_total + (IF success /\ row.cost # None THEN row.cost ELSE 0)
      /\ t.cost_observations = s.cost_observations + (IF success /\ row.cost # None THEN 1 ELSE 0)
      /\ t.input_total = s.input_total + (IF success /\ o.input # None THEN o.input ELSE 0)
      /\ t.output_total = s.output_total + (IF success /\ o.output # None THEN o.output ELSE 0)
      /\ t.token_observations
           = s.token_observations
               + (IF success /\ (o.input # None \/ o.output # None) THEN 1 ELSE 0)

\* Rows and store stay in step when each adds the same.
LEMMA SummaryGrows ==
  ASSUME TypeInv, SummaryInv, NEW row \in Row, rows' = Append(rows, row),
         \A i \in DOMAIN rows : OutcomeOf(i)' = OutcomeOf(i),
         NEW o, trace'[Len(rows) + 1].outcome[row.provider] = o,
         row.status = "success" => o \in Outcome,
         row.status \in {"success", "provider_failure"} => row.provider \in Provider,
         \A q \in Provider \ {row.provider} : stats'[q] = stats[q],
         row.provider \in Provider => Adds(row, o, stats[row.provider], stats'[row.provider])
  PROVE  SummaryInv'
  <1> DEFINE n == Len(rows)
             p == row.provider
             success == row.status = "success"
             W(st) == WithStatus(rows, st)
  <1>1. /\ n \in Nat /\ DOMAIN rows = 1 .. n /\ DOMAIN rows' = 1 .. n + 1
        /\ rows'[n + 1] = row /\ \A i \in 1 .. n : rows'[i] = rows[i] /\ rows[i] \in Row
        /\ Len(rows') = n + 1 /\ stats \in [Provider -> Stats]
    BY DEF TypeInv, SimulationTypeOK
  <1>2. IsFiniteSet(Provider)
    BY SimulationAssumption
  <1>3. \A st : /\ W(st) \in SUBSET (1 .. n)
                /\ W(st)' = IF row.status = st THEN W(st) \cup {n + 1} ELSE W(st)
    BY <1>1 DEF WithStatus
  <1>4. RowsAddUp'
    <2>1. \A st : Cardinality(W(st)) \in Nat
                  /\ Cardinality(W(st)') = Cardinality(W(st)) + (IF row.status = st THEN 1 ELSE 0)
      <3> TAKE st
      <3> DEFINE S == W(st)
      <3>1. S \in SUBSET (1 .. n) /\ W(st)' = IF row.status = st THEN S \cup {n + 1} ELSE S
        BY <1>3
      <3> HIDE DEF S
      <3>2. Cardinality(S) \in Nat /\ Cardinality(S \cup {n + 1}) = Cardinality(S) + 1
        BY <1>1, <3>1, OneMore
      <3> QED
        BY <3>1, <3>2 DEF S
    <2>2. row.status \in {"success", "provider_failure", "missing_outcome", "no_provider"}
      BY DEF Row
    <2> HIDE DEF n, W
    <2>3. n = Cardinality(W("success")) + Cardinality(W("provider_failure"))
                + Cardinality(W("no_provider")) + Cardinality(W("missing_outcome"))
      BY DEF SummaryInv, RowsAddUp, n, W
    <2>4. n + 1 = Cardinality(W("success")') + Cardinality(W("provider_failure")')
                    + Cardinality(W("no_provider")') + Cardinality(W("missing_outcome")')
      BY <2>1, <2>2, <2>3
    <2> QED
      BY <1>1, <2>4 DEF RowsAddUp, W
  <1>5. AnswersDrawn'
    <2> SUFFICES ASSUME NEW i \in W("success")' PROVE OutcomeOf(i)' \in Outcome
      BY DEF AnswersDrawn
    <2>1. CASE i \in W("success")
      <3>1. i \in DOMAIN rows
        BY <2>1 DEF WithStatus
      <3>2. OutcomeOf(i) \in Outcome
        BY <2>1 DEF SummaryInv, AnswersDrawn
      <3> QED
        BY <3>1, <3>2
    <2>2. CASE i \notin W("success")
      <3>1. i = n + 1 /\ row.status = "success"
        BY <1>3, <2>2
      <3>2. OutcomeOf(i)' = o
        BY <1>1, <3>1 DEF OutcomeOf
      <3> QED
        BY <3>1, <3>2
    <2> QED
      BY <2>1, <2>2
  <1>6. /\ WithInput \in SUBSET (1 .. n) /\ WithOutput \in SUBSET (1 .. n)
        /\ Priced(rows) \in SUBSET (1 .. n)
    BY <1>1 DEF WithInput, WithOutput, Priced, WithStatus
  <1>7. /\ WithInput' = IF success /\ o.input # None THEN WithInput \cup {n + 1} ELSE WithInput
        /\ WithOutput' = IF success /\ o.output # None THEN WithOutput \cup {n + 1} ELSE WithOutput
    <2>1. \A i : i \in W("success")' <=> i \in W("success") \/ (success /\ i = n + 1)
      BY <1>3
    <2>2. \A i \in W("success") : OutcomeOf(i)' = OutcomeOf(i)
      BY DEF WithStatus
    <2>3. \A i : i = n + 1 => OutcomeOf(i)' = o
      BY <1>1 DEF OutcomeOf
    <2> DEFINE k == n + 1
    <2> HIDE DEF success, k
    <2>4. /\ \A i : i \in WithInput' <=> i \in WithInput \/ (success /\ o.input # None /\ i = k)
          /\ \A i : i \in WithOutput' <=> i \in WithOutput \/ (success /\ o.output # None /\ i = k)
      BY <2>1, <2>2, <2>3, Zenon DEF WithInput, WithOutput, k
    <2> QED
      BY <2>4 DEF k
  <1>8. Priced(rows)' = IF success /\ row.cost # None THEN Priced(rows) \cup {n + 1}
                                                      ELSE Priced(rows)
    BY <1>1, <1>3 DEF Priced
  <1>9. /\ p \in Provider => Adds(row, o, stats[p], stats'[p])
        /\ \A q \in Provider \ {p} : stats'[q] = stats[q]
        /\ success => p \in Provider
        /\ row.status = "provider_failure" => p \in Provider
    OBVIOUS
  <1>10. \A q \in Provider :
           /\ stats[q].successes \in Int /\ stats[q].failures \in Int
           /\ stats[q].cost_total \in Int /\ stats[q].cost_observations \in Int
           /\ stats[q].input_total \in Int /\ stats[q].output_total \in Int
           /\ stats[q].token_observations \in Int
    BY <1>1 DEF Stats
  <1>11. \A i \in WithStatus(rows, "success") :
           OutcomeOf(i).input \in Optional /\ OutcomeOf(i).output \in Optional
    BY OutcomeType DEF SummaryInv, AnswersDrawn
  <1>12. success => o.input \in Optional /\ o.output \in Optional
    BY OutcomeType
  <1>13. StoreAddsUp
    BY DEF SummaryInv
  <1> HIDE DEF n, p, success, W
  <1>15. /\ \A i : i = n + 1 => OutcomeOf(i)' = o
         /\ \A i \in 1 .. n : OutcomeOf(i)' = OutcomeOf(i)
    BY <1>1 DEF OutcomeOf, n
  <1>16. /\ \A i \in WithInput : OutcomeOf(i).input \in Int
         /\ \A i \in WithOutput : OutcomeOf(i).output \in Int
         /\ \A i \in Priced(rows) : rows[i].cost \in Int
    BY <1>1, <1>6, <1>11 DEF WithInput, WithOutput, Priced, Optional, Row
  <1>20. (Cardinality(WithStatus(rows, "success")) = StoreSuccesses)'
    <2> DEFINE f == [q \in Provider |-> stats[q].successes]
               g == [q \in Provider |-> stats'[q].successes]
               S == WithStatus(rows, "success")
               T == WithStatus(rows, "success")'
               b == success
    <2>1. /\ \A q \in Provider : f[q] \in Int
          /\ \A q \in Provider \ {p} : g[q] = f[q]
          /\ p \in Provider => g[p] = f[p] + (IF b THEN 1 ELSE 0)
      BY <1>9, <1>10 DEF Adds, success
    <2>2. Cardinality(S) = SumFunctionOnSet(f, Provider)
      BY <1>13 DEF StoreAddsUp, StoreSuccesses
    <2>3. S \in SUBSET (1 .. n) /\ T = IF b THEN S \cup {n + 1} ELSE S
      BY <1>3 DEF success, W
    <2>4. b \in BOOLEAN /\ (b => p \in Provider)
      BY <1>9 DEF success
    <2> HIDE DEF f, g, S, T, b
    <2>5. n \in Nat /\ (p \in Provider => g[p] = f[p] + (IF b THEN 1 ELSE 0))
      BY <1>1, <2>1
    <2>6. Cardinality(T) = SumFunctionOnSet(g, Provider)
      BY <1>2, <2>1, <2>2, <2>3, <2>4, <2>5, CountGrows, SMTT(30)
    <2> QED
      BY <2>6 DEF StoreSuccesses, S, T, g
  <1>21. (Cardinality(WithStatus(rows, "provider_failure")) = StoreFailures)'
    <2> DEFINE f == [q \in Provider |-> stats[q].failures]
               g == [q \in Provider |-> stats'[q].failures]
               S == WithStatus(rows, "provider_failure")
               T == WithStatus(rows, "provider_failure")'
               b == row.status = "provider_failure"
    <2>1. /\ \A q \in Provider : f[q] \in Int
          /\ \A q \in Provider \ {p} : g[q] = f[q]
          /\ p \in Provider => g[p] = f[p] + (IF b THEN 1 ELSE 0)
      BY <1>9, <1>10 DEF Adds, success
    <2>2. Cardinality(S) = SumFunctionOnSet(f, Provider)
      BY <1>13 DEF StoreAddsUp, StoreFailures
    <2>3. S \in SUBSET (1 .. n) /\ T = IF b THEN S \cup {n + 1} ELSE S
      BY <1>3 DEF W
    <2>4. b \in BOOLEAN /\ (b => p \in Provider)
      BY <1>9 DEF success
    <2> HIDE DEF f, g, S, T, b
    <2>5. n \in Nat /\ (p \in Provider => g[p] = f[p] + (IF b THEN 1 ELSE 0))
      BY <1>1, <2>1
    <2>6. Cardinality(T) = SumFunctionOnSet(g, Provider)
      BY <1>2, <2>1, <2>2, <2>3, <2>4, <2>5, CountGrows, SMTT(30)
    <2> QED
      BY <2>6 DEF StoreFailures, S, T, g
  <1>22. (Cardinality(Priced(rows)) = StoreCosts)'
    <2> DEFINE f == [q \in Provider |-> stats[q].cost_observations]
               g == [q \in Provider |-> stats'[q].cost_observations]
               S == Priced(rows)
               T == Priced(rows)'
               b == success /\ row.cost # None
    <2>1. /\ \A q \in Provider : f[q] \in Int
          /\ \A q \in Provider \ {p} : g[q] = f[q]
          /\ p \in Provider => g[p] = f[p] + (IF b THEN 1 ELSE 0)
      BY <1>9, <1>10 DEF Adds, success
    <2>2. Cardinality(S) = SumFunctionOnSet(f, Provider)
      BY <1>13 DEF StoreAddsUp, StoreCosts
    <2>3. S \in SUBSET (1 .. n) /\ T = IF b THEN S \cup {n + 1} ELSE S
      BY <1>6, <1>8
    <2>4. b \in BOOLEAN /\ (b => p \in Provider)
      BY <1>9 DEF success
    <2> HIDE DEF f, g, S, T, b
    <2>5. n \in Nat /\ (p \in Provider => g[p] = f[p] + (IF b THEN 1 ELSE 0))
      BY <1>1, <2>1
    <2>6. Cardinality(T) = SumFunctionOnSet(g, Provider)
      BY <1>2, <2>1, <2>2, <2>3, <2>4, <2>5, CountGrows, SMTT(30)
    <2> QED
      BY <2>6 DEF StoreCosts, S, T, g
  <1>23. (Cardinality(WithInput \cup WithOutput) = StoreTokens)'
    <2> DEFINE f == [q \in Provider |-> stats[q].token_observations]
               g == [q \in Provider |-> stats'[q].token_observations]
               S == (WithInput \cup WithOutput)
               T == (WithInput \cup WithOutput)'
               b == success /\ (o.input # None \/ o.output # None)
    <2>1. /\ \A q \in Provider : f[q] \in Int
          /\ \A q \in Provider \ {p} : g[q] = f[q]
          /\ p \in Provider => g[p] = f[p] + (IF b THEN 1 ELSE 0)
      BY <1>9, <1>10 DEF Adds, success
    <2>2. Cardinality(S) = SumFunctionOnSet(f, Provider)
      BY <1>13 DEF StoreAddsUp, StoreTokens
    <2>3. S \in SUBSET (1 .. n) /\ T = IF b THEN S \cup {n + 1} ELSE S
      BY <1>6, <1>7
    <2>4. b \in BOOLEAN /\ (b => p \in Provider)
      BY <1>9 DEF success
    <2> HIDE DEF f, g, S, T, b
    <2>5. n \in Nat /\ (p \in Provider => g[p] = f[p] + (IF b THEN 1 ELSE 0))
      BY <1>1, <2>1
    <2>6. Cardinality(T) = SumFunctionOnSet(g, Provider)
      BY <1>2, <2>1, <2>2, <2>3, <2>4, <2>5, CountGrows, SMTT(30)
    <2> QED
      BY <2>6 DEF StoreTokens, S, T, g
  <1>24. (RowsCost = StoreCost)'
    <2> DEFINE f == [q \in Provider |-> stats[q].cost_total]
               g == [q \in Provider |-> stats'[q].cost_total]
               S == Priced(rows)
               T == Priced(rows)'
               c == [i \in S |-> rows[i].cost]
               d == [i \in T |-> rows'[i].cost]
               b == success /\ row.cost # None
    <2>1. S \in SUBSET (1 .. n) /\ T = IF b THEN S \cup {n + 1} ELSE S
      BY <1>6, <1>8
    <2>2. \A i \in S : c[i] \in Int /\ d[i] = c[i]
      BY <1>1, <1>6, <1>16, <2>1
    <2>3. b => n + 1 \in T /\ d[n + 1] = row.cost /\ d[n + 1] \in Int
      BY <1>1, <1>12, <2>1 DEF Optional, Row, success
    <2>4. /\ \A q \in Provider : f[q] \in Int
          /\ \A q \in Provider \ {p} : g[q] = f[q]
          /\ p \in Provider => g[p] = f[p] + (IF b THEN d[n + 1] ELSE 0)
      <3>1. p \in Provider => g[p] = f[p] + (IF b THEN row.cost ELSE 0)
        BY <1>9 DEF Adds, success
      <3> HIDE DEF d
      <3> QED
        BY <1>9, <1>10, <2>3, <3>1
    <2>5. SumFunctionOnSet(c, S) = SumFunctionOnSet(f, Provider)
      BY <1>13 DEF StoreAddsUp, RowsCost, StoreCost
    <2>6. b \in BOOLEAN /\ (b => p \in Provider)
      BY <1>9 DEF success
    <2>7. b => d[n + 1] \in Int
      BY <2>3
    <2> HIDE DEF f, g, S, T, b, c, d
    <2>8. SumFunctionOnSet(d, T) = SumFunctionOnSet(g, Provider)
      BY <1>1, <1>2, <2>1, <2>2, <2>4, <2>5, <2>6, <2>7, TotalGrows
    <2> QED
      BY <2>8 DEF RowsCost, StoreCost, S, T, d, g
  <1>25. (RowsInput = StoreInput)'
    <2> DEFINE f == [q \in Provider |-> stats[q].input_total]
               g == [q \in Provider |-> stats'[q].input_total]
               S == WithInput
               T == WithInput'
               c == [i \in S |-> OutcomeOf(i).input]
               d == [i \in T |-> OutcomeOf(i)'.input]
               b == success /\ o.input # None
    <2>1. S \in SUBSET (1 .. n) /\ T = IF b THEN S \cup {n + 1} ELSE S
      BY <1>6, <1>7
    <2>2. \A i \in S : c[i] \in Int /\ d[i] = c[i]
      BY <1>6, <1>15, <1>16, <2>1
    <2>3. b => n + 1 \in T /\ d[n + 1] = o.input /\ d[n + 1] \in Int
      BY <1>1, <1>12, <2>1, <1>15 DEF Optional, Row, success
    <2>4. /\ \A q \in Provider : f[q] \in Int
          /\ \A q \in Provider \ {p} : g[q] = f[q]
          /\ p \in Provider => g[p] = f[p] + (IF b THEN d[n + 1] ELSE 0)
      <3>1. p \in Provider => g[p] = f[p] + (IF b THEN o.input ELSE 0)
        BY <1>9 DEF Adds, success
      <3> HIDE DEF d
      <3> QED
        BY <1>9, <1>10, <2>3, <3>1
    <2>5. SumFunctionOnSet(c, S) = SumFunctionOnSet(f, Provider)
      BY <1>13 DEF StoreAddsUp, RowsInput, StoreInput
    <2>6. b \in BOOLEAN /\ (b => p \in Provider)
      BY <1>9 DEF success
    <2>7. b => d[n + 1] \in Int
      BY <2>3
    <2> HIDE DEF f, g, S, T, b, c, d
    <2>8. SumFunctionOnSet(d, T) = SumFunctionOnSet(g, Provider)
      BY <1>1, <1>2, <2>1, <2>2, <2>4, <2>5, <2>6, <2>7, TotalGrows
    <2> QED
      BY <2>8 DEF RowsInput, StoreInput, S, T, d, g
  <1>26. (RowsOutput = StoreOutput)'
    <2> DEFINE f == [q \in Provider |-> stats[q].output_total]
               g == [q \in Provider |-> stats'[q].output_total]
               S == WithOutput
               T == WithOutput'
               c == [i \in S |-> OutcomeOf(i).output]
               d == [i \in T |-> OutcomeOf(i)'.output]
               b == success /\ o.output # None
    <2>1. S \in SUBSET (1 .. n) /\ T = IF b THEN S \cup {n + 1} ELSE S
      BY <1>6, <1>7
    <2>2. \A i \in S : c[i] \in Int /\ d[i] = c[i]
      BY <1>6, <1>15, <1>16, <2>1
    <2>3. b => n + 1 \in T /\ d[n + 1] = o.output /\ d[n + 1] \in Int
      BY <1>1, <1>12, <2>1, <1>15 DEF Optional, Row, success
    <2>4. /\ \A q \in Provider : f[q] \in Int
          /\ \A q \in Provider \ {p} : g[q] = f[q]
          /\ p \in Provider => g[p] = f[p] + (IF b THEN d[n + 1] ELSE 0)
      <3>1. p \in Provider => g[p] = f[p] + (IF b THEN o.output ELSE 0)
        BY <1>9 DEF Adds, success
      <3> HIDE DEF d
      <3> QED
        BY <1>9, <1>10, <2>3, <3>1
    <2>5. SumFunctionOnSet(c, S) = SumFunctionOnSet(f, Provider)
      BY <1>13 DEF StoreAddsUp, RowsOutput, StoreOutput
    <2>6. b \in BOOLEAN /\ (b => p \in Provider)
      BY <1>9 DEF success
    <2>7. b => d[n + 1] \in Int
      BY <2>3
    <2> HIDE DEF f, g, S, T, b, c, d
    <2>8. SumFunctionOnSet(d, T) = SumFunctionOnSet(g, Provider)
      BY <1>1, <1>2, <2>1, <2>2, <2>4, <2>5, <2>6, <2>7, TotalGrows
    <2> QED
      BY <2>8 DEF RowsOutput, StoreOutput, S, T, d, g
  <1> QED
    BY <1>4, <1>5, <1>20, <1>21, <1>22, <1>23, <1>24, <1>25, <1>26 DEF SummaryInv, StoreAddsUp

\* Nothing adds up to nothing.
LEMMA NoTotal ==
  ASSUME NEW f, \A p \in Provider : f[p] = 0
  PROVE  SumFunctionOnSet(f, Provider) = 0
  BY SumZero, SimulationAssumption

\* A replay that has not begun adds up.
LEMMA SummaryStartInit ==
  ASSUME rows = <<>>, stats = FreshStats
  PROVE  SummaryInv
  <1>1. /\ \A st : WithStatus(rows, st) = {}
        /\ Priced(rows) = {} /\ WithInput = {} /\ WithOutput = {}
    BY DEF WithStatus, Priced, WithInput, WithOutput
  <1>2. Len(rows) = 0 /\ Cardinality({}) = 0
    BY FS_EmptySet
  <1>3. \A p \in Provider :
          /\ stats[p].successes = 0 /\ stats[p].failures = 0
          /\ stats[p].cost_total = 0 /\ stats[p].cost_observations = 0
          /\ stats[p].input_total = 0 /\ stats[p].output_total = 0
          /\ stats[p].token_observations = 0
    BY DEF FreshStats, NoStats
  <1>4. /\ StoreSuccesses = 0 /\ StoreFailures = 0 /\ StoreCost = 0 /\ StoreCosts = 0
        /\ StoreInput = 0 /\ StoreOutput = 0 /\ StoreTokens = 0
    BY <1>3, NoTotal
       DEF StoreSuccesses, StoreFailures, StoreCost, StoreCosts, StoreInput, StoreOutput,
           StoreTokens
  <1>5. RowsCost = 0 /\ RowsInput = 0 /\ RowsOutput = 0
    BY <1>1, SumEmpty DEF RowsCost, RowsInput, RowsOutput
  <1>6. WithInput \cup WithOutput = {}
    BY <1>1
  <1>7. \A st : Cardinality(WithStatus(rows, st)) = 0
    BY <1>1, <1>2
  <1>8. RowsAddUp
    BY <1>2, <1>7 DEF RowsAddUp
  <1>9. Cardinality(Priced(rows)) = 0 /\ Cardinality(WithInput \cup WithOutput) = 0
    BY <1>1, <1>2, <1>6, Zenon
  <1>10. StoreAddsUp
    BY <1>4, <1>5, <1>7, <1>9 DEF StoreAddsUp
  <1>11. AnswersDrawn
    BY <1>1 DEF AnswersDrawn
  <1> QED
    BY <1>8, <1>10, <1>11 DEF SummaryInv

\* The same, of a step that ends the replay before it.
LEMMA SummaryStart ==
  ASSUME rows' = <<>>, stats' = FreshStats
  PROVE  SummaryInv'
  <1>1. /\ \A st : WithStatus(rows, st)' = {}
        /\ Priced(rows)' = {} /\ WithInput' = {} /\ WithOutput' = {}
    BY DEF WithStatus, Priced, WithInput, WithOutput
  <1>2. Len(rows') = 0 /\ Cardinality({}) = 0
    BY FS_EmptySet
  <1>3. \A p \in Provider :
          /\ stats'[p].successes = 0 /\ stats'[p].failures = 0
          /\ stats'[p].cost_total = 0 /\ stats'[p].cost_observations = 0
          /\ stats'[p].input_total = 0 /\ stats'[p].output_total = 0
          /\ stats'[p].token_observations = 0
    BY DEF FreshStats, NoStats
  <1>4. /\ StoreSuccesses' = 0 /\ StoreFailures' = 0 /\ StoreCost' = 0 /\ StoreCosts' = 0
        /\ StoreInput' = 0 /\ StoreOutput' = 0 /\ StoreTokens' = 0
    BY <1>3, NoTotal
       DEF StoreSuccesses, StoreFailures, StoreCost, StoreCosts, StoreInput, StoreOutput,
           StoreTokens
  <1>5. RowsCost' = 0 /\ RowsInput' = 0 /\ RowsOutput' = 0
    BY <1>1, SumEmpty DEF RowsCost, RowsInput, RowsOutput
  <1>6. WithInput' \cup WithOutput' = {}
    BY <1>1
  <1>7. \A st : Cardinality(WithStatus(rows, st)') = 0
    BY <1>1, <1>2
  <1>8. RowsAddUp'
    BY <1>2, <1>7 DEF RowsAddUp
  <1>9. Cardinality(Priced(rows)') = 0 /\ Cardinality(WithInput' \cup WithOutput') = 0
    BY <1>1, <1>2, <1>6, Zenon
  <1>10. StoreAddsUp'
    BY <1>4, <1>5, <1>7, <1>9 DEF StoreAddsUp
  <1>11. AnswersDrawn'
    BY <1>1 DEF AnswersDrawn
  <1> QED
    BY <1>8, <1>10, <1>11 DEF SummaryInv

\* What a failure adds to the statistics.
LEMMA FailureAdds ==
  ASSUME NEW s \in Stats, NEW row, row.status = "provider_failure", NEW o
  PROVE  Adds(row, o, s, AfterFailure(s))
  <1>1. /\ AfterFailure(s).failures = s.failures + 1
        /\ AfterFailure(s).successes = s.successes
        /\ AfterFailure(s).cost_total = s.cost_total
        /\ AfterFailure(s).cost_observations = s.cost_observations
        /\ AfterFailure(s).input_total = s.input_total
        /\ AfterFailure(s).output_total = s.output_total
        /\ AfterFailure(s).token_observations = s.token_observations
    BY DEF AfterFailure, Stats
  <1> QED
    BY <1>1 DEF Adds, Stats

\* What an answer adds: nothing counts as a cost that came without tokens.
LEMMA SuccessAdds ==
  ASSUME NEW s \in Stats, NEW p \in Provider, NEW o \in Outcome,
         NEW row, row.status = "success", row.cost = CostOf(p, o)
  PROVE  Adds(row, o, s, AfterUsage(AfterSuccess(s, o.latency), UsageOf(p, o)))
  <1> DEFINE t == AfterSuccess(s, o.latency)
             u == UsageOf(p, o)
  <1>1. /\ t.successes = s.successes + 1 /\ t.failures = s.failures
        /\ t.cost_total = s.cost_total /\ t.cost_observations = s.cost_observations
        /\ t.input_total = s.input_total /\ t.output_total = s.output_total
        /\ t.token_observations = s.token_observations
    BY DEF AfterSuccess, Stats
  <1>2. t \in Stats
    BY OutcomeType, AfterSuccessType
  <1>3. /\ u.input = o.input /\ u.output = o.output /\ u.cost = row.cost
        /\ o.input = None \/ o.output = None => row.cost = None
    BY DEF UsageOf, CostOf, ObservedCost
  <1>4. o.input \in Optional /\ o.output \in Optional /\ row.cost \in Optional
    BY OutcomeType, UsageType
  <1> HIDE DEF t, u
  <1>5. CASE u.input = None /\ u.output = None
    <2>1. AfterUsage(t, u) = t
      BY <1>5 DEF AfterUsage
    <2> QED
      BY <1>1, <1>3, <1>5, <2>1 DEF Adds, Stats, t, u
  <1>6. CASE ~(u.input = None /\ u.output = None)
    <2> DEFINE v == AfterUsage(t, u)
    <2>1. v = [t EXCEPT !.token_observations = @ + 1, !.last_usage = u,
                        !.input_total = @ + Known(u.input),
                        !.output_total = @ + Known(u.output),
                        !.cost_total = @ + Known(u.cost),
                        !.cost_observations = @ + (IF u.cost = None THEN 0 ELSE 1)]
      BY <1>6 DEF AfterUsage
    <2>2. /\ v.successes = t.successes /\ v.failures = t.failures
          /\ v.token_observations = t.token_observations + 1
          /\ v.input_total = t.input_total + Known(u.input)
          /\ v.output_total = t.output_total + Known(u.output)
          /\ v.cost_total = t.cost_total + Known(u.cost)
          /\ v.cost_observations = t.cost_observations + (IF u.cost = None THEN 0 ELSE 1)
      BY <1>2, <2>1 DEF Stats
    <2> HIDE DEF v
    <2>3. Adds(row, o, s, v)
      BY <1>1, <1>3, <1>4, <1>6, <2>2 DEF Adds, Stats, Known
    <2> QED
      BY <2>3 DEF v, t, u
  <1> QED
    BY <1>5, <1>6

\* A choice draws an outcome of its own item.
LEMMA ChooseOutcome ==
  ASSUME TypeInv, NEW p \in Provider, NEW o \in Outcome, Choose(p, o)
  PROVE  /\ trace'[Len(rows) + 1].outcome[p] = o
         /\ \A i \in DOMAIN rows : trace'[i] = trace[i]
  <1> DEFINE n == Len(rows) + 1
             drawn == [trace[n].outcome EXCEPT ![p] = o]
             item == [trace[n] EXCEPT !.outcome = drawn]
  <1>1. trace \in Seq(TraceItem) /\ rows \in Seq(Row) /\ n \in DOMAIN trace
    BY ItemType DEF TypeInv, SimulationTypeOK, Choose
  <1>2. trace' = [trace EXCEPT ![n] = item]
    BY DEF Choose
  <1>3. trace[n] \in TraceItem
    BY <1>1
  <1>4. drawn[p] = o
    BY <1>3 DEF TraceItem
  <1> HIDE DEF drawn
  <1>5. item.outcome = drawn
    BY <1>3 DEF TraceItem
  <1> HIDE DEF item
  <1>6. trace'[n] = item /\ \A i \in DOMAIN rows : i # n /\ i \in DOMAIN trace
    BY <1>1, <1>2
  <1> QED
    BY <1>1, <1>2, <1>4, <1>5, <1>6

\* Every step keeps the rows and the store in step.
LEMMA SummaryStep ==
  ASSUME TypeInv, StoreInv, SummaryInv, [Next]_vars
  PROVE  SummaryInv'
  <1>1. StoreInv'
    BY StoreStep
  <1>2. /\ rows \in Seq(Row) /\ stats \in [Provider -> Stats]
        /\ trace \in Seq(TraceItem) /\ Len(rows) <= Len(trace)
    BY DEF TypeInv, SimulationTypeOK
  <1>3. CASE /\ UNCHANGED <<rows, stats>>
             /\ \A i \in DOMAIN rows : trace'[i] = trace[i]
    <2>1. /\ \A i \in DOMAIN rows : OutcomeOf(i)' = OutcomeOf(i)
          /\ \A st : WithStatus(rows, st)' = WithStatus(rows, st)
          /\ Priced(rows)' = Priced(rows)
      BY <1>3 DEF OutcomeOf, WithStatus, Priced
    <2>2. \A i \in WithStatus(rows, "success") : i \in DOMAIN rows
      BY DEF WithStatus
    <2>3. WithInput' = WithInput /\ WithOutput' = WithOutput
      BY <2>1, <2>2 DEF WithInput, WithOutput
    <2>4. RowsInput' = RowsInput /\ RowsOutput' = RowsOutput
      <3>1. /\ [i \in WithInput |-> OutcomeOf(i).input]'
                 = [i \in WithInput |-> OutcomeOf(i).input]
            /\ [i \in WithOutput |-> OutcomeOf(i).output]'
                 = [i \in WithOutput |-> OutcomeOf(i).output]
        BY <2>1, <2>2, <2>3 DEF WithInput, WithOutput
      <3> QED
        BY <2>3, <3>1, Zenon DEF RowsInput, RowsOutput
    <2>5. RowsCost' = RowsCost
      BY <1>3, <2>1 DEF RowsCost
    <2>6. AnswersDrawn'
      BY <2>1, <2>2 DEF SummaryInv, AnswersDrawn
    <2>7. StoreAddsUp'
      BY <1>3, <2>1, <2>3, <2>4, <2>5
         DEF SummaryInv, StoreAddsUp, StoreSuccesses, StoreFailures, StoreCost, StoreCosts,
             StoreInput, StoreOutput, StoreTokens
    <2>8. RowsAddUp'
      BY <1>3, <2>1 DEF SummaryInv, RowsAddUp
    <2> QED
      BY <2>6, <2>7, <2>8 DEF SummaryInv
  <1>4. CASE NobodyEligible
    <2>1. PICK row \in Row : /\ rows' = Append(rows, row) /\ row.provider = NoProvider
                             /\ row.status = "no_provider"
      BY <1>4, NobodyRow
    <2>2. UNCHANGED <<trace, stats>> /\ NoProvider \notin Provider
      BY <1>4, SimulationAssumption DEF NobodyEligible
    <2>3. \A i \in DOMAIN rows : OutcomeOf(i)' = OutcomeOf(i)
      BY <1>2, <2>1, <2>2 DEF OutcomeOf
    <2> DEFINE o == trace'[Len(rows) + 1].outcome[row.provider]
    <2> HIDE DEF o
    <2>4. trace'[Len(rows) + 1].outcome[row.provider] = o
      BY DEF o
    <2> QED
      BY <2>1, <2>2, <2>3, <2>4, SummaryGrows
  <1>5. ASSUME NEW p \in Provider, NEW o \in Outcome, Choose(p, o),
               NEW row \in Row, rows' = Append(rows, row), row.provider = p,
               \A q \in Provider \ {p} : stats'[q] = stats[q],
               Adds(row, o, stats[p], stats'[p])
        PROVE  SummaryInv'
    <2>1. /\ trace'[Len(rows) + 1].outcome[p] = o
          /\ \A i \in DOMAIN rows : trace'[i] = trace[i]
      BY <1>5, ChooseOutcome
    <2>2. \A i \in DOMAIN rows : OutcomeOf(i)' = OutcomeOf(i)
      BY <1>2, <1>5, <2>1 DEF OutcomeOf
    <2> QED
      BY <1>5, <2>1, <2>2, SummaryGrows
  <1>6. ASSUME NEW p \in Provider, NEW o \in Outcome, MissingOutcome(p, o)
        PROVE  SummaryInv'
    <2>1. PICK row \in Row : /\ rows' = Append(rows, row) /\ row.provider = p
                             /\ row.status = "missing_outcome"
      BY <1>1, <1>6, MissingRow
    <2>2. UNCHANGED stats /\ Choose(p, o)
      BY <1>6 DEF MissingOutcome
    <2>3. Adds(row, o, stats[p], stats'[p])
      BY <1>2, <2>1, <2>2 DEF Adds, Stats
    <2> QED
      BY <1>5, <2>1, <2>2, <2>3
  <1>7. ASSUME NEW p \in Provider, NEW o \in Outcome, ProviderFailure(p, o)
        PROVE  SummaryInv'
    <2>1. PICK row \in Row : /\ rows' = Append(rows, row) /\ row.provider = p
                             /\ row.status = "provider_failure"
      BY <1>1, <1>7, FailureRow
    <2>2. stats' = [stats EXCEPT ![p] = AfterFailure(stats[p])] /\ Choose(p, o)
      BY <1>7 DEF ProviderFailure
    <2>3. /\ stats'[p] = AfterFailure(stats[p]) /\ stats[p] \in Stats
          /\ \A q \in Provider \ {p} : stats'[q] = stats[q]
      BY <1>2, <2>2
    <2>4. Adds(row, o, stats[p], stats'[p])
      BY <2>1, <2>3, FailureAdds
    <2> QED
      BY <1>5, <2>1, <2>2, <2>3, <2>4
  <1>8. ASSUME NEW p \in Provider, NEW o \in Outcome, Success(p, o)
        PROVE  SummaryInv'
    <2>1. PICK row \in Row : /\ rows' = Append(rows, row) /\ row.provider = p
                             /\ row.status = "success" /\ row.cost = CostOf(p, o)
      BY <1>1, <1>8, SuccessRow
    <2> DEFINE after == AfterUsage(AfterSuccess(stats[p], o.latency), UsageOf(p, o))
    <2>2. stats' = [stats EXCEPT ![p] = after]
      BY <1>1, <1>8, SuccessRow
    <2>3. Choose(p, o)
      BY <1>8 DEF Success
    <2> HIDE DEF after
    <2>4. /\ stats'[p] = after /\ stats[p] \in Stats
          /\ \A q \in Provider \ {p} : stats'[q] = stats[q]
      BY <1>2, <2>2
    <2>5. Adds(row, o, stats[p], after)
      BY <2>1, <2>4, SuccessAdds DEF after
    <2>6. Adds(row, o, stats[p], stats'[p])
      BY <2>4, <2>5
    <2> QED
      BY <1>5, <2>1, <2>3, <2>4, <2>6
  <1>9. CASE EndPolicy
    BY <1>9, SummaryStart DEF EndPolicy
  <1>10. CASE UNCHANGED vars
    BY <1>3, <1>10 DEF vars, simVars
  <1>11. CASE SetClock
    <2>1. \A i \in DOMAIN rows : i \in 1 .. Len(trace)
      BY <1>2
    <2>2. UNCHANGED trace \/ \E item \in NewItems : trace' = Append(trace, item)
      BY <1>11 DEF SetClock
    <2>3. \A i \in DOMAIN rows : trace'[i] = trace[i]
      BY <1>2, <2>1, <2>2
    <2> QED
      BY <1>3, <1>11, <2>3 DEF SetClock
  <1>12. ASSUME NEW p \in Provider, NEW o \in Outcome, InvalidOutcome(p, o)
         PROVE  SummaryInv'
    <2>1. UNCHANGED <<rows, stats>> /\ Choose(p, o)
      BY <1>12 DEF InvalidOutcome
    <2> QED
      BY <1>3, <2>1, ChooseOutcome
  <1> QED
    BY <1>4, <1>6, <1>7, <1>8, <1>9, <1>10, <1>11, <1>12 DEF Next, AttemptStep

\* The report of a replay and the store that routed it agree on every outcome,
\* token and cost, for any providers, prices and traces.
THEOREM SummaryAlwaysAgrees == Spec => []SummaryAgreesWithStore
  <1>1. Init => StoreInv /\ TypeInv /\ SummaryInv
    BY InitStore, InitType, SummaryStartInit DEF Init
  <1>2. StoreInv /\ TypeInv /\ SummaryInv /\ [Next]_vars
          => (StoreInv /\ TypeInv /\ SummaryInv)'
    BY StoreStep, TypeStep, SummaryStep
  <1>3. SummaryInv => SummaryAgreesWithStore
    BY SummaryParts DEF SummaryInv
  <1> QED
    BY <1>1, <1>2, <1>3, PTL DEF Spec

-----------------------------------------------------------------------------
(***************************************************************************)
(* The percentiles.                                                        *)
(***************************************************************************)

\* The place of a percentile: the first one that is not short of its share.
LEMMA RankIs ==
  ASSUME NEW n \in Nat \ {0}, NEW percent \in 1 .. 100
  PROVE  LET rank == (percent * n + 99) \div 100
         IN  /\ rank \in 1 .. n
             /\ percent * n \in Nat
             /\ \A c \in Nat : rank <= c => 100 * c >= percent * n
             /\ \A c \in Nat : c <= rank - 1 => ~(100 * c >= percent * n)
  <1>1. PICK x : x = percent * n
    OBVIOUS
  <1>2. x \in Nat
    BY <1>1, ProductNat
  <1>3. percent - 1 \in Nat /\ 100 - percent \in Nat /\ n \in Nat
    OBVIOUS
  <1>4. (percent - 1) * n \in Nat /\ (100 - percent) * n \in Nat
    BY <1>3, ProductNat
  <1>5. (percent - 1) * n = x - n /\ (100 - percent) * n = 100 * n - x
    BY <1>1
  <1>6. n <= x /\ x <= 100 * n
    BY <1>2, <1>4, <1>5
  <1> DEFINE rank == (x + 99) \div 100
  <1>7. /\ rank \in 1 .. n
        /\ \A c \in Nat : rank <= c => 100 * c >= x
        /\ \A c \in Nat : c <= rank - 1 => ~(100 * c >= x)
    BY <1>2, <1>6
  <1> QED
    BY <1>1, <1>2, <1>7

\* The order Sorted chooses is one.
LEMMA SortedIs ==
  ASSUME NEW samples \in Seq(Nat)
  PROVE  \E f : /\ Sorts(f, samples, Len(samples))
                /\ \A i \in 1 .. Len(samples) : Sorted(samples)[i] = samples[f[i]]
  <1> DEFINE D == DOMAIN samples
             Ascends(f) == \A i, j \in D : i < j => samples[f[i]] <= samples[f[j]]
             order == CHOOSE f \in Bijection(D, D) : Ascends(f)
  <1>1. D = 1 .. Len(samples)
    OBVIOUS
  <1>2. Len(samples) \in Nat /\ \A i \in D : samples[i] \in Nat
    OBVIOUS
  <1>6. Sorted(samples) = [i \in D |-> samples[order[i]]]
    BY DEF Sorted
  <1> HIDE DEF D
  <1>3. PICK f : Sorts(f, samples, Len(samples))
    BY <1>1, <1>2, SortsExists
  <1>4. f \in Bijection(D, D) /\ Ascends(f)
    BY <1>1, <1>3, Zenon DEF Sorts
  <1>5. order \in Bijection(D, D) /\ Ascends(order)
    BY <1>4, Zenon
  <1> HIDE DEF order
  <1>7. Sorts(order, samples, Len(samples))
    BY <1>1, <1>5, Zenon DEF Sorts
  <1>8. \A i \in D : Sorted(samples)[i] = samples[order[i]]
    BY <1>6
  <1> QED
    BY <1>1, <1>7, <1>8

\* _nearest_rank_percentile computes a nearest-rank percentile.
LEMMA PercentileIs ==
  ASSUME NEW samples \in Seq(Nat), NEW percent \in 1 .. 100
  PROVE  Percentile(samples, percent) = NearestRank(samples, percent)
  <1>1. CASE samples = <<>>
    BY <1>1 DEF Percentile, NearestRank
  <1>2. CASE samples # <<>>
    <2> DEFINE n == Len(samples)
               rank == (percent * n + 99) \div 100
               Below(v) == {i \in DOMAIN samples : samples[i] <= v}
               Covers(v) == 100 * Cardinality(Below(v)) >= percent * n
               S == {v \in {samples[i] : i \in DOMAIN samples} : Covers(v)}
               least == CHOOSE v \in S : \A w \in S : v <= w
    <2>1. n \in Nat \ {0} /\ DOMAIN samples = 1 .. n /\ \A i \in 1 .. n : samples[i] \in Nat
      BY <1>2
    <2>2. /\ rank \in 1 .. n
          /\ \A c \in Nat : rank <= c => 100 * c >= percent * n
          /\ \A c \in Nat : c <= rank - 1 => ~(100 * c >= percent * n)
      <3> HIDE DEF n
      <3> QED
        BY <2>1, RankIs
    <2>3. PICK f : /\ Sorts(f, samples, n)
                   /\ \A i \in 1 .. n : Sorted(samples)[i] = samples[f[i]]
      BY SortedIs
    <2> DEFINE v0 == samples[f[rank]]
    <2>4. ~(rank < 1)
      BY <2>2
    <2>5. Percentile(samples, percent) = v0
      <3>1. Percentile(samples, percent) = Sorted(samples)[IF rank < 1 THEN 1 ELSE rank]
        BY <1>2, Zenon DEF Percentile
      <3>2. Percentile(samples, percent) = Sorted(samples)[rank]
        BY <2>4, <3>1, Zenon
      <3> QED
        BY <2>2, <2>3, <3>2, Zenon
    <2>6. NearestRank(samples, percent) = least
      BY <1>2, Zenon DEF NearestRank
    <2>7. f[rank] \in 1 .. n
      <3>1. f \in [1 .. n -> 1 .. n]
        BY <2>3, SortsIs, Zenon
      <3> HIDE DEF rank, n
      <3> QED
        BY <2>2, <3>1
    <2>8. rank <= Cardinality(Below(v0))
      <3>1. /\ n \in Nat /\ Below(v0) \subseteq 1 .. n
            /\ \A i \in 1 .. n : samples[i] <= samples[f[rank]] => i \in Below(v0)
        BY <2>1, Zenon
      <3>2. Sorts(f, samples, n)
        BY <2>3
      <3> HIDE DEF n, rank, Below, v0
      <3> QED
        BY <2>1, <2>2, <3>1, <3>2, RankReached
    <2>9. ASSUME NEW w \in Nat
          PROVE  /\ Cardinality(Below(w)) \in Nat
                 /\ w < v0 => Cardinality(Below(w)) <= rank - 1
      <3>1. n \in Nat /\ Below(w) \subseteq 1 .. n /\ \A i \in Below(w) : samples[i] <= w
        BY <2>1, Zenon
      <3>2. Sorts(f, samples, n) /\ (w < v0 => w < samples[f[rank]])
        BY <2>3
      <3>3. IsFiniteSet(1 .. n)
        BY <2>1, FS_Interval
      <3> HIDE DEF n, rank, Below, v0
      <3>4. Cardinality(Below(w)) \in Nat
        BY <3>1, <3>3, FS_Subset, FS_CardinalityType
      <3> QED
        BY <2>1, <2>2, <3>1, <3>2, <3>4, RankMissed
    <2>10. v0 \in Nat /\ v0 \in {samples[i] : i \in DOMAIN samples}
      BY <2>1, <2>7
    <2> HIDE DEF n, rank, v0, Below
    <2>11. \A v \in S : v \in Nat
      BY <2>1
    <2>12. Covers(v0) /\ \A w \in Nat : w < v0 => ~Covers(w)
      <3>1. Cardinality(Below(v0)) \in Nat /\ \A w \in Nat : Cardinality(Below(w)) \in Nat
        BY <2>9, <2>10, Zenon
      <3>2. Covers(v0)
        BY <2>2, <2>8, <3>1, Zenon
      <3>3. ASSUME NEW w \in Nat, w < v0
            PROVE  ~Covers(w)
        <4>1. Cardinality(Below(w)) <= rank - 1
          BY <2>9, <3>3, Zenon
        <4> QED
          BY <2>2, <3>1, <4>1, Zenon
      <3> QED
        BY <3>2, <3>3
    <2>13. v0 \in S
      BY <2>10, <2>12
    <2> HIDE DEF Covers
    <2>14. \A w \in S : v0 <= w
      BY <2>10, <2>11, <2>12
    <2> HIDE DEF S
    <2>15. least \in S /\ \A w \in S : least <= w
      BY <2>13, <2>14, Zenon
    <2> HIDE DEF least
    <2>16. least = v0
      BY <2>10, <2>11, <2>13, <2>14, <2>15
    <2> QED
      BY <2>5, <2>6, <2>16
  <1> QED
    BY <1>1, <1>2

\* The w elements after the first k.
LEMMA Slice ==
  ASSUME NEW S, NEW s \in Seq(S), NEW k \in Nat, NEW w \in Nat, k + w <= Len(s)
  PROVE  /\ SubSeq(s, k + 1, k + w) \in Seq(S) /\ Len(SubSeq(s, k + 1, k + w)) = w
         /\ \A i \in 1 .. w : SubSeq(s, k + 1, k + w)[i] = s[k + i]
  <1> DEFINE a == k + 1
             b == k + w
  <1>1. /\ a \in Int /\ b \in Int /\ \A i \in a .. b : s[i] \in S
        /\ b - a + 1 = w /\ (a <= b <=> w # 0) /\ \A i \in 1 .. w : a + i - 1 = k + i
    OBVIOUS
  <1> HIDE DEF a, b
  <1>2. /\ SubSeq(s, a, b) \in Seq(S)
        /\ Len(SubSeq(s, a, b)) = IF a <= b THEN b - a + 1 ELSE 0
        /\ \A i \in 1 .. b - a + 1 : SubSeq(s, a, b)[i] = s[a + i - 1]
    BY <1>1, SubSeqProperties
  <1> QED
    BY <1>1, <1>2 DEF a, b

\* The last LatencyWindow of a sequence.
Recent(all) ==
  SubSeq(all, IF Len(all) > LatencyWindow THEN Len(all) - LatencyWindow + 1 ELSE 1, Len(all))

\* A deque of LatencyWindow places holds the last of what was pushed.
LEMMA RecentPushed ==
  ASSUME NEW S, NEW all \in Seq(S), NEW l \in S
  PROVE  Pushed(Recent(all), l) = Recent(Append(all, l))
  <1> DEFINE w == LatencyWindow
             n == Len(all)
             more == Append(all, l)
  <1>1. w \in Nat \ {0} /\ n \in Nat
    BY MetricsAssumption
  <1>2. /\ more \in Seq(S) /\ Len(more) = n + 1 /\ more[n + 1] = l
        /\ \A i \in 1 .. n : more[i] = all[i]
    OBVIOUS
  <1>3. /\ Recent(all) = SubSeq(all, IF n > w THEN n - w + 1 ELSE 1, n)
        /\ Recent(more) = SubSeq(more, IF n + 1 > w THEN (n + 1) - w + 1 ELSE 1, n + 1)
    BY <1>2 DEF Recent
  <1> HIDE DEF w, n, more
  <1>4. CASE n < w
    <2>1. Recent(all) = all
      <3>1. Recent(all) = SubSeq(all, 1, n)
        BY <1>1, <1>3, <1>4
      <3> QED
        BY <3>1 DEF n
    <2>2. Recent(more) = more
      <3>1. Recent(more) = SubSeq(more, 1, n + 1)
        BY <1>1, <1>3, <1>4
      <3> QED
        BY <1>2, <3>1
    <2> QED
      BY <1>4, <2>1, <2>2 DEF Pushed, n, w, more
  <1>5. CASE ~(n < w)
    <2> DEFINE k == n - w
               old == Recent(all)
    <2>1. k \in Nat /\ k + w = n
      BY <1>1, <1>5
    <2>2. Recent(more) = SubSeq(more, k + 2, n + 1)
      BY <1>1, <1>3, <1>5
    <2>3. old = SubSeq(all, k + 1, n)
      <3>1. CASE n > w
        BY <1>1, <1>3, <3>1
      <3>2. CASE n = w
        BY <1>1, <1>3, <3>2
      <3> QED
        BY <1>1, <1>5, <3>1, <3>2
    <2>4. old \in Seq(S) /\ Len(old) = w /\ \A i \in 1 .. w : old[i] = all[k + i]
      <3>1. n \in Nat /\ w \in Nat /\ k \in Nat /\ k + w = n
        BY <1>1, <2>1
      <3> HIDE DEF k, old
      <3> QED
        BY <2>3, <3>1, Slice DEF n
    <2>5. /\ Recent(more) \in Seq(S) /\ Len(Recent(more)) = w
          /\ \A i \in 1 .. w : Recent(more)[i] = more[k + 1 + i]
      <3>1. k + 1 \in Nat /\ w \in Nat /\ (k + 1) + 1 = k + 2 /\ (k + 1) + w = n + 1
        BY <1>1, <2>1
      <3> DEFINE m == k + 1
      <3> HIDE DEF m
      <3>2. m \in Nat /\ Recent(more) = SubSeq(more, m + 1, m + w) /\ m + w <= Len(more)
        BY <1>1, <1>2, <2>2, <3>1 DEF m
      <3>3. /\ Recent(more) \in Seq(S) /\ Len(Recent(more)) = w
            /\ \A i \in 1 .. w : Recent(more)[i] = more[m + i]
        BY <1>2, <3>1, <3>2, Slice
      <3> QED
        BY <3>3 DEF m
    <2> HIDE DEF k, old
    <2>6. Pushed(old, l) = Append(Tail(old), l)
      BY <1>1, <2>4 DEF Pushed, w
    <2>7. /\ Tail(old) \in Seq(S) /\ Len(Tail(old)) = w - 1
          /\ \A i \in 1 .. w - 1 : Tail(old)[i] = old[i + 1]
      <3>1. old # <<>>
        BY <1>1, <2>4
      <3> QED
        BY <1>1, <2>4, <3>1
    <2> DEFINE new == Append(Tail(old), l)
    <2>8. /\ new \in Seq(S) /\ Len(new) = w /\ new[w] = l
          /\ \A i \in 1 .. w - 1 : new[i] = Tail(old)[i]
      <3> HIDE DEF new
      <3>1. PICK t \in Seq(S) : t = Tail(old)
        BY <2>7
      <3>2. w - 1 + 1 = w
        BY <1>1
      <3> QED
        BY <2>7, <3>1, <3>2, AppendProperties DEF new
    <2> HIDE DEF new
    <2>9. \A i \in 1 .. w : new[i] = Recent(more)[i]
      <3> TAKE i \in 1 .. w
      <3>1. CASE i = w
        <4>1. k + 1 + w = n + 1
          BY <1>1, <2>1
        <4> QED
          BY <1>2, <2>5, <2>8, <3>1, <4>1
      <3>2. CASE i # w
        <4>1. i \in 1 .. w - 1 /\ i + 1 \in 1 .. w /\ k + (i + 1) = k + 1 + i /\ k + 1 + i \in 1 .. n
          BY <1>1, <2>1, <3>2
        <4> QED
          BY <1>2, <2>4, <2>5, <2>7, <2>8, <4>1
      <3> QED
        BY <3>1, <3>2
    <2>10. new = Recent(more)
      BY <2>5, <2>8, <2>9
    <2> QED
      BY <2>6, <2>10 DEF new, old, more
  <1> QED
    BY <1>4, <1>5

\* One row more, and the latencies of p.
LEMMA LatenciesMore ==
  ASSUME TypeInv, NEW row \in Row, rows' = Append(rows, row), NEW p
  PROVE  /\ Latencies(p) \in Seq(Optional)
         /\ Latencies(p)' = IF row.provider = p /\ row.status = "success"
                              THEN Append(Latencies(p), row.latency) ELSE Latencies(p)
  <1> DEFINE n == Len(rows)
             part(r) == IF r.provider = p /\ r.status = "success" THEN <<r.latency>> ELSE <<>>
             parts == [i \in 1 .. n |-> part(rows[i])]
             parts2 == [i \in 1 .. n + 1 |-> part(rows'[i])]
             x == part(row)
  <1>1. /\ n \in Nat /\ DOMAIN rows = 1 .. n /\ DOMAIN rows' = 1 .. n + 1
        /\ rows'[n + 1] = row /\ \A i \in 1 .. n : rows'[i] = rows[i] /\ rows[i] \in Row
    BY DEF TypeInv, SimulationTypeOK
  <1>2. \A r \in Row : part(r) \in Seq(Optional)
    BY DEF Row
  <1>3. Latencies(p) = FlattenSeq(parts) /\ Latencies(p)' = FlattenSeq(parts2)
    BY <1>1 DEF Latencies
  <1> HIDE DEF n, part
  <1>4. parts \in Seq(Seq(Optional)) /\ x \in Seq(Optional)
    BY <1>1, <1>2
  <1>5. parts2 = Append(parts, x)
    <2>1. Len(parts) = n
      BY <1>1
    <2>2. Append(parts, x) = [i \in 1 .. n + 1 |-> IF i = n + 1 THEN x ELSE parts[i]]
      BY <1>1, <2>1
    <2>3. \A i \in 1 .. n + 1 : part(rows'[i]) = IF i = n + 1 THEN x ELSE parts[i]
      BY <1>1
    <2> HIDE DEF parts, x
    <2> QED
      BY <2>2, <2>3
  <1> HIDE DEF parts, parts2, x
  <1>6. FlattenSeq(parts) \in Seq(Optional)
    BY <1>4, FlattenType
  <1>7. FlattenSeq(parts2) = FlattenSeq(parts) \o x
    BY <1>4, <1>5, FlattenAppend
  <1>8. x = IF row.provider = p /\ row.status = "success" THEN <<row.latency>> ELSE <<>>
    BY DEF x, part
  <1>9. row.latency \in Optional
    BY DEF Row
  <1>10. \A s \in Seq(Optional) : \A l \in Optional : s \o <<l>> = Append(s, l) /\ s \o <<>> = s
    OBVIOUS
  <1> QED
    BY <1>3, <1>6, <1>7, <1>8, <1>9, <1>10

\* The samples in the store are the last of the rows.
SamplesInv == \A p \in Provider : stats[p].latency_samples = Recent(Latencies(p))

\* Percentiles of the same samples.
LEMMA SamplesEnough == TypeInv /\ SamplesInv => RecentPercentiles
  <1> SUFFICES ASSUME TypeInv, SamplesInv, NEW p \in Provider, NEW percent \in {50, 95}
               PROVE  Percentile(stats[p].latency_samples, percent)
                        = NearestRank(Recent(Latencies(p)), percent)
    BY Zenon DEF RecentPercentiles, Recent
  <1>1. stats[p].latency_samples \in Seq(Nat)
    BY DEF TypeInv, SimulationTypeOK, Stats
  <1>2. percent \in 1 .. 100
    OBVIOUS
  <1>3. stats[p].latency_samples = Recent(Latencies(p))
    BY DEF SamplesInv
  <1>4. Percentile(stats[p].latency_samples, percent)
          = NearestRank(stats[p].latency_samples, percent)
    <2> DEFINE samples == stats[p].latency_samples
    <2>1. samples \in Seq(Nat)
      BY <1>1
    <2> HIDE DEF samples
    <2>2. Percentile(samples, percent) = NearestRank(samples, percent)
      BY <1>2, <2>1, PercentileIs
    <2> QED
      BY <2>2 DEF samples
  <1> QED
    BY <1>3, <1>4, Zenon

\* Only an answer pushes a sample.
LEMMA SamplesAfter ==
  ASSUME NEW s \in Stats, NEW l \in Nat, NEW u \in Usage
  PROVE  /\ AfterFailure(s).latency_samples = s.latency_samples
         /\ AfterUsage(AfterSuccess(s, l), u).latency_samples = Pushed(s.latency_samples, l)
  <1> DEFINE t == AfterSuccess(s, l)
             w == Pushed(s.latency_samples, l)
  <1>1. AfterFailure(s).latency_samples = s.latency_samples
    BY DEF AfterFailure, Stats
  <1>2. t.latency_samples = w
    <2>1. \E n, e : t = [s EXCEPT !.successes = n, !.latency_ewma = e, !.latency_samples = w]
      BY DEF AfterSuccess
    <2> HIDE DEF t, w
    <2> QED
      BY <2>1 DEF Stats
  <1>3. t \in Stats
    BY AfterSuccessType
  <1> HIDE DEF t, w
  <1>4. AfterUsage(t, u).latency_samples = t.latency_samples
    BY <1>3 DEF AfterUsage, Stats
  <1> QED
    BY <1>1, <1>2, <1>4 DEF t, w

\* A row that is no answer adds no latency, and none is pushed.
LEMMA SamplesKept ==
  ASSUME TypeInv, SamplesInv, NEW row \in Row, rows' = Append(rows, row),
         row.status # "success",
         \A q \in Provider : stats'[q].latency_samples = stats[q].latency_samples
  PROVE  SamplesInv'
  <1> SUFFICES ASSUME NEW p \in Provider
               PROVE  stats'[p].latency_samples = Recent(Latencies(p)')
    BY DEF SamplesInv, Recent
  <1>1. Latencies(p)' = Latencies(p)
    BY LatenciesMore
  <1> QED
    BY <1>1 DEF SamplesInv

\* An answer adds its latency, and it is pushed.
LEMMA SamplesMoved ==
  ASSUME TypeInv, SamplesInv, NEW row \in Row, rows' = Append(rows, row),
         row.status = "success", row.provider \in Provider,
         \A q \in Provider \ {row.provider} :
           stats'[q].latency_samples = stats[q].latency_samples,
         stats'[row.provider].latency_samples
           = Pushed(stats[row.provider].latency_samples, row.latency)
  PROVE  SamplesInv'
  <1> SUFFICES ASSUME NEW p \in Provider
               PROVE  stats'[p].latency_samples = Recent(Latencies(p)')
    BY DEF SamplesInv, Recent
  <1>1. /\ Latencies(p) \in Seq(Optional)
        /\ Latencies(p)' = IF row.provider = p /\ row.status = "success"
                             THEN Append(Latencies(p), row.latency) ELSE Latencies(p)
    BY LatenciesMore
  <1>2. stats[p].latency_samples = Recent(Latencies(p)) /\ row.latency \in Optional
    BY DEF SamplesInv, Row
  <1>3. CASE p = row.provider
    BY <1>1, <1>2, <1>3, RecentPushed
  <1>4. CASE p # row.provider
    BY <1>1, <1>2, <1>4
  <1> QED
    BY <1>3, <1>4

\* The last of no latencies.
LEMMA RecentNone == Recent(FlattenSeq(<<>>)) = <<>>
  <1>1. Len(<<>>) = 0 /\ ~(0 > LatencyWindow)
    BY MetricsAssumption
  <1>2. Recent(<<>>) = SubSeq(<<>>, 1, 0)
    BY <1>1 DEF Recent
  <1> QED
    BY <1>2, SubSeqEmpty, FlattenEmpty

\* Without a row there are no latencies.
LEMMA SamplesStart ==
  /\ rows = <<>> /\ stats = FreshStats => SamplesInv
  /\ rows' = <<>> /\ stats' = FreshStats => SamplesInv'
  <1>2. ASSUME rows = <<>>, stats = FreshStats, NEW p \in Provider
        PROVE  stats[p].latency_samples = Recent(Latencies(p))
    <2>1. DOMAIN rows = {} /\ [i \in {} |-> <<>>] = <<>>
      BY <1>2
    <2>2. Latencies(p) = FlattenSeq(<<>>)
      BY <2>1 DEF Latencies
    <2> QED
      BY <1>2, <2>2, RecentNone DEF FreshStats, NoStats
  <1>3. ASSUME rows' = <<>>, stats' = FreshStats, NEW p \in Provider
        PROVE  stats'[p].latency_samples = Recent(Latencies(p)')
    <2>1. DOMAIN rows' = {} /\ [i \in {} |-> <<>>] = <<>>
      BY <1>3
    <2>2. Latencies(p)' = FlattenSeq(<<>>)
      BY <2>1 DEF Latencies
    <2> QED
      BY <1>3, <2>2, RecentNone DEF FreshStats, NoStats
  <1> QED
    BY <1>2, <1>3 DEF SamplesInv, Recent

\* Every step keeps the samples.
LEMMA SamplesStep ==
  ASSUME TypeInv, StoreInv, SamplesInv, [Next]_vars
  PROVE  SamplesInv'
  <1>1. StoreInv'
    BY StoreStep
  <1>2. rows \in Seq(Row) /\ stats \in [Provider -> Stats]
    BY DEF TypeInv, SimulationTypeOK
  <1>3. CASE UNCHANGED <<rows, stats>>
    BY <1>3 DEF SamplesInv, Latencies
  <1>4. CASE NobodyEligible
    <2>1. PICK row \in Row : /\ rows' = Append(rows, row) /\ row.provider = NoProvider
                             /\ row.status = "no_provider"
      BY <1>4, NobodyRow
    <2>2. UNCHANGED stats
      BY <1>4 DEF NobodyEligible
    <2> QED
      BY <2>1, <2>2, SamplesKept
  <1>5. ASSUME NEW p \in Provider, NEW o \in Outcome, MissingOutcome(p, o)
        PROVE  SamplesInv'
    <2>1. PICK row \in Row : /\ rows' = Append(rows, row) /\ row.provider = p
                             /\ row.status = "missing_outcome"
      BY <1>1, <1>5, MissingRow
    <2>2. UNCHANGED stats
      BY <1>5 DEF MissingOutcome
    <2> QED
      BY <2>1, <2>2, SamplesKept
  <1>6. ASSUME NEW p \in Provider, NEW o \in Outcome, ProviderFailure(p, o)
        PROVE  SamplesInv'
    <2>1. PICK row \in Row : /\ rows' = Append(rows, row) /\ row.provider = p
                             /\ row.status = "provider_failure"
      BY <1>1, <1>6, FailureRow
    <2>2. stats' = [stats EXCEPT ![p] = AfterFailure(stats[p])] /\ stats[p] \in Stats
      BY <1>2, <1>6 DEF ProviderFailure
    <2>3. AfterFailure(stats[p]).latency_samples = stats[p].latency_samples
      <3>1. NoUsage \in Usage /\ 0 \in Nat
        BY DEF NoUsage, Usage, Optional
      <3> QED
        BY <2>2, <3>1, SamplesAfter
    <2>4. \A q \in Provider : stats'[q].latency_samples = stats[q].latency_samples
      BY <1>2, <2>2, <2>3
    <2> QED
      BY <2>1, <2>4, SamplesKept
  <1>7. ASSUME NEW p \in Provider, NEW o \in Outcome, Success(p, o)
        PROVE  SamplesInv'
    <2>1. PICK row \in Row : /\ rows' = Append(rows, row) /\ row.provider = p
                             /\ row.status = "success" /\ row.latency = o.latency
      BY <1>1, <1>7, SuccessRow
    <2> DEFINE after == AfterUsage(AfterSuccess(stats[p], o.latency), UsageOf(p, o))
    <2>2. stats' = [stats EXCEPT ![p] = after]
      BY <1>1, <1>7, SuccessRow
    <2>3. after.latency_samples = Pushed(stats[p].latency_samples, o.latency)
      <3>1. stats[p] \in Stats /\ o.latency \in Nat /\ UsageOf(p, o) \in Usage
        BY <1>2, OutcomeType, UsageType
      <3> QED
        BY <3>1, SamplesAfter
    <2> HIDE DEF after
    <2>4. /\ \A q \in Provider \ {p} : stats'[q].latency_samples = stats[q].latency_samples
          /\ stats'[p].latency_samples = Pushed(stats[p].latency_samples, o.latency)
      BY <1>2, <2>2, <2>3
    <2> QED
      BY <2>1, <2>4, SamplesMoved
  <1>8. CASE EndPolicy
    <2>1. rows' = <<>> /\ stats' = FreshStats
      BY <1>8 DEF EndPolicy
    <2> QED
      BY <2>1, SamplesStart
  <1> QED
    BY <1>3, <1>4, <1>5, <1>6, <1>7, <1>8
       DEF Next, AttemptStep, SetClock, InvalidOutcome, vars, simVars

\* The percentiles the router and its readers see are nearest-rank percentiles
\* of the last latencies, for any window and any traces.
THEOREM RecentPercentilesAlways == Spec => []RecentPercentiles
  <1>1. Init => StoreInv /\ TypeInv /\ SamplesInv
    BY InitStore, InitType, SamplesStart DEF Init
  <1>2. StoreInv /\ TypeInv /\ SamplesInv /\ [Next]_vars
          => (StoreInv /\ TypeInv /\ SamplesInv)'
    BY StoreStep, TypeStep, SamplesStep
  <1>3. TypeInv /\ SamplesInv => RecentPercentiles
    BY SamplesEnough
  <1> QED
    BY <1>1, <1>2, <1>3, PTL DEF Spec

=============================================================================
