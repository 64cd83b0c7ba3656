------------------------------- MODULE Simulation ------------------------------
(***************************************************************************)
(* The policy simulator (simulation.py): a trace of recorded requests is   *)
(* replayed once for each routing policy of a list, over a store of its    *)
(* own and on a clock the trace sets.  A replayed request is ranked by the *)
(* Router or chosen by one of the two adaptive policies, counted as an     *)
(* attempt, and given the outcome the trace has for the chosen provider.   *)
(*                                                                         *)
(* The trace is fixed in the code before the first replay.  Here its next  *)
(* item is chosen when the first replay comes to it, and the outcome of a  *)
(* provider when a replay first needs it; later replays find it fixed.     *)
(*                                                                         *)
(* Norms are in thousandths, rounded down where the code has floats, and   *)
(* their weighted sums in hundredths of that.                              *)
(***************************************************************************)
EXTENDS RuntimeState, Metrics, FiniteSetsExt, SequencesExt

CONSTANTS
  Adapter, Explicit, Declared,  \* capabilities of the providers
  Position,      \* place of a provider in the configuration
  Models,        \* models of a provider, the first is the default
  CostHint, QualityHint,        \* in thousandths
  Weight,        \* in hundredths
  InputPrice, OutputPrice,      \* per million tokens, or None
  Profile,       \* score of <<provider, model, class>>, or None
  Bonus,         \* exploration bonus for a total and a count, see Utility
  Outcome,       \* outcomes the traces have
  Simulations,   \* [policies, requests, length]: what is simulated
  MaxGap,        \* most ticks from one item of a trace to the next
  NoProvider     \* the provider of a request nobody could take

Route == INSTANCE Capabilities

StaticPolicies == {"ordered", "latency", "cost", "quality", "balanced"}
SimulationPolicies == StaticPolicies \cup {"adaptive_balanced", "constrained_ucb"}
Requirements == {"text", "tools", "reasoning", "native_responses_tools"}

One  == 1000
Full == 100 * One

\* An optional share, of 0.0 to 1.0 in the code.
Norm == 0 .. One \cup {None}

\* An outcome of a kind other than "success" has no numbers; "invalid" stands
\* for one that simulate_policy raises ValueError on.
OutcomeKind == {"missing", "failure", "invalid", "success"}
Outcomes == [kind : OutcomeKind, latency : Nat, input : Optional, output : Optional,
             quality : Norm]

Request == [model : STRING, requirements : SUBSET Requirements]

ASSUME SimulationAssumption ==
  /\ IsFiniteSet(Provider)
  /\ NoProvider \notin Provider
  /\ Adapter \in [Provider -> Route!Adapters]
  /\ Explicit \subseteq Provider
  /\ Declared \in [Explicit -> SUBSET Route!Capability]
  /\ Position \in [Provider -> Nat]
  /\ \A p, q \in Provider : Position[p] = Position[q] => p = q
  /\ DOMAIN Models = Provider /\ \A p \in Provider : Models[p] \in Seq(STRING) \ {<<>>}
  /\ CostHint \in [Provider -> Int] /\ QualityHint \in [Provider -> Int]
  /\ Weight \in [Provider -> Int]
  /\ InputPrice \in [Provider -> Optional] /\ OutputPrice \in [Provider -> Optional]
  /\ \A p \in Provider, class \in Route!TaskClass : \A i \in DOMAIN Models[p] :
       Profile[<<p, Models[p][i], class>>] \in Norm
  /\ Outcome \subseteq Outcomes
  /\ MaxGap \in Nat
  /\ \A s \in Simulations :
       /\ s.policies \in Seq(SimulationPolicies) \ {<<>>}
       /\ s.requests \subseteq Request
       /\ s.length \in Nat \ {0}
       /\ \A total \in 0 .. s.length - 1 : \A count \in 0 .. total : Bonus[total][count] \in Int

\* The outcome of a provider that no replay has chosen yet.
Undrawn == [kind |-> "undrawn"]

VARIABLES
  simulation,  \* what simulate() was called with
  trace,       \* the items drawn so far
  stage,       \* "clock": the next item's time is due; "rank": its request is;
               \* "done" or "error": simulate() has returned or raised
  rows,        \* rows of the running policy, one for each item replayed
  bandit,      \* its BanditStats
  stats,       \* statistics in its store
  results      \* results of the policies before it

simVars == <<simulation, trace, stage, rows, bandit, stats, results>>
vars == <<simVars, stateVars>>

NoBandit == [key \in Route!TaskClass \X Provider |-> [count |-> 0, mean |-> 0]]
FreshStats == [p \in Provider |-> NoStats]

Init ==
  /\ StateInit
  /\ simulation \in Simulations
  /\ trace = <<>>
  /\ stage = "clock"
  /\ rows = <<>>
  /\ bandit = NoBandit
  /\ stats = FreshStats
  /\ results = <<>>

Policy == simulation.policies[Len(results) + 1]
Item   == trace[Len(rows) + 1]

\* request_from_trace.  "tools" adds nothing when native tools are wanted.
RequestFromTrace(q) ==
  LET R == q.requirements IN
  [ingress |-> IF R \cap {"reasoning", "native_responses_tools"} # {}
                 THEN "responses" ELSE "chat",
   features |->
     {f \in {"native_tool"} : "native_responses_tools" \in R}
       \cup {f \in {"tools"} : "tools" \in R /\ "native_responses_tools" \notin R}
       \cup {f \in {"reasoning"} : "reasoning" \in R}]

ClassOf(q) == Route!ClassifyTask(RequestFromTrace(q))

ServesModel(p, q) == q.model = "auto" \/ \E i \in DOMAIN Models[p] : Models[p][i] = q.model

ResolvedModel(p, q) == IF q.model = "auto" THEN Models[p][1] ELSE q.model

\* Router.rank, the filter.
Feasible(q) ==
  {p \in Provider :
     /\ Available(p) /\ ~QuotaExhausted(p)
     /\ ServesModel(p, q)
     /\ Route!SupportsRequest(p, RequestFromTrace(q))}

-----------------------------------------------------------------------------
(***************************************************************************)
(* Scores.                                                                 *)
(***************************************************************************)
Clamp_BelowOnly(n) == IF n < 0 THEN 0 ELSE n

Clamp(n) == IF n < 0 THEN 0 ELSE IF n > One THEN One ELSE n

Share(n, whole) == (n * One) \div whole

\* Five seconds are the worst.  No sample yet counts as one second.
LatencyNormOf(latency) == Clamp(Share(latency, 5000))
LatencyNorm(s) == LatencyNormOf(IF s.latency_ewma = None THEN 1000 ELSE s.latency_ewma)

\* A cent is the worst.
CostNormOf(cost) == Clamp(Share(cost, 10000))

CostNorm(p, s) ==
  IF s.cost_observations > 0 THEN CostNormOf(s.cost_total \div s.cost_observations)
                             ELSE Clamp(CostHint[p])

ProfileQuality(p, q) == Profile[<<p, ResolvedModel(p, q), ClassOf(q)>>]

QualityPrior(p, q) ==
  Clamp(IF ProfileQuality(p, q) = None THEN QualityHint[p] ELSE ProfileQuality(p, q))

Pressure(p, attempts) ==
  IF p \in Limited THEN Clamp(Share(attempts[p], QuotaLimit[p])) ELSE 0

\* Router._score of the policies that have one, before it is divided by the
\* weight of the provider.
RouterScore(p) ==
  LET latency == LatencyNorm(stats[p])
      cost    == Clamp(CostHint[p])
      penalty == One - Clamp(QualityHint[p])
  IN  CASE Policy = "latency"  -> 100 * latency
        [] Policy = "cost"     -> 100 * cost
        [] Policy = "quality"  -> 100 * penalty
        [] Policy = "balanced" -> 45 * latency + 30 * cost + 25 * penalty

\* Only the policies of the router know weights.
Divisor(p) ==
  IF Policy \notin StaticPolicies THEN 1 ELSE IF Weight[p] < 1 THEN 1 ELSE Weight[p]

Penalty_RewardsCost(latency, cost, quality, pressure) ==
  40 * latency + 25 * (One - cost) + 25 * (One - quality) + 10 * pressure

Penalty(latency, cost, quality, pressure) ==
  40 * latency + 25 * cost + 25 * (One - quality) + 10 * pressure

AdaptivePenalty(p, q) ==
  Penalty(LatencyNorm(stats[p]), CostNorm(p, stats[p]), QualityPrior(p, q),
          Pressure(p, AttemptsRefreshed(Provider)))

\* constrained_ucb: the mean reward of the provider for this class of task, or
\* what its penalty promises, and a bonus for having been tried little.
\* Bonus[n][k] is 0.15 * sqrt(ln(n + 2) / (k + 1)), in hundredths of
\* thousandths.
Utility(p, q, C) ==
  LET stat  == bandit[<<ClassOf(q), p>>]
      total == SumFunctionOnSet([c \in C |-> bandit[<<ClassOf(q), c>>].count], C)
  IN  (IF stat.count > 0 THEN stat.mean ELSE Full - AdaptivePenalty(p, q))
        + Bonus[total][stat.count]

\* What the running policy minimises over the feasible providers C, once it is
\* divided by the Divisor.
Rating(p, q, C) ==
  CASE Policy = "ordered"           -> 0
    [] Policy = "adaptive_balanced" -> AdaptivePenalty(p, q)
    [] Policy = "constrained_ucb"   -> -Utility(p, q, C)
    [] OTHER                        -> RouterScore(p)

\* Ties go to the provider that is configured first, as the stable sort of
\* rank and the index in _select_adaptive have it.
Chosen(p, q, C) ==
  \A c \in C \ {p} :
    LET mine  == Rating(p, q, C) * Divisor(c)
        other == Rating(c, q, C) * Divisor(p)
    IN  mine < other \/ (mine = other /\ Position[p] < Position[c])

-----------------------------------------------------------------------------
(***************************************************************************)
(* The replay.                                                             *)
(***************************************************************************)

\* The SimulationClock: at_seconds of the item replayed last, in ticks since
\* that of the first one.
Clock == IF rows = <<>> THEN 0 ELSE trace[Len(rows)].at

\* at_seconds of the next item: it may go back, or on by up to MaxGap ticks.
NewItems ==
  [request : simulation.requests,
   at : IF trace = <<>> THEN {0} ELSE Clock - 1 .. Clock + MaxGap,
   outcome : {[p \in Provider |-> Undrawn]}]

\* SimulationClock.set, which refuses to go back.
SetClock ==
  /\ stage = "clock"
  /\ Len(rows) < simulation.length
  /\ \/ Len(trace) > Len(rows) /\ UNCHANGED trace
     \/ Len(trace) = Len(rows) /\ \E item \in NewItems : trace' = Append(trace, item)
  /\ LET at == trace'[Len(rows) + 1].at IN
       \/ at < Clock /\ stage' = "error" /\ UNCHANGED stateVars
       \/ at >= Clock /\ stage' = "rank" /\ TimePasses(at - Clock)
  /\ UNCHANGED <<simulation, rows, bandit, stats, results>>

EmptyRow(p, status, profile, pressure) ==
  [provider |-> p, class |-> ClassOf(Item.request), status |-> status,
   latency |-> None, cost |-> None, quality |-> None,
   profile_quality |-> profile, pressure |-> pressure]

\* pressure as a row shows it: None without a quota.
ShownPressure(p, attempts) ==
  IF p \in Limited THEN Share(attempts[p], QuotaLimit[p]) ELSE None

NextRow(row) == rows' = Append(rows, row) /\ stage' = "clock"

\* No provider is feasible.
NobodyEligible ==
  /\ stage = "rank"
  /\ Feasible(Item.request) = {}
  /\ RefreshQuota(Provider)
  /\ NextRow(EmptyRow(NoProvider, "no_provider", None, None))
  /\ UNCHANGED <<consecutive_failures, circuit_left>>
  /\ UNCHANGED <<simulation, trace, bandit, stats, results>>

\* The trace has the outcome o for the chosen provider p.
Choose(p, o) ==
  /\ stage = "rank"
  /\ p \in Feasible(Item.request)
  /\ Chosen(p, Item.request, Feasible(Item.request))
  /\ Item.outcome[p] \in {Undrawn, o}
  /\ trace' = [trace EXCEPT ![Len(rows) + 1].outcome[p] = o]
  /\ UNCHANGED <<simulation, results>>

\* The row of an attempt without an answer.
RowWithout(p, status) ==
  EmptyRow(p, status, ProfileQuality(p, Item.request), ShownPressure(p, quota_attempts'))

MissingOutcome_NotCounted(p, o) ==
  /\ o.kind = "missing"
  /\ Choose(p, o)
  /\ RefreshQuota(Provider)
  /\ NextRow(RowWithout(p, "missing_outcome"))
  /\ UNCHANGED <<circuitVars, bandit, stats>>

\* The trace says nothing of p: the attempt counts all the same.
MissingOutcome(p, o) ==
  /\ o.kind = "missing"
  /\ Choose(p, o)
  /\ RecordAttempt(p, Provider)
  /\ NextRow(RowWithout(p, "missing_outcome"))
  /\ UNCHANGED <<circuitVars, bandit, stats>>

Updated_OldCount(stat, reward) ==
  [count |-> stat.count + 1,
   mean  |-> stat.mean + ((reward - stat.mean) \div (IF stat.count = 0 THEN 1 ELSE stat.count))]

\* BanditStat.update.
Updated(stat, reward) ==
  [count |-> stat.count + 1,
   mean  |-> stat.mean + ((reward - stat.mean) \div (stat.count + 1))]

\* Feedback is for the chosen provider only, and only for the UCB policy.
Feedback(p, reward) ==
  bandit' = IF Policy = "constrained_ucb"
              THEN [bandit EXCEPT ![<<ClassOf(Item.request), p>>] = Updated(@, reward)]
              ELSE bandit

ProviderFailure(p, o) ==
  /\ o.kind = "failure"
  /\ Choose(p, o)
  /\ RecordAttempt(p, Provider)
  /\ RecordFailure(p)
  /\ stats' = [stats EXCEPT ![p] = AfterFailure(@)]
  /\ Feedback(p, 0)
  /\ NextRow(RowWithout(p, "provider_failure"))

\* _outcome_reward of a success, in the store that has recorded it.
Reward(p, o, cost) ==
  Full - Penalty(LatencyNormOf(o.latency),
                 IF cost = None THEN CostNorm(p, stats'[p]) ELSE CostNormOf(cost),
                 IF o.quality = None THEN QualityPrior(p, Item.request) ELSE o.quality,
                 Pressure(p, quota_attempts'))

Success(p, o) ==
  LET cost == ObservedCost(InputPrice[p], OutputPrice[p], o.input, o.output)
      usage == [input |-> o.input, output |-> o.output, cost |-> cost]
  IN  /\ o.kind = "success"
      /\ Choose(p, o)
      /\ RecordAttempt(p, Provider)
      /\ RecordSuccess(p)
      /\ stats' = [stats EXCEPT ![p] = AfterUsage(AfterSuccess(@, o.latency), usage)]
      /\ Feedback(p, Reward(p, o, cost))
      /\ NextRow([provider |-> p, class |-> ClassOf(Item.request), status |-> "success",
                  latency |-> o.latency, cost |-> cost, quality |-> o.quality,
                  profile_quality |-> ProfileQuality(p, Item.request),
                  pressure |-> ShownPressure(p, quota_attempts')])

\* ValueError: nothing catches it, and there is no result for any policy.
InvalidOutcome(p, o) ==
  /\ o.kind = "invalid"
  /\ Choose(p, o)
  /\ RecordAttempt(p, Provider)
  /\ stage' = "error"
  /\ UNCHANGED <<circuitVars, rows, bandit, stats>>

-----------------------------------------------------------------------------
\* _summary.
WithStatus(rs, status) == {i \in DOMAIN rs : rs[i].status = status}
Priced(rs) == {i \in WithStatus(rs, "success") : rs[i].cost # None}
Rated(rs)  == {i \in WithStatus(rs, "success") : rs[i].quality # None}

Summary(rs) ==
  LET Sum(S, Field(_)) == SumFunctionOnSet([i \in S |-> Field(rs[i])], S)
  IN  [requests |-> Len(rs),
       successes |-> Cardinality(WithStatus(rs, "success")),
       provider_failures |-> Cardinality(WithStatus(rs, "provider_failure")),
       no_provider |-> Cardinality(WithStatus(rs, "no_provider")),
       missing_outcome |-> Cardinality(WithStatus(rs, "missing_outcome")),
       latency_total |-> Sum(WithStatus(rs, "success"), LAMBDA r : r.latency),
       observed_cost |-> Sum(Priced(rs), LAMBDA r : r.cost),
       cost_observations |-> Cardinality(Priced(rs)),
       quality_total |-> Sum(Rated(rs), LAMBDA r : r.quality),
       quality_observations |-> Cardinality(Rated(rs))]

Result == [policy |-> Policy, rows |-> rows, summary |-> Summary(rows), bandit |-> bandit]

EndPolicy_KeepsStore ==
  /\ stage = "clock"
  /\ Len(rows) = simulation.length
  /\ results' = Append(results, Result)
  /\ stage' = IF Len(results') = Len(simulation.policies) THEN "done" ELSE "clock"
  /\ rows' = <<>>
  /\ bandit' = NoBandit
  /\ UNCHANGED <<simulation, trace, stats, stateVars>>

\* The trace is over: the next policy starts with a clock, a store and bandit
\* statistics of its own.
EndPolicy ==
  /\ stage = "clock"
  /\ Len(rows) = simulation.length
  /\ results' = Append(results, Result)
  /\ stage' = IF Len(results') = Len(simulation.policies) THEN "done" ELSE "clock"
  /\ rows' = <<>>
  /\ bandit' = NoBandit
  /\ stats' = FreshStats
  /\ consecutive_failures' = [p \in Provider |-> 0]
  /\ circuit_left' = [p \in Provider |-> 0]
  /\ quota_attempts' = [p \in Provider |-> 0]
  /\ window_age' = [p \in Provider |-> Unset]
  /\ UNCHANGED <<simulation, trace>>

AttemptStep(p, o) ==
  MissingOutcome(p, o) \/ ProviderFailure(p, o) \/ Success(p, o) \/ InvalidOutcome(p, o)

Next ==
  \/ SetClock
  \/ NobodyEligible
  \/ \E p \in Provider, o \in Outcome : AttemptStep(p, o)
  \/ EndPolicy

Spec == Init /\ [][Next]_vars

-----------------------------------------------------------------------------
TraceItem == [request : simulation.requests, at : Int,
              outcome : [Provider -> Outcome \cup {Undrawn}]]

Row == [provider : Provider \cup {NoProvider}, class : Route!TaskClass,
        status : {"success", "provider_failure", "missing_outcome", "no_provider"},
        latency : Optional, cost : Optional, quality : Norm, profile_quality : Norm,
        pressure : Optional]

SimulationTypeOK ==
  /\ CircuitTypeOK /\ QuotaTypeOK
  /\ simulation \in Simulations
  /\ trace \in Seq(TraceItem)
  /\ stage \in {"clock", "rank", "done", "error"}
  /\ Len(rows) <= Len(trace) /\ Len(trace) <= simulation.length
  /\ stage = "rank" => Len(rows) < Len(trace)
  /\ stage # "done" => Len(results) < Len(simulation.policies)
  /\ rows \in Seq(Row)
  /\ bandit \in [Route!TaskClass \X Provider -> [count : Nat, mean : 0 .. Full]]
  /\ stats \in [Provider -> Stats]

\* "Quota exhaustion becomes a hard feasibility constraint": one request at a
\* time, and no policy, adaptive ones included, takes a provider past it.
QuotaNeverOverrun == \A p \in Limited : quota_attempts[p] <= QuotaLimit[p]

\* Ticks from row i of the running policy to row j.
Elapsed(i, j) == trace[j].at - trace[i].at

\* Attempts of p in rows i to j.
Attempts(p, i, j) == Cardinality({k \in i .. j : rows[k].provider = p})

\* Windows start with an attempt and not by the clock, so two of them may meet
\* in the middle of a burst.  Within any QuotaWindow ticks a provider still
\* gets fewer than two quotas of attempts, failed and missing ones included.
BurstBounded ==
  \A p \in Limited : \A i, j \in DOMAIN rows :
    i <= j /\ Elapsed(i, j) < QuotaWindow[p] => Attempts(p, i, j) < 2 * QuotaLimit[p]

\* The policies are compared on equal terms: a policy that is simulated again,
\* after others, gives the same rows and the same bandit statistics.  Nothing
\* of one replay is left for the next.
Reproducible ==
  \A i, j \in DOMAIN results : results[i].policy = results[j].policy => results[i] = results[j]

\* What the upstream answered in row i.
OutcomeOf(i) == trace[i].outcome[rows[i].provider]

\* The rows are all that is reported of a replay, and they say what the store
\* that routed it has seen: outcomes, tokens and costs, the last two with what
\* upstreams left out of their usage taken into account.
SummaryAgreesWithStore ==
  LET s == Summary(rows)
      Total(Field(_)) == SumFunctionOnSet([p \in Provider |-> Field(stats[p])], Provider)
      Answered(Field(_)) == {i \in WithStatus(rows, "success") : Field(OutcomeOf(i)) # None}
      Tokens(Field(_)) ==
        SumFunctionOnSet([i \in Answered(Field) |-> Field(OutcomeOf(i))], Answered(Field))
      Input(o) == o.input
      Output(o) == o.output
  IN  /\ s.requests = s.successes + s.provider_failures + s.no_provider + s.missing_outcome
      /\ s.successes = Total(LAMBDA t : t.successes)
      /\ s.provider_failures = Total(LAMBDA t : t.failures)
      /\ s.observed_cost = Total(LAMBDA t : t.cost_total)
      /\ s.cost_observations = Total(LAMBDA t : t.cost_observations)
      /\ Tokens(Input) = Total(LAMBDA t : t.input_total)
      /\ Tokens(Output) = Total(LAMBDA t : t.output_total)
      /\ Cardinality(Answered(Input) \cup Answered(Output))
           = Total(LAMBDA t : t.token_observations)

\* The latencies of a provider in the rows, oldest first.
Latencies(p) ==
  FlattenSeq([i \in DOMAIN rows |->
                IF rows[i].provider = p /\ rows[i].status = "success"
                  THEN <<rows[i].latency>> ELSE <<>>])

\* The percentiles are nearest-rank percentiles of the last LatencyWindow
\* latencies, whatever failed between them.
RecentPercentiles ==
  \A p \in Provider : \A percent \in {50, 95} :
    LET all == Latencies(p)
        first == IF Len(all) > LatencyWindow THEN Len(all) - LatencyWindow + 1 ELSE 1
    IN  Percentile(stats[p].latency_samples, percent)
          = NearestRank(SubSeq(all, first, Len(all)), percent)

Answers(p) == {i \in WithStatus(rows, "success") : rows[i].provider = p}

\* The average of a provider's latencies stays between the least and the
\* greatest of them, from the first one on, and there is none before it.
AverageWithinLatencies ==
  \A p \in Provider :
    IF Answers(p) = {} THEN stats[p].latency_ewma = None
    ELSE \E i, j \in Answers(p) : stats[p].latency_ewma \in rows[i].latency .. rows[j].latency

\* Rows of a provider in a class of task.
Seen(class, p, status) ==
  {i \in WithStatus(rows, status) : rows[i].provider = p /\ rows[i].class = class}

\* Only what was chosen is learned from, and only by the UCB policy: there is
\* one observation for each success or failure of the provider in a class of
\* task, and failures are worth nothing, so the mean is bounded by the share
\* of successes.
LearnsFromChosen ==
  IF stage = "done" \/ Policy # "constrained_ucb" THEN bandit = NoBandit
  ELSE \A class \in Route!TaskClass, p \in Provider :
         LET stat == bandit[<<class, p>>]
             successes == Cardinality(Seen(class, p, "success"))
         IN  /\ stat.count = successes + Cardinality(Seen(class, p, "provider_failure"))
             /\ stat.mean * stat.count <= Full * successes

\* What the score of p for a request q is made of.
Terms(p, q) ==
  IF Policy = "adaptive_balanced"
    THEN <<LatencyNorm(stats[p]), CostNorm(p, stats[p]), One - QualityPrior(p, q),
           Pressure(p, AttemptsRefreshed(Provider))>>
    ELSE <<LatencyNorm(stats[p]), Clamp(CostHint[p]), One - Clamp(QualityHint[p]), -Weight[p]>>

\* c is better than p on latency, cost and quality, and no worse in the fourth
\* term: under no more quota pressure for adaptive_balanced, of no smaller
\* provider weight for the static policies.
Dominates(c, p, q) ==
  /\ \A i \in 1 .. 4 : Terms(c, q)[i] <= Terms(p, q)[i]
  /\ \A i \in 1 .. 3 : Terms(c, q)[i] < Terms(p, q)[i]

\* No policy that ranks by a penalty (router.py:91, simulation.py:220) picks a
\* provider that another feasible one dominates: that is better on latency, on
\* cost and on quality while, for adaptive_balanced, its quota pressure is no
\* greater and, for the static policies, its weight is no smaller.  A smaller
\* weight can make up for being better in all three, so nothing is said of it.
NeverDominated ==
  [][\A p \in Provider :
       /\ Len(rows') > Len(rows) /\ rows'[Len(rows')].provider = p
       /\ Policy \notin {"ordered", "constrained_ucb"}
       => \A c \in Feasible(Item.request) : ~Dominates(c, p, Item.request)]_vars

=============================================================================
