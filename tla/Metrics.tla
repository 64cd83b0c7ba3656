-------------------------------- MODULE Metrics --------------------------------
(***************************************************************************)
(* What the runtime state of a provider remembers of its answers           *)
(* (routing/state.py): outcomes, the moving average and the last samples   *)
(* of its latency, and the tokens and the cost it was observed to use.     *)
(* The statistics of one provider are a record; the operators give the     *)
(* record after a method of RuntimeStateStore.                             *)
(*                                                                         *)
(* The code computes in floats, here every division rounds down: times are *)
(* whole milliseconds, costs whole millionths of a dollar.                 *)
(***************************************************************************)
EXTENDS Integers, Sequences, FiniteSets, Functions

CONSTANT LatencyWindow   \* latency_sample_window of the store

\* RuntimeStateStore refuses a window of less than one sample.
ASSUME MetricsAssumption == LatencyWindow \in Nat \ {0}

\* The value None of the code's optional numbers.
None == -1

Optional == Nat \cup {None}

Usage == [input : Optional, output : Optional, cost : Optional]

NoUsage == [input |-> None, output |-> None, cost |-> None]

Stats ==
  [successes : Nat, failures : Nat,
   latency_ewma : Optional, latency_samples : Seq(Nat),
   input_total : Nat, output_total : Nat, token_observations : Nat,
   cost_total : Nat, cost_observations : Nat, last_usage : Usage]

NoStats ==
  [successes |-> 0, failures |-> 0,
   latency_ewma |-> None, latency_samples |-> <<>>,
   input_total |-> 0, output_total |-> 0, token_observations |-> 0,
   cost_total |-> 0, cost_observations |-> 0, last_usage |-> NoUsage]

-----------------------------------------------------------------------------
Ewma_FromZero(old, latency) == (latency + 3 * (IF old = None THEN 0 ELSE old)) \div 4

\* The exponentially weighted moving average, with alpha = 0.25.
Ewma(old, latency) == IF old = None THEN latency ELSE (latency + 3 * old) \div 4

Pushed_Unbounded(samples, latency) == Append(samples, latency)

\* append to a deque of maxlen LatencyWindow.
Pushed(samples, latency) ==
  IF Len(samples) < LatencyWindow THEN Append(samples, latency)
                                  ELSE Append(Tail(samples), latency)

AfterSuccess(s, latency) ==
  [s EXCEPT !.successes = @ + 1,
            !.latency_ewma = Ewma(@, latency),
            !.latency_samples = Pushed(@, latency)]

AfterFailure(s) == [s EXCEPT !.failures = @ + 1]

Known(n) == IF n = None THEN 0 ELSE n

AfterUsage_CountsAll(s, u) ==
  [s EXCEPT !.token_observations = @ + 1, !.last_usage = u,
            !.input_total = @ + Known(u.input), !.output_total = @ + Known(u.output),
            !.cost_total = @ + Known(u.cost), !.cost_observations = @ + 1]

\* An answer that reports neither count leaves the last usage as it was; one
\* that reports a count and has no cost is no observation of a cost.
AfterUsage(s, u) ==
  IF u.input = None /\ u.output = None THEN s
  ELSE [s EXCEPT !.token_observations = @ + 1, !.last_usage = u,
                 !.input_total = @ + Known(u.input),
                 !.output_total = @ + Known(u.output),
                 !.cost_total = @ + Known(u.cost),
                 !.cost_observations = @ + (IF u.cost = None THEN 0 ELSE 1)]

\* ProviderSpec.observed_cost_usd: prices are per million tokens, so that one
\* token costs as many millionths.
ObservedCost(input_price, output_price, input, output) ==
  IF None \in {input, output, input_price, output_price} THEN None
  ELSE input * input_price + output * output_price

-----------------------------------------------------------------------------
\* The samples in ascending order.
Sorted(samples) ==
  LET Ascends(f) == \A i, j \in DOMAIN samples : i < j => samples[f[i]] <= samples[f[j]]
      order == CHOOSE f \in Bijection(DOMAIN samples, DOMAIN samples) : Ascends(f)
  IN  [i \in DOMAIN samples |-> samples[order[i]]]

\* _nearest_rank_percentile: the sample at place ceil(percent of the count) in
\* ascending order.
Percentile(samples, percent) ==
  IF samples = <<>> THEN None
  ELSE LET rank == (percent * Len(samples) + 99) \div 100
       IN  Sorted(samples)[IF rank < 1 THEN 1 ELSE rank]

\* What nearest rank means: the least sample that at least that share of the
\* samples does not exceed.
NearestRank(samples, percent) ==
  LET Covers(v) == 100 * Cardinality({i \in DOMAIN samples : samples[i] <= v})
                     >= percent * Len(samples)
      S == {v \in {samples[i] : i \in DOMAIN samples} : Covers(v)}
  IN  IF samples = <<>> THEN None ELSE CHOOSE v \in S : \A w \in S : v <= w

=============================================================================
