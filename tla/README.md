# Formal models of AgentMesh Gateway

AgentMesh Gateway (`src/agentmesh/`) is an HTTP gateway between coding clients
and model providers. A client speaks one of three protocols (OpenAI Chat
Completions, OpenAI Responses, Anthropic Messages); the gateway picks a
provider, translates the request for it, fails over to others, and translates
the answer back. This directory holds TLA+ models of its core, TLC
configurations that check them on small instances, and TLAPS proofs of the
theorems that matter most.

## 1. Inventory

The process is a FastAPI application on **one event loop**. Nothing is
persisted: a restart loses all runtime state. Two handlers interleave only at
an `await` (or a `yield` of an async generator); what stands between two of
them is atomic. That is the grain of the models.

| Part | State | Operations | Correct when |
|---|---|---|---|
| `gateway/service.py` GatewayService | locals of each call in progress: ranked candidates, current provider, `committed` | `ensure_eligible`, `complete`, `stream` | failover ends, tries compatible providers, none twice, at most `max_attempts`, none after content was read; every attempt is accounted for |
| `routing/state.py` RuntimeStateStore | per provider: failure streak, `circuit_open_until`, quota window and count, latency and cost statistics | `record_attempt`, `record_success`, `record_failure`, `record_usage`, `quota_exhausted`, `quota_snapshot`, `available` | circuits open for a reason and close again; windows and counts agree; quotas hold; statistics add up |
| `routing/router.py` Router | none of its own (reads the store) | `rank`, `required_capabilities`, `_supports_request`, `_score` | infeasible providers are never ranked, feasible ones always; a policy only orders them |
| `api/app.py` | none | three inference routes (plain and streaming), `/admin/providers`, `/healthz`, `/readyz`, `/v1/models`, exception handlers | a stream is promised only if it can be kept; errors map to the right answer |
| `protocols/responses.py` | locals of `render_responses_stream`: items, order, kept-back fragments | one step per chunk, then the done events | the client sees each item added, extended and done once and whole |
| `protocols/responses_native.py`, `responses_validation.py` | none | validate, mark native-only requests, pass native events through | nothing that cannot be translated is translated |
| `protocols/openai.py`, `anthropic.py` | none | parse requests, render answers | what a client says reaches the normalized request |
| `providers/*.py` | `calls` map of one Responses stream | `complete`, `stream`, payload builders, `translate_http_error` | payloads say what the request says; streams are parsed whole |
| `config.py`, `domain.py`, `errors.py` | immutable | parse configuration, derived capabilities, token costs | the rest can rely on its values |
| `simulation.py`, `quality.py` | a private store, clock and bandit per policy run | replay a trace, score providers | policies are compared fairly, feasibility is never overridden |
| `api/security.py`, `cli.py`, `portable.py`, packaging | none | token check, start-up | (not modelled: no state, no interaction) |

**Interactions.** A route parses and validates, then (streaming) calls
`ensure_eligible` and returns a `StreamingResponse`; the server sends the 200
header and only later iterates `gateway.stream`, which ranks again. `complete`
and `stream` call `Router.rank` (which reads the store, and refreshes quota
windows while doing so), then `record_attempt`, await the adapter, and record
the outcome. All requests share the store, and nothing else. The renderer pulls
chunks from `gateway.stream`, which pulls them from an adapter.

**What is hard.** Values read before an await and used after it (the ranked
candidates, the eligibility check); outcomes of concurrent calls recorded in
any order; awaits that end in a disconnect or an exception nobody records;
lazily reset windows; failover that must stop once content has been read;
fragments of several calls interleaved and kept back; three feature lists,
written apart, that must agree; success and usage recorded after the client
has read the end of the answer; lines of a stream that ends, fails or turns to
nonsense anywhere; replays that must leave nothing behind for one another. `PROJECT.json` lists these hazards at their
lines, each with the properties aimed at it or the reason there is none yet.

## 2. Modules

| Module | Models | Checked by |
|---|---|---|
| `RuntimeState` | circuit breaker and quota windows, one operator per method of the store | through Gateway and Simulation |
| `RuntimeStateProofs` | lemmas about the store that the proofs use | tlapm |
| `DataFacts` | facts about sums, counts, concatenations and sorting, of no module in particular | tlapm |
| `Gateway` | concurrent requests over that store | `MCGateway`, 3 configurations, and `MCGatewayHistory` |
| `GatewayHistory` | Gateway with a record of what other requests do to one that waits | `MCGatewayHistory` |
| `Failover` | abstract: what one client is promised about failover | refined by `Gateway` |
| `GatewayProofs` | theorems about Gateway and GatewayHistory, for any number of requests | tlapm |
| `StreamChunks` | the chunks that adapters and renderers exchange | through the next two |
| `ResponsesStream` | `render_responses_stream`, for any sequence of chunks | `MCResponsesStream` |
| `ItemLifecycle` | abstract: the item events as a client sees them | refined by `ResponsesStream` |
| `ResponsesStreamProofs` | theorems about ResponsesStream | tlapm |
| `AdapterStream` | the three `stream()` parsers, from the wire to chunks | through StreamPipeline |
| `StreamPipeline` | one streaming request: adapter, `GatewayService.stream`, route | `MCStreamPipeline`, 3 configurations |
| `StreamPipelineProofs` | theorems about StreamPipeline | tlapm |
| `Capabilities` | capability sets, protocol gate, task classes | through the next and Simulation |
| `Compatibility` | validation, gates and payload builders | `MCCompatibility`, 3 configurations |
| `CompatibilityProofs` | theorems about Compatibility | tlapm |
| `Metrics` | latency and usage statistics of a provider | through Simulation |
| `Simulation` | the policy simulator over RuntimeState and Metrics | `MCSimulation` |
| `SimulationProofs` | theorems about Simulation | tlapm |
| `ReplayProofs` | the theorem that replays are reproducible | tlapm |

In every module an operator `X_Something` is a variant of `X` with a plausible
mistake in it. The specification does not use it; substituting it for `X` must
make a property fail.

### RuntimeState and Gateway

`RuntimeState` has two variables for the circuits (`consecutive_failures`,
`circuit_left`) and two for the quotas (`quota_attempts`, `window_age`).
Instants of `time.monotonic` are kept as distances: ticks until a circuit is
available, age of a window. The code compares nothing else, and the state space
stays finite without a bound on time. `consecutive_failures` stops at the
threshold, the only number it is compared with. `_refresh_quota` runs where the
code runs it: in `rank` (for providers with a closed circuit only, because of
the order of the conditions), in `record_attempt`, and in `/admin/providers`.

In `Gateway` a *slot* holds one request at a time. Its actions are the sections
of code between awaits:

| Action | Code |
|---|---|
| `StartComplete` | route, `complete` up to the first `await provider.complete` |
| `Preflight` | streaming route: `ensure_eligible`, return of the response |
| `StartStream` | first step of `stream()`, after the header |
| `CommitChunk` | first chunk with content, read by the client |
| `ProviderSucceeds` | answer or end of stream: `record_success` |
| `ProviderFails` | `ProviderError`: `record_failure`, then give up or call the next candidate |
| `UnexpectedError` | any other exception (malformed upstream answer): nothing is recorded |
| `Disconnect` | the client goes away: nothing is recorded |
| `AdminProviders` | `quota_snapshot` of every provider |
| `Tick` | time passes |

`Profile` stands for the kinds of request: each is the set of providers that
model, protocol and capabilities allow (`Compatibility` says which). The order
of a ranking is left free, so the results hold for all five policies. Any chunk
an adapter yields has content, so the code's test for it always succeeds.

`Failover` knows neither circuits, quotas nor clocks: a request is sent only to
providers that support it, to none twice, to at most `MaxAttempts`, and to none
once the client has read content. `FailoverContract` maps its `open` to the
slots that are busy; a request of the code is accepted and first sent in one
step (`complete`) or two (`stream`), and `Attempt` allows both.

Two promises of the documentation do not survive concurrency: a provider whose
circuit is open is not called, and a stream that got its header finds a
provider. `GatewayHistory` says what is left of them. It adds three history
variables to `Gateway`, written beside every step and read by none, so that they model no code:
`open_calls` counts the calls of a provider while its circuit is open,
`promised` keeps what `ensure_eligible` found for an admitted stream, and
`touched` the providers that others have called, or failed, since then.

### ResponsesStream

One action is the work on one chunk (`TextChunk`, `FunctionChunk`), or on one
item after the last chunk (`FinishText`, `FinishCall`). The renderer's state
(`order`, `output_index`, `chunks`, `name`, `call_id`, `emitted`, `announced`) and what the client has read
(`added`, `body`, `label`, `done`, `final`) are separate variables, so that
properties can compare them. A chunk that carried both text and a call delta
would be two steps; no adapter makes one. Several events of one action are not
separated: a client that leaves between them (`Break`) leaves before or after
the action as far as the properties can tell. `FailUnnamed` is the `ValueError`
for a call without a name. Native pass-through streams do not reach this code. What it shares with
the adapters, labels and fragments, is in `StreamChunks`.

`ItemLifecycle` is the protocol without the renderer: an item is added, its
deltas only ever extend what was sent, it is done once with all of it, and the
response completes with nothing in progress. What a client has read of added
and done events are sequences of an item and its `output_index`, so a repeated
event, or an index that two items share, is a step the protocol does not have.

### AdapterStream and StreamPipeline

A *line* is one `data:` line of the upstream: content (text and deltas of
calls), its end marker, an error inside the stream, one that makes the parser
raise (no JSON, an empty `choices` list, an index that is no number), or
anything else. `ChatChunks`, `MessagesChunks` and `ResponsesChunks` say which
chunks each adapter makes of a line; `ReadLine`, `UpstreamCloses` and
`HttpError` are what can happen when a generator is pulled. `said` records the
lines. `Wire` is the shape of a line of each format and no more: id, name and
arguments of a delta may each be missing, come late, again or changed, and a
line that a Chat adapter cannot finish may have yielded chunks before. What the
Responses adapter knows of an item is kept by its item id, and items without an
id share an entry, as they share the key `""`. The one thing assumed of an
upstream is that it says nothing after its end marker or its error (`LastWord`).

`StreamPipeline` extends `AdapterStream` and `ResponsesStream` and puts
`GatewayService.stream` and the route between them. Generators are pulled, so
`Deliver` takes one chunk through all of it, and the adapter reads on only when
nothing is in hand:

| Action | Code |
|---|---|
| `Pull` | the adapter's loop reads a line, or it ends, or httpx raises |
| `Deliver` | usage is observed, the stream committed, the event rendered or passed on and sent |
| `AttemptSucceeds` | the generator returned: `record_success`, `record_usage` |
| `AttemptFails` | `ProviderError`: raised if committed, terminal or the last candidate, else the next is called |
| `AttemptRaises` | the parser's exception (`json.loads`, `choices[0]` of an empty list, `int`), after the chunks yielded before it |
| `RenderEnd` | done events, `response.completed` or the error of a call without a name |
| `ClientLeaves` | the generators are closed where they are |

Which adapter a fallback has is free: it may be of the other kind, so that a
rendered stream would have to go on as a native one. The chat and messages
routes show text and the end marker only.

### Capabilities and Compatibility

`Capabilities` holds the sets and gates that `Simulation` needs as well: what a
request requires, what a provider is capable of, and `classify_task`.

A request is an ingress protocol and a set of *features*, the things a payload
can say; values are left out. `Normalize` is validation and parsing, `Rank` the
protocol and capability part of `rank` for any set of providers that are
otherwise available, `Try` a call, first or fallback. `sent` records what
payload each provider got, from `ChatPayload`, `MessagesPayload` and
`ResponsesPayload`, which are read off the adapters and not off the gates.
`Promised` is the part of the specification that comes from
`docs/product-specs/compatibility.md`: the features its list of verified
support names for each ingress. It restricts the requests of the passing run and of the theorems, and
models no code.

Controls that Chat Completions or Messages clients may send and that no parser
reads (`tool_choice`, `top_p`, `stop` and the like) are outside the features:
the document does not claim them.

### Metrics and Simulation

`Metrics` gives the record of one provider after each method of the store:
the moving average, the bounded window of samples, totals and observation
counts. `Percentile` follows the code, `NearestRank` is the definition it is
compared with.

`Simulation` replays a trace once for each policy of a list. A step of its own
are `SetClock` (the time of the next item), the replay of its request
(`NobodyEligible`, `MissingOutcome`, `ProviderFailure`, `Success`,
`InvalidOutcome`), and `EndPolicy`, after which the next policy starts anew.
Each replay step is the whole loop body: ranking or adaptive choice,
`record_attempt`, the outcome, the bandit's feedback, the row. The choice is
`Router.rank` with the score of the five static policies, or the two adaptive
ones. The store's operators are those of `RuntimeState`, on a clock the
trace sets; the simulator's own threshold of 10^9 failures is a threshold no
bounded trace reaches.

Python's floats are integers here: norms in thousandths, rounded down, and
weighted sums in hundredths of that, which are exact. Where the router divides
a score by the weight of the provider, scores are compared crosswise
(`Divisor`). Rounding can turn a strict order of norms into a tie, so properties
about scores compare strictly better terms only: `Dominates` is better on
latency, on cost and on quality, with, in the fourth term, a quota pressure that
is no greater (`adaptive_balanced`) or a provider weight that is no smaller
(static policies). Without that last condition the claim would be false: twice the
weight halves a score. The trace is drawn lazily: an item when the first replay comes to
it, a provider's outcome when a replay first needs it; replays after that find
it fixed, as the code finds its list. An item has a time, `at`, in ticks since
the first one; the next may have the same one, one up to `MaxGap` later, or an
earlier one, which `SimulationClock.set` refuses. In the theorems `MaxGap` is
any natural number.

## 3. Runs and what they show

| Run | Instance | Shows |
|---|---|---|
| `gateway` | 3 providers (one with quota 1 and window 2), 2 slots, threshold 2, cooldown 2, 2 attempts | types; `WindowMatchesAttempts`; `OpenCircuitHasStreak`; `QuotaOvershootBounded`; the inductive `RequestInv` and `QuotaHeld`; `FailoverContract`; `OpenCallsBounded`; `DropIsExplained` and what carries it, `PromiseKept` |
| `gateway_live` | 2 providers, threshold 1, fair | `RequestsSettle`, `CircuitsRecover`, `QuotasRecover` |
| `quota_overshoot` | 2 slots | **violation** of `QuotaIsHard` (ADR 0006) |
| `terminal_opens_circuit` | 2 slots | **violation** of `TerminalErrorLeavesCircuit` (ARCHITECTURE, Failure policy) |
| `stream` | 2 calls and text, 2 fragments each, 2 names, late and repeated labels | types; `HeldUntilNamed`, `CompletedIsWhole`, `ClientProtocol` (with `output_index` and every added and done event) |
| `pipeline` | 3 adapters, 3 routes, up to 3 lines with 2 pieces, 2 fragments, 2 attempts, 2 calls, fair | types; `WholeSoFar`, `EndMarkerEarned`, `UsageExact`, `AnsweredNotFailed`, `OneProviderAnswers`; `StreamSettles` |
| `pipeline_labels` | 2 calls, 2 ids, 2 names, 3 deltas, items with and without an id, 1 attempt | `CallsAreLabelled`, `DeltasNameTheirCall` |
| `usage_lost` | 3 adapters, 3 routes, up to 2 lines, 2 attempts | **violation** of `ObservedUsageRecorded` (ADR 0004) |
| `compatibility` | one provider per adapter and one with declared capabilities; all promised requests of one or two features | types; `NothingLost`, `RefusalJustified`, `DefaultsRefuseNothing`, `ClassWithinCapabilities` |
| `unmarked_features` | Responses requests with features nothing marks | **violation** of `NothingLost` (compatibility.md, Routing rule) |
| `messages_tools` | Messages requests with tools | **violation** of `NothingLost` (compatibility.md:22) |
| `simulation` | 4 providers over all adapters, 2 with quotas; pairs of policies over 2 requests, single ones over 4; times that stand still, move by 1 or 2 ticks, or go back | types; `QuotaNeverOverrun`, `BurstBounded`, `Reproducible`, `SummaryAgreesWithStore`, `RecentPercentiles`, `AverageWithinLatencies`, `LearnsFromChosen`, `NeverDominated` |

A violation and a bound belong together. Requests hold rankings across awaits,
so a fallback may pass a quota (`quota_overshoot`), and `QuotaOvershootBounded`
says by how much: by less than there are requests. For the same reason a
fallback may call a provider whose circuit another request has opened, although
ADR 0002 excludes such a provider until the cooldown expires;
`OpenCallsBounded` says how often. A preflight reserves nothing, so a stream may
be refused after its header, and `DropIsExplained` says when: only if other
requests have called or failed every provider that the preflight found. All
three happen in `gateway`, and the bounds are tight there: with one less in
either of them TLC finds a violation. The theorem `OneAttemptQuota` shows that the fallback, and not
concurrency as such, is what passes a quota: the first candidate is called in
the section of code that ranked it. `Simulation` replays one request at a time,
and the quota is hard there.

**Bounds.** Two requests are enough for one of them to invalidate what the
other has read. The properties that count requests are proved for any number of
them. Three providers with
a slice of two give a fallback, a candidate cut off by the slice, and a provider
that is never called. A quota of one and a window of two ticks separate "used
up", "running" and "elapsed". Two calls of two fragments make every
interleaving of announced, held-back and finished items; three fragments add
nothing to compare. The two fragments of `pipeline` can be told apart, so a
swap shows. Three lines of an upstream are two deltas and an end or an
error after them, or a beginning, a fragment and a cut; two attempts give one
failover before and after the commitment, to every kind of adapter. Labels are a
run of their own: three deltas of two calls are enough for an id after the
announcement, a second one, and one of the other call, and neither text nor
arguments touch them. The feature
gates look at one feature at a time, so pairs are enough; the theorem is about
any set. A replay of four requests is longer than a latency window of two and
than two quota windows that meet; a gap of two ticks is a whole window. A policy before and after another one is all
that `Reproducible` compares. Deadlock is checked in every Gateway run; streams,
replays and single requests end, so their configurations switch it off.
Symmetry is used in runs of safety properties only.

**Fairness.** `WF(Tick)`: time passes. `WF(AwaitReturns(s))`: an await in
progress returns, fails or raises. Adapters give every HTTP client
`timeout_seconds`, and the server does iterate a response it has accepted. That
a provider's stream is finite is an assumption (`MaxLines` in the pipeline):
httpx times out a silent stream but not an endless one. There is no fairness for
new requests, disconnects, `/admin/providers` or success.
One streaming request has `WF(GatewayStep \/ Timeout)`: the gateway goes on with
what it has, and an adapter that waits for a line gets one or its HTTP client
times out. No upstream has to answer or to close, and no client has to stay.

## 4. What is proved

TLAPS checks each theorem for every value of the constants that satisfies the
named assumptions (what `config.py` accepts; finitely many slots and
providers; distinct markers).

- **GatewayProofs.** `TypeCorrect`, `WindowCorrect`, `CircuitCorrect`,
  `RequestsCorrect` and `ImplementsContract` (the refinement of `Failover`)
  follow from one inductive invariant, `GatewayInv`: types, the two invariants
  of the store, and `RequestInv`, which says what a handler's locals say of one
  another at every await. `QuotaOvershoot` needs more: `QuotaOvershootBounded`
  is not inductive, since a state at the bound with a ranking still held could
  step past it. `QuotaHeld` (itself the theorem `QuotaHeldAlways`) adds the
  rankings held to the attempts made: once the quota is used up, no request
  takes the provider into its candidates, so every attempt past the limit uses
  one ranking up, and at most `Cardinality(Slot) - 1` others were held when the
  last regular attempt was made. `OneAttemptQuota` assumes `MaxAttempts = 1`.
  `OpenCallsAreBounded` has the same shape for circuits: the request whose
  failure opens a circuit does not hold that provider any more, and
  `OpenCallsHeld` adds the rankings that do to the calls made while it is open.
  `DropsAreExplained` rests on `PromiseKept`: a promised provider that nobody
  has called or failed is still feasible, since time and refreshes only give
  capacity back.
- **ResponsesStreamProofs.** `StreamTypeCorrect`, `NothingHeldBack`,
  `CompletedStreamIsWhole` and `StreamImplementsProtocol` rest on `StreamInv`:
  types, `HeldUntilNamed`, `OrderInv` (each item has one place in the order) and
  `DoneInv` (the done events have passed exactly the first `position` items,
  with what the renderer knew) and `EventInv` (the place of an item in the order
  is the `output_index` of its events). That a call is done with the label it was added with is not
  stated: a call id that comes after the announcement replaces the one the
  client was given. What does hold of labels is `CallsAreLabelled`, below.
- **StreamPipelineProofs.** One inductive invariant, `PipeInv`, carries
  `PipelineTypeCorrect`, `UsageIsExact`, `EndMarkersAreEarned`,
  `AnswersDoNotFail`, `LabelsAreTheirOwn` and `NoMixedAnswers`. Its parts:
  `AdapterInv` (what is pending and in `calls` was said, and the loop has
  returned at the end marker where it does), `UsageInv` (what is observed is
  what the last word said, unless that is still pending), `ModeInv` (a client
  reads native or rendered events, and having read any means committed) and
  `EndInv` (what a marker and an outcome are worth together). They need one
  another: usage and markers are seen by the client before the outcome is
  known, so a statement about the outcome alone is not inductive.
  `NothingIsLost` is `WholeSoFar`, about the text and the fragments of a whole
  answer. What the client was shown lags behind what the upstream said by the
  chunks in hand, and `WholeInv` says so as an equation between concatenations.
  The step over a line needs that each chunk an adapter makes says one thing
  (`Pure`) and that the chunks of a line, put together, say what the line does;
  the step over a chunk takes the head of those in hand; and a retry starts with
  nothing said and nothing shown, because only an uncommitted stream is retried.
  `StreamIsRendered` shows that the pipeline's steps, seen at the renderer's
  variables, are steps or stutters of `ResponsesStream`: what is proved there
  of any sequence of chunks holds of the chunks the adapters make.
  `CallsKeepTheirLabels` is `CallsAreLabelled`, with nothing assumed of labels.
  `LabelInv` says that what the renderer knows of a call, and has told the
  client, was said by the upstream of that call or made up, and that once the
  upstream has given an id the renderer has one of its ids or is about to get
  it from a chunk in hand. When the done events are sent nothing is in hand.
  `LabelsAreTheirOwn` needs that `calls` holds, for each item id, what the last
  `output_item.added` of it said.
- **SimulationProofs.** `QuotaNeverOverrunAlways` uses the store's lemmas
  (`RuntimeStateProofs`) and that the filter of `rank` and `record_attempt`
  are one step here. `SimulationTypeCorrect` proves that norms and rewards stay
  on their scales whatever latencies, costs and prices are, so that the bandit's
  mean stays between 0 and 1. `AverageAlwaysWithin` is inductive together with
  the types, and so is `LearnsFromChosenAlways`: the new mean times the new count
  is at most the old product and the reward, rounding included.
  `NeverDominatedAlways` is arithmetic over the four terms that `Dominates` compares.
  `BurstBoundedAlways` needs `BurstInv`: an open window started with a row of
  the provider, is no older than the time since that row, and its count is the
  rows since; and before it started the provider was quiet, which means less
  than a quota of attempts in any `QuotaWindow` ticks up to there. A burst thus
  has less than one quota before the window and at most one in it.
  `SummaryAlwaysAgrees` is inductive with the types and the
  fact that what rows say of answers was drawn from the outcomes (`SummaryInv`):
  a step appends one row and changes the totals of one provider, by the same.
  `RecentPercentilesAlways` shows that the bounded window of samples is the end
  of the list of all latencies (`SamplesInv`), and that the code's percentile of
  any samples, sorted or not, is the nearest rank.
- **ReplayProofs.** `ReproducibleAlways` compares two replays that lie apart in
  one behaviour, with others between them. `ReplayedIn` says once more, of a
  state given as a record, what the replay of an item makes of it, and the
  steps of Simulation are shown to be steps of that relation. It is a function:
  scores are numbers, so the order of scores and positions leaves one choice.
  (That they are numbers needs `CountsInv`: a class has no more observations
  than the replay has rows, and the exploration bonus is assumed to be a number
  for those.) `ReplayInv` says that each result, and the running replay, has a
  history of such steps over the trace. A later replay may draw outcomes
  the earlier ones did not need, and their histories stay what they are; two
  histories of one policy are equal by induction on the items.
- **DataFacts.** What the proofs about histories need: a sum over a set grows
  by one term, a count by one or none, a concatenation at either end; sorting
  permutes. These are inductions over data. The library's induction theorems
  cannot be instantiated here, so each is stated about the set of the naturals
  for which the fact holds, with a least counterexample taken by the theorem on
  well-founded orders, which has no operator parameter.
- **CompatibilityProofs.** `LosslessRouting`, `RefusalsAreJustified`,
  `DefaultsAreNoRestriction`, `ClassesAreServed` and `CompatibilityTypeCorrect`,
  for any set of providers, any declared capabilities and any set of requests. The first and
  third assume that requests ask for promised features only; the two violation
  runs show that the assumption is needed.

**Model-checked only.** The liveness properties (`RequestsSettle`,
`CircuitsRecover`, `QuotasRecover`, `StreamSettles`), which are out of the
prover's reach: each rests on `ENABLED` of the actions with fairness. Every
invariant and action property of the passing runs, and each refinement, is a
theorem.

## 5. Findings

Five statements of the repository's documents are not what the code does; each
has a violation run and an entry in `PROJECT.json` with the quotation.

- A fallback may pass a hard quota (`quota_overshoot`): candidates ranked before
  an await.
- Terminal errors open a circuit (`terminal_opens_circuit`): the failure is
  recorded before its `retryable` flag is looked at.
- Usage that the client has seen reported may go unrecorded (`usage_lost`): it
  is recorded only when the adapter's generator has returned.
- Features no list marks are dropped without an error (`unmarked_features`), and
  the tools of a Messages client reach Chat Completions unconverted
  (`messages_tools`): lists that do not agree.

## 6. Plan

Done: every module of section 2 with its runs and proofs. Next, in this order:

1. Gateway with `Profile` derived from `Capabilities`, so that the set of
   providers a request may go to is not a parameter.
2. The parse and render functions of answers that are not streamed, if a
   property is found that is more than their text.

## 7. Not modelled

Values of fields, JSON, wording, headers, sequence numbers and timestamps of
events; HTTP and its timeouts except as outcomes of an await. The rewriting of
complete (not streamed) answers in the adapters and renderers keeps no state and
interacts with nothing. Reading configuration, quality profiles and traces, and
writing reports, is validation and formatting; what it accepts is assumed of
the constants. Two providers of one name, which the gateway accepts and the
simulator refuses, and NaN or infinite latencies in a trace, are outside those
assumptions and listed as hazards. `/readyz`, `/healthz` and `/v1/models` change
no state. The token check, the command line, packaging and the documentation
site have none. Several worker processes would each have their own state; the
models are of one.

## 8. Running

    tlc -workers 2 -config MCGatewayHistory.cfg MCGatewayHistory
    tlapm GatewayProofs.tla
