---------------------------- MODULE StreamPipeline ----------------------------
(***************************************************************************)
(* One streaming request from the upstream's lines to what the client      *)
(* reads: the adapter's generator (AdapterStream), the loop of             *)
(* GatewayService.stream, and the generator of the route, which for        *)
(* /v1/responses is the native pass-through or render_responses_stream     *)
(* (ResponsesStream).                                                      *)
(*                                                                         *)
(* Generators are pulled: a chunk goes through all three, and its event is *)
(* sent, before the adapter is asked for the next one.  The feasibility of *)
(* providers is Gateway's subject; here any adapter may be next.           *)
(***************************************************************************)
EXTENDS AdapterStream, ResponsesStream

CONSTANT MaxAttempts  \* max_attempts, or the number of candidates if smaller

ASSUME PipelineAssumption == MaxAttempts \in Nat \ {0}

VARIABLES
  route,      \* the route that the client called
  attempt,    \* number of the provider in the slice of candidates
  committed,  \* local of stream()
  observed,   \* observed_input_tokens and observed_output_tokens
  outcome,    \* what the store was told of the current attempt, "open" at first
  recorded,   \* usage that record_usage was called with
  mode,       \* /v1/responses: "native" or "rendered" from the first chunk on
  client,     \* "reading", "ended", "broken" off by an error, or "gone"
  text,       \* client of chat or messages: the text it has read
  passed,     \* client of a native stream: the events it has read
  marker      \* the client has read the end marker of its protocol

serviceVars == <<route, attempt, committed, observed, outcome, recorded>>
routeVars   == <<mode, client, text, passed, marker>>
allVars == <<adapterVars, serviceVars, routeVars, vars>>

PipelineInit ==
  /\ Init
  /\ kind \in Kind
  /\ said = <<>>
  /\ calls = [i \in ItemId \cup {None} |-> NotKnown]
  /\ pending = <<>>
  /\ reading = "lines"
  /\ route \in {"chat", "messages", "responses"}
  /\ attempt = 1
  /\ committed = FALSE
  /\ observed = None
  /\ outcome = "open"
  /\ recorded = None
  /\ mode = "undecided"
  /\ client = "reading"
  /\ text = <<>>
  /\ passed = <<>>
  /\ marker = FALSE

-----------------------------------------------------------------------------
\* The generators of the chat and messages routes: the end marker, or an event
\* with the chunk's text, which is empty for a call.
RenderPlain(chunk) ==
  /\ marker' = (marker \/ chunk.done)
  /\ text' = IF chunk.text = None THEN text ELSE Append(text, chunk.text)
  /\ UNCHANGED <<mode, passed, vars>>

Native(chunk) ==
  IF mode = "undecided" THEN chunk.native # NoLine ELSE mode = "native"

PassOn(chunk) ==
  /\ mode' = "native"
  /\ passed' = IF chunk.native = NoLine THEN passed ELSE Append(passed, chunk.native)
  /\ marker' = (marker \/ chunk.native.type = "end")
  /\ UNCHANGED <<text, vars>>

RenderEvents(chunk) ==
  /\ mode' = "rendered"
  /\ IF chunk.done THEN UNCHANGED vars
     ELSE IF chunk.text # None THEN TextChunk(chunk.text)
     ELSE FunctionChunk(chunk.delta.index, chunk.delta.label.call_id,
                        chunk.delta.label.name, chunk.delta.args)
  /\ UNCHANGED <<text, passed, marker>>

Observed(chunk) == IF chunk.usage = None THEN observed ELSE chunk.usage

Commits_TextOnly(chunk) == chunk.text # None \/ chunk.done

\* What stream() takes for output that the client has seen.
Commits(chunk) ==
  \/ chunk.text # None
  \/ chunk.done
  \/ chunk.delta # NoDelta
  \/ chunk.native # NoLine

\* One chunk goes from the adapter through stream() and the route to the client.
Deliver ==
  /\ client = "reading"
  /\ outcome = "open"
  /\ pending # <<>>
  /\ LET chunk == Head(pending)
     IN  /\ observed' = Observed(chunk)
         /\ committed' = (committed \/ Commits(chunk))
         /\ IF route # "responses" THEN RenderPlain(chunk)
            ELSE IF Native(chunk) THEN PassOn(chunk)
            ELSE RenderEvents(chunk)
  /\ pending' = Tail(pending)
  /\ UNCHANGED <<kind, said, calls, reading, route, attempt, outcome, recorded, client>>

-----------------------------------------------------------------------------
Rendering == route = "responses" /\ mode # "native"

\* The adapter's generator has returned: the success and the usage are
\* recorded, and the route's loop ends with that of stream().
AttemptSucceeds ==
  /\ client = "reading"
  /\ outcome = "open"
  /\ pending = <<>>
  /\ reading = "returned"
  /\ outcome' = "success"
  /\ recorded' = observed
  /\ IF Rendering THEN EndOfChunks /\ UNCHANGED client
                  ELSE client' = "ended" /\ UNCHANGED vars
  /\ UNCHANGED <<adapterVars, route, attempt, committed, observed, mode, text,
                 passed, marker>>

\* An exception leaves stream() and the route's generator.
BreakOff ==
  /\ client' = "broken"
  /\ IF Rendering THEN Break ELSE UNCHANGED vars

RaiseOrRetry_OneMore ==
  /\ IF committed \/ reading = "terminal" \/ attempt > MaxAttempts
       THEN BreakOff /\ outcome' = "failure" /\ UNCHANGED <<adapterVars, attempt, committed, observed>>
       ELSE /\ attempt' = attempt + 1
            /\ \E k \in Kind : Calling(k)
            /\ committed' = FALSE
            /\ observed' = None
            /\ UNCHANGED <<client, outcome, vars>>

\* The except branch of stream(): the error is raised, or the next candidate
\* called.
RaiseOrRetry ==
  /\ IF committed \/ reading = "terminal" \/ attempt = MaxAttempts
       THEN BreakOff /\ outcome' = "failure" /\ UNCHANGED <<adapterVars, attempt, committed, observed>>
       ELSE /\ attempt' = attempt + 1
            /\ \E k \in Kind : Calling(k)
            /\ committed' = FALSE
            /\ observed' = None
            /\ UNCHANGED <<client, outcome, vars>>

\* ProviderError: the failure is recorded.
AttemptFails ==
  /\ client = "reading"
  /\ outcome = "open"
  /\ reading \in {"retryable", "terminal"}
  /\ RaiseOrRetry
  /\ UNCHANGED <<route, recorded, mode, text, passed, marker>>

\* An exception of the parser, after the chunks that were yielded before it:
\* nothing is recorded.
AttemptRaises ==
  /\ client = "reading"
  /\ outcome = "open"
  /\ pending = <<>>
  /\ reading = "raised"
  /\ BreakOff
  /\ outcome' = "none"
  /\ UNCHANGED <<adapterVars, route, attempt, committed, observed, recorded, mode,
                 text, passed, marker>>

\* The client closes the connection: the generators are closed where they are,
\* and what they would have done next is not done.
ClientLeaves ==
  /\ client = "reading"
  /\ client' = "gone"
  /\ outcome' = IF outcome = "open" THEN "none" ELSE outcome
  /\ IF stage \in {"open", "ending"} /\ Rendering THEN Break ELSE UNCHANGED vars
  /\ UNCHANGED <<adapterVars, route, attempt, committed, observed, recorded, mode,
                 text, passed, marker>>

\* The done events and response.completed of a rendered stream.
RenderEnd ==
  /\ client = "reading"
  /\ FinishStep
  /\ client' = CASE stage' = "completed" -> "ended"
                 [] stage' = "cut" -> "broken"
                 [] OTHER -> client
  /\ marker' = (stage' = "completed")
  /\ UNCHANGED <<adapterVars, serviceVars, mode, text, passed>>

\* While the client reads, the adapter reads lines for it.
Pull ==
  /\ client = "reading"
  /\ outcome = "open"
  /\ AdapterStep
  /\ UNCHANGED <<serviceVars, routeVars, vars>>

StreamStep ==
  \/ Pull
  \/ Deliver
  \/ AttemptSucceeds
  \/ AttemptFails
  \/ AttemptRaises
  \/ RenderEnd

PipelineNext == StreamStep \/ ClientLeaves

PipelineSpec == PipelineInit /\ [][PipelineNext]_allVars

\* The HTTP client gives up on the upstream: nothing came until its timeout,
\* or what came is an error.
Timeout ==
  /\ client = "reading"
  /\ outcome = "open"
  /\ HttpError
  /\ UNCHANGED <<serviceVars, routeVars, vars>>

\* What the gateway does with what it has.
GatewayStep == Deliver \/ AttemptSucceeds \/ AttemptFails \/ AttemptRaises \/ RenderEnd

\* An adapter that waits for a line gets one, or its HTTP client times out, and
\* nothing else is waited for.  No upstream has to answer or to close.
FairPipelineSpec == PipelineSpec /\ WF_allVars(GatewayStep \/ Timeout)

-----------------------------------------------------------------------------
PipelineTypeOK ==
  /\ kind \in Kind
  /\ said \in Seq(Line)
  /\ calls \in [ItemId \cup {None} -> [index : Index, label : Label] \cup {NotKnown}]
  /\ pending \in Seq(Chunk)
  /\ reading \in {"lines", "returned", "retryable", "terminal", "raised"}
  /\ route \in {"chat", "messages", "responses"}
  /\ attempt \in 1 .. MaxAttempts
  /\ committed \in BOOLEAN
  /\ observed \in Usage \cup {None}
  /\ outcome \in {"open", "success", "failure", "none"}
  /\ recorded \in Usage \cup {None}
  /\ mode \in {"undecided", "native", "rendered"}
  /\ client \in {"reading", "ended", "broken", "gone"}
  /\ text \in Seq(Fragment)
  /\ passed \in Seq(Line)
  /\ marker \in BOOLEAN

\* The text in a sequence of lines or of chunks; the fragments of a call's
\* arguments in a sequence of deltas.
TextPart(e) == IF e.text = None THEN <<>> ELSE <<e.text>>
TextIn(s) == FlattenSeq([n \in 1 .. Len(s) |-> TextPart(s[n])])

ArgsPart(d, k) == IF d.index = k /\ d.args # None THEN <<d.args>> ELSE <<>>
ArgsIn(ds, k) == FlattenSeq([n \in 1 .. Len(ds) |-> ArgsPart(ds[n], k)])

SaidArgs(k) == FlattenSeq([m \in 1 .. Len(said) |-> ArgsIn(said[m].deltas, k)])
PendingArgs(k) == ArgsIn([n \in 1 .. Len(pending) |-> pending[n].delta], k)
PendingEvents == [n \in 1 .. Len(pending) |-> pending[n].native]

\* The events that can be read.
EventPart(line) == IF line.type = "unreadable" THEN <<>> ELSE <<line>>
EventsIn(s) == FlattenSeq([n \in 1 .. Len(s) |-> EventPart(s[n])])

\* What upstream has said and what has reached the client differ by the chunks
\* in hand, at every moment and on every route: chat and messages clients get
\* the text, a native stream its events as they are, a rendered one the text
\* and the arguments of each call.  The attempt is a success, and the answer
\* ends, with nothing in hand.
WholeSoFar ==
  /\ route # "responses" => text \o TextIn(pending) = TextIn(said)
  /\ mode = "native" => passed \o PendingEvents = EventsIn(said)
  /\ mode = "rendered" =>
       /\ chunks[Text] \o TextIn(pending) = TextIn(said)
       /\ \A k \in Index : chunks[k] \o PendingArgs(k) = SaidArgs(k)
  /\ outcome = "success" \/ client = "ended" => pending = <<>>

\* A client reads the end marker of its protocol only if upstream has sent its
\* own, and a cut-off answer shows as one; or, when the gateway renders the
\* Responses events itself, if the upstream's stream ended in order, which is
\* all that response.completed says of it.
EndMarkerEarned ==
  marker => /\ Rendering \/ HasEnded
            /\ Rendering => stage = "completed" /\ outcome = "success"

\* Once the client has read anything of an answer, no other provider is called
\* for the rest, and a Responses client gets the events of one origin.
OneProviderAnswers ==
  [][text # <<>> \/ passed # <<>> \/ order # <<>> =>
       /\ attempt' = attempt
       /\ passed' = <<>> \/ order' = <<>>]_allVars

\* The usage recorded of a success is the one its response.completed reported,
\* and none if it reported none; nothing else records usage.
UsageExact ==
  IF outcome = "success"
  THEN \/ \E m \in 1 .. Len(said) : said[m].type = "end" /\ said[m].usage = recorded
       \/ recorded = None /\ ~HasEnded
  ELSE recorded = None

\* A client of an adapter that returns at the end marker never has the whole
\* answer of an attempt that is then counted as failed.  (The Responses adapter
\* reads on after response.completed, and a network failure can follow.)
AnsweredNotFailed ==
  kind # "responses" /\ marker => outcome # "failure"

\* Whatever the upstream's item ids are, what the Responses adapter says of a
\* delta of arguments is what the last output_item.added of that item id said,
\* or else no more than the event itself says.
Introduces(m, item) == said[m].type = "added" /\ said[m].item = item

DeltasNameTheirCall ==
  \A n \in 1 .. Len(pending) :
    LET line == pending[n].native
        d    == pending[n].delta
    IN  line.type = "content" /\ d # NoDelta =>
          \/ /\ d = line.deltas[1]
             /\ \A m \in 1 .. Len(said) : ~Introduces(m, line.item)
          \/ \E m \in 1 .. Len(said) :
               /\ Introduces(m, line.item)
               /\ \A l \in m + 1 .. Len(said) : ~Introduces(l, line.item)
               /\ d.index = said[m].deltas[1].index
               /\ d.label = said[m].deltas[1].label
               /\ d.args = line.deltas[1].args

\* What upstream has said of a call: the labels of its deltas, the ids and the
\* names in them.
LabelsIn(ds, k) == {ds[n].label : n \in {n \in 1 .. Len(ds) : ds[n].index = k}}
SaidLabels(k) == UNION {LabelsIn(said[m].deltas, k) : m \in 1 .. Len(said)}
Ids(labels) == {l.call_id : l \in labels} \ {None}
Names(labels) == {l.name : l \in labels} \ {None}

\* A rendered call has a name upstream gave this call and, when it is done, an
\* id upstream gave it, be it late or one of several; an id is made up only for
\* a call that has none, or has none yet when it is added.
CallsAreLabelled ==
  mode = "rendered" =>
    /\ \A k \in Items(added) \ {Text} :
         /\ label[k].name \in Names(SaidLabels(k))
         /\ label[k].call_id \in Ids(SaidLabels(k)) \cup {Synthetic}
    /\ \A k \in Items(done) \ {Text} :
         /\ final[k].name \in Names(SaidLabels(k))
         /\ final[k].call_id \in (IF Ids(SaidLabels(k)) = {} THEN {Synthetic}
                                  ELSE Ids(SaidLabels(k)))

\* Exact usage that the wire showed is recorded (ADR 0004): once the request is
\* over, the usage of a response.completed that the client has read is in the
\* store.
ObservedUsageRecorded ==
  client # "reading" =>
    \A m \in 1 .. Len(passed) : passed[m].usage # None => recorded = passed[m].usage

\* Whatever upstream does, the request is over at some time.
StreamSettles == <>(client # "reading")

=============================================================================
