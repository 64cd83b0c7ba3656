--------------------------- MODULE ResponsesStream ---------------------------
(***************************************************************************)
(* render_responses_stream (protocols/responses.py): the chunks of one     *)
(* provider's stream turned into the Responses events a client reads.      *)
(*                                                                         *)
(* All text of a stream makes one output item; the function-call deltas of *)
(* one upstream index make one item each.  A call whose name has not come  *)
(* yet is not announced: what it says of itself is kept until then.  An    *)
(* action is the work on one chunk, or on one item after the last chunk;   *)
(* what the events of it tell the client is in the client's variables.     *)
(* What else events carry (ids made up for items, sequence numbers,        *)
(* timestamps) is left out.                                                *)
(***************************************************************************)
EXTENDS StreamChunks

CONSTANTS
  Synthetic,     \* a call id made with uuid4
  MaxFragments   \* bound: fragments of one item

Text == "text"
Item == Index \cup {Text}

ASSUME StreamAssumption ==
  /\ Text \notin Index
  /\ Synthetic \notin CallId \cup {None}
  /\ MaxFragments \in Nat

VARIABLES
  stage,         \* "open", "ending", "completed" or "cut"
  order,         \* output_order; its length is next_output_index
  position,      \* items of order that the loop after the last chunk has done
  output_index,  \* of each item's state, 0 until it has one
  chunks,        \* text_state.chunks, and argument_deltas of each call
  name,          \* name and call_id of each call's _FunctionStreamState
  call_id,
  emitted,       \* emitted_argument_count
  announced,     \* the items whose announced flag is set
  added,         \* client: the output_item.added events it has read
  body,          \* client: for each item, the fragments of its delta events
  label,         \* client: the call id and name an item was added with last
  done,          \* client: the output_item.done events it has read
  final          \* client: the call id, name and fragments an item was done with

rendererVars == <<stage, order, position, output_index, chunks, name, call_id,
                  emitted, announced>>
clientVars   == <<added, body, label, done, final>>
vars == <<rendererVars, clientVars>>

AnyId   == CallId \cup {Synthetic, None}
AnyName == Name \cup {None}
NoFinal == [call_id |-> None, name |-> None, chunks |-> <<>>]

\* What an added or a done event says of its item, and the items of events.
Event == [item : Item, output_index : Nat]
Items(events) == {events[n].item : n \in 1 .. Len(events)}

TypeOK ==
  /\ stage \in {"open", "ending", "completed", "cut"}
  /\ order \in Seq(Item)
  /\ position \in 0 .. Len(order)
  /\ chunks \in [Item -> Seq(Fragment)]
  /\ name \in [Item -> AnyName]
  /\ call_id \in [Item -> AnyId]
  /\ output_index \in [Item -> Nat]
  /\ emitted \in [Item -> Nat]
  /\ announced \in SUBSET Item
  /\ added \in Seq(Event)
  /\ body \in [Item -> Seq(Fragment)]
  /\ label \in [Item -> [call_id : AnyId, name : AnyName]]
  /\ done \in Seq(Event)
  /\ final \in [Item -> [call_id : AnyId, name : AnyName, chunks : Seq(Fragment)]]

\* response.created and response.in_progress are the first two events, and
\* nothing else depends on them.
Init ==
  /\ stage = "open"
  /\ order = <<>>
  /\ position = 0
  /\ output_index = [i \in Item |-> 0]
  /\ chunks = [i \in Item |-> <<>>]
  /\ name = [i \in Item |-> None]
  /\ call_id = [i \in Item |-> None]
  /\ emitted = [i \in Item |-> 0]
  /\ announced = {}
  /\ added = <<>>
  /\ body = [i \in Item |-> <<>>]
  /\ label = [i \in Item |-> NoLabel]
  /\ done = <<>>
  /\ final = [i \in Item |-> NoFinal]

\* The first chunk of an item gives it its place and the next output_index.
OrderWith(i) == IF i \in ToSet(order) THEN order ELSE Append(order, i)

IndexWith_NotCounted(i) ==
  IF i \in ToSet(order) \/ order = <<>> THEN output_index
  ELSE [output_index EXCEPT ![i] = Len(order) - 1]

IndexWith(i) ==
  IF i \in ToSet(order) THEN output_index ELSE [output_index EXCEPT ![i] = Len(order)]

ChunksWith_None(i, f) == Append(chunks[i], f)

\* f is a fragment, or None for a delta that carries no arguments.
ChunksWith(i, f) == IF f = None THEN chunks[i] ELSE Append(chunks[i], f)

-----------------------------------------------------------------------------
AddedWith_Again(i) ==
  Append(added, [item |-> i, output_index |-> output_index'[i]])

\* output_item.added of an item, unless it was sent before.
AddedWith(i) ==
  IF i \in announced THEN added
  ELSE Append(added, [item |-> i, output_index |-> output_index'[i]])

Announce_IdAfter(k, id, n) ==
  LET known == IF id = None THEN Synthetic ELSE id
  IN  /\ added' = AddedWith(k)
      /\ announced' = announced \cup {k}
      /\ call_id' = [call_id EXCEPT ![k] = IF k \in announced THEN id ELSE known]
      /\ label' = IF k \in announced THEN label
                  ELSE [label EXCEPT ![k] = [call_id |-> id, name |-> n]]

\* A call is announced, with the id it has or a synthetic one, unless it was
\* announced before.
Announce(k, id, n) ==
  LET known == IF id = None THEN Synthetic ELSE id
  IN  /\ added' = AddedWith(k)
      /\ announced' = announced \cup {k}
      /\ call_id' = [call_id EXCEPT ![k] = IF k \in announced THEN id ELSE known]
      /\ label' = IF k \in announced THEN label
                  ELSE [label EXCEPT ![k] = [call_id |-> known, name |-> n]]

Flush_LatestOnly(i, cs) ==
  /\ body' = [body EXCEPT ![i] =
                IF Len(cs) > emitted[i] THEN Append(@, Last(cs)) ELSE @]
  /\ emitted' = [emitted EXCEPT ![i] = Len(cs)]

Flush_Resends(i, cs) ==
  /\ body' = [body EXCEPT ![i] = @ \o cs]
  /\ emitted' = [emitted EXCEPT ![i] = Len(cs)]

\* Delta events for the fragments cs that the client did not get so far.
Flush(i, cs) ==
  /\ body' = [body EXCEPT ![i] = @ \o SubSeq(cs, emitted[i] + 1, Len(cs))]
  /\ emitted' = [emitted EXCEPT ![i] = Len(cs)]

\* A chunk with text, whose delta event is sent at once.  (The code keeps no
\* emitted count for the text: here it is the number of its chunks.)
TextChunk(f) ==
  /\ stage = "open"
  /\ Len(chunks[Text]) < MaxFragments
  /\ order' = OrderWith(Text)
  /\ output_index' = IndexWith(Text)
  /\ chunks' = [chunks EXCEPT ![Text] = Append(@, f)]
  /\ emitted' = [emitted EXCEPT ![Text] = @ + 1]
  /\ added' = AddedWith(Text)
  /\ announced' = announced \cup {Text}
  /\ body' = [body EXCEPT ![Text] = Append(@, f)]
  /\ UNCHANGED <<stage, position, name, call_id, label, done, final>>

\* A chunk with a function_call_delta: id, name and arguments are optional.
FunctionChunk(k, id, n, f) ==
  LET newId   == IF id # None THEN id ELSE call_id[k]
      newName == IF n # None THEN n ELSE name[k]
      cs      == ChunksWith(k, f)
  IN  /\ stage = "open"
      /\ Len(cs) <= MaxFragments
      /\ order' = OrderWith(k)
      /\ output_index' = IndexWith(k)
      /\ chunks' = [chunks EXCEPT ![k] = cs]
      /\ name' = [name EXCEPT ![k] = newName]
      /\ IF k \in announced \/ newName # None
           THEN Announce(k, newId, newName) /\ Flush(k, cs)
           ELSE /\ call_id' = [call_id EXCEPT ![k] = newId]
                /\ UNCHANGED <<added, announced, label, body, emitted>>
      /\ UNCHANGED <<stage, position, done, final>>

\* The provider's stream ends; done chunks and empty ones were skipped.
EndOfChunks ==
  /\ stage = "open"
  /\ stage' = "ending"
  /\ UNCHANGED <<order, position, output_index, chunks, name, call_id, emitted, announced,
                 clientVars>>

\* The provider or the gateway raises in the middle of the stream, or the
\* client goes away: the generator ends at the event it was about to send.
Break ==
  /\ stage \in {"open", "ending"}
  /\ stage' = "cut"
  /\ UNCHANGED <<order, position, output_index, chunks, name, call_id, emitted, announced,
                 clientVars>>

-----------------------------------------------------------------------------
\* After the last chunk the items are done one by one, in output_order.
Finishing(i) ==
  /\ stage = "ending"
  /\ position < Len(order)
  /\ i = order[position + 1]
  /\ position' = position + 1
  /\ done' = Append(done, [item |-> i, output_index |-> output_index[i]])

FinishText ==
  /\ Finishing(Text)
  /\ final' = [final EXCEPT ![Text] = [NoFinal EXCEPT !.chunks = chunks[Text]]]
  /\ UNCHANGED <<stage, order, output_index, chunks, name, call_id, emitted, announced,
                 added, body, label>>

FinishCall(k) ==
  /\ Finishing(k)
  /\ name[k] # None
  /\ UNCHANGED output_index
  /\ Announce(k, call_id[k], name[k])
  /\ Flush(k, chunks[k])
  /\ final' = [final EXCEPT ![k] =
                 [call_id |-> call_id'[k], name |-> name[k], chunks |-> chunks[k]]]
  /\ UNCHANGED <<stage, order, chunks, name>>

\* ValueError: a call that never got a name ends the stream.
FailUnnamed(k) ==
  /\ stage = "ending"
  /\ position < Len(order)
  /\ order[position + 1] = k
  /\ name[k] = None
  /\ stage' = "cut"
  /\ UNCHANGED <<order, position, output_index, chunks, name, call_id, emitted, announced,
                 clientVars>>

Complete_Early ==
  /\ stage = "ending"
  /\ position + 1 >= Len(order)
  /\ stage' = "completed"
  /\ UNCHANGED <<order, position, output_index, chunks, name, call_id, emitted, announced,
                 clientVars>>

Complete_Late ==
  /\ stage = "ending"
  /\ position > Len(order)
  /\ stage' = "completed"
  /\ UNCHANGED <<order, position, output_index, chunks, name, call_id, emitted, announced,
                 clientVars>>

\* response.completed, with the items in the order of their output_index.
Complete ==
  /\ stage = "ending"
  /\ position = Len(order)
  /\ stage' = "completed"
  /\ UNCHANGED <<order, position, output_index, chunks, name, call_id, emitted, announced,
                 clientVars>>

ChunkStep ==
  \/ \E f \in Fragment : TextChunk(f)
  \/ \E k \in Index, id \in CallId \cup {None}, n \in AnyName,
        f \in Fragment \cup {None} : FunctionChunk(k, id, n, f)
  \/ EndOfChunks

FinishStep ==
  \/ FinishText
  \/ \E k \in Index : FinishCall(k) \/ FailUnnamed(k)
  \/ Complete

Next == ChunkStep \/ FinishStep \/ Break

Spec == Init /\ [][Next]_vars

-----------------------------------------------------------------------------
\* A call is announced as soon as its name is known and not before, and what
\* an announced item has received has reached the client: no fragment that
\* was kept back is lost, sent twice or overtaken by a later one.
HeldUntilNamed ==
  /\ announced = Items(added)
  /\ \A k \in Index : k \in announced <=> name[k] # None
  /\ \A i \in Item : body[i] = (IF i \in announced THEN chunks[i] ELSE <<>>)
  /\ \A i \in Item : emitted[i] = Len(body[i])

\* response.completed comes only after every item the provider began is done,
\* once and in the order of the output_index the client knows it by, with all
\* its fragments and, for a call, a name and a call id.
CompletedIsWhole ==
  stage = "completed" =>
    /\ done = [n \in 1 .. Len(order) |-> [item |-> order[n], output_index |-> n - 1]]
    /\ ToSet(added) = ToSet(done)
    /\ \A i \in Items(done) : final[i].chunks = chunks[i]
    /\ \A i \in Item \ Items(done) : chunks[i] = <<>>
    /\ \A k \in Items(done) \ {Text} : final[k].name # None /\ final[k].call_id # None

Over == IF stage \in {"open", "ending"} THEN "no" ELSE stage
Whole == [i \in Item |-> final[i].chunks]

\* The events of the stream follow the protocol of ItemLifecycle.
Protocol == INSTANCE ItemLifecycle WITH over <- Over, whole <- Whole
ClientProtocol == Protocol!Spec

=============================================================================
