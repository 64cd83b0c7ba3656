----------------------------- MODULE AdapterStream -----------------------------
(***************************************************************************)
(* The stream() generators of the three adapters: the lines of one         *)
(* upstream answer turned into StreamChunks.                               *)
(*                                                                         *)
(* A line is what one data: line of the wire says; comments and keep-alive *)
(* lines are skipped by all three.  What upstream says is recorded in      *)
(* said, so that properties can compare what comes out with it.  pending   *)
(* holds the chunks of the current line that the consumer has not pulled:  *)
(* no other line is read before it has.                                    *)
(***************************************************************************)
EXTENDS StreamChunks

CONSTANTS
  ItemId,    \* ids of the output items of a Responses upstream
  Usage,     \* token usage, as response.completed reports it
  MaxLines,  \* bounds: lines of one answer; pieces of text and deltas in it
  MaxPieces

ASSUME AdapterAssumption ==
  /\ None \notin ItemId \cup Usage
  /\ MaxLines \in Nat
  /\ MaxPieces \in Nat

VARIABLES
  kind,      \* which adapter reads
  said,      \* the lines upstream has sent
  calls,     \* openai_responses: what the adapter knows of each item
  pending,   \* chunks yielded next
  reading    \* "lines"; "returned"; "retryable" or "terminal" for a
             \* ProviderError, "raised" for any other exception

adapterVars == <<kind, said, calls, pending, reading>>

Kind == {"chat", "messages", "responses"}

-----------------------------------------------------------------------------
\* What a line says of one call; any part of it may be missing.
Delta == [index : Index, label : Label, args : Fragment \cup {None}]
NoDelta == [index |-> None, label |-> NoLabel, args |-> None]

\* "content" is text and deltas of calls, "added" the output_item.added event
\* of a function call.  "end" is [DONE], message_stop or response.completed,
\* "failed" an error in the stream (an error object, an error event,
\* response.failed), "other" anything else.  "unreadable" is a line with which
\* the adapter does not get to the end: it is no JSON, its choices are an empty
\* list, an index is no number.  The Chat adapter may yield parts of it before.
Says(type) == [type |-> type, item |-> None, text |-> None, deltas |-> <<>>,
               usage |-> None]

ChatLine == [type   : {"content", "unreadable"},
             item   : {None},
             text   : Fragment \cup {None},
             deltas : UNION {[1 .. n -> Delta] : n \in 0 .. 2},
             usage  : {None}]

TextLine == {[Says("content") EXCEPT !.text = f] : f \in Fragment}

\* A Messages event about a tool_use block.
BlockLine == {[Says("content") EXCEPT !.deltas = <<d>>] : d \in Delta}

\* The Responses events about a function call, by the id of its item, which may
\* be missing: the events of arguments have no label, the others no arguments.
CallEvent(type, ds) == [type   : {type},
                        item   : ItemId \cup {None},
                        text   : {None},
                        deltas : {<<d>> : d \in ds},
                        usage  : {None}]

ArgsLine  == CallEvent("content", {d \in Delta : d.label = NoLabel})
AddedLine == CallEvent("added", {d \in Delta : d.args = None})

\* How upstreams speak: the wire formats allow a line of Chat Completions text
\* and several deltas, the others one thing in each event.
Wire ==
  [chat      |-> ChatLine \cup {Says("end"), Says("failed")},
   messages  |-> TextLine \cup BlockLine
                   \cup {Says(type) : type \in {"end", "failed", "unreadable", "other"}},
   responses |-> TextLine \cup ArgsLine \cup AddedLine
                   \cup {Says(type) : type \in {"end", "failed", "unreadable", "other"}}
                   \cup {[Says("end") EXCEPT !.usage = u] : u \in Usage}]

Line == Wire.chat \cup Wire.messages \cup Wire.responses

NoLine == Says("none")

Chunk == [text   : Fragment \cup {None},
          delta  : Delta \cup {NoDelta},
          done   : BOOLEAN,
          native : Line \cup {NoLine},
          usage  : Usage \cup {None}]

NoChunk == [text |-> None, delta |-> NoDelta, done |-> FALSE,
            native |-> NoLine, usage |-> None]

TextOf(p) == [NoChunk EXCEPT !.text = p]
DeltaOf(d) == [NoChunk EXCEPT !.delta = d]
Done == [NoChunk EXCEPT !.done = TRUE]

-----------------------------------------------------------------------------
HasEnded == \E m \in 1 .. Len(said) : said[m].type = "end"

\* Upstream may stop at any line, but says nothing after its last word.
LastWord == said # <<>> /\ Last(said).type \in {"end", "failed"}

\* Pieces of text and deltas of calls.
Pieces(line) == Len(line.deltas) + (IF line.text = None THEN 0 ELSE 1)
PiecesSaid == FoldFunction(+, 0, [m \in 1 .. Len(said) |-> Pieces(said[m])])

-----------------------------------------------------------------------------
\* One operator per adapter: the chunks a line makes.
ChatChunks_TextOnly(line) ==
  CASE line.type = "end" -> <<Done>>
    [] line.text # None -> <<TextOf(line.text)>>
    [] OTHER -> [n \in 1 .. Len(line.deltas) |-> DeltaOf(line.deltas[n])]

\* str() of an id that is None, which is a string too.
ChatChunks_NoneAsId(line) ==
  LET known(d) == IF d.label.call_id # None THEN d
                  ELSE [d EXCEPT !.label.call_id = CHOOSE c \in CallId : TRUE]
  IN  IF line.type = "end" THEN <<Done>>
      ELSE (IF line.text = None THEN <<>> ELSE <<TextOf(line.text)>>)
             \o [n \in 1 .. Len(line.deltas) |-> DeltaOf(known(line.deltas[n]))]

\* OpenAICompatibleProvider: text, then calls.  An error object has no choices,
\* and makes no chunk.
ChatChunks(line) ==
  IF line.type = "end" THEN <<Done>>
  ELSE (IF line.text = None THEN <<>> ELSE <<TextOf(line.text)>>)
         \o [n \in 1 .. Len(line.deltas) |-> DeltaOf(line.deltas[n])]

MessagesChunks_ErrorEnds(line) ==
  CASE line.type \in {"end", "failed"} -> <<Done>>
    [] line.deltas # <<>> -> <<DeltaOf(line.deltas[1])>>
    [] line.text # None -> <<TextOf(line.text)>>
    [] OTHER -> <<>>

\* AnthropicProvider: content_block_start of a tool_use block, input_json_delta,
\* text_delta.  No other event makes a chunk, error included.
MessagesChunks(line) ==
  CASE line.type = "end" -> <<Done>>
    [] line.deltas # <<>> -> <<DeltaOf(line.deltas[1])>>
    [] line.text # None -> <<TextOf(line.text)>>
    [] OTHER -> <<>>

NotKnown == [index |-> None, label |-> NoLabel]

Relabelled_FirstKnown(line) ==
  LET d == line.deltas[1]
  IN  IF line.type = "added" \/ \A i \in ItemId \cup {None} : calls[i] = NotKnown THEN d
      ELSE LET i == CHOOSE i \in ItemId \cup {None} : calls[i] # NotKnown
           IN  [d EXCEPT !.index = calls[i].index, !.label = calls[i].label]

\* A delta of arguments gets the index and the label its item was added with;
\* items without an id are one item to the adapter.
Relabelled(line) ==
  LET d     == line.deltas[1]
      known == calls[line.item]
  IN  IF line.type = "added" \/ known = NotKnown THEN d
      ELSE [d EXCEPT !.index = known.index, !.label = known.label]

ResponsesChunks_NoUsage(line) ==
  LET parsed == IF line.deltas = <<>> THEN NoDelta ELSE Relabelled(line)
  IN  IF line.type = "unreadable" THEN <<>>
      ELSE <<[text |-> line.text, delta |-> parsed, done |-> line.type = "end",
              native |-> line, usage |-> None]>>

\* OpenAIResponsesProvider: every event that it reads makes a chunk and travels
\* in it.
ResponsesChunks(line) ==
  LET parsed == IF line.deltas = <<>> THEN NoDelta ELSE Relabelled(line)
  IN  IF line.type = "unreadable" THEN <<>>
      ELSE <<[text |-> line.text, delta |-> parsed, done |-> line.type = "end",
              native |-> line, usage |-> line.usage]>>

Chunks(line) ==
  CASE kind = "chat" -> ChatChunks(line)
    [] kind = "messages" -> MessagesChunks(line)
    [] kind = "responses" -> ResponsesChunks(line)

CallsWith(line) ==
  IF line.type # "added" THEN calls
  ELSE [calls EXCEPT ![line.item] = [index |-> line.deltas[1].index,
                                     label |-> line.deltas[1].label]]

-----------------------------------------------------------------------------
\* A call of stream(): nothing is read yet.
Calling(k) ==
  /\ kind' = k
  /\ said' = <<>>
  /\ calls' = [i \in ItemId \cup {None} |-> NotKnown]
  /\ pending' = <<>>
  /\ reading' = "lines"

AwaitsLine == reading = "lines" /\ pending = <<>>

Reading_On(line) == IF line.type = "unreadable" THEN "raised" ELSE "lines"

\* What a line does to the loop: the Chat and Messages adapters return at the
\* end marker, the Responses adapter reads on.
Reading(line) ==
  CASE line.type = "unreadable" -> "raised"
    [] line.type = "end" /\ kind # "responses" -> "returned"
    [] OTHER -> "lines"

\* The generator is pulled and reads a line.
ReadLine(line) ==
  /\ AwaitsLine
  /\ ~LastWord
  /\ Len(said) < MaxLines
  /\ said' = Append(said, line)
  /\ calls' = CallsWith(line)
  /\ pending' = Chunks(line)
  /\ reading' = Reading(line)
  /\ UNCHANGED kind

\* The upstream closes the stream, after its end marker or before it: the loop
\* over the lines ends, and the generator with it.
UpstreamCloses ==
  /\ AwaitsLine
  /\ reading' = "returned"
  /\ UNCHANGED <<kind, said, calls, pending>>

\* httpx.HTTPError: an error status instead of a stream, or a network failure
\* at any line.
HttpError ==
  /\ AwaitsLine
  /\ reading' = "retryable" \/ (said = <<>> /\ reading' = "terminal")
  /\ UNCHANGED <<kind, said, calls, pending>>

AdapterStep ==
  /\ AwaitsLine
  /\ \/ LET room == MaxPieces - PiecesSaid
        IN  \E line \in {l \in Wire[kind] : Pieces(l) <= room} : ReadLine(line)
     \/ UpstreamCloses
     \/ HttpError

=============================================================================
