------------------------- MODULE StreamPipelineProofs -------------------------
(***************************************************************************)
(* Theorems about StreamPipeline, for any upstream answers of any length,  *)
(* any number of calls in them and any number of providers.                *)
(***************************************************************************)
EXTENDS StreamPipeline, ResponsesStreamProofs, DataFacts

-----------------------------------------------------------------------------
(***************************************************************************)
(* Lines and chunks.                                                       *)
(***************************************************************************)
LineFacts(line) ==
  /\ line.type \in {"content", "added", "unreadable", "end", "failed", "other"}
  /\ line.item \in ItemId \cup {None}
  /\ line.text \in Fragment \cup {None}
  /\ line.deltas \in Seq(Delta)
  /\ line.usage \in Usage \cup {None}
  /\ line.usage # None => line.type = "end"
  /\ line.type \notin {"content", "added", "unreadable"} => line.text = None /\ line.deltas = <<>>

\* A line with one thing to say, or with nothing.
OneThing(line) ==
  /\ line.deltas = <<>> \/ (line.text = None /\ \E d \in Delta : line.deltas = <<d>>)
  /\ line.type \notin {"content", "added"} => line.text = None /\ line.deltas = <<>>
  /\ line.type = "added" => line.deltas # <<>>

\* A line of Chat Completions may say several things.
LEMMA ChatLineFacts ==
  ASSUME NEW line \in Wire.chat
  PROVE  LineFacts(line) /\ line.usage = None /\ line.type # "added"
  <1>1. CASE line \in ChatLine
    <2>1. /\ line.type \in {"content", "unreadable"} /\ line.text \in Fragment \cup {None}
          /\ line.item = None /\ line.usage = None
          /\ line.deltas \in UNION {[1 .. n -> Delta] : n \in 0 .. 2}
      BY <1>1 DEF ChatLine
    <2>2. line.deltas \in Seq(Delta)
      <3>1. PICK n \in 0 .. 2 : line.deltas \in [1 .. n -> Delta]
        BY <2>1
      <3>2. n \in Nat
        BY <3>1
      <3> QED
        BY <3>1, <3>2, SeqDef
    <2> QED
      BY <2>1, <2>2 DEF LineFacts
  <1>2. CASE \E type \in {"end", "failed"} : line = Says(type)
    BY <1>2 DEF Says, LineFacts
  <1> QED
    BY <1>1, <1>2 DEF Wire

\* The other lines say one thing each.
LEMMA EventFacts ==
  ASSUME NEW line \in Wire.messages \cup Wire.responses
  PROVE  /\ LineFacts(line) /\ OneThing(line)
         /\ line \in Wire.messages => line.usage = None
  <1>1. ASSUME NEW d \in Delta PROVE <<d>> \in Seq(Delta) /\ <<d>> # <<>>
    OBVIOUS
  <1>2. CASE line \in TextLine
    <2>1. PICK f \in Fragment : line = [Says("content") EXCEPT !.text = f]
      BY <1>2 DEF TextLine
    <2> QED
      BY <2>1 DEF Says, LineFacts, OneThing
  <1>3. CASE line \in BlockLine
    <2>1. PICK d \in Delta : line = [Says("content") EXCEPT !.deltas = <<d>>]
      BY <1>3 DEF BlockLine
    <2>2. /\ line.type = "content" /\ line.item = None /\ line.text = None /\ line.usage = None
          /\ line.deltas = <<d>>
      BY <2>1 DEF Says
    <2> QED
      BY <1>1, <2>2 DEF LineFacts, OneThing
  <1>4. CASE line \in ArgsLine \cup AddedLine
    <2>1. /\ line.type \in {"content", "added"} /\ line.item \in ItemId \cup {None}
          /\ line.text = None /\ line.usage = None
          /\ \E d \in Delta : line.deltas = <<d>>
      BY <1>4 DEF ArgsLine, AddedLine, CallEvent
    <2>2. PICK d \in Delta : line.deltas = <<d>>
      BY <2>1
    <2> QED
      BY <1>1, <2>1, <2>2 DEF LineFacts, OneThing
  <1>5. CASE \E type \in {"end", "failed", "unreadable", "other"} : line = Says(type)
    BY <1>5 DEF Says, LineFacts, OneThing
  <1>6. CASE line \notin Wire.messages /\ \E u \in Usage : line = [Says("end") EXCEPT !.usage = u]
    BY <1>6 DEF Says, LineFacts, OneThing
  <1> QED
    BY <1>2, <1>3, <1>4, <1>5, <1>6 DEF Wire

\* What a line may be.
LEMMA LineType == \A line \in Line : LineFacts(line)
  BY ChatLineFacts, EventFacts DEF Line

\* What the adapter of a kind may read.
LEMMA WireFacts ==
  ASSUME kind \in Kind, NEW line \in Wire[kind]
  PROVE  /\ line \in Line
         /\ kind # "chat" => OneThing(line)
         /\ kind # "responses" => line.usage = None
  <1>1. CASE kind = "chat"
    BY <1>1, ChatLineFacts DEF Line
  <1>2. CASE kind = "messages"
    BY <1>2, EventFacts DEF Line
  <1>3. CASE kind = "responses"
    BY <1>3, EventFacts DEF Line
  <1> QED
    BY <1>1, <1>2, <1>3 DEF Kind

\* No line is NoLine.
LEMMA NoLineIsNone == NoLine \notin Line
  <1>1. NoLine.type = "none"
    BY DEF NoLine, Says
  <1> QED
    BY <1>1, LineType DEF LineFacts

\* What the Chat and Messages adapters make of a line.
Plain(line) ==
  {c \in {Done} : line.type = "end"}
    \cup {c \in {TextOf(line.text)} : line.text # None}
    \cup {DeltaOf(line.deltas[j]) : j \in 1 .. Len(line.deltas)}

\* The Chat adapter's chunks are of these.
LEMMA ChatPlain ==
  ASSUME NEW line \in Line
  PROVE  ChatChunks(line) \in Seq(Plain(line))
  <1> DEFINE S == Plain(line)
             ts == IF line.text = None THEN <<>> ELSE <<TextOf(line.text)>>
             ds == [n \in 1 .. Len(line.deltas) |-> DeltaOf(line.deltas[n])]
  <1> SUFFICES ChatChunks(line) \in Seq(S)
    OBVIOUS
  <1>1. CASE line.type = "end"
    <2>1. Done \in S
      BY <1>1 DEF Plain
    <2>2. ChatChunks(line) = <<Done>>
      BY <1>1 DEF ChatChunks
    <2> HIDE DEF S
    <2>3. <<Done>> \in Seq(S)
      BY <2>1
    <2> QED
      BY <2>2, <2>3
  <1>2. CASE line.type # "end"
    <2>1. ts \in Seq(S)
      <3>1. line.text # None => TextOf(line.text) \in S
        BY DEF Plain
      <3> HIDE DEF S
      <3> QED
        BY <3>1
    <2>2. ds \in Seq(S)
      <3>1. Len(line.deltas) \in Nat
        BY LineType DEF LineFacts
      <3>2. \A n \in 1 .. Len(line.deltas) : DeltaOf(line.deltas[n]) \in S
        BY DEF Plain
      <3>3. ds \in [1 .. Len(line.deltas) -> S]
        BY <3>2
      <3> HIDE DEF S, ds
      <3> QED
        BY <3>1, <3>3, SeqDef
    <2>3. ChatChunks(line) = ts \o ds
      BY <1>2 DEF ChatChunks
    <2> HIDE DEF S, ts, ds
    <2> QED
      BY <2>1, <2>2, <2>3, ConcatProperties
  <1> QED
    BY <1>1, <1>2

\* The Messages adapter's too.
LEMMA MessagesPlain ==
  ASSUME NEW line \in Line
  PROVE  MessagesChunks(line) \in Seq(Plain(line))
  <1> DEFINE S == Plain(line)
  <1> SUFFICES MessagesChunks(line) \in Seq(S)
    OBVIOUS
  <1>1. line.deltas \in Seq(Delta)
    BY LineType DEF LineFacts
  <1>2. line.deltas # <<>> => DeltaOf(line.deltas[1]) \in S
    <2>1. line.deltas # <<>> => 1 \in 1 .. Len(line.deltas)
      BY <1>1
    <2> QED
      BY <2>1 DEF Plain
  <1>3. line.text # None => TextOf(line.text) \in S
    BY DEF Plain
  <1>4. line.type = "end" => Done \in S
    BY DEF Plain
  <1>5. \/ MessagesChunks(line) = <<>>
        \/ line.type = "end" /\ MessagesChunks(line) = <<Done>>
        \/ line.deltas # <<>> /\ MessagesChunks(line) = <<DeltaOf(line.deltas[1])>>
        \/ line.text # None /\ MessagesChunks(line) = <<TextOf(line.text)>>
    BY DEF MessagesChunks
  <1> HIDE DEF S
  <1>6. \A x \in S : <<x>> \in Seq(S)
    OBVIOUS
  <1>7. <<>> \in Seq(S)
    OBVIOUS
  <1> QED
    BY <1>2, <1>3, <1>4, <1>5, <1>6, <1>7

\* A chunk of a kind of adapter, made of a line that was said.
LastLine == said[Len(said)]

\* The last line that introduced an item.
Introduced(m, i) ==
  /\ m \in 1 .. Len(said)
  /\ Introduces(m, i)
  /\ \A l \in m + 1 .. Len(said) : ~Introduces(l, i)

NotIntroduced(i) == \A m \in 1 .. Len(said) : ~Introduces(m, i)

\* What the adapter says of a delta is what it knows of its item.
NamesItsCall(line, d) ==
  \/ d = line.deltas[1] /\ NotIntroduced(line.item)
  \/ \E m : /\ Introduced(m, line.item)
           /\ d.index = said[m].deltas[1].index
           /\ d.label = said[m].deltas[1].label
           /\ d.args = line.deltas[1].args

Shows(c) ==
  /\ c.done => HasEnded
  /\ IF kind = "responses"
       THEN /\ said # <<>> /\ c.native = LastLine /\ c.usage = LastLine.usage
            /\ LastLine.type = "content" /\ c.delta # NoDelta => NamesItsCall(LastLine, c.delta)
       ELSE /\ c.native = NoLine /\ c.usage = None
            /\ c.text # None \/ c.done \/ c.delta # NoDelta

Known == [index : Index, label : Label]

AdapterType ==
  /\ kind \in Kind
  /\ said \in Seq(Line)
  /\ calls \in [ItemId \cup {None} -> Known \cup {NotKnown}]
  /\ pending \in Seq(Chunk)
  /\ reading \in {"lines", "returned", "retryable", "terminal", "raised"}

\* What is known of an item is what the line that introduced it last has said.
ItemKnown(i) ==
  \/ calls[i] = NotKnown /\ NotIntroduced(i)
  \/ /\ calls[i] \in Known
     /\ \E m : /\ Introduced(m, i)
              /\ calls[i].index = said[m].deltas[1].index
              /\ calls[i].label = said[m].deltas[1].label

CallsKnown == \A i \in ItemId \cup {None} : ItemKnown(i)

PendingShown == \A n \in 1 .. Len(pending) : Shows(pending[n])

AdapterInv ==
  /\ AdapterType
  /\ \A m \in 1 .. Len(said) : said[m].type = "end" => m = Len(said)
  /\ kind # "responses" =>
       /\ HasEnded => reading = "returned"
       /\ \A m \in 1 .. Len(said) : said[m].usage = None
  /\ kind = "responses" => Len(pending) <= 1
  /\ kind = "responses" => CallsKnown
  /\ PendingShown

\* Nothing is known before anything is said.
LEMMA NothingKnown ==
  /\ said = <<>> /\ calls = [i \in ItemId \cup {None} |-> NotKnown] => CallsKnown
  /\ said' = <<>> /\ calls' = [i \in ItemId \cup {None} |-> NotKnown] => CallsKnown'
  <1>1. \A m \in 1 .. Len(<<>>) : FALSE
    OBVIOUS
  <1> QED
    BY <1>1 DEF CallsKnown, ItemKnown, NotIntroduced, Introduces

\* A call of stream() begins with nothing said.
LEMMA CallingInv ==
  ASSUME NEW k \in Kind, Calling(k)
  PROVE  AdapterInv' /\ pending' = <<>> /\ ~HasEnded'
  <1>1. said' = <<>> /\ pending' = <<>> /\ reading' = "lines" /\ kind' = k
        /\ calls' = [i \in ItemId \cup {None} |-> NotKnown]
    BY DEF Calling
  <1>2. AdapterType'
    BY <1>1 DEF AdapterType
  <1>3. \A m \in 1 .. Len(said') : FALSE
    BY <1>1
  <1>4. \A n \in 1 .. Len(pending') : FALSE
    BY <1>1
  <1>5. Len(pending') <= 1
    BY <1>1
  <1>6. ~HasEnded'
    BY <1>3 DEF HasEnded
  <1>7. CallsKnown'
    BY <1>1, NothingKnown
  <1>8. PendingShown'
    BY <1>4 DEF PendingShown
  <1> QED
    BY <1>1, <1>2, <1>3, <1>5, <1>6, <1>7, <1>8 DEF AdapterInv

\* The delta of a line has the type of the delta of a chunk, also once it is
\* labelled again.
LEMMA RelabelledType ==
  ASSUME AdapterType, NEW line \in Line, line.deltas # <<>>
  PROVE  /\ Relabelled(line) \in Delta /\ line.deltas[1] \in Delta
         /\ line.type # "added" /\ calls[line.item] = NotKnown => Relabelled(line) = line.deltas[1]
         /\ line.type # "added" /\ calls[line.item] \in Known =>
              /\ Relabelled(line).index = calls[line.item].index
              /\ Relabelled(line).label = calls[line.item].label
              /\ Relabelled(line).args = line.deltas[1].args
  <1> DEFINE d == line.deltas[1]
             known == calls[line.item]
  <1>1. /\ line.deltas \in Seq(Delta) /\ line.item \in ItemId \cup {None}
    BY LineType DEF LineFacts
  <1>2. d \in Delta
    BY <1>1
  <1>3. known \in Known \cup {NotKnown}
    BY <1>1 DEF AdapterType
  <1>4. NotKnown \notin Known
    BY ChunkAssumption DEF NotKnown, Known
  <1>5. Relabelled(line) = IF line.type = "added" \/ known = NotKnown THEN d
                           ELSE [d EXCEPT !.index = known.index, !.label = known.label]
    BY DEF Relabelled
  <1> HIDE DEF d, known
  <1>6. CASE line.type = "added" \/ known = NotKnown
    BY <1>2, <1>4, <1>5, <1>6 DEF d, known
  <1>7. CASE line.type # "added" /\ known \in Known
    <2>1. Relabelled(line) = [d EXCEPT !.index = known.index, !.label = known.label]
      BY <1>4, <1>5, <1>7
    <2>2. known.index \in Index /\ known.label \in Label
      BY <1>7 DEF Known
    <2>3. /\ Relabelled(line) \in Delta /\ Relabelled(line).index = known.index
          /\ Relabelled(line).label = known.label /\ Relabelled(line).args = d.args
      BY <1>2, <2>1, <2>2 DEF Delta
    <2> QED
      BY <1>2, <1>4, <1>7, <2>3 DEF d, known
  <1> QED
    BY <1>3, <1>6, <1>7

\* The chunks made from nothing.
LEMMA NoChunkType ==
  /\ NoChunk \in Chunk
  /\ \A t \in Fragment : TextOf(t) \in Chunk
  /\ \A d \in Delta : DeltaOf(d) \in Chunk
  /\ Done \in Chunk
  <1>1. NoChunk \in Chunk
    BY DEF NoChunk, Chunk
  <1>2. \A t \in Fragment : TextOf(t) \in Chunk
    BY <1>1 DEF TextOf, Chunk
  <1>3. \A d \in Delta : DeltaOf(d) \in Chunk
    BY <1>1 DEF DeltaOf, Chunk
  <1>4. Done \in Chunk
    BY <1>1 DEF Done, Chunk
  <1> QED
    BY <1>1, <1>2, <1>3, <1>4

\* What TextOf, DeltaOf and Done leave of NoChunk.
LEMMA PlainFields ==
  ASSUME NEW line \in Line, NEW c \in Plain(line)
  PROVE  /\ c \in Chunk
         /\ c.native = NoLine /\ c.usage = None
         /\ c.done => line.type = "end"
         /\ \/ c.text # None \/ c.done
            \/ \E j \in 1 .. Len(line.deltas) : c.delta = line.deltas[j]
         /\ \/ c.delta = NoDelta
            \/ \E j \in 1 .. Len(line.deltas) : c.delta = line.deltas[j]
  <1>1. LineFacts(line)
    BY LineType
  <1>2. /\ NoChunk.native = NoLine /\ NoChunk.usage = None /\ NoChunk.delta = NoDelta
        /\ NoChunk.done = FALSE /\ NoChunk.text = None
    BY DEF NoChunk
  <1>3. CASE c = Done /\ line.type = "end"
    <2>1. c \in Chunk
      BY <1>3, NoChunkType
    <2>2. c.native = NoLine /\ c.usage = None /\ c.done /\ c.delta = NoDelta
      BY <1>3 DEF Done, NoChunk
    <2> QED
      BY <1>3, <2>1, <2>2
  <1>4. CASE c = TextOf(line.text) /\ line.text # None
    <2>1. line.text \in Fragment /\ c \in Chunk
      BY <1>1, <1>4, NoChunkType DEF LineFacts
    <2>2. c.native = NoLine /\ c.usage = None /\ c.done = FALSE /\ c.delta = NoDelta
          /\ c.text = line.text
      BY <1>4 DEF TextOf, NoChunk
    <2> QED
      BY <1>4, <2>1, <2>2
  <1>5. ASSUME NEW j \in 1 .. Len(line.deltas), c = DeltaOf(line.deltas[j])
        PROVE  /\ c \in Chunk /\ c.native = NoLine /\ c.usage = None /\ c.done = FALSE
               /\ c.delta = line.deltas[j]
    <2>1. line.deltas[j] \in Delta
      BY <1>1 DEF LineFacts
    <2>2. c \in Chunk
      BY <1>5, <2>1, NoChunkType
    <2> QED
      BY <1>5, <2>2 DEF DeltaOf, NoChunk
  <1> QED
    BY <1>3, <1>4, <1>5 DEF Plain

\* The chunk of an event of the Responses wire.
LEMMA ResponsesChunkFields ==
  ASSUME AdapterType, NEW line \in Line, line.type # "unreadable"
  PROVE  \E c \in Chunk :
           /\ ResponsesChunks(line) = <<c>>
           /\ c.native = line /\ c.usage = line.usage /\ c.done = (line.type = "end")
           /\ \/ c.delta = NoDelta
              \/ line.deltas # <<>> /\ c.delta = Relabelled(line)
  <1> DEFINE parsed == IF line.deltas = <<>> THEN NoDelta ELSE Relabelled(line)
             b == (line.type = "end")
             c == [text |-> line.text, delta |-> parsed, done |-> b,
                   native |-> line, usage |-> line.usage]
  <1>1. LineFacts(line)
    BY LineType
  <1>2. parsed \in Delta \cup {NoDelta}
    BY RelabelledType
  <1>3. b \in BOOLEAN
    OBVIOUS
  <1>4. ResponsesChunks(line) = <<c>>
    BY DEF ResponsesChunks
  <1>5. parsed = NoDelta \/ (line.deltas # <<>> /\ parsed = Relabelled(line))
    OBVIOUS
  <1>6. c.native = line /\ c.usage = line.usage /\ c.done = b /\ c.delta = parsed
    OBVIOUS
  <1> HIDE DEF parsed, b
  <1>7. c \in Chunk
    BY <1>1, <1>2, <1>3 DEF Chunk, LineFacts
  <1> HIDE DEF c
  <1> QED
    BY <1>4, <1>5, <1>6, <1>7 DEF b

\* What is said stays said.
LEMMA SaidGrows ==
  ASSUME said \in Seq(Line), NEW line \in Line, said' = Append(said, line)
  PROVE  /\ said' \in Seq(Line) /\ Len(said') = Len(said) + 1 /\ said' # <<>>
         /\ LastLine' = line
         /\ \A m \in 1 .. Len(said) : m \in 1 .. Len(said') /\ said'[m] = said[m]
         /\ \A m \in 1 .. Len(said') : m \in 1 .. Len(said) \/ (m = Len(said') /\ said'[m] = line)
  <1>1. /\ said' \in Seq(Line) /\ Len(said') = Len(said) + 1 /\ said' # <<>>
        /\ said'[Len(said')] = line
        /\ \A m \in 1 .. Len(said) : m \in 1 .. Len(said') /\ said'[m] = said[m]
        /\ \A m \in 1 .. Len(said') : m \in 1 .. Len(said) \/ (m = Len(said') /\ said'[m] = line)
    OBVIOUS
  <1> QED
    BY <1>1 DEF LastLine

\* A line that introduces an item is the last to do so, and one that does not
\* leaves the last as it is.
LEMMA Introducing ==
  ASSUME said \in Seq(Line), NEW line \in Line, said' = Append(said, line), NEW i
  PROVE  IF line.type = "added" /\ line.item = i
         THEN Introduced(Len(said), i)' /\ LastLine' = line
         ELSE /\ NotIntroduced(i) => NotIntroduced(i)'
              /\ \A m : Introduced(m, i) => Introduced(m, i)' /\ said'[m] = said[m]
  <1>1. /\ Len(said) \in Nat /\ Len(said') = Len(said) + 1
        /\ said'[Len(said')] = line
        /\ \A m \in 1 .. Len(said) : m \in 1 .. Len(said') /\ said'[m] = said[m]
        /\ \A m \in 1 .. Len(said') : m \in 1 .. Len(said) \/ (m = Len(said') /\ said'[m] = line)
    BY SaidGrows DEF LastLine
  <1>2. CASE line.type = "added" /\ line.item = i
    <2>1. Introduces(Len(said), i)'
      BY <1>1, <1>2 DEF Introduces
    <2>2. Introduced(Len(said), i)'
      BY <1>1, <2>1 DEF Introduced
    <2> QED
      BY <1>1, <1>2, <2>2 DEF LastLine
  <1>3. CASE ~(line.type = "added" /\ line.item = i)
    <2>1. NotIntroduced(i) => NotIntroduced(i)'
      BY <1>1, <1>3 DEF NotIntroduced, Introduces
    <2>2. ASSUME NEW m, Introduced(m, i) PROVE Introduced(m, i)' /\ said'[m] = said[m]
      <3>1. m \in 1 .. Len(said) /\ said'[m] = said[m] /\ m \in 1 .. Len(said')
        BY <1>1, <2>2 DEF Introduced
      <3>2. ASSUME NEW l \in m + 1 .. Len(said') PROVE ~Introduces(l, i)'
        <4>1. l \in 1 .. Len(said')
          BY <3>1
        <4>2. CASE l \in 1 .. Len(said)
          <5>1. l \in m + 1 .. Len(said)
            BY <3>1, <3>2, <4>2
          <5> QED
            BY <1>1, <2>2, <4>2, <5>1 DEF Introduced, Introduces
        <4>3. CASE l = Len(said') /\ said'[l] = line
          BY <1>3, <4>3 DEF Introduces
        <4> QED
          BY <1>1, <4>1, <4>2, <4>3
      <3> QED
        BY <2>2, <3>1, <3>2 DEF Introduced, Introduces
    <2> QED
      BY <1>3, <2>1, <2>2
  <1> QED
    BY <1>2, <1>3

\* The adapter learns what a line introduces.
LEMMA CallsLearnt ==
  ASSUME AdapterType, NEW line \in Line, said' = Append(said, line), calls' = CallsWith(line),
         line.type = "added" => line.deltas # <<>>
  PROVE  /\ calls' \in [ItemId \cup {None} -> Known \cup {NotKnown}]
         /\ CallsKnown => CallsKnown'
  <1>1. said \in Seq(Line) /\ LineFacts(line)
        /\ calls \in [ItemId \cup {None} -> Known \cup {NotKnown}]
    BY LineType DEF AdapterType
  <1>2. CASE line.type # "added"
    <2>1. calls' = calls
      BY <1>2 DEF CallsWith
    <2>2. ASSUME NEW i \in ItemId \cup {None}, ItemKnown(i) PROVE ItemKnown(i)'
      <3>1. /\ NotIntroduced(i) => NotIntroduced(i)'
            /\ \A m : Introduced(m, i) => Introduced(m, i)' /\ said'[m] = said[m]
        BY <1>1, <1>2, Introducing
      <3> QED
        BY <2>1, <2>2, <3>1 DEF ItemKnown
    <2> QED
      BY <1>1, <2>1, <2>2 DEF CallsKnown
  <1>3. CASE line.type = "added"
    <2> DEFINE d == line.deltas[1]
               entry == [index |-> d.index, label |-> d.label]
    <2>1. line.item \in ItemId \cup {None} /\ d \in Delta
      BY <1>1, <1>3 DEF LineFacts
    <2>2. calls' = [calls EXCEPT ![line.item] = entry]
      BY <1>3 DEF CallsWith
    <2>3. entry \in Known /\ entry.index = d.index /\ entry.label = d.label
      BY <2>1 DEF Known, Delta
    <2> HIDE DEF entry
    <2>4. calls' \in [ItemId \cup {None} -> Known \cup {NotKnown}]
      BY <1>1, <2>2, <2>3
    <2>5. ASSUME NEW i \in ItemId \cup {None}, ItemKnown(i) PROVE ItemKnown(i)'
      <3>1. CASE i = line.item
        <4>1. Introduced(Len(said), i)' /\ LastLine' = line
          BY <1>1, <1>3, <3>1, Introducing
        <4>2. calls'[i] = entry
          BY <1>1, <2>1, <2>2, <3>1
        <4>3. \E m : Introduced(m, i)' /\ said'[m] = line
          BY <4>1 DEF LastLine
        <4> QED
          BY <2>3, <4>2, <4>3 DEF ItemKnown
      <3>2. CASE i # line.item
        <4>1. /\ NotIntroduced(i) => NotIntroduced(i)'
              /\ \A m : Introduced(m, i) => Introduced(m, i)' /\ said'[m] = said[m]
          BY <1>1, <3>2, Introducing
        <4>2. calls'[i] = calls[i]
          BY <1>1, <2>1, <2>2, <3>2
        <4> QED
          BY <2>5, <4>1, <4>2 DEF ItemKnown
      <3> QED
        BY <3>1, <3>2
    <2> QED
      BY <2>4, <2>5 DEF CallsKnown
  <1> QED
    BY <1>2, <1>3

\* A line is read and makes its chunks.
LEMMA ReadLineInv ==
  ASSUME AdapterInv, NEW line \in Wire[kind], ReadLine(line)
  PROVE  /\ AdapterInv'
         /\ ~HasEnded
         /\ HasEnded' <=> line.type = "end"
         /\ kind = "responses" /\ line.type = "end" => pending' # <<>>
         /\ LastLine' = line
  <1>1. AdapterType /\ AwaitsLine /\ ~LastWord /\ kind \in Kind
    BY DEF AdapterInv, AdapterType, ReadLine
  <1>0. /\ line \in Line /\ LineFacts(line)
        /\ kind # "chat" => OneThing(line)
        /\ kind # "responses" => line.usage = None
    BY <1>1, WireFacts, LineType
  <1>2. /\ kind' = kind /\ said' = Append(said, line) /\ calls' = CallsWith(line)
        /\ pending' = Chunks(line)
        /\ reading' = Reading(line)
    BY DEF ReadLine
  <1>3. /\ said' \in Seq(Line) /\ Len(said') = Len(said) + 1 /\ said' # <<>>
        /\ LastLine' = line
        /\ \A m \in 1 .. Len(said) : m \in 1 .. Len(said') /\ said'[m] = said[m]
        /\ \A m \in 1 .. Len(said') : m \in 1 .. Len(said) \/ (m = Len(said') /\ said'[m] = line)
    BY <1>0, <1>1, <1>2, SaidGrows DEF AdapterType
  <1>4. ~HasEnded
    <2>1. Len(said) \in Nat
      BY <1>1 DEF AdapterType
    <2> SUFFICES ASSUME HasEnded PROVE FALSE
      OBVIOUS
    <2>2. PICK m \in 1 .. Len(said) : said[m].type = "end"
      BY DEF HasEnded
    <2>3. m = Len(said) /\ said # <<>>
      BY <2>1, <2>2 DEF AdapterInv
    <2> QED
      BY <1>1, <2>2, <2>3 DEF LastWord, Last
  <1>5. HasEnded' <=> line.type = "end"
    <2>1. \A m \in 1 .. Len(said) : said[m].type # "end"
      BY <1>4 DEF HasEnded
    <2>2. Len(said') \in 1 .. Len(said') /\ said'[Len(said')] = line
      BY <1>1, <1>3 DEF AdapterType, LastLine
    <2> QED
      BY <1>3, <2>1, <2>2 DEF HasEnded
  <1>6. line.type = "added" => line.deltas # <<>>
    <2>1. CASE kind = "chat"
      BY <2>1, ChatLineFacts
    <2>2. CASE kind # "chat"
      BY <1>0, <2>2 DEF OneThing
    <2> QED
      BY <2>1, <2>2
  <1>7. /\ calls' \in [ItemId \cup {None} -> Known \cup {NotKnown}]
        /\ CallsKnown => CallsKnown'
    BY <1>0, <1>1, <1>2, <1>6, CallsLearnt
  <1>8. reading' \in {"lines", "returned", "raised"}
        /\ (line.type = "end" /\ kind # "responses" => reading' = "returned")
    BY <1>2 DEF Reading
  <1>9. \A m \in 1 .. Len(said') : said'[m].type = "end" => m = Len(said')
    BY <1>3, <1>4 DEF HasEnded
  <1>10. CASE kind # "responses"
    <2>1. pending' \in Seq(Plain(line))
      BY <1>0, <1>1, <1>2, <1>10, ChatPlain, MessagesPlain DEF Chunks, Kind
    <2>2. \A c \in Plain(line) : c \in Chunk /\ Shows(c)'
      <3> TAKE c \in Plain(line)
      <3>1. /\ c \in Chunk
            /\ c.native = NoLine /\ c.usage = None
            /\ c.done => line.type = "end"
            /\ \/ c.text # None \/ c.done
               \/ \E j \in 1 .. Len(line.deltas) : c.delta = line.deltas[j]
        BY <1>0, PlainFields
      <3>2. \A j \in 1 .. Len(line.deltas) : line.deltas[j] # NoDelta
        <4> TAKE j \in 1 .. Len(line.deltas)
        <4>1. line.deltas[j] \in Delta
          BY <1>0 DEF LineFacts
        <4>2. line.deltas[j].index \in Index /\ NoDelta.index = None
          BY <4>1 DEF Delta, NoDelta
        <4> QED
          BY <4>2, ChunkAssumption
      <3>3. c.text # None \/ c.done \/ c.delta # NoDelta
        BY <3>1, <3>2
      <3> QED
        BY <1>2, <1>5, <1>10, <3>1, <3>3 DEF Shows
    <2>3. pending' \in Seq(Chunk) /\ PendingShown'
      <3> DEFINE S == Plain(line)
      <3>1. pending' \in Seq(S) /\ S \subseteq Chunk
        BY <2>1, <2>2
      <3> HIDE DEF S
      <3>2. pending' \in Seq(Chunk) /\ \A n \in 1 .. Len(pending') : pending'[n] \in S
        BY <3>1
      <3>3. \A n \in 1 .. Len(pending') : \A c : pending'[n] = c => Shows(c)'
        BY <2>2, <3>2 DEF S
      <3> QED
        BY <3>2, <3>3 DEF PendingShown, Shows, NamesItsCall, LastLine
    <2>4. \A m \in 1 .. Len(said') : said'[m].usage = None
      BY <1>0, <1>3, <1>10 DEF AdapterInv
    <2>5. AdapterType'
      BY <1>1, <1>2, <1>3, <1>7, <1>8, <2>3 DEF AdapterType, Known
    <2> QED
      BY <1>2, <1>3, <1>4, <1>5, <1>8, <1>9, <1>10, <2>3, <2>4, <2>5 DEF AdapterInv
  <1>11. CASE kind = "responses" /\ line.type = "unreadable"
    <2>1. pending' = <<>>
      BY <1>2, <1>11 DEF Chunks, ResponsesChunks
    <2>2. pending' \in Seq(Chunk) /\ Len(pending') <= 1 /\ \A n \in 1 .. Len(pending') : FALSE
      BY <2>1
    <2>3. AdapterType'
      BY <1>1, <1>2, <1>3, <1>7, <1>8, <2>2 DEF AdapterType, Known
    <2>4. PendingShown' /\ CallsKnown'
      BY <1>7, <1>11, <2>2 DEF PendingShown, AdapterInv
    <2> QED
      BY <1>2, <1>3, <1>4, <1>5, <1>9, <1>11, <2>2, <2>3, <2>4 DEF AdapterInv
  <1>12. CASE kind = "responses" /\ line.type # "unreadable"
    <2>1. PICK c \in Chunk :
            /\ ResponsesChunks(line) = <<c>>
            /\ c.native = line /\ c.usage = line.usage /\ c.done = (line.type = "end")
            /\ \/ c.delta = NoDelta
               \/ line.deltas # <<>> /\ c.delta = Relabelled(line)
      BY <1>0, <1>1, <1>12, ResponsesChunkFields
    <2>2. pending' = <<c>>
      BY <1>2, <1>12, <2>1 DEF Chunks
    <2>3. ASSUME line.type = "content", c.delta # NoDelta
          PROVE  NamesItsCall(line, c.delta)'
      <3>1. line.deltas # <<>> /\ c.delta = Relabelled(line)
        BY <2>1, <2>3
      <3>2. line.item \in ItemId \cup {None}
        BY <1>0 DEF LineFacts
      <3>3. ItemKnown(line.item)
        BY <1>12, <3>2 DEF AdapterInv, CallsKnown
      <3>4. /\ NotIntroduced(line.item) => NotIntroduced(line.item)'
            /\ \A m : Introduced(m, line.item) => Introduced(m, line.item)' /\ said'[m] = said[m]
        BY <1>0, <1>1, <1>2, <2>3, Introducing DEF AdapterType
      <3>5. CASE calls[line.item] = NotKnown /\ NotIntroduced(line.item)
        <4>1. c.delta = line.deltas[1]
          BY <1>0, <1>1, <2>3, <3>1, <3>5, RelabelledType
        <4> QED
          BY <3>4, <3>5, <4>1 DEF NamesItsCall
      <3>6. CASE calls[line.item] \in Known
        <4>1. PICK m : /\ Introduced(m, line.item)
                       /\ calls[line.item].index = said[m].deltas[1].index
                       /\ calls[line.item].label = said[m].deltas[1].label
          <5>1. calls[line.item] # NotKnown
            BY <3>6, ChunkAssumption DEF NotKnown, Known
          <5> QED
            BY <3>3, <5>1 DEF ItemKnown
        <4>2. /\ c.delta.index = calls[line.item].index
              /\ c.delta.label = calls[line.item].label
              /\ c.delta.args = line.deltas[1].args
          BY <1>0, <1>1, <2>3, <3>1, <3>6, RelabelledType
        <4>3. Introduced(m, line.item)' /\ said'[m] = said[m]
          BY <3>4, <4>1
        <4> QED
          BY <4>1, <4>2, <4>3 DEF NamesItsCall
      <3> QED
        BY <3>3, <3>5, <3>6 DEF ItemKnown
    <2>4. Shows(c)'
      <3>1. LastLine' = line /\ said' # <<>>
        BY <1>3
      <3>2. LastLine'.type = "content" /\ c.delta # NoDelta => NamesItsCall(LastLine, c.delta)'
        BY <2>3, <3>1 DEF NamesItsCall
      <3> QED
        BY <1>2, <1>5, <1>12, <2>1, <3>1, <3>2 DEF Shows
    <2>5. /\ pending' \in Seq(Chunk) /\ Len(pending') = 1 /\ pending' # <<>>
          /\ \A n \in 1 .. Len(pending') : pending'[n] = c
      BY <2>2
    <2>6. AdapterType'
      BY <1>1, <1>2, <1>3, <1>7, <1>8, <2>5 DEF AdapterType, Known
    <2>7. PendingShown'
      BY <2>4, <2>5 DEF PendingShown, Shows, NamesItsCall, LastLine
    <2>8. CallsKnown'
      BY <1>7, <1>12 DEF AdapterInv
    <2> QED
      BY <1>2, <1>3, <1>4, <1>5, <1>9, <1>12, <2>5, <2>6, <2>7, <2>8 DEF AdapterInv
  <1> QED
    BY <1>10, <1>11, <1>12

\* A generator that ends, well or badly, keeps what it said.
LEMMA StopsInv ==
  ASSUME AdapterInv, UpstreamCloses \/ HttpError
  PROVE  AdapterInv' /\ UNCHANGED <<kind, said, calls, pending>>
  <1>1. UNCHANGED <<kind, said, calls, pending>> /\ reading = "lines"
    BY DEF UpstreamCloses, HttpError, AwaitsLine
  <1>2. reading' \in {"lines", "returned", "retryable", "terminal", "raised"}
    BY DEF UpstreamCloses, HttpError
  <1>3. kind # "responses" => ~HasEnded
    BY <1>1 DEF AdapterInv
  <1>4. HasEnded' = HasEnded /\ CallsKnown' = CallsKnown /\ PendingShown' = PendingShown
    BY <1>1 DEF HasEnded, CallsKnown, ItemKnown, PendingShown, Shows, NamesItsCall, NotIntroduced,
                Introduced, Introduces, LastLine
  <1> QED
    BY <1>1, <1>2, <1>3, <1>4 DEF AdapterInv, AdapterType

\* A chunk that is delivered is no longer pending.
LEMMA DeliveredInv ==
  ASSUME AdapterInv, pending # <<>>, pending' = Tail(pending),
         UNCHANGED <<kind, said, calls, reading>>
  PROVE  /\ AdapterInv'
         /\ Head(pending) \in Chunk /\ Shows(Head(pending))
         /\ kind = "responses" => pending' = <<>>
  <1>1. pending \in Seq(Chunk)
    BY DEF AdapterInv, AdapterType
  <1>2. /\ Head(pending) = pending[1] /\ 1 \in 1 .. Len(pending) /\ pending[1] \in Chunk
        /\ pending' \in Seq(Chunk) /\ Len(pending') = Len(pending) - 1
        /\ \A n \in 1 .. Len(pending') : n + 1 \in 1 .. Len(pending) /\ pending'[n] = pending[n + 1]
    BY <1>1
  <1>3. HasEnded' = HasEnded /\ CallsKnown' = CallsKnown
    BY DEF HasEnded, CallsKnown, ItemKnown, NotIntroduced, Introduced, Introduces
  <1>4. \A n \in 1 .. Len(pending') : Shows(pending[n + 1])
    BY <1>2 DEF AdapterInv, PendingShown
  <1>5. PendingShown'
    BY <1>2, <1>3, <1>4 DEF PendingShown, Shows, NamesItsCall, NotIntroduced, Introduced,
                            Introduces, LastLine
  <1>6. Len(pending') <= 1 \/ kind # "responses"
    BY <1>1, <1>2 DEF AdapterInv
  <1>7. kind = "responses" => pending' = <<>>
    BY <1>1, <1>2 DEF AdapterInv
  <1>8. Shows(Head(pending))
    BY <1>2 DEF AdapterInv, PendingShown
  <1> QED
    BY <1>2, <1>3, <1>5, <1>6, <1>7, <1>8 DEF AdapterInv, AdapterType

-----------------------------------------------------------------------------
(***************************************************************************)
(* The service and the route.                                              *)
(***************************************************************************)
ServiceType ==
  /\ route \in {"chat", "messages", "responses"}
  /\ attempt \in 1 .. MaxAttempts
  /\ committed \in BOOLEAN
  /\ observed \in Usage \cup {None}
  /\ outcome \in {"open", "success", "failure", "none"}
  /\ recorded \in Usage \cup {None}
  /\ mode \in {"undecided", "native", "rendered"}
  /\ client \in {"reading", "ended", "broken", "gone"}
  /\ text \in Seq(Fragment)
  /\ passed \in Seq(Line)
  /\ marker \in BOOLEAN

\* While an attempt is open, what stream() has observed of its usage is what
\* the delivered chunks said of it.
UsageInv ==
  /\ outcome \in {"open", "success"} =>
       observed = IF kind = "responses" /\ HasEnded /\ pending = <<>>
                  THEN LastLine.usage ELSE None
  /\ outcome = "success" => recorded = observed /\ pending = <<>>
  /\ outcome # "success" => recorded = None

\* Nothing reaches a client before the attempt is committed.
ModeInv ==
  /\ mode # "undecided" => committed /\ route = "responses"
  /\ mode = "rendered" => kind # "responses"
  /\ mode = "native" => kind = "responses"
  /\ text # <<>> => committed
  /\ passed # <<>> => mode = "native"
  /\ order # <<>> => mode = "rendered"

\* How an answer ends.
EndInv ==
  /\ stage \in {"ending", "completed"} => Rendering /\ outcome = "success"
  /\ outcome = "failure" => reading \in {"retryable", "terminal"}
  /\ marker => committed \/ outcome = "success"
  /\ marker /\ ~Rendering => HasEnded
  /\ marker /\ Rendering => stage = "completed"

PipeInv == AdapterInv /\ ServiceType /\ UsageInv /\ ModeInv /\ EndInv

\* A request starts in order.
LEMMA InitPipe == PipelineInit => PipeInv /\ Init
  <1> SUFFICES ASSUME PipelineInit PROVE PipeInv /\ Init
    OBVIOUS
  <1>1. Init /\ stage = "open" /\ order = <<>>
    BY DEF PipelineInit, Init
  <1>2. kind \in Kind /\ said = <<>> /\ pending = <<>> /\ reading = "lines"
        /\ calls = [i \in ItemId \cup {None} |-> NotKnown]
    BY DEF PipelineInit
  <1>3. AdapterType
    BY <1>2 DEF AdapterType
  <1>4. (\A m \in 1 .. Len(said) : FALSE) /\ (\A n \in 1 .. Len(pending) : FALSE)
        /\ Len(pending) <= 1
    BY <1>2
  <1>5. ~HasEnded
    BY <1>4 DEF HasEnded
  <1>6. CallsKnown
    BY <1>2, NothingKnown
  <1>7. AdapterInv
    BY <1>2, <1>3, <1>4, <1>5, <1>6 DEF AdapterInv, PendingShown
  <1>8. ServiceType
    <2>1. /\ route \in {"chat", "messages", "responses"} /\ attempt = 1 /\ committed = FALSE
          /\ observed = None /\ outcome = "open" /\ recorded = None /\ mode = "undecided"
          /\ client = "reading" /\ text = <<>> /\ passed = <<>> /\ marker = FALSE
      BY DEF PipelineInit
    <2>2. 1 \in 1 .. MaxAttempts
      BY PipelineAssumption
    <2>3. text \in Seq(Fragment) /\ passed \in Seq(Line)
      BY <2>1
    <2> QED
      BY <2>1, <2>2, <2>3 DEF ServiceType
  <1>9. UsageInv /\ ModeInv /\ EndInv
    BY <1>1, <1>5 DEF PipelineInit, UsageInv, ModeInv, EndInv
  <1> QED
    BY <1>1, <1>7, <1>8, <1>9 DEF PipeInv

\* The end of an answer depends on these only.
LEMMA EndsAlike ==
  ASSUME UNCHANGED said
  PROVE  HasEnded' = HasEnded /\ LastLine' = LastLine
  BY DEF HasEnded, LastLine

\* The adapter reads a line, or stops.
LEMMA PullInv ==
  ASSUME PipeInv, Pull
  PROVE  PipeInv' /\ UNCHANGED vars
  <1>1. UNCHANGED <<serviceVars, routeVars, vars>> /\ outcome = "open" /\ AwaitsLine
    BY DEF Pull, AdapterStep
  <1>2. ServiceType' /\ UNCHANGED <<vars, stage, order, mode, route, text, passed, marker,
                                    committed, observed, outcome, recorded>>
    BY <1>1 DEF PipeInv, ServiceType, serviceVars, routeVars, vars, rendererVars
  <1>3. CASE UpstreamCloses \/ HttpError
    <2>1. AdapterInv' /\ UNCHANGED <<kind, said, calls, pending>>
      BY <1>3, StopsInv DEF PipeInv
    <2>2. HasEnded' = HasEnded /\ LastLine' = LastLine
      BY <2>1, EndsAlike
    <2>3. UsageInv' /\ ModeInv' /\ EndInv'
      BY <1>1, <1>2, <2>1, <2>2 DEF PipeInv, UsageInv, ModeInv, EndInv, Rendering
    <2> QED
      BY <1>2, <2>1, <2>3 DEF PipeInv
  <1>4. ASSUME NEW line \in Wire[kind], ReadLine(line) PROVE PipeInv'
    <2>1. /\ AdapterInv'
          /\ ~HasEnded
          /\ HasEnded' <=> line.type = "end"
          /\ kind = "responses" /\ line.type = "end" => pending' # <<>>
      BY <1>4, ReadLineInv DEF PipeInv
    <2>2. kind' = kind
      BY <1>4 DEF ReadLine
    <2>3. observed = None /\ recorded = None
      BY <1>1, <2>1 DEF PipeInv, UsageInv
    <2>4. UsageInv'
      BY <1>1, <1>2, <2>1, <2>2, <2>3 DEF UsageInv
    <2>5. ModeInv' /\ EndInv'
      BY <1>1, <1>2, <2>1, <2>2 DEF PipeInv, ModeInv, EndInv, Rendering
    <2> QED
      BY <1>2, <2>1, <2>4, <2>5 DEF PipeInv
  <1> QED
    BY <1>2, <1>3, <1>4 DEF Pull, AdapterStep

\* What a chunk gives the renderer.
LEMMA RenderStep ==
  ASSUME NEW chunk \in Chunk, RenderEvents(chunk),
         chunk.text # None \/ chunk.done \/ chunk.delta # NoDelta
  PROVE  [Next]_vars /\ stage' = stage
  <1>1. CASE chunk.done
    BY <1>1 DEF RenderEvents, vars, rendererVars
  <1>2. CASE ~chunk.done /\ chunk.text # None
    <2>1. chunk.text \in Fragment
      BY <1>2 DEF Chunk
    <2>2. TextChunk(chunk.text)
      BY <1>2 DEF RenderEvents
    <2>3. stage' = stage
      BY <2>2 DEF TextChunk
    <2> QED
      BY <2>1, <2>2, <2>3 DEF Next, ChunkStep
  <1>3. CASE ~chunk.done /\ chunk.text = None
    <2> DEFINE k == chunk.delta.index
               id == chunk.delta.label.call_id
               n == chunk.delta.label.name
               f == chunk.delta.args
    <2>1. chunk.delta \in Delta
      BY <1>3 DEF Chunk
    <2>2. k \in Index /\ f \in Fragment \cup {None} /\ chunk.delta.label \in Label
      BY <2>1 DEF Delta
    <2>3. id \in CallId \cup {None} /\ n \in AnyName
      BY <2>2 DEF Label, AnyName
    <2>4. FunctionChunk(k, id, n, f)
      BY <1>3 DEF RenderEvents
    <2> HIDE DEF k, id, n, f
    <2>5. stage' = stage
      BY <2>4 DEF FunctionChunk
    <2> QED
      BY <2>2, <2>3, <2>4, <2>5 DEF Next, ChunkStep
  <1> QED
    BY <1>1, <1>2, <1>3

\* A chunk goes to the client.
LEMMA DeliverInv ==
  ASSUME PipeInv, Deliver
  PROVE  PipeInv' /\ [Next]_vars
  <1> DEFINE chunk == Head(pending)
  <1>1. /\ outcome = "open" /\ pending # <<>> /\ pending' = Tail(pending)
        /\ observed' = Observed(chunk) /\ committed' = (committed \/ Commits(chunk))
        /\ UNCHANGED <<kind, said, calls, reading, route, attempt, outcome, recorded, client>>
        /\ IF route # "responses" THEN RenderPlain(chunk)
           ELSE IF Native(chunk) THEN PassOn(chunk)
           ELSE RenderEvents(chunk)
    BY DEF Deliver
  <1>2. /\ AdapterInv' /\ chunk \in Chunk /\ Shows(chunk)
        /\ kind = "responses" => pending' = <<>>
    BY <1>1, DeliveredInv DEF PipeInv
  <1>3. HasEnded' = HasEnded /\ LastLine' = LastLine
    BY <1>1, EndsAlike
  <1> HIDE DEF chunk
  <1>4. kind = "responses" => /\ LastLine \in Line /\ LineFacts(LastLine)
                              /\ LastLine.type = "end" => HasEnded
    <2> SUFFICES ASSUME kind = "responses" PROVE /\ LastLine \in Line /\ LineFacts(LastLine)
                                                 /\ LastLine.type = "end" => HasEnded
      OBVIOUS
    <2>1. said \in Seq(Line) /\ said # <<>>
      BY <1>2 DEF Shows, PipeInv, AdapterInv, AdapterType
    <2>2. Len(said) \in 1 .. Len(said) /\ said[Len(said)] \in Line
      BY <2>1
    <2> QED
      BY <2>2, LineType DEF LastLine, HasEnded
  <1>5. /\ kind = "responses" => chunk.native = LastLine /\ chunk.native # NoLine
        /\ kind # "responses" => /\ chunk.native = NoLine /\ chunk.usage = None
                                 /\ chunk.text # None \/ chunk.done \/ chunk.delta # NoDelta
        /\ kind = "responses" => chunk.usage = LastLine.usage
    BY <1>2, <1>4, NoLineIsNone DEF Shows
  <1>6. committed' = TRUE
    BY <1>1, <1>5 DEF Commits, PipeInv, ServiceType
  <1>7. UsageInv'
    <2>1. CASE kind = "responses"
      <3>1. observed = None /\ recorded = None
        BY <1>1 DEF PipeInv, UsageInv
      <3>2. chunk.usage # None => HasEnded
        BY <1>4, <1>5, <2>1 DEF LineFacts
      <3>3. observed' = LastLine.usage
        BY <1>1, <1>5, <2>1, <3>1 DEF Observed
      <3>4. ~HasEnded => LastLine.usage = None
        BY <1>5, <2>1, <3>2
      <3> QED
        BY <1>1, <1>2, <1>3, <2>1, <3>1, <3>3, <3>4 DEF UsageInv
    <2>2. CASE kind # "responses"
      <3>1. observed = None /\ recorded = None
        BY <1>1, <2>2 DEF PipeInv, UsageInv
      <3>2. observed' = None
        BY <1>1, <1>5, <2>2, <3>1 DEF Observed
      <3> QED
        BY <1>1, <2>2, <3>1, <3>2 DEF UsageInv
    <2> QED
      BY <2>1, <2>2
  <1>8. observed' \in Usage \cup {None}
    BY <1>1, <1>2 DEF Observed, Chunk, PipeInv, ServiceType
  <1>9. CASE route # "responses"
    <2>1. RenderPlain(chunk)
      BY <1>1, <1>9
    <2>2. /\ marker' = (marker \/ chunk.done)
          /\ text' = IF chunk.text = None THEN text ELSE Append(text, chunk.text)
          /\ UNCHANGED <<mode, passed, vars>>
      BY <2>1 DEF RenderPlain
    <2>3. text' \in Seq(Fragment)
      <3>1. chunk.text = None \/ chunk.text \in Fragment
        BY <1>2 DEF Chunk
      <3>2. text \in Seq(Fragment)
        BY DEF PipeInv, ServiceType
      <3> QED
        BY <2>2, <3>1, <3>2
    <2>4. stage' = stage /\ order' = order
      BY <2>2 DEF vars, rendererVars
    <2>5. chunk.done \in BOOLEAN /\ (chunk.done => HasEnded)
      BY <1>2 DEF Chunk, Shows
    <2>6. ServiceType'
      BY <1>1, <1>6, <1>8, <2>2, <2>3, <2>5 DEF PipeInv, ServiceType
    <2>7. ModeInv'
      BY <1>1, <1>6, <2>2, <2>4 DEF PipeInv, ModeInv
    <2>8. EndInv'
      BY <1>1, <1>3, <1>6, <1>9, <2>2, <2>4, <2>5 DEF PipeInv, EndInv, Rendering
    <2> QED
      BY <1>2, <1>7, <2>2, <2>6, <2>7, <2>8 DEF PipeInv
  <1>10. CASE route = "responses" /\ Native(chunk)
    <2>1. PassOn(chunk)
      BY <1>1, <1>10
    <2>2. /\ mode' = "native"
          /\ passed' = IF chunk.native = NoLine THEN passed ELSE Append(passed, chunk.native)
          /\ marker' = (marker \/ chunk.native.type = "end")
          /\ UNCHANGED <<text, vars>>
      BY <2>1 DEF PassOn
    <2>3. kind = "responses" /\ mode # "rendered"
      BY <1>5, <1>10 DEF Native, PipeInv, ModeInv
    <2>4. passed' \in Seq(Line)
      <3>1. passed \in Seq(Line) /\ chunk.native \in Line
        BY <1>4, <1>5, <2>3 DEF PipeInv, ServiceType
      <3> QED
        BY <2>2, <3>1
    <2>5. stage' = stage /\ order' = order
      BY <2>2 DEF vars, rendererVars
    <2>6. chunk.native.type = "end" => HasEnded
      BY <1>4, <1>5, <2>3
    <2>7. ServiceType'
      BY <1>1, <1>6, <1>8, <2>2, <2>4 DEF PipeInv, ServiceType
    <2>8. ModeInv'
      BY <1>1, <1>6, <1>10, <2>2, <2>3, <2>5 DEF PipeInv, ModeInv
    <2>9. EndInv'
      BY <1>1, <1>3, <1>6, <1>10, <2>2, <2>3, <2>5, <2>6
         DEF PipeInv, EndInv, Rendering, ServiceType, ModeInv
    <2> QED
      BY <1>2, <1>7, <2>2, <2>7, <2>8, <2>9 DEF PipeInv
  <1>11. CASE route = "responses" /\ ~Native(chunk)
    <2>1. RenderEvents(chunk)
      BY <1>1, <1>11
    <2>2. mode' = "rendered" /\ UNCHANGED <<text, passed, marker>>
      BY <2>1 DEF RenderEvents
    <2>3. kind # "responses" /\ mode # "native"
      BY <1>5, <1>11 DEF Native, PipeInv, ServiceType, ModeInv
    <2>4. [Next]_vars /\ stage' = stage
      BY <1>2, <1>5, <2>1, <2>3, RenderStep
    <2>5. ServiceType'
      BY <1>1, <1>6, <1>8, <2>2 DEF PipeInv, ServiceType
    <2>6. ModeInv'
      BY <1>1, <1>6, <1>11, <2>2, <2>3 DEF PipeInv, ModeInv
    <2>7. EndInv'
      BY <1>1, <1>3, <1>6, <1>11, <2>2, <2>3, <2>4 DEF PipeInv, EndInv, Rendering
    <2> QED
      BY <1>2, <1>7, <2>4, <2>5, <2>6, <2>7 DEF PipeInv
  <1> QED
    BY <1>9, <1>10, <1>11

\* A step that leaves the adapter alone.
LEMMA AdapterKept ==
  ASSUME AdapterInv, UNCHANGED adapterVars
  PROVE  /\ AdapterInv' /\ HasEnded' = HasEnded /\ LastLine' = LastLine
         /\ UNCHANGED <<kind, said, calls, pending, reading>>
  BY DEF AdapterInv, AdapterType, adapterVars, CallsKnown, ItemKnown, PendingShown, Shows,
         NamesItsCall, NotIntroduced, Introduced, Introduces, HasEnded, LastLine

\* The renderer is broken off, or left alone.
LEMMA BreakStep ==
  ASSUME Break \/ UNCHANGED vars
  PROVE  /\ [Next]_vars /\ order' = order
         /\ stage' = stage \/ stage' = "cut"
  BY DEF Break, Next, vars, rendererVars

\* The attempt succeeds.
LEMMA AttemptSucceedsInv ==
  ASSUME PipeInv, AttemptSucceeds
  PROVE  PipeInv' /\ [Next]_vars
  <1>1. /\ outcome = "open" /\ pending = <<>> /\ outcome' = "success" /\ recorded' = observed
        /\ UNCHANGED <<route, attempt, committed, observed, mode, text, passed, marker>>
        /\ UNCHANGED adapterVars
    BY DEF AttemptSucceeds
  <1>2. AdapterInv' /\ HasEnded' = HasEnded /\ LastLine' = LastLine
        /\ UNCHANGED <<kind, said, calls, pending, reading>>
    BY <1>1, AdapterKept DEF PipeInv
  <1>3. \/ Rendering /\ EndOfChunks /\ UNCHANGED client
        \/ ~Rendering /\ client' = "ended" /\ UNCHANGED vars
    BY DEF AttemptSucceeds
  <1>4. /\ [Next]_vars /\ order' = order
        /\ stage' \in {"ending", "completed"} =>
             (Rendering /\ stage = "open") \/ stage \in {"ending", "completed"}
    BY <1>3 DEF EndOfChunks, Next, ChunkStep, vars, rendererVars
  <1>5. stage \notin {"ending", "completed"}
    BY <1>1 DEF PipeInv, EndInv
  <1>6. ServiceType'
    BY <1>1, <1>3 DEF PipeInv, ServiceType
  <1>7. UsageInv'
    BY <1>1, <1>2 DEF PipeInv, UsageInv
  <1>8. ModeInv'
    BY <1>1, <1>2, <1>4 DEF PipeInv, ModeInv
  <1>9. EndInv'
    BY <1>1, <1>2, <1>4, <1>5 DEF PipeInv, EndInv, Rendering
  <1> QED
    BY <1>2, <1>4, <1>6, <1>7, <1>8, <1>9 DEF PipeInv

\* The request ends without a success: the failure of the last attempt, an
\* exception that nothing catches, or a client that is gone.
LEMMA OverInv ==
  ASSUME PipeInv, Break \/ UNCHANGED vars, UNCHANGED adapterVars,
         UNCHANGED <<route, attempt, committed, observed, recorded, mode, text, passed, marker>>,
         client' \in {"broken", "gone"},
         \/ outcome = "open" /\ outcome' \in {"failure", "none"}
         \/ outcome # "open" /\ outcome' = outcome,
         outcome' = "failure" /\ outcome = "open" => reading \in {"retryable", "terminal"},
         outcome = "success" /\ marker /\ Rendering => UNCHANGED vars
  PROVE  PipeInv' /\ [Next]_vars
  <1>1. AdapterInv' /\ HasEnded' = HasEnded /\ LastLine' = LastLine
        /\ UNCHANGED <<kind, said, calls, pending, reading>>
    BY AdapterKept DEF PipeInv
  <1>2. [Next]_vars /\ order' = order /\ (stage' = stage \/ stage' = "cut")
    BY BreakStep
  <1>3. ServiceType'
    BY DEF PipeInv, ServiceType
  <1>4. UsageInv'
    BY <1>1 DEF PipeInv, UsageInv
  <1>5. ModeInv'
    BY <1>1, <1>2 DEF PipeInv, ModeInv
  <1>6. EndInv'
    <2>1. UNCHANGED vars => stage' = stage
      BY DEF vars, rendererVars
    <2>2. outcome = "open" => stage \notin {"ending", "completed"}
      BY DEF PipeInv, EndInv
    <2>3. marker /\ Rendering => outcome = "success"
      BY DEF PipeInv, EndInv
    <2> QED
      BY <1>1, <1>2, <2>1, <2>2, <2>3 DEF PipeInv, EndInv, Rendering
  <1> QED
    BY <1>1, <1>2, <1>3, <1>4, <1>5, <1>6 DEF PipeInv

\* The attempt fails: the next provider is called, or the error raised.
LEMMA AttemptFailsInv ==
  ASSUME PipeInv, AttemptFails
  PROVE  PipeInv' /\ [Next]_vars
  <1>1. /\ outcome = "open" /\ reading \in {"retryable", "terminal"} /\ RaiseOrRetry
        /\ UNCHANGED <<route, recorded, mode, text, passed, marker>>
    BY DEF AttemptFails
  <1>2. CASE committed \/ reading = "terminal" \/ attempt = MaxAttempts
    <2>1. /\ BreakOff /\ outcome' = "failure" /\ UNCHANGED adapterVars
          /\ UNCHANGED <<attempt, committed, observed>>
      BY <1>1, <1>2 DEF RaiseOrRetry
    <2>2. client' = "broken" /\ (Break \/ UNCHANGED vars)
      BY <2>1 DEF BreakOff
    <2> QED
      BY <1>1, <2>1, <2>2, OverInv
  <1>3. CASE ~(committed \/ reading = "terminal" \/ attempt = MaxAttempts)
    <2>1. /\ attempt' = attempt + 1 /\ committed' = FALSE /\ observed' = None
          /\ UNCHANGED <<client, outcome, vars>>
      BY <1>1, <1>3 DEF RaiseOrRetry
    <2>2. PICK k \in Kind : Calling(k)
      BY <1>1, <1>3 DEF RaiseOrRetry
    <2>3. AdapterInv' /\ pending' = <<>> /\ ~HasEnded'
      BY <2>2, CallingInv
    <2>4. attempt' \in 1 .. MaxAttempts
      BY <1>3, <2>1, PipelineAssumption DEF PipeInv, ServiceType
    <2>5. ServiceType'
      BY <1>1, <2>1, <2>4 DEF PipeInv, ServiceType
    <2>6. stage' = stage /\ order' = order
      BY <2>1 DEF vars, rendererVars
    <2>7. /\ mode = "undecided" /\ text = <<>> /\ passed = <<>> /\ order = <<>> /\ ~marker
          /\ recorded = None
      BY <1>1, <1>3 DEF PipeInv, ModeInv, EndInv, UsageInv
    <2>8. UsageInv' /\ ModeInv' /\ EndInv'
      BY <1>1, <2>1, <2>3, <2>6, <2>7 DEF PipeInv, UsageInv, ModeInv, EndInv
    <2> QED
      BY <2>1, <2>3, <2>5, <2>8 DEF PipeInv
  <1> QED
    BY <1>2, <1>3

\* An exception of the parser.
LEMMA AttemptRaisesInv ==
  ASSUME PipeInv, AttemptRaises
  PROVE  PipeInv' /\ [Next]_vars
  <1>1. /\ outcome = "open" /\ BreakOff /\ outcome' = "none" /\ UNCHANGED adapterVars
        /\ UNCHANGED <<route, attempt, committed, observed, recorded, mode, text, passed, marker>>
    BY DEF AttemptRaises
  <1>2. client' = "broken" /\ (Break \/ UNCHANGED vars)
    BY <1>1 DEF BreakOff
  <1> QED
    BY <1>1, <1>2, OverInv

\* The client leaves.
LEMMA ClientLeavesInv ==
  ASSUME PipeInv, ClientLeaves
  PROVE  PipeInv' /\ [Next]_vars
  <1>1. /\ client' = "gone" /\ UNCHANGED adapterVars
        /\ outcome' = IF outcome = "open" THEN "none" ELSE outcome
        /\ IF stage \in {"open", "ending"} /\ Rendering THEN Break ELSE UNCHANGED vars
        /\ UNCHANGED <<route, attempt, committed, observed, recorded, mode, text, passed, marker>>
    BY DEF ClientLeaves
  <1>2. Break \/ UNCHANGED vars
    BY <1>1
  <1>3. outcome = "success" /\ marker /\ Rendering => UNCHANGED vars
    BY <1>1 DEF PipeInv, EndInv
  <1> QED
    BY <1>1, <1>2, <1>3, OverInv

\* The events that end a rendered stream.
LEMMA RenderEndInv ==
  ASSUME PipeInv, RenderEnd
  PROVE  PipeInv' /\ [Next]_vars
  <1>1. /\ FinishStep /\ UNCHANGED adapterVars /\ UNCHANGED serviceVars
        /\ UNCHANGED <<mode, text, passed>> /\ marker' = (stage' = "completed")
        /\ client' \in {"ended", "broken", client}
    BY DEF RenderEnd
  <1>2. AdapterInv' /\ HasEnded' = HasEnded /\ LastLine' = LastLine
        /\ UNCHANGED <<kind, said, calls, pending, reading>>
    BY <1>1, AdapterKept DEF PipeInv
  <1>3. stage = "ending" /\ order' = order
    BY <1>1 DEF FinishStep, FinishText, FinishCall, FailUnnamed, Complete, Finishing
  <1>4. Rendering /\ outcome = "success"
    BY <1>3 DEF PipeInv, EndInv
  <1>5. UNCHANGED <<route, attempt, committed, observed, outcome, recorded>>
    BY <1>1 DEF serviceVars
  <1>6. [Next]_vars
    BY <1>1 DEF Next
  <1>7. ServiceType'
    BY <1>1, <1>5 DEF PipeInv, ServiceType
  <1>8. UsageInv'
    BY <1>2, <1>5 DEF PipeInv, UsageInv
  <1>9. ModeInv'
    BY <1>1, <1>2, <1>3, <1>5 DEF PipeInv, ModeInv
  <1>10. EndInv'
    BY <1>1, <1>2, <1>4, <1>5 DEF PipeInv, EndInv, Rendering
  <1> QED
    BY <1>2, <1>6, <1>7, <1>8, <1>9, <1>10 DEF PipeInv

\* Every step keeps the invariant, and is a step of the renderer or none of its
\* concern.
LEMMA PipeStep == PipeInv /\ [PipelineNext]_allVars => PipeInv' /\ [Next]_vars
  <1> SUFFICES ASSUME PipeInv, [PipelineNext]_allVars PROVE PipeInv' /\ [Next]_vars
    OBVIOUS
  <1>1. CASE UNCHANGED allVars
    <2>1. UNCHANGED <<vars, adapterVars, stage, order, route, attempt, committed, observed,
                      outcome, recorded, mode, client, text, passed, marker>>
      BY <1>1 DEF allVars, serviceVars, routeVars, vars, rendererVars
    <2>2. AdapterInv' /\ HasEnded' = HasEnded /\ LastLine' = LastLine
          /\ UNCHANGED <<kind, said, calls, pending, reading>>
      BY <2>1, AdapterKept DEF PipeInv
    <2> QED
      BY <2>1, <2>2 DEF PipeInv, ServiceType, UsageInv, ModeInv, EndInv, Rendering
  <1>2. CASE Pull
    BY <1>2, PullInv
  <1> QED
    BY <1>1, <1>2, DeliverInv, AttemptSucceedsInv, AttemptFailsInv, AttemptRaisesInv,
       RenderEndInv, ClientLeavesInv DEF PipelineNext, StreamStep

\* And stays so.
LEMMA PipeAlways == PipelineSpec => []PipeInv
  BY InitPipe, PipeStep, PTL DEF PipelineSpec

-----------------------------------------------------------------------------
\* The state of a streaming request has its type.
THEOREM PipelineTypeCorrect == PipelineSpec => []PipelineTypeOK
  <1>1. PipeInv => PipelineTypeOK
    BY DEF PipeInv, AdapterInv, AdapterType, ServiceType, PipelineTypeOK, Known
  <1> QED
    BY <1>1, PipeAlways, PTL

\* What is recorded of an answer's usage is what the answer reported, however
\* many attempts it took.
THEOREM UsageIsExact == PipelineSpec => []UsageExact
  <1>1. PipeInv => UsageExact
    <2> SUFFICES ASSUME PipeInv PROVE UsageExact
      OBVIOUS
    <2>1. CASE outcome # "success"
      BY <2>1 DEF PipeInv, UsageInv, UsageExact
    <2>2. CASE outcome = "success" /\ ~HasEnded
      BY <2>2 DEF PipeInv, UsageInv, UsageExact
    <2>3. CASE outcome = "success" /\ HasEnded
      <3>1. PICK m \in 1 .. Len(said) : said[m].type = "end"
        BY <2>3 DEF HasEnded
      <3>2. said[m] = LastLine
        BY <3>1 DEF PipeInv, AdapterInv, LastLine
      <3>3. said[m].usage = recorded
        BY <2>3, <3>1, <3>2 DEF PipeInv, AdapterInv, UsageInv
      <3> QED
        BY <2>3, <3>1, <3>3 DEF UsageExact
    <2> QED
      BY <2>1, <2>2, <2>3
  <1> QED
    BY <1>1, PipeAlways, PTL

\* An end marker is not given for an answer that is cut off.
THEOREM EndMarkersAreEarned == PipelineSpec => []EndMarkerEarned
  <1>1. PipeInv => EndMarkerEarned
    BY DEF PipeInv, EndInv, EndMarkerEarned
  <1> QED
    BY <1>1, PipeAlways, PTL

\* An answer whose end the client has read is not counted as a failure.
THEOREM AnswersDoNotFail == PipelineSpec => []AnsweredNotFailed
  <1>1. PipeInv => AnsweredNotFailed
    BY DEF PipeInv, EndInv, AdapterInv, AnsweredNotFailed
  <1> QED
    BY <1>1, PipeAlways, PTL

\* What the Responses adapter says of a delta of arguments is what the last
\* output_item.added of its item id has said, however often an id is used, by
\* however many items, and of the items without one.
THEOREM LabelsAreTheirOwn == PipelineSpec => []DeltasNameTheirCall
  <1>1. PipeInv => DeltasNameTheirCall
    <2> SUFFICES ASSUME PipeInv, NEW n \in 1 .. Len(pending),
                        pending[n].native.type = "content", pending[n].delta # NoDelta
                 PROVE  \/ /\ pending[n].delta = pending[n].native.deltas[1]
                           /\ \A m \in 1 .. Len(said) : ~Introduces(m, pending[n].native.item)
                        \/ \E m \in 1 .. Len(said) :
                             /\ Introduces(m, pending[n].native.item)
                             /\ \A l \in m + 1 .. Len(said) : ~Introduces(l, pending[n].native.item)
                             /\ pending[n].delta.index = said[m].deltas[1].index
                             /\ pending[n].delta.label = said[m].deltas[1].label
                             /\ pending[n].delta.args = pending[n].native.deltas[1].args
      BY DEF DeltasNameTheirCall
    <2>1. Shows(pending[n])
      BY DEF PipeInv, AdapterInv, PendingShown
    <2>2. pending[n].native # NoLine
      BY DEF NoLine, Says
    <2>3. NamesItsCall(pending[n].native, pending[n].delta)
      BY <2>1, <2>2 DEF Shows
    <2> QED
      BY <2>3 DEF NamesItsCall, NotIntroduced, Introduced
  <1> QED
    BY <1>1, PipeAlways, PTL

\* Failover ends with the first thing the client reads.
THEOREM NoMixedAnswers == PipelineSpec => OneProviderAnswers
  <1>1. PipeInv /\ PipeInv' /\ [PipelineNext]_allVars
        => [text # <<>> \/ passed # <<>> \/ order # <<>> =>
              /\ attempt' = attempt
              /\ passed' = <<>> \/ order' = <<>>]_allVars
    <2> SUFFICES ASSUME PipeInv, PipeInv', PipelineNext,
                        text # <<>> \/ passed # <<>> \/ order # <<>>
                 PROVE  attempt' = attempt /\ (passed' = <<>> \/ order' = <<>>)
      OBVIOUS
    <2>1. passed' = <<>> \/ order' = <<>>
      BY DEF PipeInv, ModeInv
    <2>2. committed
      BY DEF PipeInv, ModeInv
    <2>3. attempt' = attempt
      BY <2>2 DEF PipelineNext, StreamStep, Pull, Deliver, AttemptSucceeds, AttemptFails,
                  AttemptRaises, RenderEnd, ClientLeaves, RaiseOrRetry, serviceVars
    <2> QED
      BY <2>1, <2>3
  <1> QED
    BY <1>1, PipeAlways, PTL DEF PipelineSpec, OneProviderAnswers

\* The stream a client of /v1/responses reads is one that ResponsesStream
\* allows, whatever adapter is behind it: the theorems about that module hold
\* of it.
THEOREM StreamIsRendered == PipelineSpec => Spec
  <1>1. PipelineInit => Init
    BY InitPipe
  <1>2. PipeInv /\ [PipelineNext]_allVars => [Next]_vars
    BY PipeStep
  <1> QED
    BY <1>1, <1>2, PipeAlways, PTL DEF PipelineSpec, Spec

-----------------------------------------------------------------------------
(***************************************************************************)
(* Nothing is lost.                                                        *)
(***************************************************************************)

\* The text and the arguments of a call in a line, a chunk or a delta.
LineText    == [l \in Line |-> TextPart(l)]
LineEvents  == [l \in Line |-> EventPart(l)]
ChunkText   == [c \in Chunk |-> TextPart(c)]
DeltaArgs(k) == [d \in Delta |-> ArgsPart(d, k)]
LineArgs(k)  == [l \in Line |-> ArgsIn(l.deltas, k)]
ChunkArgs(k) == [c \in Chunk |-> ArgsPart(c.delta, k)]

\* They are sequences of fragments.
LEMMA PartFunctions ==
  /\ LineText \in [Line -> Seq(Fragment)]
  /\ ChunkText \in [Chunk -> Seq(Fragment)]
  /\ \A k : DeltaArgs(k) \in [Delta -> Seq(Fragment)]
  /\ \A k : LineArgs(k) \in [Line -> Seq(Fragment)]
  /\ \A k : ChunkArgs(k) \in [Chunk -> Seq(Fragment)]
  <1>1. \A x \in Fragment : <<x>> \in Seq(Fragment)
    OBVIOUS
  <1>2. <<>> \in Seq(Fragment)
    OBVIOUS
  <1>3. \A e : e.text \in Fragment \cup {None} => TextPart(e) \in Seq(Fragment)
    BY <1>1, <1>2 DEF TextPart
  <1>4. \A d, k : d.args \in Fragment \cup {None} => ArgsPart(d, k) \in Seq(Fragment)
    BY <1>1, <1>2 DEF ArgsPart
  <1>5. LineText \in [Line -> Seq(Fragment)]
    BY <1>3, LineType DEF LineText, LineFacts
  <1>6. ChunkText \in [Chunk -> Seq(Fragment)]
    BY <1>3 DEF ChunkText, Chunk
  <1>7. ASSUME NEW k PROVE DeltaArgs(k) \in [Delta -> Seq(Fragment)]
    <2>1. \A d \in Delta : d.args \in Fragment \cup {None}
      BY DEF Delta
    <2> QED
      BY <1>4, <2>1 DEF DeltaArgs
  <1>8. ASSUME NEW k PROVE LineArgs(k) \in [Line -> Seq(Fragment)]
    <2>1. ASSUME NEW l \in Line PROVE ArgsIn(l.deltas, k) \in Seq(Fragment)
      <3>1. PICK ds : ds = l.deltas
        OBVIOUS
      <3>2. ds \in Seq(Delta)
        BY <3>1, LineType DEF LineFacts
      <3>3. Parts(DeltaArgs(k), ds) \in Seq(Fragment)
        BY <1>7, <3>2, PartsType
      <3>4. [n \in 1 .. Len(ds) |-> ArgsPart(ds[n], k)]
              = [n \in 1 .. Len(ds) |-> DeltaArgs(k)[ds[n]]]
        BY <3>2, ElementOfSeq DEF DeltaArgs
      <3> QED
        BY <3>1, <3>3, <3>4, Zenon DEF ArgsIn, Parts
    <2> QED
      BY <2>1 DEF LineArgs
  <1>9. ASSUME NEW k PROVE ChunkArgs(k) \in [Chunk -> Seq(Fragment)]
    <2>1. \A c \in Chunk : c.delta.args \in Fragment \cup {None}
      <3>1. \A c \in Chunk : c.delta \in Delta \/ c.delta = NoDelta
        BY DEF Chunk
      <3>2. \A d \in Delta : d.args \in Fragment \cup {None}
        BY DEF Delta
      <3>3. NoDelta.args = None
        BY DEF NoDelta
      <3> QED
        BY <3>1, <3>2, <3>3
    <2> QED
      BY <1>4, <2>1 DEF ChunkArgs
  <1> QED
    BY <1>5, <1>6, <1>7, <1>8, <1>9

\* The text and the arguments of sequences are those of their elements.
LEMMA PartsMeant ==
  /\ \A s \in Seq(Line) : TextIn(s) = Parts(LineText, s)
  /\ \A s \in Seq(Line) : EventsIn(s) = Parts(LineEvents, s)
  /\ \A s \in Seq(Chunk) : TextIn(s) = Parts(ChunkText, s)
  /\ \A k : \A ds \in Seq(Delta) : ArgsIn(ds, k) = Parts(DeltaArgs(k), ds)
  <1>1. ASSUME NEW s \in Seq(Line) PROVE TextIn(s) = Parts(LineText, s)
    <2>1. [n \in 1 .. Len(s) |-> TextPart(s[n])] = [n \in 1 .. Len(s) |-> LineText[s[n]]]
      BY ElementOfSeq DEF LineText
    <2> QED
      BY <2>1, Zenon DEF TextIn, Parts
  <1>4. ASSUME NEW s \in Seq(Line) PROVE EventsIn(s) = Parts(LineEvents, s)
    <2>1. [n \in 1 .. Len(s) |-> EventPart(s[n])] = [n \in 1 .. Len(s) |-> LineEvents[s[n]]]
      BY ElementOfSeq DEF LineEvents
    <2> QED
      BY <2>1, Zenon DEF EventsIn, Parts
  <1>2. ASSUME NEW s \in Seq(Chunk) PROVE TextIn(s) = Parts(ChunkText, s)
    <2>1. [n \in 1 .. Len(s) |-> TextPart(s[n])] = [n \in 1 .. Len(s) |-> ChunkText[s[n]]]
      BY ElementOfSeq DEF ChunkText
    <2> QED
      BY <2>1, Zenon DEF TextIn, Parts
  <1>3. ASSUME NEW ds \in Seq(Delta), NEW k PROVE ArgsIn(ds, k) = Parts(DeltaArgs(k), ds)
    <2>1. [n \in 1 .. Len(ds) |-> ArgsPart(ds[n], k)] = [n \in 1 .. Len(ds) |-> DeltaArgs(k)[ds[n]]]
      BY ElementOfSeq DEF DeltaArgs
    <2> QED
      BY <2>1, Zenon DEF ArgsIn, Parts
  <1> QED
    BY <1>1, <1>2, <1>3, <1>4

\* The same of a state's said and pending, and of the next one's.
LEMMA ArgsMeant ==
  ASSUME NEW k
  PROVE  /\ said \in Seq(Line) => SaidArgs(k) = Parts(LineArgs(k), said)
         /\ pending \in Seq(Chunk) => PendingArgs(k) = Parts(ChunkArgs(k), pending)
         /\ said' \in Seq(Line) => SaidArgs(k)' = Parts(LineArgs(k), said')
         /\ pending' \in Seq(Chunk) => PendingArgs(k)' = Parts(ChunkArgs(k), pending')
  <1>1. ASSUME NEW s \in Seq(Line)
        PROVE  FlattenSeq([m \in 1 .. Len(s) |-> ArgsIn(s[m].deltas, k)]) = Parts(LineArgs(k), s)
    <2>1. [m \in 1 .. Len(s) |-> ArgsIn(s[m].deltas, k)]
            = [m \in 1 .. Len(s) |-> LineArgs(k)[s[m]]]
      BY ElementOfSeq DEF LineArgs
    <2> QED
      BY <2>1, Zenon DEF Parts
  <1>2. ASSUME NEW s \in Seq(Chunk)
        PROVE  ArgsIn([n \in 1 .. Len(s) |-> s[n].delta], k) = Parts(ChunkArgs(k), s)
    <2> DEFINE ds == [n \in 1 .. Len(s) |-> s[n].delta]
    <2>1. Len(ds) = Len(s) /\ \A n \in 1 .. Len(s) : ds[n] = s[n].delta
      <3>1. Len(s) \in Nat
        OBVIOUS
      <3> QED
        BY <3>1
    <2> HIDE DEF ds
    <2>2. [n \in 1 .. Len(ds) |-> ArgsPart(ds[n], k)] = [n \in 1 .. Len(s) |-> ChunkArgs(k)[s[n]]]
      BY <2>1, ElementOfSeq DEF ChunkArgs
    <2>3. ArgsIn(ds, k) = Parts(ChunkArgs(k), s)
      BY <2>2, Zenon DEF ArgsIn, Parts
    <2> QED
      BY <2>3 DEF ds
  <1> QED
    BY <1>1, <1>2 DEF SaidArgs, PendingArgs

\* What is in the chunks that TextOf, DeltaOf and Done make.
LEMMA MadeParts ==
  /\ \A t \in Fragment : /\ TextOf(t).text = t /\ TextOf(t).delta = NoDelta
                         /\ ~TextOf(t).done /\ TextPart(TextOf(t)) = <<t>>
  /\ \A d \in Delta : /\ DeltaOf(d).text = None /\ DeltaOf(d).delta = d
                      /\ ~DeltaOf(d).done /\ TextPart(DeltaOf(d)) = <<>>
  /\ Done.text = None /\ Done.delta = NoDelta /\ TextPart(Done) = <<>>
  /\ \A k : ArgsPart(NoDelta, k) = <<>>
  <1>1. ASSUME NEW t \in Fragment
        PROVE  /\ TextOf(t).text = t /\ TextOf(t).delta = NoDelta /\ ~TextOf(t).done
    BY DEF TextOf, NoChunk
  <1>2. ASSUME NEW d \in Delta
        PROVE  /\ DeltaOf(d).text = None /\ DeltaOf(d).delta = d /\ ~DeltaOf(d).done
    BY DEF DeltaOf, NoChunk
  <1>3. Done.text = None /\ Done.delta = NoDelta
    BY DEF Done, NoChunk
  <1>4. \A t \in Fragment : t # None
    BY ChunkAssumption
  <1>5. \A k : ArgsPart(NoDelta, k) = <<>>
    BY DEF ArgsPart, NoDelta
  <1> QED
    BY <1>1, <1>2, <1>3, <1>4, <1>5 DEF TextPart

\* A chunk has one thing to say.
Pure(c) == (c.done => c.text = None /\ c.delta = NoDelta) /\ (c.text # None => c.delta = NoDelta)

\* So have those of the Chat and Messages adapters.
LEMMA PlainPure ==
  ASSUME NEW line \in Line, NEW c \in Plain(line)
  PROVE  Pure(c)
  <1>1. LineFacts(line)
    BY LineType
  <1>2. line.text # None => line.text \in Fragment
    BY <1>1 DEF LineFacts
  <1>3. \A j \in 1 .. Len(line.deltas) : line.deltas[j] \in Delta
    BY <1>1, ElementOfSeq DEF LineFacts
  <1>4. \/ c = Done
        \/ line.text # None /\ c = TextOf(line.text)
        \/ \E j \in 1 .. Len(line.deltas) : c = DeltaOf(line.deltas[j])
    BY DEF Plain
  <1> QED
    BY <1>2, <1>3, <1>4, MadeParts DEF Pure

\* s holds the text of a line and all of its arguments.
HoldsAll(s, line) ==
  /\ s \in Seq(Chunk)
  /\ Parts(ChunkText, s) = TextPart(line)
  /\ \A k : Parts(ChunkArgs(k), s) = ArgsIn(line.deltas, k)

\* One chunk, and none.
LEMMA FewParts ==
  /\ \A c \in Chunk : /\ Parts(ChunkText, <<c>>) = TextPart(c)
                      /\ \A k : Parts(ChunkArgs(k), <<c>>) = ArgsPart(c.delta, k)
  /\ Parts(ChunkText, <<>>) = <<>>
  /\ \A k : Parts(ChunkArgs(k), <<>>) = <<>>
  /\ \A k : ArgsIn(<<>>, k) = <<>>
  /\ \A k : \A d \in Delta : ArgsIn(<<d>>, k) = ArgsPart(d, k)
  <1>1. ASSUME NEW c \in Chunk PROVE Parts(ChunkText, <<c>>) = TextPart(c)
    <2>1. Parts(ChunkText, <<c>>) = ChunkText[c]
      BY PartFunctions, PartsOne
    <2> QED
      BY <2>1 DEF ChunkText
  <1>2. ASSUME NEW c \in Chunk, NEW k PROVE Parts(ChunkArgs(k), <<c>>) = ArgsPart(c.delta, k)
    <2>1. ChunkArgs(k) \in [Chunk -> Seq(Fragment)]
      BY PartFunctions
    <2>2. Parts(ChunkArgs(k), <<c>>) = ChunkArgs(k)[c]
      BY <2>1, PartsOne
    <2> QED
      BY <2>2 DEF ChunkArgs
  <1>3. ASSUME NEW k PROVE ArgsIn(<<>>, k) = <<>>
    <2>1. <<>> \in Seq(Delta)
      OBVIOUS
    <2>2. ArgsIn(<<>>, k) = Parts(DeltaArgs(k), <<>>)
      BY <2>1, PartsMeant, Zenon
    <2> QED
      BY <2>2, PartsEmpty
  <1>4. ASSUME NEW k, NEW d \in Delta PROVE ArgsIn(<<d>>, k) = ArgsPart(d, k)
    <2>1. <<d>> \in Seq(Delta)
      OBVIOUS
    <2>2. ArgsIn(<<d>>, k) = Parts(DeltaArgs(k), <<d>>)
      BY <2>1, PartsMeant, Zenon
    <2>3. DeltaArgs(k) \in [Delta -> Seq(Fragment)]
      BY PartFunctions
    <2>4. Parts(DeltaArgs(k), <<d>>) = DeltaArgs(k)[d]
      BY <2>3, PartsOne
    <2> QED
      BY <2>2, <2>4 DEF DeltaArgs
  <1> QED
    BY <1>1, <1>2, <1>3, <1>4, PartsEmpty

\* The Chat adapter's chunks of a line hold all of it.
LEMMA ChatWhole ==
  ASSUME NEW line \in Line
  PROVE  HoldsAll(ChatChunks(line), line)
  <1>1. LineFacts(line)
    BY LineType
  <1>2. CASE line.type = "end"
    <2>1. ChatChunks(line) = <<Done>> /\ line.text = None /\ line.deltas = <<>>
      BY <1>1, <1>2 DEF ChatChunks, LineFacts
    <2>2. Done \in Chunk /\ TextPart(Done) = <<>> /\ \A k : ArgsPart(Done.delta, k) = <<>>
      BY NoChunkType, MadeParts
    <2>3. <<Done>> \in Seq(Chunk)
      BY <2>2
    <2>4. TextPart(line) = <<>>
      BY <2>1 DEF TextPart
    <2>5. Parts(ChunkText, <<Done>>) = <<>> /\ \A k : Parts(ChunkArgs(k), <<Done>>) = <<>>
      BY <2>2, FewParts, Zenon
    <2>6. \A k : ArgsIn(line.deltas, k) = <<>>
      BY <2>1, FewParts, Zenon
    <2> QED
      BY <2>1, <2>3, <2>4, <2>5, <2>6, Zenon DEF HoldsAll
  <1>3. CASE line.type # "end"
    <2> DEFINE ts == IF line.text = None THEN <<>> ELSE <<TextOf(line.text)>>
               ds == [n \in 1 .. Len(line.deltas) |-> DeltaOf(line.deltas[n])]
    <2>1. ChatChunks(line) = ts \o ds
      BY <1>3 DEF ChatChunks
    <2>2. line.text # None => line.text \in Fragment /\ TextOf(line.text) \in Chunk
      BY <1>1, NoChunkType DEF LineFacts
    <2>3. ts \in Seq(Chunk)
      <3>1. \A c \in Chunk : <<c>> \in Seq(Chunk)
        OBVIOUS
      <3>2. <<>> \in Seq(Chunk)
        OBVIOUS
      <3> QED
        BY <2>2, <3>1, <3>2, Zenon
    <2>4. line.deltas \in Seq(Delta) /\ Len(line.deltas) \in Nat
          /\ \A n \in 1 .. Len(line.deltas) : line.deltas[n] \in Delta
      BY <1>1, ElementOfSeq DEF LineFacts
    <2>5. ds \in Seq(Chunk) /\ Len(ds) = Len(line.deltas)
          /\ \A n \in 1 .. Len(line.deltas) : ds[n] = DeltaOf(line.deltas[n])
      <3>1. \A n \in 1 .. Len(line.deltas) : DeltaOf(line.deltas[n]) \in Chunk
        BY <2>4, NoChunkType
      <3>2. ds \in [1 .. Len(line.deltas) -> Chunk]
        BY <3>1
      <3>3. \A n \in 1 .. Len(line.deltas) : ds[n] = DeltaOf(line.deltas[n])
        OBVIOUS
      <3> HIDE DEF ds
      <3>4. ds \in Seq(Chunk) /\ Len(ds) = Len(line.deltas)
        BY <2>4, <3>2, OfLength
      <3> QED
        BY <3>3, <3>4
    <2>6. Parts(ChunkText, ts) = TextPart(line) /\ \A k : Parts(ChunkArgs(k), ts) = <<>>
      <3>1. CASE line.text = None
        <4>1. ts = <<>> /\ TextPart(line) = <<>>
          BY <3>1 DEF TextPart
        <4> HIDE DEF ts
        <4> QED
          BY <4>1, FewParts, Zenon
      <3>2. CASE line.text # None
        <4>1. ts = <<TextOf(line.text)>> /\ TextPart(line) = <<line.text>>
          BY <3>2 DEF TextPart
        <4>2. /\ TextPart(TextOf(line.text)) = <<line.text>>
              /\ \A k : ArgsPart(TextOf(line.text).delta, k) = <<>>
              /\ TextOf(line.text) \in Chunk
          BY <2>2, <3>2, MadeParts, Zenon
        <4> HIDE DEF ts
        <4> QED
          BY <4>1, <4>2, FewParts, Zenon
      <3> QED
        BY <3>1, <3>2
    <2> HIDE DEF ts, ds
    <2>7. Parts(ChunkText, ds) = <<>>
      <3>1. ASSUME NEW n \in 1 .. Len(ds) PROVE ChunkText[ds[n]] = <<>>
        <4>1. ds[n] = DeltaOf(line.deltas[n]) /\ line.deltas[n] \in Delta
          BY <2>4, <2>5
        <4>2. TextPart(ds[n]) = <<>> /\ ds[n] \in Chunk
          BY <4>1, MadeParts, NoChunkType
        <4> QED
          BY <4>2 DEF ChunkText
      <3>2. ChunkText \in [Chunk -> Seq(Fragment)]
        BY PartFunctions
      <3> QED
        BY <2>5, <3>1, <3>2, PartsNone
    <2>8. ASSUME NEW k PROVE Parts(ChunkArgs(k), ds) = ArgsIn(line.deltas, k)
      <3>1. ASSUME NEW n \in 1 .. Len(ds)
            PROVE  ChunkArgs(k)[ds[n]] = ArgsPart(line.deltas[n], k)
        <4>1. ds[n] = DeltaOf(line.deltas[n]) /\ line.deltas[n] \in Delta
          BY <2>4, <2>5
        <4>2. ds[n].delta = line.deltas[n] /\ ds[n] \in Chunk
          BY <4>1, MadeParts, NoChunkType
        <4> QED
          BY <4>2 DEF ChunkArgs
      <3>2. [n \in 1 .. Len(ds) |-> ChunkArgs(k)[ds[n]]]
              = [n \in 1 .. Len(line.deltas) |-> ArgsPart(line.deltas[n], k)]
        BY <2>5, <3>1
      <3> QED
        BY <3>2, Zenon DEF Parts, ArgsIn
    <2>9. Parts(ChunkText, ts \o ds) = TextPart(line) \o <<>>
      <3>1. ChunkText \in [Chunk -> Seq(Fragment)]
        BY PartFunctions
      <3>2. \A v, w \in Seq(Chunk) :
               Parts(ChunkText, v \o w) = Parts(ChunkText, v) \o Parts(ChunkText, w)
        BY <3>1, PartsConcat
      <3> QED
        BY <2>3, <2>5, <2>6, <2>7, <3>2, Zenon
    <2>10. ASSUME NEW k PROVE Parts(ChunkArgs(k), ts \o ds) = <<>> \o ArgsIn(line.deltas, k)
      <3>1. PICK g : g = ChunkArgs(k)
        OBVIOUS
      <3>2. g \in [Chunk -> Seq(Fragment)]
        BY <3>1, PartFunctions
      <3>3. \A v, w \in Seq(Chunk) : Parts(g, v \o w) = Parts(g, v) \o Parts(g, w)
        BY <3>2, PartsConcat
      <3> QED
        BY <2>3, <2>5, <2>6, <2>8, <3>1, <3>3, Zenon
    <2>11. \A T : \A v \in Seq(T) : v \o <<>> = v /\ <<>> \o v = v
      OBVIOUS
    <2>12. TextPart(line) \in Seq(Fragment) /\ \A k : ArgsIn(line.deltas, k) \in Seq(Fragment)
      BY PartFunctions DEF LineText, LineArgs
    <2>13. ts \o ds \in Seq(Chunk)
      BY <2>3, <2>5, ConcatProperties
    <2>14. \A k : Parts(ChunkArgs(k), ts \o ds) = ArgsIn(line.deltas, k)
      BY <2>10, <2>11, <2>12, Zenon
    <2>15. Parts(ChunkText, ts \o ds) = TextPart(line)
      BY <2>9, <2>11, <2>12, Zenon
    <2> QED
      BY <2>1, <2>13, <2>14, <2>15, Zenon DEF HoldsAll
  <1> QED
    BY <1>2, <1>3

\* So do those of the Messages adapter, whose lines say one thing each.
LEMMA MessagesWhole ==
  ASSUME NEW line \in Line, OneThing(line)
  PROVE  HoldsAll(MessagesChunks(line), line)
  <1>1. LineFacts(line)
    BY LineType
  <1>2. line.deltas \in Seq(Delta) /\ (line.text # None => line.text \in Fragment)
    BY <1>1 DEF LineFacts
  <1>3. \A c \in Chunk : <<c>> \in Seq(Chunk)
    OBVIOUS
  <1>4. <<>> \in Seq(Chunk)
    OBVIOUS
  <1>5. CASE line.deltas # <<>>
    <2>1. PICK d \in Delta : line.deltas = <<d>>
      BY <1>5 DEF OneThing
    <2>2. line.text = None /\ line.deltas = <<d>> /\ d = line.deltas[1]
      BY <1>5, <2>1 DEF OneThing
    <2>3. line.type # "end"
      BY <1>1, <1>5 DEF LineFacts
    <2>4. MessagesChunks(line) = <<DeltaOf(d)>>
      BY <1>5, <2>1, <2>2, <2>3 DEF MessagesChunks
    <2>5. /\ DeltaOf(d) \in Chunk /\ TextPart(DeltaOf(d)) = <<>> /\ DeltaOf(d).delta = d
      BY <2>2, MadeParts, NoChunkType
    <2>6. TextPart(line) = <<>>
      BY <2>2 DEF TextPart
    <2> QED
      BY <1>3, <2>2, <2>4, <2>5, <2>6, FewParts, ZenonT(40) DEF HoldsAll
  <1>6. CASE line.deltas = <<>> /\ line.text # None
    <2>1. line.type # "end"
      BY <1>1, <1>6 DEF LineFacts
    <2>2. MessagesChunks(line) = <<TextOf(line.text)>>
      BY <1>6, <2>1 DEF MessagesChunks
    <2>3. /\ TextOf(line.text) \in Chunk /\ TextPart(TextOf(line.text)) = <<line.text>>
          /\ TextOf(line.text).delta = NoDelta /\ \A k : ArgsPart(NoDelta, k) = <<>>
      BY <1>2, <1>6, MadeParts, NoChunkType
    <2>4. TextPart(line) = <<line.text>>
      BY <1>6 DEF TextPart
    <2> QED
      BY <1>3, <1>6, <2>2, <2>3, <2>4, FewParts, Zenon DEF HoldsAll
  <1>7. CASE line.deltas = <<>> /\ line.text = None
    <2>1. MessagesChunks(line) \in {<<Done>>, <<>>}
      BY <1>7 DEF MessagesChunks
    <2>2. /\ Done \in Chunk /\ TextPart(Done) = <<>> /\ Done.delta = NoDelta
          /\ \A k : ArgsPart(NoDelta, k) = <<>>
      BY MadeParts, NoChunkType
    <2>3. TextPart(line) = <<>>
      BY <1>7 DEF TextPart
    <2>4. HoldsAll(<<Done>>, line)
      BY <1>3, <1>7, <2>2, <2>3, FewParts, Zenon DEF HoldsAll
    <2>5. HoldsAll(<<>>, line)
      BY <1>4, <1>7, <2>3, FewParts, Zenon DEF HoldsAll
    <2> QED
      BY <2>1, <2>4, <2>5
  <1> QED
    BY <1>5, <1>6, <1>7

\* What the chunks made of a line hold.
LEMMA LineRead ==
  ASSUME AdapterInv, NEW line \in Wire[kind], ReadLine(line)
  PROVE  /\ said' = Append(said, line) /\ pending = <<>> /\ kind' = kind /\ line \in Line
         /\ pending' \in Seq(Chunk)
         /\ Parts(ChunkText, pending') = TextPart(line)
         /\ kind # "responses" => /\ \A k : Parts(ChunkArgs(k), pending') = ArgsIn(line.deltas, k)
                                  /\ \A n \in 1 .. Len(pending') : Pure(pending'[n])
         /\ kind = "responses" => PendingEvents' = EventPart(line)
  <1>1. /\ said' = Append(said, line) /\ pending = <<>> /\ kind' = kind
        /\ pending' = Chunks(line)
    BY DEF ReadLine, AwaitsLine
  <1>2. kind \in Kind /\ AdapterType
    BY DEF AdapterInv, AdapterType
  <1>0. line \in Line /\ (kind # "chat" => OneThing(line))
    BY <1>2, WireFacts
  <1>3. pending' \in Seq(Chunk)
    BY ReadLineInv DEF AdapterInv, AdapterType
  <1>4. CASE kind # "responses"
    <2>1. HoldsAll(pending', line) /\ pending' \in Seq(Plain(line))
      <3>1. CASE kind = "chat"
        <4>1. pending' = ChatChunks(line)
          BY <1>1, <3>1 DEF Chunks
        <4> QED
          BY <1>0, <4>1, ChatWhole, ChatPlain
      <3>2. CASE kind = "messages"
        <4>1. pending' = MessagesChunks(line)
          BY <1>1, <3>2 DEF Chunks
        <4> QED
          BY <1>0, <3>2, <4>1, MessagesWhole, MessagesPlain
      <3> QED
        BY <1>2, <1>4, <3>1, <3>2 DEF Kind
    <2>2. \A n \in 1 .. Len(pending') : pending'[n] \in Plain(line)
      BY <2>1, ElementOfSeq
    <2>3. \A n \in 1 .. Len(pending') : Pure(pending'[n])
      BY <1>0, <2>2, PlainPure
    <2> QED
      BY <1>0, <1>1, <1>3, <1>4, <2>1, <2>3, Zenon DEF HoldsAll
  <1>5. CASE kind = "responses" /\ line.type = "unreadable"
    <2>1. pending' = <<>> /\ line.text = None
      BY <1>0, <1>1, <1>5 DEF Chunks, ResponsesChunks, OneThing
    <2>2. TextPart(line) = <<>> /\ EventPart(line) = <<>>
      BY <1>5, <2>1 DEF TextPart, EventPart
    <2>3. PendingEvents' = <<>>
      BY <2>1 DEF PendingEvents
    <2> QED
      BY <1>0, <1>1, <1>3, <1>5, <2>1, <2>2, <2>3, FewParts, Zenon
  <1>6. CASE kind = "responses" /\ line.type # "unreadable"
    <2>1. pending' = ResponsesChunks(line)
      BY <1>1, <1>6 DEF Chunks
    <2>2. PICK c : pending' = <<c>> /\ c.native = line /\ c.text = line.text
      BY <1>6, <2>1 DEF ResponsesChunks
    <2>3. PendingEvents' = <<line>> /\ EventPart(line) = <<line>>
      BY <1>6, <2>2 DEF PendingEvents, EventPart
    <2>4. c \in Chunk
      BY <1>3, <2>2
    <2>5. TextPart(c) = TextPart(line)
      BY <2>2 DEF TextPart
    <2>6. Parts(ChunkText, pending') = TextPart(line)
      BY <2>2, <2>4, <2>5, FewParts, Zenon
    <2> QED
      BY <1>0, <1>1, <1>3, <1>6, <2>3, <2>6
  <1> QED
    BY <1>4, <1>5, <1>6

\* What upstream has said and what has reached the client differ by the chunks
\* in hand, whichever way the answer goes; nothing is in hand at its end.
WholeInv ==
  /\ kind # "responses" => \A n \in 1 .. Len(pending) : Pure(pending[n])
  /\ client = "ended" => outcome = "success"
  /\ route # "responses" => text \o Parts(ChunkText, pending) = Parts(LineText, said)
  /\ route = "responses" /\ kind = "responses" =>
       passed \o PendingEvents = Parts(LineEvents, said)
  /\ route = "responses" /\ kind # "responses" =>
       /\ chunks[Text] \o Parts(ChunkText, pending) = Parts(LineText, said)
       /\ \A k \in Index : chunks[k] \o Parts(ChunkArgs(k), pending) = Parts(LineArgs(k), said)

\* A part more on both sides.
LEMMA PartComes ==
  ASSUME NEW S, NEW got \in Seq(S), NEW rest, rest = <<>>, NEW all,
         got \o rest = all, NEW part \in Seq(S), NEW new, new = all \o part
  PROVE  got \o part = new
  OBVIOUS

\* A part goes from one side to the other.
LEMMA PartMoves ==
  ASSUME NEW S, NEW got \in Seq(S), NEW part \in Seq(S), NEW rest \in Seq(S),
         NEW all, all = part \o rest
  PROVE  (got \o part) \o rest = got \o all
  OBVIOUS

\* What a line adds to what was said.
LEMMA SaidMore ==
  ASSUME said \in Seq(Line), NEW line \in Line, said' = Append(said, line)
  PROVE  /\ Parts(LineText, said') = Parts(LineText, said) \o TextPart(line)
         /\ \A k : Parts(LineArgs(k), said') = Parts(LineArgs(k), said) \o ArgsIn(line.deltas, k)
         /\ Parts(LineEvents, said') = Parts(LineEvents, said) \o EventPart(line)
         /\ TextPart(line) \in Seq(Fragment)
         /\ \A k : ArgsIn(line.deltas, k) \in Seq(Fragment)
         /\ EventPart(line) \in Seq(Line)
  <1>5. /\ Parts(LineEvents, said') = Parts(LineEvents, said) \o EventPart(line)
        /\ EventPart(line) \in Seq(Line)
    <2>1. \A l \in Line : <<l>> \in Seq(Line)
      OBVIOUS
    <2>2. <<>> \in Seq(Line)
      OBVIOUS
    <2>3. \A l \in Line : EventPart(l) \in Seq(Line)
      BY <2>1, <2>2 DEF EventPart
    <2>4. LineEvents \in [Line -> Seq(Line)] /\ LineEvents[line] = EventPart(line)
      BY <2>3 DEF LineEvents
    <2>5. Parts(LineEvents, said') = Parts(LineEvents, said) \o LineEvents[line]
      BY <2>4, PartsAppend
    <2> QED
      BY <2>3, <2>4, <2>5, Zenon
  <1>1. \A g : g \in [Line -> Seq(Fragment)] =>
          Parts(g, said') = Parts(g, said) \o g[line] /\ g[line] \in Seq(Fragment)
    BY PartsAppend
  <1>2. Parts(LineText, said') = Parts(LineText, said) \o LineText[line]
        /\ LineText[line] \in Seq(Fragment)
    BY <1>1, PartFunctions
  <1>3. LineText[line] = TextPart(line)
    BY DEF LineText
  <1>4. ASSUME NEW k
        PROVE  /\ Parts(LineArgs(k), said') = Parts(LineArgs(k), said) \o ArgsIn(line.deltas, k)
               /\ ArgsIn(line.deltas, k) \in Seq(Fragment)
    <2>1. Parts(LineArgs(k), said') = Parts(LineArgs(k), said) \o LineArgs(k)[line]
          /\ LineArgs(k)[line] \in Seq(Fragment)
      BY <1>1, PartFunctions
    <2>2. LineArgs(k)[line] = ArgsIn(line.deltas, k)
      BY DEF LineArgs
    <2> QED
      BY <2>1, <2>2, Zenon
  <1> QED
    BY <1>2, <1>3, <1>4, <1>5, Zenon

\* What the first chunk takes from those in hand.
LEMMA HandedOn ==
  ASSUME pending \in Seq(Chunk), pending # <<>>, NEW chunk, chunk = Head(pending),
         pending' = Tail(pending)
  PROVE  /\ Parts(ChunkText, pending) = TextPart(chunk) \o Parts(ChunkText, pending')
         /\ \A k : Parts(ChunkArgs(k), pending)
                     = ArgsPart(chunk.delta, k) \o Parts(ChunkArgs(k), pending')
         /\ TextPart(chunk) \in Seq(Fragment)
         /\ \A k : ArgsPart(chunk.delta, k) \in Seq(Fragment)
         /\ Parts(ChunkText, pending') \in Seq(Fragment)
         /\ \A k : Parts(ChunkArgs(k), pending') \in Seq(Fragment)
  <1>1. chunk \in Chunk /\ pending' \in Seq(Chunk)
    BY HeadAndTail
  <1>2. ASSUME NEW g \in [Chunk -> Seq(Fragment)]
        PROVE  /\ Parts(g, pending) = g[chunk] \o Parts(g, pending')
               /\ g[chunk] \in Seq(Fragment)
               /\ Parts(g, pending') \in Seq(Fragment)
    <2>1. \A s \in Seq(Chunk) : s # <<>> => Parts(g, s) = g[Head(s)] \o Parts(g, Tail(s))
      BY PartsHead
    <2>2. Parts(g, pending') \in Seq(Fragment)
      BY <1>1, PartsType
    <2> QED
      BY <1>1, <2>1, <2>2, Zenon
  <1>3. ChunkText[chunk] = TextPart(chunk) /\ \A k : ChunkArgs(k)[chunk] = ArgsPart(chunk.delta, k)
    BY <1>1 DEF ChunkText, ChunkArgs
  <1> QED
    BY <1>2, <1>3, PartFunctions, Zenon

\* The adapter reads a line, or stops.
LEMMA PullWhole ==
  ASSUME PipeInv, StreamInv, WholeInv, Pull
  PROVE  WholeInv'
  <1>1. UNCHANGED <<route, text, passed, chunks, client, outcome>>
    BY DEF Pull, serviceVars, routeVars, vars, rendererVars
  <1>2. CASE UpstreamCloses \/ HttpError
    <2>1. UNCHANGED <<kind, said, pending>>
      BY <1>2 DEF UpstreamCloses, HttpError
    <2> QED
      BY <1>1, <2>1 DEF WholeInv, PendingEvents
  <1>3. ASSUME NEW line \in Wire[kind], ReadLine(line) PROVE WholeInv'
    <2>1. /\ AdapterInv /\ said \in Seq(Line) /\ text \in Seq(Fragment) /\ passed \in Seq(Line)
          /\ chunks \in [Item -> Seq(Fragment)]
      BY DEF PipeInv, AdapterInv, AdapterType, ServiceType, StreamInv, TypeOK
    <2>2. /\ said' = Append(said, line) /\ pending = <<>> /\ kind' = kind /\ line \in Line
          /\ Parts(ChunkText, pending') = TextPart(line)
          /\ kind # "responses" => /\ \A k : Parts(ChunkArgs(k), pending') = ArgsIn(line.deltas, k)
                                   /\ \A n \in 1 .. Len(pending') : Pure(pending'[n])
          /\ kind = "responses" => PendingEvents' = EventPart(line)
      BY <1>3, <2>1, LineRead
    <2>3. /\ Parts(LineText, said') = Parts(LineText, said) \o TextPart(line)
          /\ \A k : Parts(LineArgs(k), said') = Parts(LineArgs(k), said) \o ArgsIn(line.deltas, k)
          /\ Parts(LineEvents, said') = Parts(LineEvents, said) \o EventPart(line)
          /\ TextPart(line) \in Seq(Fragment)
          /\ \A k : ArgsIn(line.deltas, k) \in Seq(Fragment)
      BY <2>1, <2>2, SaidMore
    <2>4. Parts(ChunkText, pending) = <<>> /\ \A k : Parts(ChunkArgs(k), pending) = <<>>
      BY <2>2, FewParts, Zenon
    <2>5. route' # "responses" => text' \o Parts(ChunkText, pending') = Parts(LineText, said')
      <3> SUFFICES ASSUME route # "responses"
                   PROVE  text \o TextPart(line) = Parts(LineText, said')
        BY <1>1, <2>2
      <3>1. text \o Parts(ChunkText, pending) = Parts(LineText, said)
        BY DEF WholeInv
      <3> QED
        BY <2>1, <2>3, <2>4, <3>1, PartComes
    <2>6. route' = "responses" /\ kind' = "responses" =>
            passed' \o PendingEvents' = Parts(LineEvents, said')
      <3> SUFFICES ASSUME route = "responses", kind = "responses"
                   PROVE  passed \o EventPart(line) = Parts(LineEvents, said) \o EventPart(line)
        BY <1>1, <2>2, <2>3
      <3>1. passed \o PendingEvents = Parts(LineEvents, said)
        BY DEF WholeInv
      <3>2. PendingEvents = <<>>
        BY <2>2 DEF PendingEvents
      <3>3. passed = Parts(LineEvents, said)
        BY <2>1, <3>1, <3>2
      <3> QED
        BY <3>3
    <2>7. ASSUME route' = "responses", kind' # "responses"
          PROVE  /\ chunks'[Text] \o Parts(ChunkText, pending') = Parts(LineText, said')
                 /\ \A k \in Index :
                      chunks'[k] \o Parts(ChunkArgs(k), pending') = Parts(LineArgs(k), said')
      <3>1. /\ chunks[Text] \o Parts(ChunkText, pending) = Parts(LineText, said)
            /\ \A k \in Index : chunks[k] \o Parts(ChunkArgs(k), pending) = Parts(LineArgs(k), said)
        BY <1>1, <2>2, <2>7 DEF WholeInv
      <3>2. \A i \in Item : chunks[i] \in Seq(Fragment)
        BY <2>1
      <3>3. chunks[Text] \o TextPart(line) = Parts(LineText, said')
        <4>1. chunks[Text] \in Seq(Fragment)
          BY <3>2 DEF Item
        <4>2. chunks[Text] \o <<>> = chunks[Text]
          BY <4>1
        <4> QED
          BY <2>3, <2>4, <3>1, <4>2, Zenon
      <3>4. ASSUME NEW k \in Index
            PROVE  chunks[k] \o ArgsIn(line.deltas, k) = Parts(LineArgs(k), said')
        <4>1. chunks[k] \in Seq(Fragment) /\ ArgsIn(line.deltas, k) \in Seq(Fragment)
          BY <2>3, <3>2 DEF Item
        <4>2. /\ chunks[k] \o Parts(ChunkArgs(k), pending) = Parts(LineArgs(k), said)
              /\ Parts(LineArgs(k), said') = Parts(LineArgs(k), said) \o ArgsIn(line.deltas, k)
              /\ Parts(ChunkArgs(k), pending) = <<>>
          BY <2>3, <2>4, <3>1
        <4>3. chunks[k] \o <<>> = chunks[k]
          BY <4>1
        <4> QED
          BY <4>2, <4>3, Zenon
      <3>5. kind # "responses"
        BY <2>2, <2>7
      <3> QED
        BY <1>1, <2>2, <3>3, <3>4, <3>5, Zenon
    <2>8. (client' = "ended" => outcome' = "success")
          /\ (kind' # "responses" => \A n \in 1 .. Len(pending') : Pure(pending'[n]))
      BY <1>1, <2>2 DEF WholeInv
    <2> QED
      BY <2>5, <2>6, <2>7, <2>8, Zenon DEF WholeInv
  <1> QED
    BY <1>2, <1>3 DEF Pull, AdapterStep

\* The renderer takes what a chunk has to say.
LEMMA RenderedParts ==
  ASSUME NEW chunk \in Chunk, Pure(chunk), RenderEvents(chunk),
         chunk.text # None \/ chunk.done \/ chunk.delta # NoDelta,
         chunks \in [Item -> Seq(Fragment)]
  PROVE  /\ chunks'[Text] = chunks[Text] \o TextPart(chunk)
         /\ \A k \in Index : chunks'[k] = chunks[k] \o ArgsPart(chunk.delta, k)
  <1>1. Text \in Item /\ Text \notin Index /\ Index \subseteq Item
    BY StreamAssumption DEF Item
  <1>2. \A i \in Item : chunks[i] \in Seq(Fragment) /\ chunks[i] \o <<>> = chunks[i]
    OBVIOUS
  <1>3. \A s \in Seq(Fragment) : \A f \in Fragment : Append(s, f) = s \o <<f>>
    OBVIOUS
  <1>4. chunk.text \in Fragment \cup {None} /\ chunk.delta \in Delta \cup {NoDelta}
    BY DEF Chunk
  <1>5. CASE chunk.done
    <2>1. chunks' = chunks
      BY <1>5 DEF RenderEvents, vars, rendererVars
    <2>2. TextPart(chunk) = <<>> /\ chunk.delta = NoDelta
      BY <1>5 DEF Pure, TextPart
    <2>3. \A k : ArgsPart(chunk.delta, k) = <<>>
      BY <2>2, MadeParts
    <2> QED
      BY <1>1, <1>2, <2>1, <2>2, <2>3
  <1>6. CASE ~chunk.done /\ chunk.text # None
    <2>1. TextChunk(chunk.text)
      BY <1>6 DEF RenderEvents
    <2>2. chunks' = [chunks EXCEPT ![Text] = Append(@, chunk.text)]
      BY <2>1 DEF TextChunk
    <2>3. TextPart(chunk) = <<chunk.text>> /\ chunk.delta = NoDelta /\ chunk.text \in Fragment
      BY <1>4, <1>6 DEF Pure, TextPart
    <2>4. \A k : ArgsPart(chunk.delta, k) = <<>>
      BY <2>3, MadeParts
    <2>5. /\ chunks'[Text] = Append(chunks[Text], chunk.text)
          /\ \A k \in Index : chunks'[k] = chunks[k]
      BY <1>1, <2>2
    <2>6. chunks'[Text] = chunks[Text] \o TextPart(chunk)
      BY <1>1, <1>2, <1>3, <2>3, <2>5, Zenon
    <2> QED
      BY <1>1, <1>2, <2>4, <2>5, <2>6
  <1>7. CASE ~chunk.done /\ chunk.text = None
    <2>1. chunk.delta \in Delta
      BY <1>4, <1>7
    <2>2. PICK j : j = chunk.delta.index
      OBVIOUS
    <2>3. PICK f : f = chunk.delta.args
      OBVIOUS
    <2>4. j \in Index /\ f \in Fragment \cup {None}
      BY <2>1, <2>2, <2>3 DEF Delta
    <2>5. FunctionChunk(j, chunk.delta.label.call_id, chunk.delta.label.name, f)
      BY <1>7, <2>2, <2>3 DEF RenderEvents
    <2>6. chunks' = [chunks EXCEPT ![j] = ChunksWith(j, f)]
      BY <2>5 DEF FunctionChunk
    <2>7. TextPart(chunk) = <<>>
      BY <1>7 DEF TextPart
    <2>8. chunks'[Text] = chunks[Text]
      BY <1>1, <2>4, <2>6
    <2>9. ASSUME NEW k \in Index PROVE chunks'[k] = chunks[k] \o ArgsPart(chunk.delta, k)
      <3>1. CASE k # j
        <4>1. ArgsPart(chunk.delta, k) = <<>> /\ chunks'[k] = chunks[k]
          BY <1>1, <2>2, <2>6, <3>1 DEF ArgsPart
        <4> QED
          BY <1>1, <1>2, <4>1
      <3>2. CASE k = j /\ f = None
        <4>1. ArgsPart(chunk.delta, k) = <<>> /\ chunks'[k] = chunks[k]
          BY <1>1, <2>3, <2>6, <3>2 DEF ArgsPart, ChunksWith
        <4> QED
          BY <1>1, <1>2, <4>1
      <3>3. CASE k = j /\ f # None
        <4>1. ArgsPart(chunk.delta, k) = <<f>>
          BY <2>2, <2>3, <3>3 DEF ArgsPart
        <4>2. chunks'[k] = Append(chunks[k], f)
          BY <1>1, <2>6, <3>3 DEF ChunksWith
        <4>3. chunks[k] \in Seq(Fragment) /\ f \in Fragment
          BY <1>1, <1>2, <2>4, <3>3
        <4> QED
          BY <1>3, <4>1, <4>2, <4>3, Zenon
      <3> QED
        BY <3>1, <3>2, <3>3
    <2> QED
      BY <1>1, <1>2, <2>7, <2>8, <2>9
  <1> QED
    BY <1>5, <1>6, <1>7

\* A chunk goes to the client.
LEMMA DeliverWhole ==
  ASSUME PipeInv, StreamInv, WholeInv, Deliver
  PROVE  WholeInv'
  <1>1. PICK chunk : chunk = Head(pending)
    OBVIOUS
  <1>2. /\ pending # <<>> /\ pending' = Tail(pending)
        /\ UNCHANGED <<kind, said, calls, reading, route, outcome, client>>
        /\ IF route # "responses" THEN RenderPlain(chunk)
           ELSE IF Native(chunk) THEN PassOn(chunk)
           ELSE RenderEvents(chunk)
    BY <1>1 DEF Deliver
  <1>3. /\ AdapterInv /\ pending \in Seq(Chunk) /\ said \in Seq(Line) /\ text \in Seq(Fragment)
        /\ passed \in Seq(Line) /\ chunks \in [Item -> Seq(Fragment)] /\ kind \in Kind
        /\ mode \in {"undecided", "native", "rendered"}
    BY DEF PipeInv, AdapterInv, AdapterType, ServiceType, StreamInv, TypeOK
  <1>4. chunk \in Chunk /\ Shows(chunk) /\ (kind = "responses" => pending' = <<>>)
    BY <1>1, <1>2, <1>3, DeliveredInv
  <1>5. /\ kind = "responses" => chunk.native = LastLine /\ chunk.native # NoLine
        /\ kind # "responses" => /\ chunk.native = NoLine
                                 /\ chunk.text # None \/ chunk.done \/ chunk.delta # NoDelta
    <2>1. ASSUME kind = "responses" PROVE LastLine \in Line
      <3>1. said # <<>>
        BY <1>4, <2>1 DEF Shows
      <3> QED
        BY <1>3, <3>1 DEF LastLine
    <2> QED
      BY <1>4, <2>1, NoLineIsNone DEF Shows
  <1>6. /\ pending[1] = chunk /\ 1 \in 1 .. Len(pending)
        /\ \A n \in 1 .. Len(pending') : n + 1 \in 1 .. Len(pending) /\ pending'[n] = pending[n + 1]
    BY <1>1, <1>2, <1>3
  <1>7. kind # "responses" => Pure(chunk) /\ \A n \in 1 .. Len(pending') : Pure(pending'[n])
    BY <1>6 DEF WholeInv
  <1>8. /\ Parts(ChunkText, pending) = TextPart(chunk) \o Parts(ChunkText, pending')
        /\ \A k : Parts(ChunkArgs(k), pending)
                    = ArgsPart(chunk.delta, k) \o Parts(ChunkArgs(k), pending')
        /\ TextPart(chunk) \in Seq(Fragment)
        /\ \A k : ArgsPart(chunk.delta, k) \in Seq(Fragment)
        /\ Parts(ChunkText, pending') \in Seq(Fragment)
        /\ \A k : Parts(ChunkArgs(k), pending') \in Seq(Fragment)
    BY <1>1, <1>2, <1>3, HandedOn
  <1>9. \A got, part, rest \in Seq(Fragment) : (got \o part) \o rest = got \o (part \o rest)
    OBVIOUS
  <1>10. CASE route # "responses"
    <2>1. text' = text \o TextPart(chunk)
      <3>1. text' = IF chunk.text = None THEN text ELSE Append(text, chunk.text)
        BY <1>2, <1>10 DEF RenderPlain
      <3>2. chunk.text \in Fragment \cup {None}
        BY <1>4 DEF Chunk
      <3> QED
        BY <1>3, <3>1, <3>2 DEF TextPart
    <2>2. text \o Parts(ChunkText, pending) = Parts(LineText, said)
      BY <1>10 DEF WholeInv
    <2>3. text' \o Parts(ChunkText, pending') = Parts(LineText, said)
      <3>1. (text \o TextPart(chunk)) \o Parts(ChunkText, pending')
              = text \o (TextPart(chunk) \o Parts(ChunkText, pending'))
        BY <1>3, <1>8, <1>9
      <3>2. Parts(ChunkText, pending) = TextPart(chunk) \o Parts(ChunkText, pending')
        BY <1>8
      <3> QED
        BY <2>1, <2>2, <3>1, <3>2, Zenon
    <2> QED
      BY <1>2, <1>7, <1>10, <2>3 DEF WholeInv
  <1>11. CASE route = "responses" /\ kind = "responses"
    <2>1. mode # "rendered"
      BY <1>11 DEF PipeInv, ModeInv
    <2>2. passed' = Append(passed, chunk.native)
      BY <1>2, <1>3, <1>5, <1>11, <2>1 DEF Native, PassOn
    <2>3. Len(pending) = 1 /\ pending' = <<>>
      <3>1. Len(pending) <= 1 /\ 1 \in 1 .. Len(pending) /\ Len(pending) \in Nat
        BY <1>3, <1>6, <1>11 DEF AdapterInv
      <3>2. Len(pending) = 1
        <4>1. \A m \in Nat : m <= 1 /\ 1 \in 1 .. m => m = 1
          OBVIOUS
        <4> QED
          BY <3>1, <4>1, Zenon
      <3> QED
        BY <1>4, <1>11, <3>2
    <2>4. PendingEvents = <<chunk.native>> /\ PendingEvents' = <<>>
      BY <1>6, <2>3 DEF PendingEvents
    <2>5. passed \o PendingEvents = Parts(LineEvents, said)
      BY <1>11 DEF WholeInv
    <2>6. chunk.native \in Line
      <3>1. chunk.native \in Line \cup {NoLine}
        BY <1>4 DEF Chunk
      <3> QED
        BY <1>5, <1>11, <3>1
    <2>7. passed' \o PendingEvents' = Parts(LineEvents, said)
      BY <1>3, <2>2, <2>4, <2>5, <2>6
    <2> QED
      BY <1>2, <1>7, <1>11, <2>7 DEF WholeInv
  <1>12. CASE route = "responses" /\ kind # "responses"
    <2>1. mode # "native"
      BY <1>12 DEF PipeInv, ModeInv
    <2>2. RenderEvents(chunk)
      BY <1>2, <1>5, <1>12, <2>1 DEF Native
    <2>3. /\ chunks'[Text] = chunks[Text] \o TextPart(chunk)
          /\ \A k \in Index : chunks'[k] = chunks[k] \o ArgsPart(chunk.delta, k)
      BY <1>3, <1>4, <1>5, <1>7, <1>12, <2>2, RenderedParts
    <2>4. chunks[Text] \in Seq(Fragment) /\ \A k \in Index : chunks[k] \in Seq(Fragment)
      BY <1>3 DEF Item
    <2>5. /\ chunks[Text] \o Parts(ChunkText, pending) = Parts(LineText, said)
          /\ \A k \in Index : chunks[k] \o Parts(ChunkArgs(k), pending) = Parts(LineArgs(k), said)
      BY <1>12 DEF WholeInv
    <2>6. chunks'[Text] \o Parts(ChunkText, pending') = Parts(LineText, said)
      <3>1. (chunks[Text] \o TextPart(chunk)) \o Parts(ChunkText, pending')
              = chunks[Text] \o (TextPart(chunk) \o Parts(ChunkText, pending'))
        BY <1>8, <1>9, <2>4
      <3>2. Parts(ChunkText, pending) = TextPart(chunk) \o Parts(ChunkText, pending')
        BY <1>8
      <3> QED
        BY <2>3, <2>5, <3>1, <3>2, Zenon
    <2>7. ASSUME NEW k \in Index
          PROVE  chunks'[k] \o Parts(ChunkArgs(k), pending') = Parts(LineArgs(k), said)
      <3>1. (chunks[k] \o ArgsPart(chunk.delta, k)) \o Parts(ChunkArgs(k), pending')
              = chunks[k] \o (ArgsPart(chunk.delta, k) \o Parts(ChunkArgs(k), pending'))
        <4>1. /\ chunks[k] \in Seq(Fragment) /\ ArgsPart(chunk.delta, k) \in Seq(Fragment)
              /\ Parts(ChunkArgs(k), pending') \in Seq(Fragment)
          BY <1>8, <2>4
        <4> QED
          BY <1>9, <4>1, Zenon
      <3>2. Parts(ChunkArgs(k), pending)
              = ArgsPart(chunk.delta, k) \o Parts(ChunkArgs(k), pending')
        BY <1>8
      <3>3. /\ chunks'[k] = chunks[k] \o ArgsPart(chunk.delta, k)
            /\ chunks[k] \o Parts(ChunkArgs(k), pending) = Parts(LineArgs(k), said)
        BY <2>3, <2>5
      <3> QED
        BY <3>1, <3>2, <3>3, Zenon
    <2>8. client' = "ended" => outcome' = "success"
      BY <1>2 DEF WholeInv
    <2> QED
      BY <1>2, <1>7, <1>12, <2>6, <2>7, <2>8, Zenon DEF WholeInv
  <1> QED
    BY <1>10, <1>11, <1>12

\* The other steps take nothing from what is in hand.
LEMMA WholeKept ==
  ASSUME WholeInv, UNCHANGED <<kind, said, pending, route, text, passed, chunks>>,
         client' = "ended" => outcome' = "success"
  PROVE  WholeInv'
  BY DEF WholeInv, PendingEvents

\* The next provider is called with nothing said and nothing read.
LEMMA RetryWhole ==
  ASSUME PipeInv, StreamInv, WholeInv, ~committed, NEW k \in Kind, Calling(k),
         outcome = "open", UNCHANGED <<route, mode, text, passed, chunks, client, outcome>>
  PROVE  WholeInv'
  <1>1. said' = <<>> /\ pending' = <<>>
    BY DEF Calling
  <1>2. text = <<>> /\ passed = <<>> /\ order = <<>>
    BY DEF PipeInv, ModeInv
  <1>3. \A i \in Item : chunks[i] = <<>>
    <2>1. ToSet(order) = {}
      BY <1>2 DEF ToSet
    <2> QED
      BY <2>1 DEF StreamInv, OrderInv
  <1>4. \A g : Parts(g, <<>>) = <<>>
    BY PartsEmpty
  <1>5. <<>> \o <<>> = <<>> /\ PendingEvents' = <<>>
    BY <1>1 DEF PendingEvents
  <1>6. chunks[Text] = <<>> /\ \A i \in Index : chunks[i] = <<>>
    BY <1>3 DEF Item
  <1>7. client' # "ended" /\ \A n \in 1 .. Len(pending') : Pure(pending'[n])
    BY <1>1 DEF WholeInv
  <1> QED
    BY <1>1, <1>2, <1>4, <1>5, <1>6, <1>7, Zenon DEF WholeInv

\* Every step keeps the difference.
LEMMA WholeStep == PipeInv /\ StreamInv /\ WholeInv /\ [PipelineNext]_allVars => WholeInv'
  <1> SUFFICES ASSUME PipeInv, StreamInv, WholeInv, [PipelineNext]_allVars PROVE WholeInv'
    OBVIOUS
  <1>1. CASE UNCHANGED allVars
    <2>1. UNCHANGED <<kind, said, pending, route, text, passed, chunks, client, outcome>>
      BY <1>1 DEF allVars, adapterVars, serviceVars, routeVars, vars, rendererVars
    <2> QED
      BY <2>1, WholeKept DEF WholeInv
  <1>2. CASE Pull
    BY <1>2, PullWhole
  <1>3. CASE Deliver
    BY <1>3, DeliverWhole
  <1>4. ASSUME Break \/ EndOfChunks \/ FinishStep \/ UNCHANGED vars PROVE UNCHANGED chunks
    BY <1>4 DEF Break, EndOfChunks, FinishStep, FinishText, FinishCall, FailUnnamed, Complete,
                vars, rendererVars
  <1>5. CASE AttemptSucceeds
    <2>1. /\ UNCHANGED <<adapterVars, route, text, passed>> /\ outcome' = "success"
          /\ EndOfChunks \/ UNCHANGED vars
      BY <1>5 DEF AttemptSucceeds
    <2> QED
      BY <1>4, <2>1, WholeKept DEF adapterVars
  <1>6. CASE AttemptFails
    <2>1. UNCHANGED <<route, mode, text, passed>> /\ RaiseOrRetry /\ outcome = "open"
      BY <1>6 DEF AttemptFails
    <2>2. CASE committed \/ reading = "terminal" \/ attempt = MaxAttempts
      <3>1. BreakOff /\ UNCHANGED adapterVars
        BY <2>1, <2>2 DEF RaiseOrRetry
      <3>2. client' = "broken" /\ (Break \/ UNCHANGED vars)
        BY <3>1 DEF BreakOff
      <3> QED
        BY <1>4, <2>1, <3>1, <3>2, WholeKept DEF adapterVars
    <2>3. CASE ~(committed \/ reading = "terminal" \/ attempt = MaxAttempts)
      <3>1. (\E k \in Kind : Calling(k)) /\ UNCHANGED <<client, outcome, vars>>
        BY <2>1, <2>3 DEF RaiseOrRetry
      <3> QED
        BY <1>4, <2>1, <2>3, <3>1, RetryWhole
    <2> QED
      BY <2>2, <2>3
  <1>7. CASE AttemptRaises
    <2>1. /\ UNCHANGED <<adapterVars, route, text, passed>> /\ client' = "broken"
          /\ Break \/ UNCHANGED vars
      BY <1>7 DEF AttemptRaises, BreakOff
    <2> QED
      BY <1>4, <2>1, WholeKept DEF adapterVars
  <1>8. CASE ClientLeaves
    <2>1. /\ UNCHANGED <<adapterVars, route, text, passed>> /\ client' = "gone"
          /\ Break \/ UNCHANGED vars
      BY <1>8 DEF ClientLeaves
    <2> QED
      BY <1>4, <2>1, WholeKept DEF adapterVars
  <1>9. CASE RenderEnd
    <2>1. /\ FinishStep /\ UNCHANGED <<adapterVars, serviceVars, text, passed>>
      BY <1>9 DEF RenderEnd
    <2>2. stage = "ending"
      BY <2>1 DEF FinishStep, FinishText, FinishCall, FailUnnamed, Complete, Finishing
    <2>3. outcome = "success" /\ UNCHANGED <<route, outcome>>
      BY <2>1, <2>2 DEF PipeInv, EndInv, serviceVars
    <2> QED
      BY <1>4, <2>1, <2>3, WholeKept DEF adapterVars
  <1> QED
    BY <1>1, <1>2, <1>3, <1>5, <1>6, <1>7, <1>8, <1>9 DEF PipelineNext, StreamStep

\* It starts as nothing.
LEMMA InitWhole == PipelineInit => WholeInv
  <1> SUFFICES ASSUME PipelineInit PROVE WholeInv
    OBVIOUS
  <1>1. Init
    BY InitPipe
  <1>2. /\ said = <<>> /\ pending = <<>> /\ text = <<>> /\ passed = <<>>
        /\ client = "reading"
    BY DEF PipelineInit
  <1>3. chunks[Text] = <<>> /\ \A i \in Index : chunks[i] = <<>>
    BY <1>1 DEF Init, Item
  <1>4. \A g : Parts(g, <<>>) = <<>>
    BY PartsEmpty
  <1>5. <<>> \o <<>> = <<>> /\ PendingEvents = <<>>
    BY <1>2 DEF PendingEvents
  <1>6. client # "ended" /\ \A n \in 1 .. Len(pending) : Pure(pending[n])
    BY <1>2
  <1> QED
    BY <1>2, <1>3, <1>4, <1>5, <1>6, Zenon DEF WholeInv

\* What upstream has said is in the client's hands or on the way to it, for
\* answers of any length, on every route and behind every adapter.
THEOREM NothingIsLost == PipelineSpec => []WholeSoFar
  <1>1. PipelineInit => PipeInv /\ StreamInv /\ WholeInv
    BY InitPipe, InitInv, InitWhole
  <1>2. /\ PipeInv /\ StreamInv /\ WholeInv /\ [PipelineNext]_allVars
        => (PipeInv /\ StreamInv /\ WholeInv)'
    BY PipeStep, StepInv, WholeStep
  <1>3. PipeInv /\ WholeInv => WholeSoFar
    <2> SUFFICES ASSUME PipeInv, WholeInv PROVE WholeSoFar
      OBVIOUS
    <2>1. said \in Seq(Line) /\ pending \in Seq(Chunk)
      BY DEF PipeInv, AdapterInv, AdapterType
    <2>2. /\ TextIn(said) = Parts(LineText, said) /\ TextIn(pending) = Parts(ChunkText, pending)
          /\ EventsIn(said) = Parts(LineEvents, said)
      BY <2>1, PartsMeant, Zenon
    <2>3. \A k : /\ SaidArgs(k) = Parts(LineArgs(k), said)
                 /\ PendingArgs(k) = Parts(ChunkArgs(k), pending)
      BY <2>1, ArgsMeant
    <2>4. (mode = "native" => route = "responses" /\ kind = "responses")
          /\ (mode = "rendered" => route = "responses" /\ kind # "responses")
      BY DEF PipeInv, ModeInv
    <2>5. outcome = "success" \/ client = "ended" => pending = <<>>
      BY DEF PipeInv, UsageInv, WholeInv
    <2> QED
      BY <2>2, <2>3, <2>4, <2>5, Zenon DEF WholeInv, WholeSoFar
  <1> QED
    BY <1>1, <1>2, <1>3, PTL DEF PipelineSpec

-----------------------------------------------------------------------------
(***************************************************************************)
(* The call ids and names of rendered calls.                               *)
(***************************************************************************)

\* What upstream has said of a call: a label, an id, a name.
SaidLabel(k, l) ==
  \E m \in 1 .. Len(said) : \E j \in 1 .. Len(said[m].deltas) :
    said[m].deltas[j].index = k /\ said[m].deltas[j].label = l

SaidId(k, id)  == id # None /\ \E l : SaidLabel(k, l) /\ l.call_id = id
SaidName(k, n) == n # None /\ \E l : SaidLabel(k, l) /\ l.name = n

\* A delta of the call is in hand that has an id.
IdInHand(k) ==
  \E n \in 1 .. Len(pending) :
    pending[n].delta.index = k /\ pending[n].delta.label.call_id # None

\* What the renderer knows of a call and has told the client is what upstream
\* has said, or a made-up id.  Once upstream has given an id the renderer has
\* one of upstream's, or is about to get it.
KnownLabels(k) ==
  /\ call_id[k] \in {None, Synthetic} \/ SaidId(k, call_id[k])
  /\ name[k] = None \/ SaidName(k, name[k])
  /\ (\E id : SaidId(k, id)) => SaidId(k, call_id[k]) \/ IdInHand(k)
  /\ k \in announced =>
       SaidName(k, label[k].name) /\ (label[k].call_id = Synthetic \/ SaidId(k, label[k].call_id))
  /\ k \in Items(done) =>
       /\ SaidName(k, final[k].name)
       /\ SaidId(k, final[k].call_id) \/ (final[k].call_id = Synthetic /\ ~\E id : SaidId(k, id))

HandedLabels(k) ==
  \A n \in 1 .. Len(pending) :
    pending[n].delta.index = k => SaidLabel(k, pending[n].delta.label)

LabelInv ==
  /\ done # <<>> => outcome = "success"
  /\ order = <<>> => \A k \in Index : call_id[k] = None /\ name[k] = None
  /\ route = "responses" /\ kind # "responses" =>
       \A k \in Index : KnownLabels(k) /\ HandedLabels(k)

\* What is said of a call stays said.
LEMMA SaidKept ==
  ASSUME UNCHANGED said
  PROVE  \A k, x : /\ SaidLabel(k, x)' <=> SaidLabel(k, x)
                   /\ SaidId(k, x)' <=> SaidId(k, x)
                   /\ SaidName(k, x)' <=> SaidName(k, x)
  <1>1. \A k, x : SaidLabel(k, x)' <=> SaidLabel(k, x)
    BY DEF SaidLabel
  <1> QED
    BY <1>1 DEF SaidId, SaidName

\* What a label says is said.
LEMMA LabelParts ==
  ASSUME NEW k, NEW l, SaidLabel(k, l)
  PROVE  (l.call_id # None => SaidId(k, l.call_id)) /\ (l.name # None => SaidName(k, l.name))
  BY DEF SaidId, SaidName

\* Nothing is known at first, and when the next provider is called.
NothingLabelled(k) ==
  /\ said = <<>> /\ pending = <<>> /\ announced = {} /\ done = <<>>
  /\ call_id[k] = None /\ name[k] = None

LEMMA NoLabels ==
  ASSUME NEW k \in Index
  PROVE  /\ NothingLabelled(k) => KnownLabels(k) /\ HandedLabels(k)
         /\ NothingLabelled(k)' => KnownLabels(k)' /\ HandedLabels(k)'
  <1>1. \A m \in 1 .. Len(<<>>) : FALSE
    OBVIOUS
  <1>2. /\ NothingLabelled(k) => ~\E id : SaidId(k, id)
        /\ NothingLabelled(k)' => ~\E id : SaidId(k, id)'
    BY <1>1 DEF SaidId, SaidLabel, NothingLabelled
  <1>3. /\ NothingLabelled(k) => k \notin Items(done)
        /\ NothingLabelled(k)' => k \notin Items(done')
    BY <1>1 DEF Items, NothingLabelled
  <1>4. /\ NothingLabelled(k) => HandedLabels(k)
        /\ NothingLabelled(k)' => HandedLabels(k)'
    BY <1>1 DEF HandedLabels, NothingLabelled
  <1> QED
    BY <1>2, <1>3, <1>4 DEF KnownLabels, NothingLabelled

\* What a delta of a call changes in what is known of calls.
LabelsAfter(k, id, n) ==
  /\ \/ call_id'[k] = IF id # None THEN id ELSE call_id[k]
     \/ id = None /\ call_id[k] = None /\ call_id'[k] = Synthetic
  /\ name'[k] = IF n # None THEN n ELSE name[k]
  /\ k \in announced' =>
       \/ k \in announced /\ label'[k] = label[k]
       \/ label'[k].call_id = call_id'[k] /\ label'[k].name = name'[k] /\ name'[k] # None
  /\ k \in announced' => call_id'[k] # None
  /\ \A j \in Index \ {k} : /\ call_id'[j] = call_id[j] /\ name'[j] = name[j]
                            /\ label'[j] = label[j]
                            /\ j \in announced' <=> j \in announced
  /\ order' # <<>>
  /\ done = <<>> /\ done' = <<>>

LEMMA FunctionChunkLabels ==
  ASSUME StreamInv, NEW k \in Index, NEW id \in CallId \cup {None}, NEW n \in AnyName,
         NEW f \in Fragment \cup {None}, FunctionChunk(k, id, n, f)
  PROVE  LabelsAfter(k, id, n)
  <1> DEFINE newId   == IF id # None THEN id ELSE call_id[k]
             newName == IF n # None THEN n ELSE name[k]
             cs      == ChunksWith(k, f)
  <1>1. /\ Index \subseteq Item /\ k \in Item
        /\ name \in [Item -> AnyName] /\ call_id \in [Item -> AnyId]
        /\ label \in [Item -> [call_id : AnyId, name : AnyName]]
        /\ order \in Seq(Item)
    BY DEF StreamInv, TypeOK, Item
  <1>2. /\ name' = [name EXCEPT ![k] = newName]
        /\ order' = OrderWith(k)
        /\ done' = done /\ stage = "open"
    BY DEF FunctionChunk
  <1>3. done = <<>>
    BY <1>2 DEF StreamInv, DoneInv, TypeOK
  <1>4. order' # <<>>
    <2>1. ToSet(<<>>) = {}
      BY DEF ToSet
    <2> QED
      BY <1>1, <1>2, <2>1 DEF OrderWith
  <1>5. StreamInv'
    BY FunctionChunkInv
  <1>6. k \in announced' => name'[k] # None /\ call_id'[k] # None
    <2>1. k # Text
      BY StreamAssumption
    <2> QED
      BY <1>5, <2>1 DEF StreamInv, HeldUntilNamed, DoneInv
  <1>7. CASE k \in announced \/ newName # None
    <2>1. /\ announced' = announced \cup {k}
          /\ call_id' = [call_id EXCEPT ![k] = IF k \in announced THEN newId
                                               ELSE IF newId = None THEN Synthetic ELSE newId]
          /\ label' = IF k \in announced THEN label
                      ELSE [label EXCEPT ![k] =
                              [call_id |-> IF newId = None THEN Synthetic ELSE newId,
                               name |-> newName]]
      BY <1>7 DEF FunctionChunk, Announce
    <2> HIDE DEF cs
    <2>2. CASE k \in announced
      BY <1>1, <1>2, <1>3, <1>4, <1>6, <2>1, <2>2 DEF LabelsAfter
    <2>3. CASE k \notin announced
      <3> DEFINE known == IF newId = None THEN Synthetic ELSE newId
      <3>1. call_id'[k] = known /\ \A j \in Index \ {k} : call_id'[j] = call_id[j]
        BY <1>1, <2>1, <2>3
      <3>2. /\ label'[k] = [call_id |-> known, name |-> newName]
            /\ \A j \in Index \ {k} : label'[j] = label[j]
        BY <1>1, <2>1, <2>3
      <3>3. name'[k] = newName /\ \A j \in Index \ {k} : name'[j] = name[j]
        BY <1>1, <1>2
      <3>4. \A j \in Index \ {k} : j \in announced' <=> j \in announced
        BY <2>1
      <3>5. \/ known = newId
            \/ id = None /\ call_id[k] = None /\ known = Synthetic
        BY ChunkAssumption
      <3> QED
        BY <1>3, <1>2, <1>4, <1>6, <3>1, <3>2, <3>3, <3>4, <3>5 DEF LabelsAfter
    <2> QED
      BY <2>2, <2>3
  <1>8. CASE k \notin announced /\ newName = None
    <2>1. call_id' = [call_id EXCEPT ![k] = newId] /\ UNCHANGED <<announced, label>>
      BY <1>8 DEF FunctionChunk
    <2> QED
      BY <1>1, <1>2, <1>3, <1>4, <1>8, <2>1 DEF LabelsAfter
  <1> QED
    BY <1>7, <1>8

\* The next chunk is gone from what is in hand, and if it is not of the call,
\* no id of it is gone.
LEMMA HandAfter ==
  ASSUME pending \in Seq(Chunk), pending # <<>>, pending' = Tail(pending), UNCHANGED said,
         NEW k \in Index
  PROVE  /\ HandedLabels(k) => HandedLabels(k)'
         /\ HandedLabels(k) /\ Head(pending).delta.index = k => SaidLabel(k, Head(pending).delta.label)
         /\ IdInHand(k) => \/ IdInHand(k)'
                           \/ /\ Head(pending).delta.index = k
                              /\ Head(pending).delta.label.call_id # None
  <1>1. /\ Head(pending) = pending[1] /\ 1 \in 1 .. Len(pending)
        /\ \A n \in 1 .. Len(pending') : n + 1 \in 1 .. Len(pending) /\ pending'[n] = pending[n + 1]
        /\ \A n \in 1 .. Len(pending) :
             n = 1 \/ (n - 1 \in 1 .. Len(pending') /\ pending'[n - 1] = pending[n])
    OBVIOUS
  <1>2. HandedLabels(k) => HandedLabels(k)'
    BY <1>1, SaidKept DEF HandedLabels
  <1>3. HandedLabels(k) /\ Head(pending).delta.index = k => SaidLabel(k, Head(pending).delta.label)
    BY <1>1 DEF HandedLabels
  <1>4. ASSUME IdInHand(k), ~(/\ Head(pending).delta.index = k
                              /\ Head(pending).delta.label.call_id # None)
        PROVE  IdInHand(k)'
    <2>1. PICK n \in 1 .. Len(pending) :
            pending[n].delta.index = k /\ pending[n].delta.label.call_id # None
      BY <1>4 DEF IdInHand
    <2>2. n # 1
      BY <1>1, <1>4, <2>1
    <2>3. n - 1 \in 1 .. Len(pending') /\ pending'[n - 1] = pending[n]
      BY <1>1, <2>2
    <2> QED
      BY <2>1, <2>3 DEF IdInHand
  <1> QED
    BY <1>2, <1>3, <1>4

\* A chunk that says nothing of a call leaves what is known of it.
LEMMA KnownKept ==
  ASSUME NEW k \in Index, KnownLabels(k), UNCHANGED said,
         call_id'[k] = call_id[k], name'[k] = name[k], label'[k] = label[k],
         k \in announced' => k \in announced, UNCHANGED <<done, final>>,
         IdInHand(k) => IdInHand(k)'
  PROVE  KnownLabels(k)'
  BY SaidKept DEF KnownLabels

\* A chunk that is rendered.
LEMMA RenderLabels ==
  ASSUME PipeInv, StreamInv, WholeInv, LabelInv, kind # "responses", route = "responses",
         pending # <<>>, RenderEvents(Head(pending)), pending' = Tail(pending),
         UNCHANGED <<kind, said, route, outcome>>
  PROVE  LabelInv'
  <1>1. PICK c : c = Head(pending)
    OBVIOUS
  <1>2. pending \in Seq(Chunk)
    BY DEF PipeInv, AdapterInv, AdapterType
  <1>3. c \in Chunk /\ Pure(c) /\ (c.text # None \/ c.done \/ c.delta # NoDelta)
    <2>1. c = pending[1] /\ 1 \in 1 .. Len(pending)
      BY <1>1, <1>2
    <2> QED
      BY <1>2, <2>1 DEF WholeInv, PipeInv, AdapterInv, PendingShown, Shows
  <1>4. \A k \in Index : KnownLabels(k) /\ HandedLabels(k)
    BY DEF LabelInv
  <1>5. \A k \in Index :
          /\ HandedLabels(k)'
          /\ c.delta.index = k => SaidLabel(k, c.delta.label)
          /\ IdInHand(k) => IdInHand(k)' \/ (c.delta.index = k /\ c.delta.label.call_id # None)
    BY <1>1, <1>2, <1>4, HandAfter
  <1>6. RenderEvents(c)
    BY <1>1
  <1>7. CASE c.done \/ c.text # None
    <2>1. c.delta = NoDelta
      BY <1>3, <1>7 DEF Pure
    <2>2. \A k \in Index : c.delta.index # k
      BY <2>1, ChunkAssumption DEF NoDelta
    <2>3. /\ UNCHANGED <<name, call_id, label, done, final>> /\ announced' \in {announced, announced \cup {Text}}
          /\ order' = order \/ order' = OrderWith(Text)
      BY <1>6, <1>7 DEF RenderEvents, TextChunk, vars, rendererVars, clientVars
    <2>4. order' = <<>> => order = <<>>
      <3>1. ToSet(<<>>) = {} /\ order \in Seq(Item)
        BY DEF ToSet, StreamInv, TypeOK
      <3> QED
        BY <2>3, <3>1 DEF OrderWith
    <2>5. \A k \in Index : k \in announced' => k \in announced
      BY <2>3, StreamAssumption
    <2>6. \A k \in Index : KnownLabels(k)'
      BY <1>4, <1>5, <2>2, <2>3, <2>5, KnownKept
    <2> QED
      BY <1>5, <2>3, <2>4, <2>6 DEF LabelInv
  <1>8. CASE ~c.done /\ c.text = None
    <2>1. c.delta \in Delta
      BY <1>3, <1>8 DEF Chunk
    <2>2. PICK j \in Index, id \in CallId \cup {None}, n \in AnyName, f \in Fragment \cup {None} :
            /\ j = c.delta.index /\ id = c.delta.label.call_id /\ n = c.delta.label.name
            /\ f = c.delta.args
      BY <2>1 DEF Delta, Label, AnyName
    <2>3. FunctionChunk(j, id, n, f)
      BY <1>6, <1>8, <2>2 DEF RenderEvents
    <2>4. /\ \/ call_id'[j] = IF id # None THEN id ELSE call_id[j]
             \/ id = None /\ call_id[j] = None /\ call_id'[j] = Synthetic
          /\ name'[j] = IF n # None THEN n ELSE name[j]
          /\ j \in announced' =>
               \/ j \in announced /\ label'[j] = label[j]
               \/ label'[j].call_id = call_id'[j] /\ label'[j].name = name'[j] /\ name'[j] # None
          /\ j \in announced' => call_id'[j] # None
          /\ \A k \in Index \ {j} : /\ call_id'[k] = call_id[k] /\ name'[k] = name[k]
                                    /\ label'[k] = label[k]
                                    /\ k \in announced' <=> k \in announced
          /\ order' # <<>>
          /\ done = <<>> /\ done' = <<>>
      <3>1. LabelsAfter(j, id, n)
        BY <2>3, FunctionChunkLabels
      <3> QED
        BY <3>1 DEF LabelsAfter
    <2>5. \A k \in Index : k \notin Items(done) /\ k \notin Items(done')
      <3>1. \A m \in 1 .. Len(<<>>) : FALSE
        OBVIOUS
      <3> QED
        BY <2>4, <3>1 DEF Items
    <2>6. ASSUME NEW k \in Index, k # j PROVE KnownLabels(k)'
      <3>1. IdInHand(k) => IdInHand(k)'
        BY <1>5, <2>2, <2>6
      <3>2. KnownLabels(k)
        BY <1>4
      <3> QED
        BY <2>4, <2>5, <2>6, <3>1, <3>2, SaidKept DEF KnownLabels
    <2>7. KnownLabels(j)'
      <3>1. KnownLabels(j)
        BY <1>4
      <3>2. /\ id # None => SaidId(j, id)
            /\ n # None => SaidName(j, n)
        BY <1>5, <2>2, LabelParts
      <3>3. \A x : /\ SaidId(j, x)' <=> SaidId(j, x)
                   /\ SaidName(j, x)' <=> SaidName(j, x)
        BY SaidKept
      <3>4. call_id'[j] \in {None, Synthetic} \/ SaidId(j, call_id'[j])
        BY <2>4, <3>1, <3>2 DEF KnownLabels
      <3>5. name'[j] = None \/ SaidName(j, name'[j])
        BY <2>4, <3>1, <3>2 DEF KnownLabels
      <3>6. (\E x : SaidId(j, x)) => SaidId(j, call_id'[j]) \/ IdInHand(j)'
        <4>1. SaidId(j, call_id[j]) => SaidId(j, call_id'[j])
          BY <2>4, <3>2 DEF SaidId
        <4>2. IdInHand(j) => IdInHand(j)' \/ SaidId(j, call_id'[j])
          BY <1>5, <2>2, <2>4, <3>2
        <4> QED
          BY <3>1, <4>1, <4>2 DEF KnownLabels
      <3>7. j \in announced' =>
              /\ SaidName(j, label'[j].name)
              /\ label'[j].call_id = Synthetic \/ SaidId(j, label'[j].call_id)
        BY <2>4, <3>1, <3>4, <3>5 DEF KnownLabels
      <3> QED
        BY <2>5, <3>3, <3>4, <3>5, <3>6, <3>7 DEF KnownLabels
    <2> QED
      BY <1>5, <2>4, <2>6, <2>7 DEF LabelInv
  <1> QED
    BY <1>7, <1>8

\* What a concatenation holds at each index.
LEMMA ConcatIndex ==
  ASSUME NEW S, NEW s \in Seq(S), NEW t \in Seq(S), NEW j \in 1 .. Len(t)
  PROVE  Len(s) + j \in 1 .. Len(s \o t) /\ (s \o t)[Len(s) + j] = t[j]
  OBVIOUS

\* Every delta of a line of Chat Completions comes out of the adapter, and of
\* an event of the Messages wire,
LEMMA ChatDeltas ==
  ASSUME NEW line \in Line, NEW j \in 1 .. Len(line.deltas)
  PROVE  \E n \in 1 .. Len(ChatChunks(line)) : ChatChunks(line)[n].delta = line.deltas[j]
  <1> DEFINE ts == IF line.text = None THEN <<>> ELSE <<TextOf(line.text)>>
             ds == [i \in 1 .. Len(line.deltas) |-> DeltaOf(line.deltas[i])]
  <1>1. LineFacts(line) /\ line.deltas \in Seq(Delta) /\ Len(line.deltas) \in Nat
    BY LineType DEF LineFacts
  <1>2. line.type # "end"
    <2>1. line.deltas # <<>>
      <3>1. \A n \in 1 .. Len(<<>>) : FALSE
        OBVIOUS
      <3> QED
        BY <3>1
    <2> QED
      BY <1>1, <2>1 DEF LineFacts
  <1>3. ChatChunks(line) = ts \o ds
    BY <1>2 DEF ChatChunks
  <1>4. /\ line.text # None => TextOf(line.text) \in Chunk
        /\ \A i \in 1 .. Len(line.deltas) : DeltaOf(line.deltas[i]) \in Chunk
    BY <1>1, NoChunkType, ElementOfSeq DEF LineFacts
  <1>5. ts \in Seq(Chunk)
    <2>1. \A c \in Chunk : <<c>> \in Seq(Chunk)
      OBVIOUS
    <2>2. <<>> \in Seq(Chunk)
      OBVIOUS
    <2> QED
      BY <1>4, <2>1, <2>2, Zenon
  <1>6. ds \in [1 .. Len(line.deltas) -> Chunk] /\ ds[j] = DeltaOf(line.deltas[j])
    BY <1>4
  <1> HIDE DEF ts, ds
  <1>7. ds \in Seq(Chunk) /\ Len(ds) = Len(line.deltas)
    BY <1>1, <1>6, OfLength
  <1>8. PICK n \in 1 .. Len(ts \o ds) : (ts \o ds)[n] = ds[j]
    <2>1. j \in 1 .. Len(ds)
      BY <1>7
    <2>2. Len(ts) + j \in 1 .. Len(ts \o ds) /\ (ts \o ds)[Len(ts) + j] = ds[j]
      BY <1>5, <1>7, <2>1, ConcatIndex, Zenon
    <2> QED
      BY <2>2, Zenon
  <1>9. DeltaOf(line.deltas[j]).delta = line.deltas[j]
    BY DEF DeltaOf, NoChunk
  <1> QED
    BY <1>3, <1>6, <1>8, <1>9

LEMMA MessagesDeltas ==
  ASSUME NEW line \in Line, OneThing(line), NEW j \in 1 .. Len(line.deltas)
  PROVE  \E n \in 1 .. Len(MessagesChunks(line)) : MessagesChunks(line)[n].delta = line.deltas[j]
  <1>1. line.deltas # <<>>
    <2>1. \A n \in 1 .. Len(<<>>) : FALSE
      OBVIOUS
    <2> QED
      BY <2>1
  <1>2. PICK d \in Delta : line.deltas = <<d>>
    BY <1>1 DEF OneThing
  <1>3. line.type # "end"
    BY <1>1, LineType DEF LineFacts
  <1>4. MessagesChunks(line) = <<DeltaOf(d)>>
    <2>1. line.deltas[1] = d
      BY <1>2
    <2>2. line.text = None
      BY <1>1 DEF OneThing
    <2> QED
      BY <1>1, <1>3, <2>1, <2>2 DEF MessagesChunks
  <1>5. DeltaOf(d).delta = d
    BY DEF DeltaOf, NoChunk
  <1>6. j = 1
    BY <1>2
  <1> QED
    BY <1>2, <1>4, <1>5, <1>6

\* A line of labels is read: they are in hand.
LEMMA ReadLabels ==
  ASSUME PipeInv, LabelInv, NEW line \in Wire[kind], ReadLine(line), outcome = "open",
         UNCHANGED <<vars, route, outcome>>
  PROVE  LabelInv'
  <1>1. AdapterType /\ kind \in Kind /\ said \in Seq(Line)
    BY DEF PipeInv, AdapterInv, AdapterType
  <1>2. /\ line \in Line /\ (kind # "chat" => OneThing(line)) /\ LineFacts(line)
    BY <1>1, WireFacts, LineType
  <1>3. /\ kind' = kind /\ said' = Append(said, line) /\ pending = <<>>
        /\ pending' = Chunks(line)
    BY DEF ReadLine, AwaitsLine
  <1>4. /\ UNCHANGED <<name, call_id, label, announced, done, final, order>>
        /\ done = <<>>
    BY DEF vars, rendererVars, clientVars, LabelInv
  <1> SUFFICES ASSUME route = "responses", kind # "responses", NEW k \in Index
               PROVE  KnownLabels(k)' /\ HandedLabels(k)'
    BY <1>3, <1>4 DEF LabelInv
  <1>5. KnownLabels(k)
    BY DEF LabelInv
  <1>6. /\ Len(said') \in 1 .. Len(said') /\ said'[Len(said')] = line
        /\ \A m \in 1 .. Len(said) : m \in 1 .. Len(said') /\ said'[m] = said[m]
        /\ \A m \in 1 .. Len(said') : m \in 1 .. Len(said) \/ said'[m] = line
    BY <1>1, <1>2, <1>3
  <1>7. \A l : SaidLabel(k, l)' <=>
                 \/ SaidLabel(k, l)
                 \/ \E j \in 1 .. Len(line.deltas) :
                      line.deltas[j].index = k /\ line.deltas[j].label = l
    BY <1>6 DEF SaidLabel
  <1>8. \A x : (SaidId(k, x) => SaidId(k, x)') /\ (SaidName(k, x) => SaidName(k, x)')
    BY <1>7 DEF SaidId, SaidName
  <1>9. pending' \in Seq(Plain(line))
    BY <1>1, <1>2, <1>3, ChatPlain, MessagesPlain DEF Chunks, Kind
  <1>10. HandedLabels(k)'
    <2>1. ASSUME NEW n \in 1 .. Len(pending'), pending'[n].delta.index = k,
                 NEW l, l = pending'[n].delta.label
          PROVE  SaidLabel(k, l)'
      <3>1. pending'[n] \in Plain(line)
        BY <1>9
      <3>2. pending'[n].delta # NoDelta
        BY <2>1, ChunkAssumption DEF NoDelta
      <3>3. PICK j \in 1 .. Len(line.deltas) : pending'[n].delta = line.deltas[j]
        BY <1>2, <3>1, <3>2, PlainFields
      <3>4. line.deltas[j].index = k /\ line.deltas[j].label = l
        BY <2>1, <3>3
      <3> QED
        BY <1>7, <3>4
    <2> QED
      BY <2>1 DEF HandedLabels, SaidLabel
  <1>11. (\E id : SaidId(k, id)') => SaidId(k, call_id[k])' \/ IdInHand(k)'
    <2> SUFFICES ASSUME NEW id, SaidId(k, id)' PROVE SaidId(k, call_id[k])' \/ IdInHand(k)'
      OBVIOUS
    <2>1. PICK l : id # None /\ SaidLabel(k, l)' /\ l.call_id = id
      BY DEF SaidId
    <2>2. CASE SaidLabel(k, l)
      <3>1. SaidId(k, id)
        BY <2>1, <2>2 DEF SaidId
      <3>2. ~IdInHand(k)
        BY <1>3 DEF IdInHand
      <3>3. SaidId(k, call_id[k])
        BY <1>5, <3>1, <3>2 DEF KnownLabels
      <3> QED
        BY <1>4, <1>8, <3>3
    <2>3. CASE \E j \in 1 .. Len(line.deltas) :
                 line.deltas[j].index = k /\ line.deltas[j].label = l
      <3>1. PICK j \in 1 .. Len(line.deltas) :
              line.deltas[j].index = k /\ line.deltas[j].label = l
        BY <2>3
      <3>2. \E n \in 1 .. Len(pending') : pending'[n].delta = line.deltas[j]
        BY <1>1, <1>2, <1>3, ChatDeltas, MessagesDeltas DEF Chunks, Kind
      <3> QED
        BY <2>1, <3>1, <3>2 DEF IdInHand
    <2> QED
      BY <1>7, <2>1, <2>2, <2>3
  <1>12. k \notin Items(done')
    <2>1. \A m \in 1 .. Len(<<>>) : FALSE
      OBVIOUS
    <2> QED
      BY <1>4, <2>1 DEF Items
  <1>13. KnownLabels(k)'
    BY <1>4, <1>5, <1>8, <1>11, <1>12 DEF KnownLabels
  <1> QED
    BY <1>10, <1>13

\* Nothing that LabelInv speaks of changes.
LEMMA LabelsStay ==
  ASSUME LabelInv, UNCHANGED <<kind, said, pending, route, order, name, call_id, label,
                               announced, done, final>>,
         outcome = "success" => outcome' = "success"
  PROVE  LabelInv'
  <1>1. \A k, x : /\ SaidLabel(k, x)' <=> SaidLabel(k, x)
                  /\ SaidId(k, x)' <=> SaidId(k, x)
                  /\ SaidName(k, x)' <=> SaidName(k, x)
    BY SaidKept
  <1>2. \A k : IdInHand(k)' <=> IdInHand(k)
    BY DEF IdInHand
  <1>3. ASSUME NEW k \in Index, KnownLabels(k), HandedLabels(k)
        PROVE  KnownLabels(k)' /\ HandedLabels(k)'
    BY <1>1, <1>2, <1>3 DEF KnownLabels, HandedLabels
  <1> QED
    BY <1>3 DEF LabelInv

\* A call is done with the name and the id it has.
LEMMA FinishLabels ==
  ASSUME PipeInv, StreamInv, LabelInv, FinishStep,
         UNCHANGED <<kind, said, pending, route, outcome>>
  PROVE  LabelInv'
  <1>1. stage = "ending" /\ UNCHANGED order
    BY DEF FinishStep, FinishText, FinishCall, FailUnnamed, Complete, Finishing
  <1>2. outcome = "success" /\ pending = <<>>
    BY <1>1 DEF PipeInv, EndInv, UsageInv, ModeInv, Rendering, ServiceType
  <1>3. CASE Complete \/ \E k \in Index : FailUnnamed(k)
    <2>1. UNCHANGED <<order, name, call_id, label, announced, done, final>>
      BY <1>3 DEF Complete, FailUnnamed, clientVars
    <2> QED
      BY <2>1, LabelsStay
  <1>4. ASSUME NEW i \in Item, Items(done') = Items(done) \cup {i},
               \A k \in Index \ {i} : final'[k] = final[k],
               UNCHANGED <<name, call_id, label, announced>>,
               i # Text => /\ final'[i].call_id = call_id[i] /\ final'[i].name = name[i]
                           /\ name[i] # None /\ call_id[i] # None
        PROVE  LabelInv'
    <2>1. \A k, x : /\ SaidLabel(k, x)' <=> SaidLabel(k, x)
                    /\ SaidId(k, x)' <=> SaidId(k, x)
                    /\ SaidName(k, x)' <=> SaidName(k, x)
      BY SaidKept
    <2>2. \A k : ~IdInHand(k) /\ ~IdInHand(k)'
      <3>1. \A m \in 1 .. Len(<<>>) : FALSE
        OBVIOUS
      <3> QED
        BY <1>2, <3>1 DEF IdInHand
    <2>3. ASSUME route = "responses", kind # "responses", NEW k \in Index
          PROVE  KnownLabels(k)' /\ HandedLabels(k)'
      <3>1. KnownLabels(k) /\ HandedLabels(k)
        BY <2>3 DEF LabelInv
      <3>2. HandedLabels(k)'
        BY <2>1, <3>1 DEF HandedLabels
      <3>3. k \in Items(done') =>
              /\ SaidName(k, final'[k].name)
              /\ \/ SaidId(k, final'[k].call_id)
                 \/ final'[k].call_id = Synthetic /\ ~\E id : SaidId(k, id)
        <4>1. CASE k = i
          <5>1. k # Text
            BY StreamAssumption
          <5> QED
            BY <1>4, <2>2, <3>1, <4>1, <5>1 DEF KnownLabels
        <4>2. CASE k # i
          BY <1>4, <3>1, <4>2 DEF KnownLabels
        <4> QED
          BY <4>1, <4>2
      <3> QED
        BY <1>4, <2>1, <2>2, <3>1, <3>2, <3>3 DEF KnownLabels
    <2> QED
      BY <1>1, <1>2, <1>4, <2>3 DEF LabelInv
  <1>5. CASE FinishText
    <2>1. Items(done') = Items(done) \cup {Text}
      BY <1>5, FinishingItem DEF FinishText, Item
    <2>2. /\ \A k \in Index \ {Text} : final'[k] = final[k]
          /\ UNCHANGED <<name, call_id, label, announced>>
      BY <1>5 DEF FinishText, StreamInv, TypeOK, Item
    <2> QED
      BY <1>4, <2>1, <2>2 DEF Item
  <1>6. ASSUME NEW k \in Index, FinishCall(k) PROVE LabelInv'
    <2>1. /\ k \in announced /\ k # Text /\ k \in Item
          /\ final' = [final EXCEPT ![k] = [call_id |-> call_id[k], name |-> name[k],
                                            chunks |-> chunks[k]]]
          /\ UNCHANGED <<order, output_index, name, call_id, label, announced>>
      BY <1>6, FinishCallSteps
    <2>2. Items(done') = Items(done) \cup {k}
      BY <1>6, <2>1, FinishingItem DEF FinishCall
    <2>3. name[k] # None /\ call_id[k] # None
      BY <1>6, <2>1 DEF FinishCall, StreamInv, DoneInv
    <2>4. /\ \A j \in Index \ {k} : final'[j] = final[j]
          /\ final'[k].call_id = call_id[k] /\ final'[k].name = name[k]
      BY <2>1 DEF StreamInv, TypeOK, Item
    <2> QED
      BY <1>4, <2>1, <2>2, <2>3, <2>4
  <1> QED
    BY <1>3, <1>5, <1>6 DEF FinishStep

\* The chunks of the Responses adapter carry their event.
LEMMA NativeShown ==
  ASSUME AdapterInv, kind = "responses", pending # <<>>
  PROVE  Shows(Head(pending)) /\ Head(pending).native # NoLine
  <1>1. pending \in Seq(Chunk) /\ said \in Seq(Line)
    BY DEF AdapterInv, AdapterType
  <1>2. Head(pending) = pending[1] /\ 1 \in 1 .. Len(pending)
    BY <1>1
  <1>3. Shows(Head(pending))
    BY <1>2 DEF AdapterInv, PendingShown
  <1>4. said # <<>> /\ Head(pending).native = LastLine
    BY <1>3 DEF Shows
  <1>5. LastLine \in Line
    BY <1>1, <1>4 DEF LastLine
  <1> QED
    BY <1>3, <1>4, <1>5, NoLineIsNone

\* The other steps know as much as before, or begin anew.
LEMMA LabelStep ==
  PipeInv /\ StreamInv /\ WholeInv /\ LabelInv /\ [PipelineNext]_allVars => LabelInv'
  <1> SUFFICES ASSUME PipeInv, StreamInv, WholeInv, LabelInv, [PipelineNext]_allVars
               PROVE  LabelInv'
    OBVIOUS
  <1>1. ASSUME UNCHANGED <<kind, said, pending, route>>, EndOfChunks \/ Break \/ UNCHANGED vars,
               outcome = "success" => outcome' = "success"
        PROVE  LabelInv'
    <2>1. UNCHANGED <<order, name, call_id, label, announced, done, final>>
      BY <1>1 DEF EndOfChunks, Break, vars, rendererVars, clientVars
    <2> QED
      BY <1>1, <2>1, LabelsStay
  <1>2. CASE UNCHANGED allVars
    <2>1. UNCHANGED <<kind, said, pending, route, outcome, vars>>
      BY <1>2 DEF allVars, adapterVars, serviceVars
    <2> QED
      BY <1>1, <2>1
  <1>3. CASE Pull
    <2>1. outcome = "open" /\ UNCHANGED <<route, outcome, vars>>
      BY <1>3 DEF Pull, serviceVars
    <2>2. CASE UpstreamCloses \/ HttpError
      <3>1. UNCHANGED <<kind, said, pending>>
        BY <2>2 DEF UpstreamCloses, HttpError
      <3> QED
        BY <1>1, <2>1, <3>1
    <2>3. ASSUME NEW line \in Wire[kind], ReadLine(line) PROVE LabelInv'
      BY <2>1, <2>3, ReadLabels
    <2> QED
      BY <1>3, <2>2, <2>3 DEF Pull, AdapterStep
  <1>4. CASE Deliver
    <2>1. /\ pending # <<>> /\ pending' = Tail(pending)
          /\ UNCHANGED <<kind, said, route, outcome>>
          /\ IF route # "responses" THEN RenderPlain(Head(pending))
             ELSE IF Native(Head(pending)) THEN PassOn(Head(pending))
             ELSE RenderEvents(Head(pending))
      BY <1>4 DEF Deliver
    <2>2. CASE route = "responses" /\ kind # "responses"
      <3>1. Shows(Head(pending))
        BY <2>1, <1>4, DeliveredInv DEF PipeInv, Deliver
      <3>2. ~Native(Head(pending))
        BY <2>2, <3>1 DEF Native, Shows, PipeInv, ModeInv
      <3> QED
        BY <2>1, <2>2, <3>2, RenderLabels
    <2>3. CASE route # "responses" \/ kind = "responses"
      <3>1. UNCHANGED vars
        <4>1. CASE route # "responses"
          BY <2>1, <4>1 DEF RenderPlain
        <4>2. CASE route = "responses" /\ kind = "responses"
          <5>1. Shows(Head(pending)) /\ Head(pending).native # NoLine
            BY <1>4, <4>2, NativeShown DEF Deliver, PipeInv
          <5>2. mode # "rendered"
            BY <4>2 DEF PipeInv, ModeInv
          <5>3. Native(Head(pending))
            BY <5>1, <5>2 DEF Native, PipeInv, ServiceType
          <5> QED
            BY <2>1, <4>2, <5>3 DEF PassOn
        <4> QED
          BY <2>3, <4>1, <4>2
      <3>2. UNCHANGED <<order, done, call_id, name>>
        BY <3>1 DEF vars, rendererVars, clientVars
      <3> QED
        BY <2>1, <2>3, <3>2 DEF LabelInv
    <2> QED
      BY <2>2, <2>3
  <1>5. CASE AttemptSucceeds
    <2>1. /\ UNCHANGED <<adapterVars, route>> /\ outcome' = "success"
          /\ EndOfChunks \/ UNCHANGED vars
      BY <1>5 DEF AttemptSucceeds
    <2> QED
      BY <1>1, <2>1 DEF adapterVars
  <1>6. CASE AttemptFails
    <2>1. UNCHANGED <<route, mode>> /\ RaiseOrRetry /\ outcome = "open"
      BY <1>6 DEF AttemptFails
    <2>2. CASE committed \/ reading = "terminal" \/ attempt = MaxAttempts
      <3>1. BreakOff /\ UNCHANGED adapterVars
        BY <2>1, <2>2 DEF RaiseOrRetry
      <3>2. Break \/ UNCHANGED vars
        BY <3>1 DEF BreakOff
      <3> QED
        BY <1>1, <2>1, <3>1, <3>2 DEF adapterVars
    <2>3. CASE ~(committed \/ reading = "terminal" \/ attempt = MaxAttempts)
      <3>1. /\ said' = <<>> /\ pending' = <<>> /\ UNCHANGED <<vars, outcome>>
        BY <2>1, <2>3 DEF RaiseOrRetry, Calling
      <3>2. order = <<>> /\ done = <<>>
        BY <2>1, <2>3 DEF PipeInv, ModeInv, LabelInv
      <3>3. UNCHANGED <<order, name, call_id, announced, done>>
        BY <3>1 DEF vars, rendererVars, clientVars
      <3>4. announced' = {}
        <4>1. ToSet(order) = {}
          BY <3>2 DEF ToSet
        <4> QED
          BY <3>3, <4>1 DEF StreamInv, OrderInv
      <3>5. \A k \in Index : call_id'[k] = None /\ name'[k] = None
        BY <3>2, <3>3 DEF LabelInv
      <3>6. \A k \in Index : KnownLabels(k)' /\ HandedLabels(k)'
        <4>1. \A k \in Index : NothingLabelled(k)'
          BY <3>1, <3>2, <3>3, <3>4, <3>5 DEF NothingLabelled
        <4> QED
          BY <4>1, NoLabels
      <3> QED
        BY <3>2, <3>3, <3>5, <3>6 DEF LabelInv
    <2> QED
      BY <2>2, <2>3
  <1>7. CASE AttemptRaises
    <2>1. /\ UNCHANGED <<adapterVars, route>> /\ outcome = "open" /\ (Break \/ UNCHANGED vars)
      BY <1>7 DEF AttemptRaises, BreakOff
    <2> QED
      BY <1>1, <2>1 DEF adapterVars
  <1>8. CASE ClientLeaves
    <2>1. /\ UNCHANGED <<adapterVars, route>> /\ (Break \/ UNCHANGED vars)
          /\ outcome' = IF outcome = "open" THEN "none" ELSE outcome
      BY <1>8 DEF ClientLeaves
    <2> QED
      BY <1>1, <2>1 DEF adapterVars
  <1>9. CASE RenderEnd
    BY <1>9, FinishLabels DEF RenderEnd, adapterVars, serviceVars
  <1> QED
    BY <1>2, <1>3, <1>4, <1>5, <1>6, <1>7, <1>8, <1>9 DEF PipelineNext, StreamStep

\* A rendered call is done with a name and an id that upstream gave this call,
\* late or changed as they may come, and with a made-up id only if upstream gave
\* none; it may be added with a made-up one that a late id then replaces.
THEOREM CallsKeepTheirLabels == PipelineSpec => []CallsAreLabelled
  <1>1. PipelineInit => PipeInv /\ StreamInv /\ WholeInv /\ LabelInv
    <2> SUFFICES ASSUME PipelineInit PROVE PipeInv /\ StreamInv /\ WholeInv /\ LabelInv
      OBVIOUS
    <2>1. PipeInv /\ Init /\ StreamInv
      BY InitPipe, InitInv
    <2>2. WholeInv
      BY InitWhole
    <2>3. /\ said = <<>> /\ pending = <<>> /\ announced = {} /\ done = <<>>
          /\ \A k \in Index : call_id[k] = None /\ name[k] = None
      BY <2>1 DEF PipelineInit, Init, Item
    <2>4. LabelInv
      BY <2>3, NoLabels DEF LabelInv, NothingLabelled
    <2> QED
      BY <2>1, <2>2, <2>4
  <1>2. /\ PipeInv /\ StreamInv /\ WholeInv /\ LabelInv /\ [PipelineNext]_allVars
        => (PipeInv /\ StreamInv /\ WholeInv /\ LabelInv)'
    BY PipeStep, StepInv, WholeStep, LabelStep
  <1>3. PipeInv /\ StreamInv /\ LabelInv => CallsAreLabelled
    <2> SUFFICES ASSUME PipeInv, StreamInv, LabelInv PROVE CallsAreLabelled
      OBVIOUS
    <2>1. Items(added) \ {Text} \subseteq Index /\ Items(done) \ {Text} \subseteq Index
      <3>1. ASSUME NEW s \in Seq(Event) PROVE Items(s) \subseteq Item
        <4>1. \A n \in 1 .. Len(s) : s[n] \in Event
          BY <3>1, ElementOfSeq
        <4>2. \A e \in Event : e.item \in Item
          BY DEF Event
        <4> QED
          BY <4>1, <4>2 DEF Items
      <3>2. added \in Seq(Event) /\ done \in Seq(Event)
        BY DEF StreamInv, TypeOK
      <3> QED
        BY <3>1, <3>2 DEF Item
    <2> SUFFICES ASSUME mode = "rendered", NEW k \in Index
                 PROVE  /\ k \in Items(added) =>
                             /\ label[k].name \in Names(SaidLabels(k))
                             /\ label[k].call_id \in Ids(SaidLabels(k)) \cup {Synthetic}
                        /\ k \in Items(done) =>
                             /\ final[k].name \in Names(SaidLabels(k))
                             /\ final[k].call_id \in (IF Ids(SaidLabels(k)) = {} THEN {Synthetic}
                                                      ELSE Ids(SaidLabels(k)))
      BY <2>1 DEF CallsAreLabelled
    <2>2. KnownLabels(k)
      BY DEF LabelInv, PipeInv, ModeInv
    <2>3. \A l : l \in SaidLabels(k) <=> SaidLabel(k, l)
      BY DEF SaidLabels, LabelsIn, SaidLabel
    <2>4. /\ \A x : x \in Ids(SaidLabels(k)) <=> SaidId(k, x)
          /\ \A x : x \in Names(SaidLabels(k)) <=> SaidName(k, x)
      BY <2>3 DEF Ids, Names, SaidId, SaidName
    <2>5. announced = Items(added)
      BY DEF StreamInv, HeldUntilNamed
    <2> QED
      BY <2>2, <2>4, <2>5 DEF KnownLabels
  <1> QED
    BY <1>1, <1>2, <1>3, PTL DEF PipelineSpec

=============================================================================
