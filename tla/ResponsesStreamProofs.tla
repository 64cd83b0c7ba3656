------------------------ MODULE ResponsesStreamProofs ------------------------
(***************************************************************************)
(* Proofs about ResponsesStream, for any number of calls, labels and       *)
(* fragments.                                                              *)
(***************************************************************************)
EXTENDS ResponsesStream, SequenceTheorems, TLAPS

\* An item has one place in output_order, and has it before it is announced
\* or receives anything; text is announced with its first chunk.
OrderInv ==
  /\ \A m, n \in 1 .. Len(order) : order[m] = order[n] => m = n
  /\ announced \subseteq ToSet(order)
  /\ \A i \in Item \ ToSet(order) : chunks[i] = <<>>
  /\ Text \in ToSet(order) => Text \in announced

\* The done events have gone through output_order up to position, with what
\* the renderer knew of the items, and begin after the last chunk.
DoneInv ==
  /\ stage = "open" => position = 0
  /\ stage = "completed" => position = Len(order)
  /\ Len(done) = position
  /\ \A n \in 1 .. position :
       done[n] = [item |-> order[n], output_index |-> output_index[order[n]]]
  /\ Items(done) \subseteq announced
  /\ \A i \in Items(done) : final[i].chunks = chunks[i]
  /\ \A k \in announced \ {Text} : call_id[k] # None
  /\ \A k \in Items(done) \ {Text} : final[k].name # None /\ final[k].call_id # None

\* The output_index of an item is its place in output_order, and the one its
\* added event gave.
EventInv ==
  /\ \A n \in 1 .. Len(order) : output_index[order[n]] = n - 1
  /\ \A n \in 1 .. Len(added) : added[n].output_index = output_index[added[n].item]

StreamInv == TypeOK /\ HeldUntilNamed /\ OrderInv /\ DoneInv /\ EventInv

\* One more event is about one more item.
LEMMA ItemsAppend ==
  ASSUME NEW s \in Seq(Event), NEW e \in Event
  PROVE  /\ Append(s, e) \in Seq(Event)
         /\ Items(Append(s, e)) = Items(s) \cup {e.item}
  <1>1. /\ Append(s, e) \in Seq(Event)
        /\ Len(Append(s, e)) = Len(s) + 1 /\ Len(s) \in Nat
        /\ \A n \in 1 .. Len(s) : Append(s, e)[n] = s[n]
        /\ Append(s, e)[Len(s) + 1] = e
    OBVIOUS
  <1>2. ASSUME NEW x \in Items(Append(s, e)) PROVE x \in Items(s) \cup {e.item}
    BY <1>1 DEF Items
  <1>3. ASSUME NEW x \in Items(s) PROVE x \in Items(Append(s, e))
    BY <1>1 DEF Items
  <1>4. e.item \in Items(Append(s, e))
    BY <1>1 DEF Items
  <1> QED
    BY <1>1, <1>2, <1>3, <1>4

-----------------------------------------------------------------------------
\* Flushing what follows a prefix completes the sequence.
LEMMA FlushLast ==
  ASSUME NEW S, NEW s \in Seq(S), NEW e \in S
  PROVE  /\ s \o SubSeq(s, Len(s) + 1, Len(s)) = s
         /\ s \o SubSeq(Append(s, e), Len(s) + 1, Len(Append(s, e))) = Append(s, e)
         /\ <<>> \o SubSeq(s, 0 + 1, Len(s)) = s
  OBVIOUS

\* A sequence is a prefix of itself and of any extension of it.
LEMMA PrefixOfAppend ==
  ASSUME NEW S, NEW s \in Seq(S), NEW e \in S
  PROVE  IsPrefix(s, s) /\ IsPrefix(s, Append(s, e)) /\ IsPrefix(<<>>, s)
  BY DEF IsPrefix

-----------------------------------------------------------------------------
\* A stream starts with no item.
LEMMA InitInv == Init => StreamInv
  <1> SUFFICES ASSUME Init PROVE StreamInv
    OBVIOUS
  <1> USE DEF Init
  <1>1. ToSet(order) = {}
    BY DEF ToSet
  <1>2. TypeOK
    BY DEF TypeOK, AnyId, AnyName, NoLabel, NoFinal
  <1>3. Items(<<>>) = {}
    BY DEF Items
  <1>4. HeldUntilNamed
    BY <1>3, StreamAssumption DEF HeldUntilNamed, Item
  <1>5. OrderInv
    BY <1>1 DEF OrderInv, Item
  <1>6. DoneInv
    BY <1>3 DEF DoneInv, Item
  <1>7. EventInv
    BY DEF EventInv
  <1> QED
    BY <1>2, <1>4, <1>5, <1>6, <1>7 DEF StreamInv

\* What giving an item its place does to the set of items that have one.
LEMMA OrderWithItem ==
  ASSUME order \in Seq(Item), NEW i \in Item,
         \A m, n \in 1 .. Len(order) : order[m] = order[n] => m = n
  PROVE  /\ OrderWith(i) \in Seq(Item)
         /\ Len(OrderWith(i)) >= Len(order)
         /\ ToSet(OrderWith(i)) = ToSet(order) \cup {i}
         /\ \A m, n \in 1 .. Len(OrderWith(i)) :
              OrderWith(i)[m] = OrderWith(i)[n] => m = n
  <1>1. CASE i \in ToSet(order)
    BY <1>1 DEF OrderWith
  <1>2. CASE i \notin ToSet(order)
    <2>1. OrderWith(i) = Append(order, i)
      BY <1>2 DEF OrderWith
    <2>2. /\ Append(order, i) \in Seq(Item)
          /\ Len(Append(order, i)) = Len(order) + 1
          /\ \A n \in 1 .. Len(order) : Append(order, i)[n] = order[n]
          /\ Append(order, i)[Len(order) + 1] = i
          /\ DOMAIN order = 1 .. Len(order)
          /\ DOMAIN Append(order, i) = 1 .. Len(order) + 1
      OBVIOUS
    <2>3. \A n \in 1 .. Len(order) : order[n] # i
      BY <1>2, <2>2 DEF ToSet
    <2>4. ToSet(Append(order, i)) = ToSet(order) \cup {i}
      <3>1. ASSUME NEW x \in ToSet(Append(order, i)) PROVE x \in ToSet(order) \cup {i}
        BY <2>2 DEF ToSet
      <3>2. ASSUME NEW x \in ToSet(order) PROVE x \in ToSet(Append(order, i))
        BY <2>2 DEF ToSet
      <3>3. i \in ToSet(Append(order, i))
        BY <2>2 DEF ToSet
      <3> QED
        BY <3>1, <3>2, <3>3
    <2>5. \A m, n \in 1 .. Len(order) + 1 :
             Append(order, i)[m] = Append(order, i)[n] => m = n
      BY <2>2, <2>3
    <2> QED
      BY <2>1, <2>2, <2>4, <2>5
  <1> QED
    BY <1>1, <1>2

\* What a chunk of i adds to the client's events, announced or not.
LEMMA ChunkEvents ==
  ASSUME StreamInv, NEW i \in Item, order' = OrderWith(i), output_index' = IndexWith(i),
         \/ added' = AddedWith(i) /\ announced' = announced \cup {i}
         \/ UNCHANGED <<added, announced>>
  PROVE  /\ output_index' \in [Item -> Nat]
         /\ added' \in Seq(Event)
         /\ announced' = Items(added')
         /\ EventInv'
         /\ \A j \in announced : output_index'[j] = output_index[j]
  <1> USE DEF StreamInv
  <1>1. /\ order \in Seq(Item) /\ Len(order) \in Nat /\ DOMAIN order = 1 .. Len(order)
        /\ output_index \in [Item -> Nat]
        /\ added \in Seq(Event) /\ announced = Items(added)
        /\ announced \subseteq ToSet(order)
    BY DEF TypeOK, HeldUntilNamed, OrderInv
  <1>2. output_index' \in [Item -> Nat]
    BY <1>1 DEF IndexWith
  <1>3. \A j \in ToSet(order) : output_index'[j] = output_index[j]
    BY <1>1 DEF IndexWith, ToSet
  <1>4. \A n \in 1 .. Len(order') : output_index'[order'[n]] = n - 1
    <2>1. CASE i \in ToSet(order)
      BY <2>1 DEF OrderWith, IndexWith, EventInv
    <2>2. CASE i \notin ToSet(order)
      <3>1. /\ order' = Append(order, i)
            /\ output_index' = [output_index EXCEPT ![i] = Len(order)]
        BY <2>2 DEF OrderWith, IndexWith
      <3>2. /\ Len(order') = Len(order) + 1
            /\ \A n \in 1 .. Len(order) : order'[n] = order[n]
            /\ order'[Len(order) + 1] = i
        BY <1>1, <3>1
      <3>3. \A n \in 1 .. Len(order) : order[n] \in ToSet(order)
        BY <1>1 DEF ToSet
      <3>4. \A n \in 1 .. Len(order) : output_index'[order'[n]] = n - 1
        BY <1>3, <3>2, <3>3 DEF EventInv
      <3>5. output_index'[i] = Len(order)
        BY <1>1, <3>1
      <3>6. ASSUME NEW n \in 1 .. Len(order') PROVE output_index'[order'[n]] = n - 1
        <4>1. CASE n \in 1 .. Len(order)
          BY <3>4, <4>1
        <4>2. CASE n = Len(order) + 1
          BY <1>1, <3>2, <3>5, <4>2
        <4> QED
          BY <1>1, <3>2, <4>1, <4>2
      <3> QED
        BY <3>6
    <2> QED
      BY <2>1, <2>2
  <1>5. \A n \in 1 .. Len(added) : /\ added[n].item \in announced
                                   /\ added[n].output_index = output_index'[added[n].item]
    BY <1>1, <1>3 DEF Items, EventInv
  <1>6. CASE UNCHANGED <<added, announced>>
    BY <1>1, <1>2, <1>3, <1>4, <1>5, <1>6 DEF EventInv
  <1>7. CASE added' = AddedWith(i) /\ announced' = announced \cup {i}
    <2>1. CASE i \in announced
      BY <1>1, <1>2, <1>3, <1>4, <1>5, <1>7, <2>1 DEF AddedWith, EventInv
    <2>2. CASE i \notin announced
      <3> DEFINE e == [item |-> i, output_index |-> output_index'[i]]
      <3>1. e \in Event /\ e.item = i /\ e.output_index = output_index'[i]
        BY <1>2 DEF Event
      <3>2. added' = Append(added, e)
        BY <1>7, <2>2 DEF AddedWith
      <3> HIDE DEF e
      <3>3. added' \in Seq(Event) /\ announced' = Items(added')
        BY <1>1, <1>7, <3>1, <3>2, ItemsAppend
      <3>4. /\ Len(added') = Len(added) + 1 /\ Len(added) \in Nat
            /\ \A n \in 1 .. Len(added) : added'[n] = added[n]
            /\ added'[Len(added) + 1] = e
        BY <1>1, <3>1, <3>2
      <3>5. \A n \in 1 .. Len(added') : added'[n].output_index = output_index'[added'[n].item]
        BY <1>5, <3>1, <3>4
      <3> QED
        BY <1>1, <1>2, <1>3, <1>4, <3>3, <3>5 DEF EventInv
    <2> QED
      BY <2>1, <2>2
  <1> QED
    BY <1>6, <1>7

-----------------------------------------------------------------------------
\* A text chunk keeps the invariant.
LEMMA TextChunkInv ==
  ASSUME StreamInv, NEW f \in Fragment, TextChunk(f)
  PROVE  StreamInv'
  <1> USE DEF StreamInv
  <1>1. /\ order' = OrderWith(Text)
        /\ order' \in Seq(Item)
        /\ Len(order') >= Len(order)
        /\ ToSet(order') = ToSet(order) \cup {Text}
        /\ \A m, n \in 1 .. Len(order') : order'[m] = order'[n] => m = n
    BY OrderWithItem, Text \in Item DEF TextChunk, TypeOK, OrderInv, Item
  <1>2. position = 0 /\ position' = 0 /\ done = <<>> /\ done' = <<>>
    BY DEF TextChunk, DoneInv
  <1>3. /\ output_index' \in [Item -> Nat] /\ added' \in Seq(Event)
        /\ announced' = Items(added') /\ EventInv'
    BY ChunkEvents, Text \in Item DEF TextChunk, Item
  <1>4. TypeOK'
    BY <1>1, <1>2, <1>3 DEF TypeOK, TextChunk, Item
  <1>5. HeldUntilNamed'
    <2>1. \A k \in Index : k # Text
      BY StreamAssumption
    <2>2. body[Text] = chunks[Text]
      BY Text \in Item DEF HeldUntilNamed, OrderInv, Item
    <2>3. \A i \in Item : body'[i] = (IF i \in announced' THEN chunks'[i] ELSE <<>>)
      BY <2>2 DEF HeldUntilNamed, TypeOK, TextChunk
    <2>4. \A i \in Item : emitted'[i] = Len(body'[i])
      BY DEF HeldUntilNamed, TypeOK, TextChunk
    <2> QED
      BY <1>3, <2>1, <2>3, <2>4 DEF HeldUntilNamed, TextChunk
  <1>6. OrderInv'
    BY <1>1 DEF OrderInv, TextChunk, TypeOK
  <1>7. DoneInv'
    BY <1>2 DEF DoneInv, TextChunk, Items
  <1> QED
    BY <1>3, <1>4, <1>5, <1>6, <1>7

\* So does a function-call delta, whether or not it announces the call.
LEMMA FunctionChunkInv ==
  ASSUME StreamInv, NEW k \in Index, NEW id \in CallId \cup {None}, NEW n \in AnyName,
         NEW f \in Fragment \cup {None}, FunctionChunk(k, id, n, f)
  PROVE  StreamInv'
  <1> USE DEF StreamInv
  <1> DEFINE newId   == IF id # None THEN id ELSE call_id[k]
             newName == IF n # None THEN n ELSE name[k]
             cs      == ChunksWith(k, f)
  <1>0. k \in Item /\ k # Text
    BY StreamAssumption DEF Item
  <1>1. /\ order' = OrderWith(k)
        /\ order' \in Seq(Item)
        /\ Len(order') >= Len(order)
        /\ ToSet(order') = ToSet(order) \cup {k}
        /\ \A l, m \in 1 .. Len(order') : order'[l] = order'[m] => l = m
    <2>1. order' = OrderWith(k)
      BY DEF FunctionChunk
    <2> QED
      BY <2>1, <1>0, OrderWithItem DEF TypeOK, OrderInv
  <1>2. position = 0 /\ position' = 0 /\ done = <<>> /\ done' = <<>>
    BY DEF FunctionChunk, DoneInv
  <1>3. /\ cs \in Seq(Fragment)
        /\ newId \in AnyId /\ (id # None => newId # None)
        /\ newName \in AnyName
    BY <1>0 DEF ChunksWith, TypeOK, AnyId, AnyName
  <1>4. /\ chunks' = [chunks EXCEPT ![k] = cs]
        /\ name' = [name EXCEPT ![k] = newName]
        /\ UNCHANGED <<stage, position, done, final>>
    BY DEF FunctionChunk
  <1>5. CASE k \in announced \/ newName # None
    <2>1. Announce(k, newId, newName) /\ Flush(k, cs)
      BY <1>5 DEF FunctionChunk
    <2>2. newName # None
      BY <1>5 DEF HeldUntilNamed
    <2>3. body[k] \o SubSeq(cs, emitted[k] + 1, Len(cs)) = cs
      <3>1. CASE k \in announced
        <4>1. body[k] = chunks[k] /\ emitted[k] = Len(chunks[k]) /\ chunks[k] \in Seq(Fragment)
          BY <3>1, <1>0 DEF HeldUntilNamed, TypeOK
        <4>2. CASE f = None
          BY <4>1, <4>2, FlushLast DEF ChunksWith
        <4>3. CASE f \in Fragment
          <5>1. cs = Append(chunks[k], f)
            BY <4>3, ChunkAssumption DEF ChunksWith
          <5> QED
            BY <5>1, <4>1, <4>3, FlushLast
        <4> QED
          BY <4>2, <4>3
      <3>2. CASE k \notin announced
        <4>1. body[k] = <<>> /\ emitted[k] = 0
          BY <3>2, <1>0 DEF HeldUntilNamed
        <4> QED
          BY <4>1, <1>3, FlushLast
      <3> QED
        BY <3>1, <3>2
    <2>4. body' = [body EXCEPT ![k] = cs] /\ emitted' = [emitted EXCEPT ![k] = Len(cs)]
      BY <2>1, <2>3, <1>0 DEF Flush, TypeOK
    <2>5. /\ announced' = announced \cup {k}
          /\ \E known \in AnyId : /\ known # None
                                  /\ call_id' = [call_id EXCEPT ![k] = known]
          /\ label' \in [Item -> [call_id : AnyId, name : AnyName]]
      <3>1. CASE k \in announced
        <4>1. newId # None
          BY <3>1, <1>0 DEF DoneInv
        <4> QED
          BY <3>1, <4>1, <2>1, <1>3 DEF Announce, TypeOK
      <3>2. CASE k \notin announced
        <4> DEFINE known == IF newId = None THEN Synthetic ELSE newId
        <4>1. known \in AnyId /\ known # None
          BY <1>3, StreamAssumption DEF AnyId
        <4>2. call_id' = [call_id EXCEPT ![k] = known]
          BY <3>2, <2>1 DEF Announce
        <4>3. label' = [label EXCEPT ![k] = [call_id |-> known, name |-> newName]]
          BY <3>2, <2>1 DEF Announce
        <4> HIDE DEF known, newName
        <4>4. label' \in [Item -> [call_id : AnyId, name : AnyName]]
          BY <4>1, <4>3, <1>3 DEF TypeOK
        <4>5. announced' = announced \cup {k}
          BY <2>1 DEF Announce
        <4> QED
          BY <4>1, <4>2, <4>4, <4>5
      <3> QED
        BY <3>1, <3>2
    <2>6. /\ output_index' \in [Item -> Nat] /\ added' \in Seq(Event)
          /\ announced' = Items(added') /\ EventInv'
      BY <1>0, <1>1, <2>1, ChunkEvents DEF Announce, FunctionChunk
    <2> PICK known \in AnyId : known # None /\ call_id' = [call_id EXCEPT ![k] = known]
      BY <2>5
    <2> HIDE DEF cs, newId, newName
    <2>7. TypeOK'
      <3>1. /\ stage' \in {"open", "ending", "completed", "cut"}
            /\ position' \in 0 .. Len(order')
            /\ done' \in Seq(Event)
            /\ final' \in [Item -> [call_id : AnyId, name : AnyName, chunks : Seq(Fragment)]]
        BY <1>1, <1>2, <1>4 DEF TypeOK
      <3>2. /\ chunks' \in [Item -> Seq(Fragment)]
            /\ name' \in [Item -> AnyName]
            /\ call_id' \in [Item -> AnyId]
        BY <1>3, <1>4 DEF TypeOK
      <3>3. /\ emitted' \in [Item -> Nat]
            /\ body' \in [Item -> Seq(Fragment)]
        <4>1. Len(cs) \in Nat /\ cs \in Seq(Fragment)
          BY <1>3
        <4>2. /\ emitted \in [Item -> Nat]
              /\ body \in [Item -> Seq(Fragment)]
          BY DEF TypeOK
        <4> QED
          BY <4>1, <4>2, <2>4
      <3>4. /\ announced' \in SUBSET Item
            /\ output_index' \in [Item -> Nat] /\ added' \in Seq(Event)
        BY <1>0, <2>5, <2>6 DEF TypeOK
      <3>5. label' \in [Item -> [call_id : AnyId, name : AnyName]]
        BY <2>5
      <3> QED
        BY <1>1, <3>1, <3>2, <3>3, <3>4, <3>5 DEF TypeOK
    <2>8. HeldUntilNamed'
      <3>1. \A j \in Index : j \in announced' <=> name'[j] # None
        BY <1>4, <2>2, <2>5 DEF HeldUntilNamed, TypeOK, Item
      <3>2. \A i \in Item : body'[i] = (IF i \in announced' THEN chunks'[i] ELSE <<>>)
        BY <1>4, <2>4, <2>5 DEF HeldUntilNamed, TypeOK
      <3>3. \A i \in Item : emitted'[i] = Len(body'[i])
        BY <2>4 DEF HeldUntilNamed, TypeOK
      <3> QED
        BY <2>6, <3>1, <3>2, <3>3 DEF HeldUntilNamed
    <2>9. OrderInv'
      BY <1>0, <1>1, <1>4, <2>5 DEF OrderInv, TypeOK
    <2>10. DoneInv'
      <3>1. stage' = "open"
        BY <1>4 DEF FunctionChunk
      <3>2. \A j \in announced' \ {Text} : call_id'[j] # None
        BY <1>0, <2>5 DEF DoneInv, TypeOK
      <3> QED
        BY <1>2, <3>1, <3>2 DEF DoneInv, Items
    <2> QED
      BY <2>6, <2>7, <2>8, <2>9, <2>10
  <1>6. CASE k \notin announced /\ newName = None
    <2>1. /\ call_id' = [call_id EXCEPT ![k] = newId]
          /\ UNCHANGED <<added, announced, label, body, emitted>>
      BY <1>6 DEF FunctionChunk
    <2>2. output_index' \in [Item -> Nat] /\ EventInv'
      BY <1>0, <1>1, <2>1, ChunkEvents DEF FunctionChunk
    <2> HIDE DEF cs, newId, newName
    <2>3. TypeOK'
      <3>1. /\ stage' \in {"open", "ending", "completed", "cut"}
            /\ position' \in 0 .. Len(order')
            /\ done' \in Seq(Event)
            /\ final' \in [Item -> [call_id : AnyId, name : AnyName, chunks : Seq(Fragment)]]
        BY <1>1, <1>2, <1>4 DEF TypeOK
      <3>2. /\ chunks' \in [Item -> Seq(Fragment)]
            /\ name' \in [Item -> AnyName]
            /\ call_id' \in [Item -> AnyId]
        BY <1>3, <1>4, <2>1 DEF TypeOK
      <3>3. /\ emitted' \in [Item -> Nat]
            /\ body' \in [Item -> Seq(Fragment)]
            /\ announced' \in SUBSET Item
            /\ added' \in Seq(Event)
            /\ label' \in [Item -> [call_id : AnyId, name : AnyName]]
        BY <2>1 DEF TypeOK
      <3> QED
        BY <1>1, <2>2, <3>1, <3>2, <3>3 DEF TypeOK
    <2>4. HeldUntilNamed'
      BY <1>4, <1>6, <2>1 DEF HeldUntilNamed, TypeOK, Item
    <2>5. OrderInv'
      BY <1>0, <1>1, <1>4, <2>1 DEF OrderInv, TypeOK
    <2>6. DoneInv'
      BY <1>2, <1>4, <1>6, <2>1 DEF DoneInv, TypeOK, FunctionChunk, Items
    <2> QED
      BY <2>2, <2>3, <2>4, <2>5, <2>6
  <1> QED
    BY <1>5, <1>6

-----------------------------------------------------------------------------
\* The items that are done are those before position.
LEMMA DoneItems ==
  ASSUME StreamInv
  PROVE  Items(done) = {order[n] : n \in 1 .. position}
  <1>1. Len(done) = position /\ position \in Nat
    BY DEF StreamInv, DoneInv, TypeOK
  <1>2. \A n \in 1 .. position : done[n].item = order[n]
    BY DEF StreamInv, DoneInv
  <1> QED
    BY <1>1, <1>2 DEF Items

\* The item whose turn it is has not been done before.
LEMMA FinishingItem ==
  ASSUME StreamInv, NEW i \in Item, Finishing(i), UNCHANGED <<order, output_index>>
  PROVE  /\ i \in ToSet(order)
         /\ i \notin Items(done)
         /\ position' \in 0 .. Len(order)
         /\ done' \in Seq(Event)
         /\ Len(done') = position'
         /\ \A n \in 1 .. position' :
              done'[n] = [item |-> order[n], output_index |-> output_index[order[n]]]
         /\ Items(done') = Items(done) \cup {i}
  <1> DEFINE e == [item |-> i, output_index |-> output_index[i]]
  <1>1. /\ order \in Seq(Item) /\ Len(order) \in Nat /\ DOMAIN order = 1 .. Len(order)
        /\ position \in 0 .. Len(order)
        /\ position < Len(order)
        /\ i = order[position + 1]
        /\ position' = position + 1
        /\ done \in Seq(Event) /\ Len(done) = position
        /\ \A n \in 1 .. position :
             done[n] = [item |-> order[n], output_index |-> output_index[order[n]]]
        /\ done' = Append(done, e)
        /\ \A m, n \in 1 .. Len(order) : order[m] = order[n] => m = n
    BY DEF StreamInv, TypeOK, OrderInv, DoneInv, Finishing
  <1>2. e \in Event /\ e.item = i /\ e = [item |-> i, output_index |-> output_index[i]]
    BY DEF Event, StreamInv, TypeOK
  <1> HIDE DEF e
  <1>3. i \in ToSet(order)
    BY <1>1 DEF ToSet
  <1>4. i \notin Items(done)
    <2> SUFFICES ASSUME NEW n \in 1 .. position, order[n] = i PROVE FALSE
      BY DoneItems
    <2> QED
      BY <1>1
  <1>5. position' \in 0 .. Len(order)
    BY <1>1
  <1>6. done' \in Seq(Event) /\ Items(done') = Items(done) \cup {i}
    BY <1>1, <1>2, ItemsAppend
  <1>7. /\ Len(done') = position'
        /\ \A n \in 1 .. position : done'[n] = done[n]
        /\ done'[position'] = e
    BY <1>1, <1>2
  <1>8. ASSUME NEW n \in 1 .. position'
        PROVE  done'[n] = [item |-> order[n], output_index |-> output_index[order[n]]]
    <2>1. CASE n = position'
      BY <1>1, <1>2, <1>7, <2>1
    <2>2. CASE n \in 1 .. position
      BY <1>1, <1>7, <2>2
    <2> QED
      BY <1>1, <2>1, <2>2
  <1> QED
    BY <1>3, <1>4, <1>5, <1>6, <1>7, <1>8

\* So do the done events of the text item,
LEMMA FinishTextInv ==
  ASSUME StreamInv, FinishText
  PROVE  StreamInv'
  <1> USE DEF StreamInv
  <1>1. /\ Text \in ToSet(order)
        /\ Text \notin Items(done)
        /\ position' \in 0 .. Len(order)
        /\ done' \in Seq(Event)
        /\ Len(done') = position'
        /\ \A n \in 1 .. position' :
             done'[n] = [item |-> order[n], output_index |-> output_index[order[n]]]
        /\ Items(done') = Items(done) \cup {Text}
    BY FinishingItem DEF FinishText, Item
  <1>2. /\ stage = "ending"
        /\ final' = [final EXCEPT ![Text] = [NoFinal EXCEPT !.chunks = chunks[Text]]]
        /\ UNCHANGED <<stage, order, output_index, chunks, name, call_id, emitted, announced,
                       added, body, label>>
    BY DEF FinishText, Finishing
  <1>3. [NoFinal EXCEPT !.chunks = chunks[Text]]
          = [call_id |-> None, name |-> None, chunks |-> chunks[Text]]
    BY DEF NoFinal
  <1>4. TypeOK'
    <2>1. chunks[Text] \in Seq(Fragment) /\ Text \in Item
      BY DEF TypeOK, Item
    <2>2. [call_id |-> None, name |-> None, chunks |-> chunks[Text]]
            \in [call_id : AnyId, name : AnyName, chunks : Seq(Fragment)]
      BY <2>1 DEF AnyId, AnyName
    <2>3. final' \in [Item -> [call_id : AnyId, name : AnyName, chunks : Seq(Fragment)]]
      BY <1>2, <1>3, <2>2 DEF TypeOK
    <2> QED
      BY <1>1, <1>2, <2>1, <2>3 DEF TypeOK
  <1>5. HeldUntilNamed'
    BY <1>2 DEF HeldUntilNamed
  <1>6. OrderInv'
    BY <1>2 DEF OrderInv
  <1>7. DoneInv'
    <2>1. Items(done') \subseteq announced'
      BY <1>1, <1>2 DEF DoneInv, OrderInv
    <2>2. \A i \in Items(done') : final'[i].chunks = chunks'[i]
      <3>1. final'[Text].chunks = chunks[Text]
        BY <1>2, <1>3 DEF TypeOK, Item
      <3>2. \A i \in Items(done) : final'[i] = final[i]
        BY <1>1, <1>2 DEF TypeOK
      <3> QED
        BY <1>1, <1>2, <3>1, <3>2 DEF DoneInv
    <2>3. \A k \in Items(done') \ {Text} : final'[k].name # None /\ final'[k].call_id # None
      BY <1>1, <1>2 DEF DoneInv, TypeOK
    <2> QED
      BY <1>1, <1>2, <2>1, <2>2, <2>3 DEF DoneInv
  <1>8. EventInv'
    BY <1>2 DEF EventInv
  <1> QED
    BY <1>4, <1>5, <1>6, <1>7, <1>8

\* When a call is done all it has was announced and sent before: nothing but
\* the done events is left.
LEMMA FinishCallSteps ==
  ASSUME StreamInv, NEW k \in Index, FinishCall(k)
  PROVE  /\ k \in announced /\ k # Text /\ k \in Item
         /\ stage = "ending"
         /\ final' = [final EXCEPT ![k] = [call_id |-> call_id[k], name |-> name[k],
                                           chunks |-> chunks[k]]]
         /\ UNCHANGED <<stage, order, output_index, chunks, name, call_id, emitted, announced,
                       added, body, label>>
  <1> USE DEF StreamInv
  <1>1. k \in Item /\ k # Text
    BY StreamAssumption DEF Item
  <1>2. k \in announced
    BY DEF FinishCall, HeldUntilNamed
  <1>3. UNCHANGED <<added, announced, call_id, label>>
    BY <1>1, <1>2 DEF FinishCall, Announce, AddedWith, TypeOK
  <1>4. /\ body[k] = chunks[k]
        /\ emitted[k] = Len(chunks[k])
        /\ chunks[k] \in Seq(Fragment)
    BY <1>1, <1>2 DEF HeldUntilNamed, TypeOK
  <1>5. body[k] \o SubSeq(chunks[k], emitted[k] + 1, Len(chunks[k])) = body[k]
    BY <1>4, FlushLast
  <1>6. UNCHANGED <<body, emitted>>
    BY <1>1, <1>4, <1>5 DEF FinishCall, Flush, TypeOK
  <1>7. final' = [final EXCEPT ![k] = [call_id |-> call_id[k], name |-> name[k],
                                       chunks |-> chunks[k]]]
    BY <1>3 DEF FinishCall
  <1> QED
    BY <1>1, <1>2, <1>3, <1>6, <1>7 DEF FinishCall, Finishing

\* and those of a call.
LEMMA FinishCallInv ==
  ASSUME StreamInv, NEW k \in Index, FinishCall(k)
  PROVE  StreamInv'
  <1> USE DEF StreamInv
  <1>1. /\ k \in announced /\ k # Text /\ k \in Item
        /\ stage = "ending"
        /\ final' = [final EXCEPT ![k] = [call_id |-> call_id[k], name |-> name[k],
                                          chunks |-> chunks[k]]]
        /\ UNCHANGED <<stage, order, output_index, chunks, name, call_id, emitted, announced,
                       added, body, label>>
    BY FinishCallSteps
  <1>2. /\ position' \in 0 .. Len(order)
        /\ done' \in Seq(Event)
        /\ Len(done') = position'
        /\ \A n \in 1 .. position' :
             done'[n] = [item |-> order[n], output_index |-> output_index[order[n]]]
        /\ Items(done') = Items(done) \cup {k}
    BY <1>1, FinishingItem DEF FinishCall
  <1>3. name[k] # None /\ call_id[k] # None
    BY <1>1 DEF FinishCall, DoneInv
  <1>4. TypeOK'
    <2>1. [call_id |-> call_id[k], name |-> name[k], chunks |-> chunks[k]]
            \in [call_id : AnyId, name : AnyName, chunks : Seq(Fragment)]
      BY <1>1 DEF TypeOK
    <2>2. final' \in [Item -> [call_id : AnyId, name : AnyName, chunks : Seq(Fragment)]]
      BY <1>1, <2>1 DEF TypeOK
    <2> QED
      BY <1>1, <1>2, <2>2 DEF TypeOK
  <1>5. HeldUntilNamed'
    BY <1>1 DEF HeldUntilNamed
  <1>6. OrderInv'
    BY <1>1 DEF OrderInv
  <1>7. DoneInv'
    <2>1. \A i \in Items(done') : final'[i].chunks = chunks'[i]
      BY <1>1, <1>2 DEF DoneInv, TypeOK
    <2>2. \A j \in Items(done') \ {Text} : final'[j].name # None /\ final'[j].call_id # None
      BY <1>1, <1>2, <1>3 DEF DoneInv, TypeOK
    <2> QED
      BY <1>1, <1>2, <2>1, <2>2, SMTT(20) DEF DoneInv
  <1>8. EventInv'
    BY <1>1 DEF EventInv
  <1> QED
    BY <1>4, <1>5, <1>6, <1>7, <1>8

\* The other steps change only the stage.
LEMMA StageInv ==
  ASSUME StreamInv,
         \/ EndOfChunks
         \/ Break
         \/ Complete
         \/ \E k \in Index : FailUnnamed(k)
         \/ UNCHANGED vars
  PROVE  StreamInv'
  <1> USE DEF StreamInv
  <1>1. /\ UNCHANGED <<order, position, output_index, chunks, name, call_id, emitted, announced,
                       clientVars>>
        /\ stage' \in {"open", "ending", "completed", "cut"}
        /\ stage' = "open" => stage = "open"
        /\ stage' = "completed" => stage = "completed" \/ position = Len(order)
    BY DEF EndOfChunks, Break, Complete, FailUnnamed, vars, rendererVars, TypeOK
  <1>2. TypeOK'
    BY <1>1 DEF TypeOK, clientVars
  <1>3. HeldUntilNamed'
    BY <1>1 DEF HeldUntilNamed, clientVars
  <1>4. OrderInv'
    BY <1>1 DEF OrderInv, clientVars
  <1>5. DoneInv'
    BY <1>1 DEF DoneInv, clientVars
  <1>6. EventInv'
    BY <1>1 DEF EventInv, clientVars
  <1> QED
    BY <1>2, <1>3, <1>4, <1>5, <1>6

\* StreamInv is inductive.
LEMMA StepInv == StreamInv /\ [Next]_vars => StreamInv'
  <1> SUFFICES ASSUME StreamInv, [Next]_vars PROVE StreamInv'
    OBVIOUS
  <1>1. CASE \E f \in Fragment : TextChunk(f)
    BY <1>1, TextChunkInv
  <1>2. CASE \E k \in Index, id \in CallId \cup {None}, n \in AnyName,
                f \in Fragment \cup {None} : FunctionChunk(k, id, n, f)
    BY <1>2, FunctionChunkInv
  <1>3. CASE FinishText
    BY <1>3, FinishTextInv
  <1>4. CASE \E k \in Index : FinishCall(k)
    BY <1>4, FinishCallInv
  <1>5. CASE \/ EndOfChunks
             \/ Break
             \/ Complete
             \/ \E k \in Index : FailUnnamed(k)
             \/ UNCHANGED vars
    BY <1>5, StageInv
  <1> QED
    BY <1>1, <1>2, <1>3, <1>4, <1>5 DEF Next, ChunkStep, FinishStep

\* StreamInv holds throughout.
LEMMA InvAlways == Spec => []StreamInv
  BY InitInv, StepInv, PTL DEF Spec

-----------------------------------------------------------------------------
\* Every variable of the renderer and of its client keeps to its type.
THEOREM StreamTypeCorrect == Spec => []TypeOK
  BY InvAlways, PTL DEF StreamInv

\* Nothing that was kept back until a call was named is lost, repeated or
\* reordered (HeldUntilNamed), however the provider cuts its stream up.
THEOREM NothingHeldBack == Spec => []HeldUntilNamed
  BY InvAlways, PTL DEF StreamInv

\* response.completed closes a stream that is whole (CompletedIsWhole).
THEOREM CompletedStreamIsWhole == Spec => []CompletedIsWhole
  <1>1. StreamInv => CompletedIsWhole
    <2> SUFFICES ASSUME StreamInv, stage = "completed" PROVE CompletedIsWhole
      BY DEF CompletedIsWhole
    <2> USE DEF StreamInv
    <2>1. /\ order \in Seq(Item) /\ Len(order) \in Nat /\ DOMAIN order = 1 .. Len(order)
          /\ added \in Seq(Event) /\ DOMAIN added = 1 .. Len(added)
          /\ done \in Seq(Event) /\ Len(done) = Len(order) /\ DOMAIN done = 1 .. Len(done)
      BY DEF TypeOK, DoneInv
    <2>2. \A n \in 1 .. Len(order) : done[n] = [item |-> order[n], output_index |-> n - 1]
      BY DEF DoneInv, EventInv
    <2>3. done = [n \in 1 .. Len(order) |-> [item |-> order[n], output_index |-> n - 1]]
      BY <2>1, <2>2
    <2>4. Items(done) = ToSet(order) /\ Items(done) = Items(added)
      <3>1. Items(done) = ToSet(order)
        BY <2>1, DoneItems DEF DoneInv, ToSet
      <3> QED
        BY <3>1 DEF DoneInv, OrderInv, HeldUntilNamed
    <2>5. ToSet(added) = ToSet(done)
      <3>1. ASSUME NEW x \in Event PROVE x \in ToSet(added) => x \in ToSet(done)
        <4> SUFFICES ASSUME NEW m \in 1 .. Len(added), x = added[m] PROVE x \in ToSet(done)
          BY <2>1 DEF ToSet
        <4>1. x.item \in Items(done)
          BY <2>4 DEF Items
        <4>2. PICK n \in 1 .. Len(order) : order[n] = x.item
          BY <2>1, <2>4, <4>1 DEF ToSet
        <4>3. x.output_index = n - 1
          BY <4>2 DEF EventInv
        <4>4. x = [item |-> x.item, output_index |-> x.output_index]
          BY DEF Event
        <4>5. x = done[n]
          BY <2>2, <4>2, <4>3, <4>4
        <4> QED
          BY <2>1, <4>5 DEF ToSet
      <3>2. ASSUME NEW x \in Event PROVE x \in ToSet(done) => x \in ToSet(added)
        <4> SUFFICES ASSUME NEW n \in 1 .. Len(order), x = done[n] PROVE x \in ToSet(added)
          BY <2>1 DEF ToSet
        <4>1. order[n] \in Items(added)
          BY <2>1, <2>4 DEF ToSet
        <4>2. PICK m \in 1 .. Len(added) : added[m].item = order[n]
          BY <4>1 DEF Items
        <4>3. added[m].output_index = n - 1 /\ added[m] \in Event
          BY <2>1, <4>2 DEF EventInv
        <4>4. added[m] = [item |-> order[n], output_index |-> n - 1]
          BY <4>2, <4>3 DEF Event
        <4> QED
          BY <2>1, <2>2, <4>4 DEF ToSet
      <3> QED
        <4>1. ToSet(added) \subseteq Event /\ ToSet(done) \subseteq Event
          BY <2>1 DEF ToSet
        <4> QED
          BY <3>1, <3>2, <4>1
    <2> QED
      BY <2>3, <2>4, <2>5 DEF CompletedIsWhole, DoneInv, OrderInv
  <1> QED
    BY <1>1, InvAlways, PTL

-----------------------------------------------------------------------------
(***************************************************************************)
(* ResponsesStream implements ItemLifecycle.                               *)
(***************************************************************************)
LEMMA MapInit == Init => Protocol!Init
  BY DEF Init, Protocol!Init, Over, Whole, NoFinal

\* What the protocol calls the items of events.
LEMMA MapItems == ASSUME NEW s PROVE Protocol!ItemsOf(s) = Items(s)
  BY DEF Protocol!ItemsOf, Items

\* After a step, an item's output_index is its place in the order.
LEMMA PlacesNext ==
  StreamInv' =>
    \A y \in announced' : \E m \in 1 .. Len(order') : y = order'[m] /\ output_index'[y] = m - 1
  <1> SUFFICES ASSUME StreamInv', NEW y \in announced'
               PROVE  \E m \in 1 .. Len(order') : y = order'[m] /\ output_index'[y] = m - 1
    OBVIOUS
  <1>1. y \in ToSet(order')
    BY DEF StreamInv, OrderInv
  <1>2. DOMAIN order' = 1 .. Len(order')
    BY DEF StreamInv, TypeOK
  <1>3. PICK m \in 1 .. Len(order') : y = order'[m]
    BY <1>1, <1>2 DEF ToSet
  <1>4. output_index'[order'[m]] = m - 1
    BY DEF StreamInv, EventInv
  <1> QED
    BY <1>3, <1>4

\* An added event of the renderer is one of the protocol: the output_index is
\* new, because two items never have the same.
LEMMA MapAdds ==
  ASSUME StreamInv, StreamInv', NEW i \in Item, output_index' = IndexWith(i),
         added' = AddedWith(i), announced' = announced \cup {i}
  PROVE  Protocol!Adds(i) \/ (i \in Protocol!ItemsOf(added) /\ UNCHANGED added)
  <1>1. CASE i \in announced
    BY <1>1, MapItems DEF AddedWith, StreamInv, HeldUntilNamed
  <1>2. CASE i \notin announced
    <2> DEFINE e == [item |-> i, output_index |-> output_index'[i]]
    <2>1. added' = Append(added, e) /\ added \in Seq(Event)
      BY <1>2 DEF AddedWith, StreamInv, TypeOK
    <2>2. e.item = i /\ e.output_index = output_index'[i] /\ e \in Event
      BY DEF Event, StreamInv, TypeOK
    <2> HIDE DEF e
    <2>3. /\ Len(added') = Len(added) + 1 /\ Len(added) \in Nat
          /\ added'[Len(added) + 1] = e
          /\ \A n \in 1 .. Len(added) : added'[n] = added[n] /\ added[n] \in Event
          /\ added' # <<>>
      BY <2>1, <2>2
    <2>4. Protocol!Last(added') = e
      BY <2>3 DEF Protocol!Last
    <2>5. i \notin Protocol!ItemsOf(added)
      BY <1>2, MapItems DEF StreamInv, HeldUntilNamed
    <2>6. e.output_index \in Nat \ Protocol!IndexesOf(added)
      <3>1. e.output_index \in Nat
        BY <2>2 DEF Event
      <3> SUFFICES ASSUME NEW n \in 1 .. Len(added), added[n].output_index = e.output_index
                   PROVE  FALSE
        BY <3>1 DEF Protocol!IndexesOf
      <3> PICK x \in Item : x = added[n].item
        BY <2>3 DEF Event
      <3>2. x # i /\ x \in announced' /\ i \in announced'
        BY <1>2 DEF StreamInv, HeldUntilNamed, Items
      <3>3. output_index'[x] = output_index'[i]
        BY <2>2, <2>3 DEF StreamInv, EventInv
      <3>4. \A y \in announced' : \E m \in 1 .. Len(order') : y = order'[m] /\ output_index'[y] = m - 1
        BY PlacesNext
      <3> QED
        BY <3>2, <3>3, <3>4
    <2> QED
      BY <2>1, <2>2, <2>3, <2>4, <2>5, <2>6 DEF Protocol!Adds
  <1> QED
    BY <1>1, <1>2

\* Deltas(i) of the protocol, from what it means for the renderer.
LEMMA MapDeltas ==
  ASSUME NEW i, Protocol!Adds(i) \/ (i \in Protocol!ItemsOf(added) /\ UNCHANGED added),
         NEW s, body' = [body EXCEPT ![i] = s], body'[i] = s, IsPrefix(body[i], s)
  PROVE  Protocol!Deltas(i)
  BY DEF Protocol!Deltas, Protocol!IsPrefix, IsPrefix

\* A text chunk extends the text item.
LEMMA MapTextChunk ==
  ASSUME StreamInv, NEW f \in Fragment, TextChunk(f)
  PROVE  Protocol!Extend(Text)
  <1> USE DEF StreamInv
  <1>1. /\ body[Text] \in Seq(Fragment)
        /\ body' = [body EXCEPT ![Text] = Append(body[Text], f)]
        /\ body'[Text] = Append(body[Text], f)
    BY DEF TextChunk, TypeOK, Item
  <1>2. IsPrefix(body[Text], Append(body[Text], f))
    BY <1>1, PrefixOfAppend
  <1>3. StreamInv' /\ Text \in Item
    BY TextChunkInv DEF Item
  <1>4. Protocol!Adds(Text) \/ (Text \in Protocol!ItemsOf(added) /\ UNCHANGED added)
    BY <1>3, MapAdds DEF TextChunk
  <1>5. Protocol!Deltas(Text)
    BY <1>1, <1>2, <1>4, MapDeltas
  <1>6. Over = "no" /\ UNCHANGED <<done, Whole, Over>>
    BY DEF TextChunk, Over, Whole
  <1>7. Text \notin Protocol!ItemsOf(done)
    <2>1. Len(done) = 0
      BY DEF TextChunk, DoneInv
    <2> QED
      BY <2>1 DEF Protocol!ItemsOf
  <1> QED
    BY <1>5, <1>6, <1>7 DEF Protocol!Extend

\* A function-call delta extends its item or shows the client nothing.
LEMMA MapFunctionChunk ==
  ASSUME StreamInv, NEW k \in Index, NEW id \in CallId \cup {None}, NEW n \in AnyName,
         NEW f \in Fragment \cup {None}, FunctionChunk(k, id, n, f)
  PROVE  Protocol!Extend(k) \/ UNCHANGED Protocol!vars
  <1> USE DEF StreamInv
  <1> StreamInv'
    BY FunctionChunkInv
  <1>0. /\ Len(done) = 0 /\ stage = "open"
        /\ UNCHANGED <<stage, done, final>> /\ output_index' = IndexWith(k)
    BY DEF FunctionChunk, DoneInv
  <1>1. /\ Over = "no" /\ k \notin Protocol!ItemsOf(done)
        /\ UNCHANGED <<done, Whole, Over>>
    BY <1>0 DEF Over, Whole, Protocol!ItemsOf
  <1>2. k \in Item
    BY DEF Item
  <1>3. CASE k \in announced'
    <2>1. /\ \E s : body' = [body EXCEPT ![k] = s]
          /\ added' = AddedWith(k) /\ announced' = announced \cup {k}
      BY <1>3 DEF FunctionChunk, Announce, Flush
    <2>0. Protocol!Adds(k) \/ (k \in Protocol!ItemsOf(added) /\ UNCHANGED added)
      BY <1>0, <1>2, <2>1, MapAdds
    <2> PICK s : body' = [body EXCEPT ![k] = s]
      BY <2>1
    <2>2. body'[k] = s /\ s = chunks'[k]
      BY <1>2, <1>3 DEF TypeOK, HeldUntilNamed
    <2>3. chunks'[k] = ChunksWith(k, f) /\ chunks[k] \in Seq(Fragment)
      BY <1>2 DEF FunctionChunk, TypeOK
    <2>4. body[k] = chunks[k] \/ body[k] = <<>>
      BY <1>2 DEF HeldUntilNamed
    <2>5. IsPrefix(body[k], ChunksWith(k, f))
      <3>1. CASE f = None
        BY <3>1, <2>3, <2>4, PrefixOfAppend DEF ChunksWith, IsPrefix
      <3>2. CASE f \in Fragment
        <4>1. ChunksWith(k, f) = Append(chunks[k], f)
          BY <3>2, ChunkAssumption DEF ChunksWith
        <4>2. Append(chunks[k], f) \in Seq(Fragment)
          BY <2>3, <3>2
        <4>3. IsPrefix(<<>>, Append(chunks[k], f))
          BY <4>2 DEF IsPrefix
        <4> QED
          BY <4>1, <4>3, <3>2, <2>3, <2>4, PrefixOfAppend
      <3> QED
        BY <3>1, <3>2
    <2>6. Protocol!Deltas(k)
      BY <2>0, <2>1, <2>2, <2>3, <2>5, MapDeltas
    <2> QED
      BY <1>1, <2>6 DEF Protocol!Extend
  <1>4. CASE k \notin announced'
    <2>1. UNCHANGED <<added, body>>
      BY <1>4 DEF FunctionChunk, Announce
    <2> QED
      BY <1>1, <2>1 DEF Protocol!vars
  <1> QED
    BY <1>3, <1>4

\* An item that is done has all its deltas: the done event repeats them.
LEMMA MapFinish ==
  ASSUME StreamInv, NEW i \in announced, Finishing(i), stage' = stage,
         UNCHANGED <<order, output_index, chunks, added, body>>,
         NEW r, final' = [final EXCEPT ![i] = r], r.chunks = chunks[i]
  PROVE  Protocol!Finish(i)
  <1> USE DEF StreamInv
  <1>1. i \in Item /\ body[i] = chunks[i] /\ body[i] \in Seq(Fragment)
    BY DEF TypeOK, HeldUntilNamed
  <1>2. i \notin Protocol!ItemsOf(done)
    BY <1>1, FinishingItem, MapItems
  <1>3. /\ Over = "no" /\ Over' = Over
        /\ done' = Append(done, [item |-> i, output_index |-> output_index[i]])
    BY DEF Finishing, Over
  <1>6. i \in Protocol!ItemsOf(added)
    BY MapItems DEF HeldUntilNamed
  <1>7. \E n \in 1 .. Len(added) :
          added[n].item = i /\ added[n] = [item |-> i, output_index |-> output_index[i]]
    <2> PICK n \in 1 .. Len(added) : added[n].item = i
      BY <1>6 DEF Protocol!ItemsOf
    <2>1. added[n] \in Event /\ added[n].output_index = output_index[i]
      BY DEF TypeOK, EventInv
    <2> QED
      BY <2>1 DEF Event
  <1>4. Protocol!Deltas(i)
    <2>1. body' = [body EXCEPT ![i] = body[i]] /\ body'[i] = body[i]
      BY DEF TypeOK
    <2>2. IsPrefix(body[i], body[i])
      BY <1>1, PrefixOfAppend DEF IsPrefix
    <2> QED
      BY <1>6, <2>1, <2>2, MapDeltas
  <1>5. Whole' = [Whole EXCEPT ![i] = body'[i]]
    <2>1. \A j \in Item : final'[j].chunks = IF j = i THEN body[i] ELSE final[j].chunks
      BY <1>1 DEF TypeOK
    <2> QED
      BY <1>1, <2>1 DEF Whole
  <1> QED
    BY <1>2, <1>3, <1>4, <1>5, <1>7 DEF Protocol!Finish

\* Every step of the renderer is one of the protocol or a stutter.
LEMMA MapStep == StreamInv /\ [Next]_vars => [Protocol!Next]_Protocol!vars
  <1> SUFFICES ASSUME StreamInv, [Next]_vars
               PROVE  Protocol!Next \/ UNCHANGED Protocol!vars
    OBVIOUS
  <1>1. CASE \E f \in Fragment : TextChunk(f)
    BY <1>1, MapTextChunk DEF Protocol!Next, Item
  <1>2. CASE \E k \in Index, id \in CallId \cup {None}, n \in AnyName,
                f \in Fragment \cup {None} : FunctionChunk(k, id, n, f)
    BY <1>2, MapFunctionChunk DEF Protocol!Next, Item
  <1>3. CASE FinishText
    <2>1. Text \in announced
      BY <1>3, FinishingItem DEF FinishText, StreamInv, OrderInv, Item
    <2>2. [NoFinal EXCEPT !.chunks = chunks[Text]].chunks = chunks[Text]
      BY DEF NoFinal
    <2>3. Protocol!Finish(Text)
      BY <1>3, <2>1, <2>2, MapFinish DEF FinishText
    <2> QED
      BY <2>3 DEF Protocol!Next, Item
  <1>4. ASSUME NEW k \in Index, FinishCall(k) PROVE Protocol!Next
    <2>1. /\ k \in announced /\ stage' = stage
          /\ UNCHANGED <<order, output_index, chunks, added, body>>
      BY <1>4, FinishCallSteps
    <2>2. final' = [final EXCEPT ![k] = [call_id |-> call_id[k], name |-> name[k],
                                         chunks |-> chunks[k]]]
      BY <1>4, FinishCallSteps
    <2>3. Protocol!Finish(k)
      BY <1>4, <2>1, <2>2, MapFinish DEF FinishCall
    <2> QED
      BY <2>3 DEF Protocol!Next, Item
  <1>5. CASE Break \/ \E k \in Index : FailUnnamed(k)
    <2>1. Over = "no" /\ Over' = "cut" /\ UNCHANGED <<added, body, done, Whole>>
      BY <1>5 DEF Break, FailUnnamed, Over, Whole, clientVars
    <2> QED
      BY <2>1 DEF Protocol!Next, Protocol!Cut
  <1>6. CASE Complete
    <2>1. Over = "no" /\ Over' = "completed" /\ UNCHANGED <<added, body, done, Whole>>
      BY <1>6 DEF Complete, Over, Whole, clientVars
    <2>2. /\ position = Len(order) /\ Len(order) \in Nat /\ DOMAIN order = 1 .. Len(order)
          /\ Len(done) = Len(order)
      BY <1>6 DEF Complete, StreamInv, TypeOK, DoneInv
    <2>3. Protocol!ItemsOf(added) = Protocol!ItemsOf(done)
      <3>1. Items(done) = ToSet(order)
        BY <2>2, DoneItems DEF ToSet
      <3> QED
        BY <3>1, MapItems DEF StreamInv, OrderInv, DoneInv, HeldUntilNamed
    <2>4. Protocol!IndexesOf(done) = 0 .. Len(done) - 1
      <3>1. \A n \in 1 .. Len(done) : done[n].output_index = n - 1
        <4>1. \A n \in 1 .. Len(order) :
                 done[n] = [item |-> order[n], output_index |-> output_index[order[n]]]
          BY <2>2 DEF StreamInv, DoneInv
        <4>2. \A n \in 1 .. Len(order) : output_index[order[n]] = n - 1
          BY DEF StreamInv, EventInv
        <4> SUFFICES ASSUME NEW n \in 1 .. Len(order) PROVE done[n].output_index = n - 1
          BY <2>2
        <4>3. done[n] = [item |-> order[n], output_index |-> output_index[order[n]]]
          BY <4>1
        <4>4. output_index[order[n]] = n - 1
          BY <4>2
        <4> QED
          BY <4>3, <4>4
      <3>2. ASSUME NEW x \in 0 .. Len(done) - 1 PROVE x \in Protocol!IndexesOf(done)
        <4>1. x + 1 \in 1 .. Len(done) /\ done[x + 1].output_index = x
          BY <2>2, <3>1
        <4> QED
          BY <4>1 DEF Protocol!IndexesOf
      <3>3. ASSUME NEW x \in Protocol!IndexesOf(done) PROVE x \in 0 .. Len(done) - 1
        BY <2>2, <3>1, <3>3 DEF Protocol!IndexesOf
      <3> QED
        BY <3>2, <3>3
    <2> QED
      BY <2>1, <2>3, <2>4 DEF Protocol!Next, Protocol!Complete
  <1>7. CASE EndOfChunks \/ UNCHANGED vars
    <2>1. UNCHANGED <<added, body, done, Whole, Over>>
      BY <1>7 DEF EndOfChunks, vars, rendererVars, clientVars, Whole, Over
    <2> QED
      BY <2>1 DEF Protocol!vars
  <1> QED
    BY <1>1, <1>2, <1>3, <1>4, <1>5, <1>6, <1>7 DEF Next, ChunkStep, FinishStep

\* The events of every stream follow the client's protocol: one added, its
\* deltas, one done per item, and nothing after the end.
THEOREM StreamImplementsProtocol == Spec => ClientProtocol
  BY MapInit, MapStep, InvAlways, PTL DEF Spec, ClientProtocol, Protocol!Spec

=============================================================================
