---------------------------- MODULE ItemLifecycle ----------------------------
(***************************************************************************)
(* The Responses event protocol as the client of a stream sees it, with no *)
(* renderer in it: an output item is added once, under an output_index no  *)
(* other item has, gets deltas while it is in progress, and is done once,  *)
(* under the same index and with all that its deltas carried.  The         *)
(* response completes when no item is in progress and the indexes of the   *)
(* items are the places of its output list.  Nothing follows the end of    *)
(* the stream.                                                             *)
(*                                                                         *)
(* ResponsesStream implements this specification                           *)
(* (ResponsesStream!ClientProtocol).                                       *)
(***************************************************************************)
EXTENDS SequencesExt

CONSTANT Item

VARIABLES
  added,  \* output_item.added events sent: their items and output indexes
  body,   \* for each item, the fragments its delta events carried
  done,   \* output_item.done events sent
  whole,  \* for each item that is done, the fragments its done event carried
  over    \* "no", "completed" or "cut"

vars == <<added, body, done, whole, over>>

Init ==
  /\ added = <<>>
  /\ body = [i \in Item |-> <<>>]
  /\ done = <<>>
  /\ whole = [i \in Item |-> <<>>]
  /\ over = "no"

ItemsOf(events) == {events[n].item : n \in 1 .. Len(events)}
IndexesOf(events) == {events[n].output_index : n \in 1 .. Len(events)}

\* One more event, of i, under an index that no added event has had.
Adds(i) ==
  /\ i \notin ItemsOf(added)
  /\ added' # <<>>
  /\ added' = Append(added, Last(added'))
  /\ Last(added').item = i
  /\ Last(added').output_index \in Nat \ IndexesOf(added)

\* i, added before or now, gets more deltas, and no other item does.
Deltas(i) ==
  /\ Adds(i) \/ (i \in ItemsOf(added) /\ UNCHANGED added)
  /\ IsPrefix(body[i], body'[i])
  /\ body' = [body EXCEPT ![i] = body'[i]]

Extend(i) ==
  /\ over = "no"
  /\ i \notin ItemsOf(done)
  /\ Deltas(i)
  /\ UNCHANGED <<done, whole, over>>

Finish(i) ==
  /\ over = "no"
  /\ i \notin ItemsOf(done)
  /\ Deltas(i)
  /\ \E n \in 1 .. Len(added') : added'[n].item = i /\ done' = Append(done, added'[n])
  /\ whole' = [whole EXCEPT ![i] = body'[i]]
  /\ UNCHANGED over

Complete ==
  /\ over = "no"
  /\ ItemsOf(added) = ItemsOf(done)
  /\ IndexesOf(done) = 0 .. Len(done) - 1
  /\ over' = "completed"
  /\ UNCHANGED <<added, body, done, whole>>

\* The stream breaks off without response.completed.
Cut ==
  /\ over = "no"
  /\ over' = "cut"
  /\ UNCHANGED <<added, body, done, whole>>

Next ==
  \/ \E i \in Item : Extend(i) \/ Finish(i)
  \/ Complete
  \/ Cut

Spec == Init /\ [][Next]_vars

=============================================================================
