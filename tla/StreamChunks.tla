----------------------------- MODULE StreamChunks -----------------------------
(***************************************************************************)
(* StreamChunk and FunctionCallDelta (domain.py): what the adapters'       *)
(* streams are made of, and what ResponsesStream and AdapterStream have to *)
(* agree on.                                                               *)
(***************************************************************************)
EXTENDS SequencesExt

CONSTANTS
  Index,         \* delta.index: which call of the response a delta belongs to
  Fragment,      \* pieces of text or of JSON arguments
  Name,          \* function names
  CallId,        \* call ids the provider gives
  None           \* Python's None, and "", which the code treats alike

ASSUME ChunkAssumption == None \notin Index \cup Fragment \cup Name \cup CallId

\* The call id and name of a call, as far as a delta gives them.
Label   == [call_id : CallId \cup {None}, name : Name \cup {None}]
NoLabel == [call_id |-> None, name |-> None]

=============================================================================
