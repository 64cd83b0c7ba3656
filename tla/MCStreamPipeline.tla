--------------------------- MODULE MCStreamPipeline ---------------------------
(***************************************************************************)
(* Small instances of StreamPipeline for TLC.                              *)
(***************************************************************************)
EXTENDS StreamPipeline

\* Calls, their ids and their names are only ever compared.
LabelSymmetry == Permutations(Index) \cup Permutations(CallId) \cup Permutations(Name)

=============================================================================
