-------------------------- MODULE MCResponsesStream --------------------------
(***************************************************************************)
(* Small instances of ResponsesStream for TLC.                             *)
(***************************************************************************)
EXTENDS ResponsesStream

Symmetry == Permutations(Index) \cup Permutations(Fragment) \cup Permutations(Name)

=============================================================================
