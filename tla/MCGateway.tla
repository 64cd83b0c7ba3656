------------------------------ MODULE MCGateway ------------------------------
(***************************************************************************)
(* Small instances of Gateway for TLC.                                     *)
(***************************************************************************)
EXTENDS Gateway, TLC

CONSTANTS limited, other, third

MCQuotaLimit  == limited :> 1
MCQuotaWindow == limited :> 2

\* A request any provider can serve, and one only the limited provider can.
MCProfile == {{limited, other, third}, {limited}}

Symmetry == Permutations(Slot) \cup Permutations({other, third})

=============================================================================
