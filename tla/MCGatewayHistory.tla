--------------------------- MODULE MCGatewayHistory ---------------------------
(***************************************************************************)
(* A small instance of GatewayHistory for TLC.                             *)
(***************************************************************************)
EXTENDS MCGateway, GatewayHistory

=============================================================================
