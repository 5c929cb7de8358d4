----------------------------- MODULE MCGateway ------------------------------
(***************************************************************************)
(* Instances of Gateway.tla for TLC.                                       *)
(***************************************************************************)
EXTENDS GatewayInvariant, TLC

CONSTANTS c1, c2
=============================================================================
