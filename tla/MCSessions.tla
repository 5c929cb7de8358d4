----------------------------- MODULE MCSessions -----------------------------
(***************************************************************************)
(* Instances of Sessions.tla for TLC.                                      *)
(***************************************************************************)
EXTENDS SessionsInvariant, TLC

CONSTANTS a, b
=============================================================================
