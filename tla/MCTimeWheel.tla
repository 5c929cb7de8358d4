---------------------------- MODULE MCTimeWheel ----------------------------
(***************************************************************************)
(* Instances of TimeWheel.tla for TLC.  Names are interchangeable.         *)
(***************************************************************************)
EXTENDS TimeWheel, TLC

CONSTANTS a, b

Names == Permutations({a, b})
=============================================================================
