--------------------------- MODULE MCRuntimeTimer ---------------------------
(***************************************************************************)
(* Instances of RuntimeTimer.tla for TLC: time has four bits, so that it   *)
(* wraps, and every timer passes through up to four lists.                 *)
(***************************************************************************)
EXTENDS RuntimeTimer, TLC

CONSTANTS t1, t2, t3
MCUnit == [i \in 0..3 |-> 2^(i + 1)]
Symmetry == Permutations(Timer)
=============================================================================
