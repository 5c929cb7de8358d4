------------------------------ MODULE MCKernel ------------------------------
(***************************************************************************)
(* Instances of Kernel.tla for TLC.                                        *)
(***************************************************************************)
EXTENDS KernelInvariant, TLC

CONSTANTS w1, w2, logger, boot, agent, timer

MCBoot == <<logger, boot>>
\* A worker that takes one message a turn and one that takes what is queued.
MCWeight == (w1 :> -1) @@ (w2 :> 0)
=============================================================================
