---------------------------- MODULE MCFifoQueue ----------------------------
(***************************************************************************)
(* Instances of FifoQueue for TLC.  Ring and SemMax are scaled down from    *)
(* 20 and 100; every run pushes enough packets to go round the ring twice. *)
(***************************************************************************)
EXTENDS FifoQueue
=============================================================================
