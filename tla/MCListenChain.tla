--------------------------- MODULE MCListenChain ---------------------------
(***************************************************************************)
(* Instances of ListenChain for TLC, with an array of a few slots.         *)
(***************************************************************************)
EXTENDS ListenChain
=============================================================================
