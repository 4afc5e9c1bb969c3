------------------------- MODULE MCClientLifecycle -------------------------
(***************************************************************************)
(* Instances of ClientLifecycle for TLC: as few connections as let one     *)
(* take over the descriptor of another.                                    *)
(***************************************************************************)
EXTENDS ClientLifecycle
=============================================================================
