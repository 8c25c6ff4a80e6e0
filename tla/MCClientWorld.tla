----------------------------- MODULE MCClientWorld -----------------------------
(* Instances of ClientWorld for TLC. *)
EXTENDS ClientWorld
=============================================================================
