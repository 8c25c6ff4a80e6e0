------------------------------ MODULE MCKeyInput ------------------------------
(* Instances of KeyInput for TLC. *)
EXTENDS KeyInput
=============================================================================
