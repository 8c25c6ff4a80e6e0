----------------------------- MODULE MCServedClient -----------------------------
(* Instances of ServedClient for TLC. *)
EXTENDS ServedClient
=============================================================================
