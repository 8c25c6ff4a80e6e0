---------------------------- MODULE MCServerWorld ----------------------------
(* Instances of ServerWorld for TLC. *)
EXTENDS ServerWorld

CONSTANTS a, b
MCIps == {a, b}
OneIp == {a}

(* No action tells one address from another. *)
Addresses == Permutations(MCIps)
=============================================================================
