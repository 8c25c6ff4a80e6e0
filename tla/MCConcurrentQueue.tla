-------------------------- MODULE MCConcurrentQueue --------------------------
(* Instances of ConcurrentQueue for TLC. *)
EXTENDS ConcurrentQueue

CONSTANTS p1, p2

MCPackets == {p1, p2}
AnyCall == {"take", "front", "pop"}  \* every public operation; the program only takes
=============================================================================
