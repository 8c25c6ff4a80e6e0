------------------------------- MODULE Datagrams -------------------------------
(***************************************************************************)
(* The packets from one socket to another: in order and reliable, except   *)
(* for at most MaxFaults packets, each of which is lost, overtakes others  *)
(* or comes twice.  PacketManager numbers the packets and accepts them as  *)
(* they come.                                                              *)
(***************************************************************************)
EXTENDS Integers, Sequences

CONSTANT MaxFaults \* bound: packets the network does wrong

ASSUME MaxFaultsAssumption == MaxFaults \in Nat

VARIABLES net,   \* the packets under way
          faults \* how many it has done wrong

netVars == <<net, faults>>

NetInit == net = <<>> /\ faults = 0

UnderWay == 1 .. Len(net)

Without(i) == SubSeq(net, 1, i - 1) \o SubSeq(net, i + 1, Len(net))

Fault == faults < MaxFaults /\ faults' = faults + 1

Loses(i) == Fault /\ net' = Without(i)

(* The receiver is given packet i: the first, or one that overtakes others,  *)
(* or one that stays under way and comes again.                              *)
InOrder(i) == i = 1 /\ net' = Tail(net) /\ UNCHANGED faults
Overtaking(i) == i > 1 /\ Fault /\ net' = Without(i)
Repeated(i) == Fault /\ UNCHANGED net

Delivers(i) == InOrder(i) \/ Overtaking(i) \/ Repeated(i)
=============================================================================
