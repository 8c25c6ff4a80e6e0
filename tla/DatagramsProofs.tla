---------------------------- MODULE DatagramsProofs ----------------------------
(* What the network does to a sequence of packets of any kind. *)
EXTENDS Datagrams, TLAPS

LEMMA WithoutType ==
    ASSUME NEW S, net \in Seq(S), NEW i \in UnderWay
    PROVE  Without(i) \in Seq(S)
<1> DEFINE front == SubSeq(net, 1, i - 1)
           back == SubSeq(net, i + 1, Len(net))
<1>1. i \in 1 .. Len(net) /\ Len(net) \in Nat
  BY DEF UnderWay
<1>2. front \in Seq(S) /\ back \in Seq(S)
  BY <1>1
<1> QED
  BY <1>2 DEF Without

(* Delivered or lost, what stays under way is of the same kind. *)
LEMMA NetStep ==
    ASSUME NEW S, net \in Seq(S), faults \in 0 .. MaxFaults,
           NEW i \in UnderWay, Delivers(i) \/ Loses(i)
    PROVE  /\ net' \in Seq(S)
           /\ faults' \in 0 .. MaxFaults
           /\ net[i] \in S
<1>1. net[i] \in S
  BY DEF UnderWay
<1>2. Without(i) \in Seq(S)
  BY WithoutType
<1>3. Fault => faults' \in 0 .. MaxFaults
  BY MaxFaultsAssumption DEF Fault
<1>4. CASE InOrder(i)
  <2>1. net # <<>>
    BY <1>4 DEF UnderWay
  <2> QED
    BY <1>1, <1>4, <2>1 DEF InOrder
<1>5. CASE Overtaking(i) \/ Repeated(i) \/ Loses(i)
  BY <1>1, <1>2, <1>3, <1>5 DEF Overtaking, Repeated, Loses
<1> QED
  BY <1>4, <1>5 DEF Delivers
=============================================================================
