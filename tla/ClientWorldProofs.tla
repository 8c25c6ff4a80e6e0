--------------------------- MODULE ClientWorldProofs ---------------------------
(* Theorems about ClientWorld, for every set of ids, size of container and   *)
(* number of faults. *)
EXTENDS ClientWorld, DatagramsProofs, FiniteSetTheorems

(* The packets the server sends: a container of the initial transmission     *)
(* holds both components of an id or neither, as the two maps that           *)
(* Components::split() walks hold the same ids in the same order.            *)
PairedPackets == {p \in Packets : p.type = "INITIAL" => p.move = p.render}

(* TypeOK for what each side owns. *)
ServerTypeOK == /\ moves \in Components /\ born \in Components
                /\ stamp \in Stamps
                /\ moveDiff \subseteq Alive
                /\ renderDiff \subseteq Of(born)
                /\ player \in {None} \cup Ids
                /\ phase \in {"update", "poll"}

NetTypeOK == net \in Seq(PairedPackets) /\ faults \in 0 .. MaxFaults

ClientTypeOK ==
    /\ clientState \in {"Disconnected", "ReceiveInitial", "Running", "Left", "Crashed"}
    /\ received \in Nat
    /\ mcs \in Components /\ rcs \in Components /\ scene \in Components
    /\ gridIds \subseteq Ids /\ renderIds \subseteq Ids /\ activeIds \subseteq Ids
    /\ cameraSource \in {None} \cup Ids

Inv == ServerTypeOK /\ NetTypeOK /\ ClientTypeOK /\ SystemsAgree

LEMMA InvImpliesTypeOK == Inv => TypeOK
<1> SUFFICES ASSUME Inv PROVE TypeOK
  OBVIOUS
<1>1. net \in Seq(Packets)
  <2>1. PairedPackets \subseteq Packets
    BY DEF PairedPackets
  <2>2. net \in Seq(PairedPackets)
    BY DEF Inv, NetTypeOK
  <2> QED
    BY <2>1, <2>2
<1> QED
  BY <1>1 DEF TypeOK, Inv, ServerTypeOK, NetTypeOK, ClientTypeOK

-----------------------------------------------------------------------------
(* Maps of components. *)
LEMMA OnlyType ==
    ASSUME NEW cs \in Components, NEW S
    PROVE  Only(cs, S) \in Components
BY DEF Only, Components, None

LEMMA NothingType == Nothing \in Components
BY DEF Nothing, Components, None

LEMMA SyncType ==
    ASSUME NEW cs \in Components, NEW ds \in Components
    PROVE  /\ Sync(cs, ds) \in Components
           /\ Of(Sync(cs, ds)) = Of(cs) \cup Of(ds)
BY DEF Sync, Components, None, Of

LEMMA ExceptType ==
    ASSUME NEW cs \in Components, NEW id \in Ids, NEW s \in {None} \cup Stamps
    PROVE  /\ [cs EXCEPT ![id] = s] \in Components
           /\ s = None => Of([cs EXCEPT ![id] = s]) = Of(cs) \ {id}
           /\ s # None => Of([cs EXCEPT ![id] = s]) = Of(cs) \cup {id}
BY DEF Components, Of

LEMMA PacketType ==
    ASSUME NEW type \in Types, NEW move \in Components, NEW render \in Components,
           NEW id \in {None} \cup Ids, type = "INITIAL" => move = render
    PROVE  Packet(type, move, render, id) \in PairedPackets
BY DEF Packet, PairedPackets, Packets

LEMMA SplitLength ==
    ASSUME NEW S \in SUBSET Ids, NEW c \in Splits(S)
    PROVE  Len(c) \in Nat /\ DOMAIN c = 1 .. Len(c)
<1> DEFINE n == (Cardinality(S) + ContainerSize - 1) \div ContainerSize
<1>1. Cardinality(S) \in Nat
  BY SceneryAssumption, FS_Subset, FS_CardinalityType
<1>2. n \in Nat
  BY <1>1, ContainerSizeAssumption, Z3
<1>3. c \in [1 .. n -> SUBSET S]
  BY DEF Splits
<1> QED
  BY <1>2, <1>3

LEMMA TransmissionType ==
    ASSUME born' \in Components, NEW S \in SUBSET Ids, NEW c \in Splits(S)
    PROVE  Transmission(c) \in Seq(PairedPackets)
<1> DEFINE initial(i) == Packet("INITIAL", Only(born', c[i]), Only(born', c[i]), None)
           initials == [i \in 1 .. Len(c) |-> initial(i)]
<1>1. Bare("BEGIN") \in PairedPackets /\ Bare("END") \in PairedPackets
  BY NothingType, PacketType DEF Bare, Types
<1>2. \A i \in 1 .. Len(c) : initial(i) \in PairedPackets
  BY OnlyType, PacketType DEF Types
<1>3. Len(c) \in Nat
  BY SplitLength
<1>4. initials \in Seq(PairedPackets)
  BY <1>2, <1>3
<1> HIDE DEF initials
<1>5. Transmission(c) = <<Bare("BEGIN")>> \o initials \o <<Bare("END")>>
  BY DEF Transmission, initials
<1> QED
  BY <1>1, <1>4, <1>5

-----------------------------------------------------------------------------
(* The initial state. *)
LEMMA InitInv == Init => Inv
<1> SUFFICES ASSUME Init PROVE Inv
  OBVIOUS
<1> USE DEF Init
<1>1. [id \in Ids |-> 1] \in Components
  BY MaxStampAssumption DEF Components, Stamps
<1>2. moves \in Components /\ born \in Components
  BY <1>1, OnlyType
<1>3. ServerTypeOK
  BY <1>2, MaxStampAssumption DEF ServerTypeOK, Stamps, None
<1>4. NetTypeOK
  BY MaxFaultsAssumption DEF NetTypeOK, NetInit
<1>5. ClientTypeOK
  BY NothingType DEF ClientTypeOK, None
<1>6. SystemsAgree
  BY DEF SystemsAgree, Both, Of, Nothing
<1> QED
  BY <1>3, <1>4, <1>5, <1>6 DEF Inv

(* What the server, the network and the rendering leave of the client.       *)
LEMMA ClientKept ==
    ASSUME ClientTypeOK, SystemsAgree, UNCHANGED clientVars
    PROVE  ClientTypeOK' /\ SystemsAgree'
BY DEF clientVars, ecsVars, systemVars, ClientTypeOK, SystemsAgree, Both, Of

LEMMA ServerKept ==
    ASSUME ServerTypeOK, UNCHANGED serverVars
    PROVE  ServerTypeOK'
BY DEF serverVars, entityVars, ServerTypeOK, Alive, Of

-----------------------------------------------------------------------------
(* The server's actions. *)
LEMMA CreateType ==
    ASSUME ServerTypeOK, NEW id \in Ids, Create(id)
    PROVE  /\ moves' \in Components /\ born' \in Components
           /\ stamp' \in Stamps
           /\ moveDiff' \subseteq Of(moves') /\ renderDiff' \subseteq Of(born')
<1> USE DEF ServerTypeOK, Create
<1>1. stamp' \in Stamps /\ stamp' # None
  BY MaxStampAssumption DEF Stamps, None
<1>2. moves' \in Components /\ Of(moves') = Of(moves) \cup {id}
  BY <1>1, ExceptType
<1>3. born' \in Components /\ Of(born') = Of(born) \cup {id}
  BY <1>1, ExceptType
<1> QED
  BY <1>1, <1>2, <1>3 DEF Alive

LEMMA JoinInv ==
    ASSUME Inv, NEW id \in Ids, Join(id)
    PROVE  Inv'
<1> USE DEF Inv
<1>1. /\ moves' \in Components /\ born' \in Components
      /\ stamp' \in Stamps
      /\ moveDiff' \subseteq Of(moves') /\ renderDiff' \subseteq Of(born')
  BY CreateType DEF Join
<1>2. ServerTypeOK'
  BY <1>1 DEF Join, PollEnds, ServerTypeOK, Alive, Of
<1>3. PICK c \in Splits(Of(born')) : net' = net \o Transmission(c) \o <<Reply(id)>>
  BY DEF Join
<1>4. Of(born') \in SUBSET Ids
  BY DEF Of
<1>5. Transmission(c) \in Seq(PairedPackets)
  BY <1>1, <1>4, TransmissionType
<1>6. Reply(id) \in PairedPackets
  BY NothingType, PacketType DEF Reply, Types
<1>7. NetTypeOK'
  <2>1. net \in Seq(PairedPackets) /\ faults' \in 0 .. MaxFaults
    BY DEF Join, NetTypeOK
  <2>2. net \o Transmission(c) \in Seq(PairedPackets)
    BY <1>5, <2>1
  <2>3. <<Reply(id)>> \in Seq(PairedPackets)
    BY <1>6
  <2>4. net' \in Seq(PairedPackets)
    BY <1>3, <2>2, <2>3
  <2> QED
    BY <2>1, <2>4 DEF NetTypeOK
<1>8. ClientTypeOK' /\ SystemsAgree'
  BY ClientKept DEF Join
<1> QED
  BY <1>2, <1>7, <1>8

LEMMA OtherJoinsInv ==
    ASSUME Inv, NEW id \in Ids, OtherJoins(id)
    PROVE  Inv'
<1> USE DEF Inv
<1>1. /\ moves' \in Components /\ born' \in Components
      /\ stamp' \in Stamps
      /\ moveDiff' \subseteq Of(moves') /\ renderDiff' \subseteq Of(born')
  BY CreateType DEF OtherJoins
<1>2. ServerTypeOK'
  BY <1>1 DEF OtherJoins, PollEnds, ServerTypeOK, Alive, Of
<1>3. NetTypeOK'
  BY DEF OtherJoins, NetTypeOK, netVars
<1>4. ClientTypeOK' /\ SystemsAgree'
  BY ClientKept DEF OtherJoins
<1> QED
  BY <1>2, <1>3, <1>4

LEMMA OtherLeavesInv ==
    ASSUME Inv, NEW id \in Ids, OtherLeaves(id)
    PROVE  Inv'
<1> USE DEF Inv
<1>1. moves' \in Components /\ Of(moves') = Of(moves) \ {id}
  BY ExceptType DEF ServerTypeOK, OtherLeaves
<1>2. born' \in Components /\ Of(born') = Of(born) \ {id}
  BY ExceptType DEF ServerTypeOK, OtherLeaves
<1>3. ServerTypeOK'
  BY <1>1, <1>2 DEF OtherLeaves, PollEnds, ServerTypeOK, Alive
<1>4. RemoveId(id) \in PairedPackets
  BY NothingType, PacketType DEF RemoveId, Types
<1>5. NetTypeOK'
  BY <1>4 DEF OtherLeaves, NetTypeOK
<1>6. ClientTypeOK' /\ SystemsAgree'
  BY ClientKept DEF OtherLeaves
<1> QED
  BY <1>3, <1>5, <1>6

LEMMA MoveInv ==
    ASSUME Inv, NEW movers \in SUBSET Alive, Move(movers)
    PROVE  Inv'
<1> USE DEF Inv
<1>1. stamp' \in Stamps /\ stamp' # None
  BY MaxStampAssumption DEF ServerTypeOK, Move, Stamps, None
<1>2. moves' \in Components /\ Of(moves') = Of(moves)
  <2>1. moves' = [id \in Ids |-> IF id \in movers THEN stamp' ELSE moves[id]]
    BY DEF Move
  <2> QED
    BY <1>1, <2>1 DEF ServerTypeOK, Components, Of, Alive
<1>3. ServerTypeOK'
  BY <1>1, <1>2 DEF Move, ServerTypeOK, Alive, Of
<1>4. NetTypeOK'
  BY DEF Move, NetTypeOK, netVars
<1>5. ClientTypeOK' /\ SystemsAgree'
  BY ClientKept DEF Move
<1> QED
  BY <1>3, <1>4, <1>5

LEMMA SendDiffInv ==
    ASSUME Inv, SendDiff
    PROVE  Inv'
<1> USE DEF Inv, SendDiff, DiffsSent
<1>1. ServerTypeOK'
  BY DEF ServerTypeOK, Alive, Of
<1>2. MoveDiffs \in Seq(PairedPackets)
  <2>1. Packet("MOVEDIFF", Only(moves, moveDiff), Nothing, None) \in PairedPackets
    BY NothingType, OnlyType, PacketType DEF ServerTypeOK, Types
  <2> QED
    BY <2>1 DEF MoveDiffs
<1>3. RenderDiffs \in Seq(PairedPackets)
  <2>1. Packet("RENDERDIFF", Nothing, Only(born, renderDiff), None) \in PairedPackets
    BY NothingType, OnlyType, PacketType DEF ServerTypeOK, Types
  <2> QED
    BY <2>1 DEF RenderDiffs
<1>4. NetTypeOK'
  BY <1>2, <1>3 DEF NetTypeOK
<1>5. ClientTypeOK' /\ SystemsAgree'
  BY ClientKept
<1> QED
  BY <1>1, <1>4, <1>5

LEMMA NoPacketInv ==
    ASSUME Inv, NoPacket
    PROVE  Inv'
<1> USE DEF Inv, NoPacket, PollEnds
<1>1. ServerTypeOK' /\ NetTypeOK'
  BY DEF entityVars, netVars, ServerTypeOK, NetTypeOK, Alive, Of
<1>2. ClientTypeOK' /\ SystemsAgree'
  BY ClientKept
<1> QED
  BY <1>1, <1>2

-----------------------------------------------------------------------------
(* The network and the client. *)
LEMMA LoseInv ==
    ASSUME Inv, NEW i \in UnderWay, Lose(i)
    PROVE  Inv'
<1> USE DEF Inv, Lose
<1>1. NetTypeOK'
  BY NetStep DEF NetTypeOK
<1>2. ClientTypeOK' /\ SystemsAgree'
  BY ClientKept
<1> QED
  BY <1>1, <1>2, ServerKept

(* What receiving packet i, whatever it is, leaves true. *)
LEMMA Taken ==
    ASSUME Inv, NEW i \in UnderWay, Take(i)
    PROVE  /\ ServerTypeOK' /\ NetTypeOK'
           /\ net[i] \in PairedPackets
           /\ net[i].move \in Components /\ net[i].render \in Components
           /\ net[i].id \in {None} \cup Ids
           /\ net[i].type = "INITIAL" => net[i].move = net[i].render
<1> USE DEF Inv, Take
<1>1. ServerTypeOK'
  BY ServerKept
<1>2. NetTypeOK' /\ net[i] \in PairedPackets
  BY NetStep DEF NetTypeOK
<1> QED
  BY <1>1, <1>2 DEF PairedPackets, Packets

LEMMA ReceiveInv ==
    ASSUME Inv, NEW i \in UnderWay, Receive(i)
    PROVE  Inv'
<1>1. Take(i)
  BY DEF Receive, HandleBegin, HandleInitial, HandleEnd, HandleReply, HandleMoveDiff,
         HandleRenderDiff, HandleRemoveId, RemoveIdThrows, Ignored, Handle
<1>2. /\ ServerTypeOK' /\ NetTypeOK'
      /\ net[i].move \in Components /\ net[i].render \in Components
      /\ net[i].id \in {None} \cup Ids
      /\ net[i].type = "INITIAL" => net[i].move = net[i].render
  BY <1>1, Taken
<1> DEFINE p == net[i]
<1>3. ClientTypeOK /\ SystemsAgree
  BY DEF Inv
<1> HIDE DEF p
<1>4. ClientTypeOK' /\ SystemsAgree'
  <2>1. CASE HandleBegin(i) \/ HandleEnd(i) \/ HandleReply(i)
    <3>1. ClientTypeOK'
      BY <1>2, <1>3, <2>1
      DEF HandleBegin, HandleEnd, HandleReply, ClientTypeOK, ecsVars, systemVars
    <3>2. clientState # "Crashed" /\ clientState' # "Crashed"
      BY <2>1 DEF HandleBegin, HandleEnd, HandleReply, Handle
    <3>3. UNCHANGED <<mcs, rcs, gridIds, renderIds>>
      BY <2>1 DEF HandleBegin, HandleEnd, HandleReply, ecsVars, systemVars
    <3> QED
      BY <1>3, <3>1, <3>2, <3>3 DEF SystemsAgree, Both, Of
  <2>2. CASE HandleInitial(i)
    <3>1. p.move \in Components /\ p.render = p.move
      BY <1>2, <2>2 DEF HandleInitial, Handle, p
    <3>2. mcs' = Sync(mcs, p.move) /\ rcs' = Sync(rcs, p.move)
      BY <2>2, <3>1 DEF HandleInitial, p
    <3>3. /\ mcs' \in Components /\ Of(mcs') = Of(mcs) \cup Of(p.move)
          /\ rcs' \in Components /\ Of(rcs') = Of(rcs) \cup Of(p.move)
      BY <1>3, <3>1, <3>2, SyncType DEF ClientTypeOK
    <3>4. /\ gridIds' = gridIds \cup Of(p.move)
          /\ renderIds' = renderIds \cup Of(p.move)
          /\ activeIds' = activeIds \cup Of(p.move)
          /\ clientState # "Crashed"
          /\ UNCHANGED <<clientState, cameraSource, scene>>
          /\ received' = received + 1
      BY <2>2 DEF HandleInitial, Handle, Show, p
    <3>5. Of(p.move) \subseteq Ids
      BY DEF Of
    <3> QED
      BY <1>3, <3>3, <3>4, <3>5 DEF ClientTypeOK, SystemsAgree, Both
  <2>3. CASE HandleMoveDiff(i)
    <3> DEFINE S == Of(p.move) \cap Of(rcs)
    <3>1. mcs' \in Components /\ Of(mcs') = Of(mcs) \cup Of(p.move)
      BY <1>2, <1>3, <2>3, SyncType DEF HandleMoveDiff, ClientTypeOK, p
    <3>2. /\ gridIds' = gridIds \cup S
          /\ renderIds' = renderIds \cup S
          /\ activeIds' = activeIds \cup S
          /\ clientState # "Crashed"
          /\ UNCHANGED <<clientState, received, rcs, cameraSource, scene>>
      BY <2>3 DEF HandleMoveDiff, Handle, Show, p
    <3>3. S \subseteq Ids /\ Of(rcs') = Of(rcs)
      BY <3>2 DEF Of
    <3> QED
      BY <1>3, <3>1, <3>2, <3>3 DEF ClientTypeOK, SystemsAgree, Both
  <2>4. CASE HandleRenderDiff(i)
    <3> DEFINE S == Of(p.render) \cap Of(mcs)
    <3>1. rcs' \in Components /\ Of(rcs') = Of(rcs) \cup Of(p.render)
      BY <1>2, <1>3, <2>4, SyncType DEF HandleRenderDiff, ClientTypeOK, p
    <3>2. /\ gridIds' = gridIds \cup S
          /\ renderIds' = renderIds \cup S
          /\ activeIds' = activeIds \cup S
          /\ clientState # "Crashed"
          /\ UNCHANGED <<clientState, received, mcs, cameraSource, scene>>
      BY <2>4 DEF HandleRenderDiff, Handle, Show, p
    <3>3. S \subseteq Ids /\ Of(mcs') = Of(mcs)
      BY <3>2 DEF Of
    <3> QED
      BY <1>3, <3>1, <3>2, <3>3 DEF ClientTypeOK, SystemsAgree, Both
  <2>5. CASE HandleRemoveId(i)
    <3>1. p.id \in Both /\ p.id \in Ids
      BY <2>5 DEF HandleRemoveId, Both, Of, p
    <3>2. /\ mcs' = [mcs EXCEPT ![p.id] = None]
          /\ rcs' = [rcs EXCEPT ![p.id] = None]
          /\ gridIds' = gridIds \ {p.id}
          /\ renderIds' = renderIds \ {p.id}
          /\ UNCHANGED <<activeIds, clientState, received, scene>>
          /\ clientState # "Crashed"
          /\ cameraSource' \in {None, cameraSource}
      BY <2>5 DEF HandleRemoveId, Handle, RemoveFromSystems, p
    <3>3. /\ mcs' \in Components /\ Of(mcs') = Of(mcs) \ {p.id}
          /\ rcs' \in Components /\ Of(rcs') = Of(rcs) \ {p.id}
      BY <1>3, <3>1, <3>2, ExceptType DEF ClientTypeOK
    <3> QED
      BY <1>3, <3>2, <3>3 DEF ClientTypeOK, SystemsAgree, Both
  <2>6. CASE RemoveIdThrows(i)
    BY <1>3, <2>6 DEF RemoveIdThrows, RemoveFromSystems, ClientTypeOK, SystemsAgree
  <2>7. CASE Ignored(i)
    BY <1>3, <2>7, ClientKept DEF Ignored
  <2> QED
    BY <2>1, <2>2, <2>3, <2>4, <2>5, <2>6, <2>7 DEF Receive
<1> QED
  BY <1>2, <1>4 DEF Inv

LEMMA RenderInv ==
    ASSUME Inv, Render
    PROVE  Inv'
<1> USE DEF Inv, Render
<1>1. NetTypeOK' /\ ServerTypeOK'
  BY ServerKept DEF netVars, NetTypeOK
<1>2. scene' \in Components
  BY OnlyType DEF ClientTypeOK
<1>3. ClientTypeOK' /\ SystemsAgree'
  BY <1>2 DEF systemVars, ClientTypeOK, SystemsAgree, Both, Of
<1> QED
  BY <1>1, <1>3

-----------------------------------------------------------------------------
LEMMA NextInv == Inv /\ [Next]_vars => Inv'
<1> SUFFICES ASSUME Inv, [Next]_vars PROVE Inv'
  OBVIOUS
<1>1. CASE Server
  BY <1>1, JoinInv, OtherJoinsInv, OtherLeavesInv, MoveInv, NoPacketInv, SendDiffInv
  DEF Server
<1>2. ASSUME NEW i \in UnderWay, Lose(i) \/ Receive(i) PROVE Inv'
  BY <1>2, LoseInv, ReceiveInv
<1>3. CASE Render
  BY <1>3, RenderInv
<1>4. CASE UNCHANGED vars
  <2>1. NetTypeOK' /\ ServerTypeOK'
    BY <1>4, ServerKept DEF vars, netVars, NetTypeOK, Inv
  <2>2. ClientTypeOK' /\ SystemsAgree'
    BY <1>4, ClientKept DEF vars, Inv
  <2> QED
    BY <2>1, <2>2 DEF Inv
<1> QED
  BY <1>1, <1>2, <1>3, <1>4 DEF Next

LEMMA Invariance == Spec => []Inv
<1>1. Init => Inv
  BY InitInv
<1>2. Inv /\ [Next]_vars => Inv'
  BY NextInv
<1> QED
  BY <1>1, <1>2, PTL DEF Spec

(* The state of both sides stays well typed: no camera, diff or packet ever  *)
(* carries an id or a component that does not exist.                         *)
THEOREM TypeCorrect == Spec => []TypeOK
BY Invariance, InvImpliesTypeOK, PTL

(* The assumption of EntityManager::remove(), that whatever a client shows   *)
(* is in both of its systems, holds under every loss, repetition and         *)
(* reordering of packets.                                                    *)
THEOREM ClientSystemsAgree == Spec => []SystemsAgree
<1>1. Inv => SystemsAgree
  BY DEF Inv
<1> QED
  BY <1>1, Invariance, PTL
=============================================================================
