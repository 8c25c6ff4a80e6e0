--------------------------- MODULE StreamOrderProofs ---------------------------
(* What the order of the packets gives in ClientWorld, for every set of ids   *)
(* and size of container: CrashNeedsFault, NeverBackwards and MirrorsWorld,   *)
(* and that ClientWorld implements WorldCopy.                                 *)
(* First: while the network makes no mistake, every REMOVE_ID under way finds *)
(* both components of its id, there already or in the packets before it.      *)
EXTENDS ClientWorldProofs

Removes(j, id) == net[j].type = "REMOVE_ID" /\ net[j].id = id
Survives(id, j, p) == \A m \in j + 1 .. p - 1 : ~Removes(m, id)

(* When the client comes to packet p it has the id's transform, or its look. *)
HasMove(id, p) == \/ id \in Of(mcs) /\ Survives(id, 0, p)
                  \/ \E j \in 1 .. p - 1 : id \in Of(net[j].move) /\ Survives(id, j, p)
HasRender(id, p) == \/ id \in Of(rcs) /\ Survives(id, 0, p)
                    \/ \E j \in 1 .. p - 1 : id \in Of(net[j].render) /\ Survives(id, j, p)

RemovalsFind == \A i \in UnderWay : net[i].type = "REMOVE_ID" =>
                   HasMove(net[i].id, i) /\ HasRender(net[i].id, i)

(* A client that has joined is told of every entity, at the latest by the    *)
(* next diffs. *)
AllTold == player # None =>
             /\ \A id \in Of(moves) : id \in moveDiff \/ HasMove(id, Len(net) + 1)
             /\ \A id \in Of(born) : id \in renderDiff \/ HasRender(id, Len(net) + 1)

(* Only these packets carry components. *)
Carries == \A i \in UnderWay :
              /\ net[i].type \notin {"INITIAL", "MOVEDIFF"} => Of(net[i].move) = {}
              /\ net[i].type \notin {"INITIAL", "RENDERDIFF"} => Of(net[i].render) = {}

(* The first b packets are BEGIN, packet e is END, and the transmission is   *)
(* what lies between. *)
Game == Handled["Running"]
Stream(b, e) == \A i \in UnderWay :
    /\ i <= b => net[i].type = "BEGIN"
    /\ b < i /\ i < e => net[i].type = "INITIAL"
    /\ b < i /\ i = e => net[i].type = "END"
    /\ b < i /\ i > e => net[i].type \in Game

Ordered == \/ clientState = "Disconnected" /\ player = None /\ net = <<>>
           \/ /\ clientState = "Disconnected" /\ player # None
              /\ \E e \in 2 .. Len(net) : Stream(1, e)
           \/ /\ clientState = "ReceiveInitial" /\ player # None
              /\ \E e \in 1 .. Len(net) : Stream(0, e)
           \/ clientState = "Running" /\ player # None /\ Stream(0, 0)

WayInv == Ordered /\ Carries /\ RemovalsFind /\ AllTold

(* The two maps of the server hold the same ids, and the diffs of a step are *)
(* sent before its packet is handled. *)
SameIds == Of(moves) = Of(born)
DiffsGone == phase = "poll" => moveDiff = {} /\ renderDiff = {}

OrderInv == /\ Inv /\ SameIds /\ DiffsGone
            /\ faults = 0 => /\ clientState # "Crashed"
                             /\ clientState # "Left" => WayInv

LEMMA OrderImpliesCrashNeedsFault == OrderInv => CrashNeedsFault
BY DEF OrderInv, Inv, NetTypeOK, CrashNeedsFault

LEMMA InitOrder == Init => OrderInv
<1> SUFFICES ASSUME Init PROVE OrderInv
  OBVIOUS
<1>1. Inv
  BY InitInv
<1>2. SameIds /\ DiffsGone
  BY DEF Init, SameIds, DiffsGone
<1>3. WayInv
  BY DEF Init, NetInit, UnderWay, WayInv, Ordered, Carries, RemovalsFind, AllTold
<1>4. clientState = "Disconnected"
  BY DEF Init
<1> QED
  BY <1>1, <1>2, <1>3, <1>4 DEF OrderInv

-----------------------------------------------------------------------------
(* Packets sent behind the others take nothing from those. *)
LEMMA AppendedKeeps ==
    ASSUME NEW ext \in Seq(PairedPackets), net \in Seq(PairedPackets), net' = net \o ext,
           UNCHANGED <<mcs, rcs>>, NEW id, NEW n \in 1 .. Len(net) + 1
    PROVE  /\ HasMove(id, n) => HasMove(id, n)'
           /\ HasRender(id, n) => HasRender(id, n)'
<1>1. Len(net) \in Nat /\ \A j \in 1 .. Len(net) : net'[j] = net[j]
  OBVIOUS
<1>2. ASSUME NEW j \in 0 .. n - 1, Survives(id, j, n)
      PROVE  Survives(id, j, n)'
  <2>1. \A m \in j + 1 .. n - 1 : m \in 1 .. Len(net)
    BY <1>1
  <2> QED
    BY <1>1, <1>2, <2>1 DEF Survives, Removes
<1>3. 0 \in 0 .. n - 1
  BY <1>1
<1>4. \A j \in 1 .. n - 1 : j \in 0 .. n - 1 /\ net'[j] = net[j]
  BY <1>1
<1>5. HasMove(id, n) => HasMove(id, n)'
  BY <1>2, <1>3, <1>4 DEF HasMove, Of
<1>6. HasRender(id, n) => HasRender(id, n)'
  BY <1>2, <1>3, <1>4 DEF HasRender, Of
<1> QED
  BY <1>5, <1>6

(* What they carry stays if they do not remove it. *)
LEMMA AppendedTells ==
    ASSUME NEW ext \in Seq(PairedPackets), net \in Seq(PairedPackets), net' = net \o ext,
           UNCHANGED <<mcs, rcs>>, NEW N, N = Len(net), NEW L, L = Len(net'), NEW id,
           \A j \in 1 .. Len(ext) : ext[j].type = "REMOVE_ID" => ext[j].id # id
    PROVE  /\ HasMove(id, N + 1) \/ (\E j \in 1 .. Len(ext) : id \in Of(ext[j].move))
                => HasMove(id, L + 1)'
           /\ HasRender(id, N + 1) \/ (\E j \in 1 .. Len(ext) : id \in Of(ext[j].render))
                => HasRender(id, L + 1)'
<1>1. /\ N \in Nat /\ Len(ext) \in Nat /\ L = N + Len(ext)
      /\ \A j \in 1 .. N : net'[j] = net[j]
      /\ \A j \in 1 .. Len(ext) : net'[N + j] = ext[j]
  OBVIOUS
<1>2. \A m \in N + 1 .. L : ~(net'[m].type = "REMOVE_ID" /\ net'[m].id = id)
  <2>1. ASSUME NEW m \in N + 1 .. L
        PROVE  m - N \in 1 .. Len(ext) /\ net'[m] = ext[m - N]
    <3>1. m - N \in 1 .. Len(ext)
      BY <1>1
    <3>2. net'[N + (m - N)] = ext[m - N]
      BY <1>1, <3>1
    <3>3. N + (m - N) = m
      BY <1>1
    <3> QED
      BY <3>1, <3>2, <3>3
  <2> QED
    BY <2>1
<1>3. ASSUME NEW j \in 0 .. N, Survives(id, j, N + 1)
      PROVE  Survives(id, j, L + 1)'
  <2>1. ASSUME NEW m \in j + 1 .. L
        PROVE  ~(net'[m].type = "REMOVE_ID" /\ net'[m].id = id)
    <3>1. CASE m <= N
      <4>1. m \in 1 .. N /\ m \in j + 1 .. (N + 1) - 1
        BY <1>1, <3>1
      <4> QED
        BY <1>1, <1>3, <4>1 DEF Survives, Removes
    <3>2. CASE m > N
      BY <1>1, <1>2, <3>2
    <3> QED
      BY <1>1, <3>1, <3>2
  <2>2. j + 1 .. (L + 1) - 1 = j + 1 .. L
    BY <1>1
  <2> QED
    BY <2>1, <2>2 DEF Survives, Removes
<1>4. ASSUME NEW j \in 1 .. Len(ext)
      PROVE  Survives(id, N + j, L + 1)'
  <2>1. \A m \in N + j + 1 .. (L + 1) - 1 : m \in N + 1 .. L
    BY <1>1
  <2> QED
    BY <1>2, <2>1 DEF Survives, Removes
<1>5. /\ 0 \in 0 .. N
      /\ \A j \in 1 .. (N + 1) - 1 : j \in 0 .. N /\ j \in 1 .. (L + 1) - 1 /\ net'[j] = net[j]
      /\ \A j \in 1 .. Len(ext) : N + j \in 1 .. (L + 1) - 1 /\ net'[N + j] = ext[j]
  BY <1>1
<1>6. HasMove(id, N + 1) => HasMove(id, L + 1)'
  BY <1>3, <1>5 DEF HasMove, Of
<1>7. HasRender(id, N + 1) => HasRender(id, L + 1)'
  BY <1>3, <1>5 DEF HasRender, Of
<1>8. ASSUME NEW j \in 1 .. Len(ext), id \in Of(ext[j].move)
      PROVE  HasMove(id, L + 1)'
  BY <1>4, <1>5, <1>8 DEF HasMove
<1>9. ASSUME NEW j \in 1 .. Len(ext), id \in Of(ext[j].render)
      PROVE  HasRender(id, L + 1)'
  BY <1>4, <1>5, <1>9 DEF HasRender
<1> QED
  BY <1>6, <1>7, <1>8, <1>9

(* What the first packet brings the client has when it is handled; each of   *)
(* the others comes one place forward. *)
LEMMA Consumed ==
    ASSUME Carries, net \in Seq(PairedPackets), net # <<>>, net' = Tail(net),
           NEW N, N = Len(net),
           \A id : ~Removes(1, id) =>
               /\ id \in Of(mcs) \/ id \in Of(net[1].move) => id \in Of(mcs')
               /\ id \in Of(rcs) \/ id \in Of(net[1].render) => id \in Of(rcs')
    PROVE  /\ N \in Nat \ {0} /\ Len(net') = N - 1
           /\ \A j \in 1 .. N - 1 : net'[j] = net[j + 1]
           /\ \A id : \A n \in 1 .. N : /\ HasMove(id, n + 1) => HasMove(id, n)'
                                        /\ HasRender(id, n + 1) => HasRender(id, n)'
<1>1. /\ N \in Nat \ {0} /\ Len(net') = N - 1
      /\ \A j \in 1 .. N - 1 : net'[j] = net[j + 1]
  OBVIOUS
<1>2. ASSUME NEW id, NEW n \in 1 .. N, NEW j \in 0 .. n, Survives(id, j, n + 1),
             NEW i, (i = j /\ j = 0) \/ (i = j - 1 /\ j > 0)
      PROVE  Survives(id, i, n)'
  <2>1. \A m \in j + 1 .. n : ~(net[m].type = "REMOVE_ID" /\ net[m].id = id)
    <3>1. j + 1 .. (n + 1) - 1 = j + 1 .. n
      BY <1>1
    <3> QED
      BY <1>2, <3>1 DEF Survives, Removes
  <2>2. ASSUME NEW m \in i + 1 .. n - 1
        PROVE  ~(net'[m].type = "REMOVE_ID" /\ net'[m].id = id)
    <3>1. m \in 1 .. N - 1 /\ m + 1 \in j + 1 .. n
      BY <1>1, <1>2
    <3> QED
      BY <1>1, <2>1, <3>1
  <2> QED
    BY <2>2 DEF Survives, Removes
<1>5. ASSUME NEW id, NEW n \in 1 .. N, Survives(id, 0, n + 1)
      PROVE  ~Removes(1, id) /\ Survives(id, 0, n)'
  <2>1. 1 \in 0 + 1 .. (n + 1) - 1 /\ 0 \in 0 .. n
    BY <1>1
  <2>2. ~Removes(1, id)
    BY <1>5, <2>1 DEF Survives
  <2>3. Survives(id, 0, n)'
    BY <1>2, <1>5, <2>1
  <2> QED
    BY <2>2, <2>3
<1>6. 1 \in UnderWay
  BY <1>1 DEF UnderWay
<1>3. ASSUME NEW id, NEW n \in 1 .. N, HasMove(id, n + 1)
      PROVE  HasMove(id, n)'
  <2>1. CASE id \in Of(mcs) /\ Survives(id, 0, n + 1)
    <3>1. ~Removes(1, id) /\ Survives(id, 0, n)'
      BY <1>5, <2>1
    <3> QED
      BY <2>1, <3>1 DEF HasMove
  <2>2. ASSUME NEW j \in 1 .. n, id \in Of(net[j].move), Survives(id, j, n + 1)
        PROVE  HasMove(id, n)'
    <3>1. Survives(id, j - 1, n)'
      <4>1. j \in 0 .. n /\ j > 0
        BY <1>1
      <4> QED
        BY <1>2, <2>2, <4>1
    <3>2. CASE j = 1
      <4>1. net[1].type # "REMOVE_ID"
        BY <1>6, <2>2, <3>2 DEF Carries
      <4>2. id \in Of(mcs')
        BY <2>2, <3>2, <4>1 DEF Removes
      <4>3. Survives(id, 0, n)'
        BY <3>1, <3>2
      <4> QED
        BY <4>2, <4>3 DEF HasMove
    <3>3. CASE j # 1
      <4>1. j - 1 \in 1 .. n - 1 /\ j - 1 \in 1 .. N - 1 /\ (j - 1) + 1 = j
        BY <1>1, <3>3
      <4>2. net'[j - 1] = net[j]
        BY <1>1, <4>1
      <4> QED
        BY <2>2, <3>1, <4>1, <4>2 DEF HasMove
    <3> QED
      BY <3>2, <3>3
  <2>3. 1 .. (n + 1) - 1 = 1 .. n
    BY <1>1
  <2> QED
    BY <1>3, <2>1, <2>2, <2>3 DEF HasMove
<1>4. ASSUME NEW id, NEW n \in 1 .. N, HasRender(id, n + 1)
      PROVE  HasRender(id, n)'
  <2>1. CASE id \in Of(rcs) /\ Survives(id, 0, n + 1)
    <3>1. ~Removes(1, id) /\ Survives(id, 0, n)'
      BY <1>5, <2>1
    <3> QED
      BY <2>1, <3>1 DEF HasRender
  <2>2. ASSUME NEW j \in 1 .. n, id \in Of(net[j].render), Survives(id, j, n + 1)
        PROVE  HasRender(id, n)'
    <3>1. Survives(id, j - 1, n)'
      <4>1. j \in 0 .. n /\ j > 0
        BY <1>1
      <4> QED
        BY <1>2, <2>2, <4>1
    <3>2. CASE j = 1
      <4>1. net[1].type # "REMOVE_ID"
        BY <1>6, <2>2, <3>2 DEF Carries
      <4>2. id \in Of(rcs')
        BY <2>2, <3>2, <4>1 DEF Removes
      <4>3. Survives(id, 0, n)'
        BY <3>1, <3>2
      <4> QED
        BY <4>2, <4>3 DEF HasRender
    <3>3. CASE j # 1
      <4>1. j - 1 \in 1 .. n - 1 /\ j - 1 \in 1 .. N - 1 /\ (j - 1) + 1 = j
        BY <1>1, <3>3
      <4>2. net'[j - 1] = net[j]
        BY <1>1, <4>1
      <4> QED
        BY <2>2, <3>1, <4>1, <4>2 DEF HasRender
    <3> QED
      BY <3>2, <3>3
  <2>3. 1 .. (n + 1) - 1 = 1 .. n
    BY <1>1
  <2> QED
    BY <1>4, <2>1, <2>2, <2>3 DEF HasRender
<1> QED
  BY <1>1, <1>3, <1>4

(* So what was found before the packet was handled is found after it. *)
LEMMA ConsumedWay ==
    ASSUME Carries, RemovalsFind, AllTold, net \in Seq(PairedPackets), net # <<>>,
           net' = Tail(net), UNCHANGED <<player, moves, born, moveDiff, renderDiff>>,
           \A id : ~Removes(1, id) =>
               /\ id \in Of(mcs) \/ id \in Of(net[1].move) => id \in Of(mcs')
               /\ id \in Of(rcs) \/ id \in Of(net[1].render) => id \in Of(rcs')
    PROVE  Carries' /\ RemovalsFind' /\ AllTold'
<1> SUFFICES ASSUME NEW N, N = Len(net)
             PROVE  Carries' /\ RemovalsFind' /\ AllTold'
  OBVIOUS
<1>1. /\ N \in Nat \ {0} /\ Len(net') = N - 1
      /\ \A j \in 1 .. N - 1 : net'[j] = net[j + 1]
      /\ \A id : \A n \in 1 .. N : /\ HasMove(id, n + 1) => HasMove(id, n)'
                                   /\ HasRender(id, n + 1) => HasRender(id, n)'
  BY Consumed
<1>2. \A j \in 1 .. N - 1 : j + 1 \in 1 .. N
  BY <1>1
<1>3. Carries'
  BY <1>1, <1>2 DEF Carries, UnderWay, Of
<1>4. RemovalsFind'
  <2>1. ASSUME NEW j \in 1 .. N - 1, net'[j].type = "REMOVE_ID", NEW id, id = net'[j].id
        PROVE  HasMove(id, j)' /\ HasRender(id, j)'
    <3>1. HasMove(id, j + 1) /\ HasRender(id, j + 1)
      BY <1>1, <1>2, <2>1 DEF RemovalsFind, UnderWay
    <3>2. j \in 1 .. N
      BY <1>1
    <3> QED
      BY <1>1, <3>1, <3>2
  <2> QED
    BY <1>1, <2>1 DEF RemovalsFind, UnderWay
<1>5. AllTold'
  <2>1. ASSUME player # None
        PROVE  /\ \A id \in Of(moves) : id \in moveDiff \/ HasMove(id, N)'
               /\ \A id \in Of(born) : id \in renderDiff \/ HasRender(id, N)'
    <3>1. N \in 1 .. N
      BY <1>1
    <3> QED
      BY <1>1, <2>1, <3>1 DEF AllTold
  <2>2. Len(net') + 1 = N
    BY <1>1
  <2> QED
    BY <2>1, <2>2 DEF AllTold, Of
<1> QED
  BY <1>3, <1>4, <1>5

(* Behind the first packet the stream goes on: the transmission, END, the    *)
(* game. *)
LEMMA StreamGoesOn ==
    ASSUME net \in Seq(PairedPackets), net # <<>>, net' = Tail(net), NEW b \in 0 .. 1,
           NEW e \in Nat, Stream(b, e), e > b \/ (e = 0 /\ b = 0),
           NEW f \in Nat, f = (IF e = 0 THEN 0 ELSE e - 1)
    PROVE  Stream(0, f)' /\ (e \in 1 .. Len(net) => f \in 0 .. Len(net'))
<1>1. /\ Len(net) \in Nat \ {0} /\ Len(net') = Len(net) - 1
      /\ \A j \in 1 .. Len(net) - 1 : net'[j] = net[j + 1]
  OBVIOUS
<1>2. ASSUME NEW j \in 1 .. Len(net) - 1
      PROVE  /\ j < f => net'[j].type = "INITIAL"
             /\ j = f => net'[j].type = "END"
             /\ j > f => net'[j].type \in Game
  <2>1. /\ j + 1 \in UnderWay /\ net'[j] = net[j + 1] /\ b < j + 1
        /\ j < f => j + 1 < e
        /\ j = f => j + 1 = e
        /\ j > f => j + 1 > e
    BY <1>1 DEF UnderWay
  <2> QED
    BY <2>1 DEF Stream
<1>3. Stream(0, f)'
  BY <1>1, <1>2 DEF Stream, UnderWay, Game, Handled
<1> QED
  BY <1>1, <1>3

(* The packet that comes is one the client's state handles, and a REMOVE_ID  *)
(* does not throw. *)
LEMMA ReceiveInOrder ==
    ASSUME Inv, WayInv, net # <<>>, net' = Tail(net), Receive(1), UNCHANGED serverVars,
           clientState \in DOMAIN Handled
    PROVE  clientState' # "Crashed" /\ (clientState' # "Left" => WayInv')
<1>1. /\ net \in Seq(PairedPackets) /\ Len(net) \in Nat \ {0} /\ 1 \in UnderWay
      /\ Len(net') = Len(net) - 1
      /\ mcs \in Components /\ rcs \in Components
  BY DEF Inv, NetTypeOK, ClientTypeOK, UnderWay
<1>2. net[1] \in PairedPackets
  BY <1>1
<1>3. net[1].move \in Components /\ net[1].render \in Components
  BY <1>2 DEF PairedPackets, Packets
<1>4. /\ Carries /\ RemovalsFind /\ AllTold /\ Ordered
      /\ UNCHANGED <<player, moves, born, moveDiff, renderDiff>>
  BY DEF WayInv, serverVars, entityVars
<1>5. ASSUME \A id : ~Removes(1, id) =>
               /\ id \in Of(mcs) \/ id \in Of(net[1].move) => id \in Of(mcs')
               /\ id \in Of(rcs) \/ id \in Of(net[1].render) => id \in Of(rcs')
      PROVE  Carries' /\ RemovalsFind' /\ AllTold'
  BY <1>1, <1>4, <1>5, ConsumedWay
<1>6. /\ net[1].type \notin {"INITIAL", "MOVEDIFF"} => Of(net[1].move) = {}
      /\ net[1].type \notin {"INITIAL", "RENDERDIFF"} => Of(net[1].render) = {}
  BY <1>1, <1>4 DEF Carries
<1>7. CASE clientState = "Disconnected"
  <2>1. PICK e \in 2 .. Len(net) : Stream(1, e)
    BY <1>4, <1>7 DEF Ordered
  <2>2. net[1].type = "BEGIN"
    BY <1>1, <2>1 DEF Stream
  <2>3. HandleBegin(1)
    BY <1>7, <2>2 DEF Receive, HandleBegin, HandleInitial, HandleEnd, HandleReply, HandleMoveDiff,
                      HandleRenderDiff, HandleRemoveId, RemoveIdThrows, Ignored, Handle, Handled
  <2>4. /\ clientState' = "ReceiveInitial" /\ UNCHANGED <<mcs, rcs>>
    BY <2>3 DEF HandleBegin, ecsVars
  <2>5. Carries' /\ RemovalsFind' /\ AllTold'
    BY <1>5, <1>6, <2>2, <2>4
  <2>6. Stream(0, e - 1)' /\ e - 1 \in 1 .. Len(net')
    <3>1. e \in Nat /\ e > 1 /\ e - 1 \in Nat /\ e \in 1 .. Len(net) /\ e # 0
      BY <1>1
    <3>2. Stream(0, e - 1)'
      BY <1>1, <2>1, <3>1, StreamGoesOn
    <3> QED
      BY <1>1, <3>1, <3>2
  <2>7. player' # None
    BY <1>1, <1>4, <1>7 DEF Ordered
  <2> QED
    BY <2>4, <2>5, <2>6, <2>7 DEF WayInv, Ordered
<1>8. CASE clientState = "ReceiveInitial"
  <2>1. PICK e \in 1 .. Len(net) : Stream(0, e)
    BY <1>4, <1>8 DEF Ordered
  <2>2. player' # None
    BY <1>4, <1>8 DEF Ordered
  <2>3. e \in Nat /\ e # 0 /\ e > 0 /\ e - 1 \in Nat
    BY <1>1
  <2>4. Stream(0, e - 1)'
    BY <1>1, <2>1, <2>3, StreamGoesOn
  <2>5. CASE e = 1
    <3>1. net[1].type = "END"
      BY <1>1, <2>1, <2>5 DEF Stream
    <3>2. HandleEnd(1)
      BY <1>8, <3>1 DEF Receive, HandleBegin, HandleInitial, HandleEnd, HandleReply, HandleMoveDiff,
                        HandleRenderDiff, HandleRemoveId, RemoveIdThrows, Ignored, Handle, Handled
    <3>3. clientState' \in {"Left", "Running"} /\ UNCHANGED <<mcs, rcs>>
      BY <3>2 DEF HandleEnd, ecsVars
    <3>4. Carries' /\ RemovalsFind' /\ AllTold'
      BY <1>5, <1>6, <3>1, <3>3
    <3>5. Stream(0, 0)'
      BY <2>4, <2>5
    <3> QED
      BY <2>2, <3>3, <3>4, <3>5 DEF WayInv, Ordered
  <2>6. CASE e # 1
    <3>1. net[1].type = "INITIAL"
      BY <1>1, <2>1, <2>6 DEF Stream
    <3>2. HandleInitial(1)
      BY <1>8, <3>1 DEF Receive, HandleBegin, HandleInitial, HandleEnd, HandleReply, HandleMoveDiff,
                        HandleRenderDiff, HandleRemoveId, RemoveIdThrows, Ignored, Handle, Handled
    <3>3. /\ clientState' = "ReceiveInitial"
          /\ mcs' = Sync(mcs, net[1].move) /\ rcs' = Sync(rcs, net[1].render)
      BY <1>8, <3>2 DEF HandleInitial
    <3>4. Of(mcs') = Of(mcs) \cup Of(net[1].move) /\ Of(rcs') = Of(rcs) \cup Of(net[1].render)
      BY <1>1, <1>3, <3>3, SyncType
    <3>5. Carries' /\ RemovalsFind' /\ AllTold'
      BY <1>5, <3>4
    <3>6. e - 1 \in 1 .. Len(net')
      BY <1>1, <2>6
    <3> QED
      BY <2>2, <2>4, <3>3, <3>5, <3>6 DEF WayInv, Ordered
  <2> QED
    BY <2>5, <2>6
<1>9. CASE clientState = "Running"
  <2>1. Stream(0, 0) /\ player' # None
    BY <1>4, <1>9 DEF Ordered
  <2>2. net[1].type \in Game
    BY <1>1, <2>1 DEF Stream
  <2>3. Stream(0, 0)'
    BY <1>1, <2>1, StreamGoesOn
  <2>4. HandleReply(1) \/ HandleMoveDiff(1) \/ HandleRenderDiff(1) \/ HandleRemoveId(1)
    <3>1. ~RemoveIdThrows(1)
      <4>1. SUFFICES ASSUME net[1].type = "REMOVE_ID" PROVE net[1].id \in Both
        BY DEF RemoveIdThrows, Handle
      <4>2. HasMove(net[1].id, 1) /\ HasRender(net[1].id, 1)
        BY <1>1, <1>4, <4>1 DEF RemovalsFind
      <4>3. 1 .. 1 - 1 = {}
        OBVIOUS
      <4> QED
        BY <4>2, <4>3 DEF HasMove, HasRender, Both
    <3> QED
      BY <1>9, <2>2, <3>1 DEF Receive, HandleBegin, HandleInitial, HandleEnd, Ignored, Handle,
                              Handled, Game
  <2>5. CASE HandleReply(1)
    <3>1. clientState' = "Running" /\ UNCHANGED <<mcs, rcs>> /\ net[1].type = "REPLY"
      BY <1>9, <2>5 DEF HandleReply, Handle
    <3>2. Carries' /\ RemovalsFind' /\ AllTold'
      BY <1>5, <1>6, <3>1
    <3> QED
      BY <2>1, <2>3, <3>1, <3>2 DEF WayInv, Ordered
  <2>6. CASE HandleMoveDiff(1)
    <3>1. /\ clientState' = "Running" /\ rcs' = rcs /\ net[1].type = "MOVEDIFF"
          /\ mcs' = Sync(mcs, net[1].move)
      BY <1>9, <2>6 DEF HandleMoveDiff, Handle
    <3>2. Of(mcs') = Of(mcs) \cup Of(net[1].move)
      BY <1>1, <1>3, <3>1, SyncType
    <3>3. Carries' /\ RemovalsFind' /\ AllTold'
      BY <1>5, <1>6, <3>1, <3>2
    <3> QED
      BY <2>1, <2>3, <3>1, <3>3 DEF WayInv, Ordered
  <2>7. CASE HandleRenderDiff(1)
    <3>1. /\ clientState' = "Running" /\ mcs' = mcs /\ net[1].type = "RENDERDIFF"
          /\ rcs' = Sync(rcs, net[1].render)
      BY <1>9, <2>7 DEF HandleRenderDiff, Handle
    <3>2. Of(rcs') = Of(rcs) \cup Of(net[1].render)
      BY <1>1, <1>3, <3>1, SyncType
    <3>3. Carries' /\ RemovalsFind' /\ AllTold'
      BY <1>5, <1>6, <3>1, <3>2
    <3> QED
      BY <2>1, <2>3, <3>1, <3>3 DEF WayInv, Ordered
  <2>8. CASE HandleRemoveId(1)
    <3>1. PICK gone \in Ids : gone = net[1].id
      BY <2>8 DEF HandleRemoveId, Both, Of
    <3>2. /\ clientState' = "Running" /\ net[1].type = "REMOVE_ID"
          /\ mcs' = [mcs EXCEPT ![gone] = None] /\ rcs' = [rcs EXCEPT ![gone] = None]
      BY <1>9, <2>8, <3>1 DEF HandleRemoveId, Handle
    <3>3. Of(mcs') = Of(mcs) \ {gone} /\ Of(rcs') = Of(rcs) \ {gone}
      BY <1>1, <3>1, <3>2, ExceptType
    <3>4. \A id : ~Removes(1, id) => id # gone
      BY <3>1, <3>2 DEF Removes
    <3>5. Carries' /\ RemovalsFind' /\ AllTold'
      BY <1>5, <1>6, <3>2, <3>3, <3>4
    <3> QED
      BY <2>1, <2>3, <3>2, <3>5 DEF WayInv, Ordered
  <2> QED
    BY <2>4, <2>5, <2>6, <2>7, <2>8
<1> QED
  BY <1>7, <1>8, <1>9 DEF Handled

LEMMA ReceiveOrder ==
    ASSUME OrderInv, NEW i \in UnderWay, Receive(i)
    PROVE  OrderInv'
<1>1. /\ UNCHANGED serverVars /\ Delivers(i)
      /\ clientState \in DOMAIN Handled
  BY DEF Receive, HandleBegin, HandleInitial, HandleEnd, HandleReply, HandleMoveDiff,
         HandleRenderDiff, HandleRemoveId, RemoveIdThrows, Ignored, Handle, Take, Handled
<1>2. Inv'
  BY ReceiveInv DEF OrderInv
<1>3. SameIds' /\ DiffsGone'
  BY <1>1 DEF OrderInv, SameIds, DiffsGone, Of, serverVars, entityVars
<1>4. ASSUME faults' = 0
      PROVE  clientState' # "Crashed" /\ (clientState' # "Left" => WayInv')
  <2>1. ~Fault
    BY <1>4 DEF Fault, OrderInv, Inv, NetTypeOK
  <2>2. i = 1 /\ net' = Tail(net) /\ faults = 0
    BY <1>1, <1>4, <2>1 DEF Delivers, InOrder, Overtaking, Repeated
  <2>3. net # <<>>
    BY DEF UnderWay
  <2>4. WayInv
    BY <1>1, <2>2 DEF OrderInv, Handled
  <2>5. Inv /\ Receive(1)
    BY <2>2 DEF OrderInv
  <2> QED
    BY ONLY <1>1, <2>2, <2>3, <2>4, <2>5, ReceiveInOrder
<1> QED
  BY <1>2, <1>3, <1>4 DEF OrderInv

LEMMA LoseOrder ==
    ASSUME OrderInv, NEW i \in UnderWay, Lose(i)
    PROVE  OrderInv'
<1>1. Inv'
  BY LoseInv DEF OrderInv
<1>2. SameIds' /\ DiffsGone'
  BY DEF Lose, OrderInv, SameIds, DiffsGone, Of, serverVars, entityVars
<1>3. faults' # 0
  BY DEF Lose, Loses, Fault, OrderInv, Inv, NetTypeOK
<1> QED
  BY <1>1, <1>2, <1>3 DEF OrderInv

-----------------------------------------------------------------------------
(* What is sent to a client that has joined. *)
LEMMA SentOrder ==
    ASSUME Inv, WayInv, player # None, player' # None, NEW ext \in Seq(PairedPackets),
           net' = net \o ext, UNCHANGED clientVars,
           \A j \in 1 .. Len(ext) :
               /\ ext[j].type \in Game
               /\ ext[j].type \notin {"INITIAL", "MOVEDIFF"} => Of(ext[j].move) = {}
               /\ ext[j].type \notin {"INITIAL", "RENDERDIFF"} => Of(ext[j].render) = {}
    PROVE  Ordered' /\ Carries'
<1>1. /\ net \in Seq(PairedPackets)
      /\ Len(net) \in Nat /\ Len(ext) \in Nat /\ Len(net') = Len(net) + Len(ext)
      /\ \A j \in 1 .. Len(net) : net'[j] = net[j]
      /\ \A j \in 1 .. Len(ext) : net'[Len(net) + j] = ext[j]
  BY DEF Inv, NetTypeOK
<1>2. ASSUME NEW j \in 1 .. Len(net'), j \notin 1 .. Len(net)
      PROVE  j > Len(net) /\ j - Len(net) \in 1 .. Len(ext) /\ net'[j] = ext[j - Len(net)]
  <2>1. j - Len(net) \in 1 .. Len(ext) /\ Len(net) + (j - Len(net)) = j /\ j > Len(net)
    BY <1>1, <1>2
  <2> QED
    BY <1>1, <2>1
<1>3. Carries'
  <2>1. ASSUME NEW j \in 1 .. Len(net')
        PROVE  /\ net'[j].type \notin {"INITIAL", "MOVEDIFF"} => Of(net'[j].move) = {}
               /\ net'[j].type \notin {"INITIAL", "RENDERDIFF"} => Of(net'[j].render) = {}
    <3>1. CASE j \in 1 .. Len(net)
      BY <1>1, <3>1 DEF WayInv, Carries, UnderWay
    <3>2. CASE j \notin 1 .. Len(net)
      BY <1>2, <3>2
    <3> QED
      BY <3>1, <3>2
  <2> QED
    BY <2>1 DEF Carries, UnderWay, Of
<1>4. ASSUME NEW b \in 0 .. 1, NEW e \in 0 .. Len(net), Stream(b, e),
             b = 0 \/ Len(net) > 0
      PROVE  Stream(b, e)'
  <2>1. ASSUME NEW j \in 1 .. Len(net')
        PROVE  /\ j <= b => net'[j].type = "BEGIN"
               /\ b < j /\ j < e => net'[j].type = "INITIAL"
               /\ b < j /\ j = e => net'[j].type = "END"
               /\ b < j /\ j > e => net'[j].type \in Game
    <3>1. CASE j \in 1 .. Len(net)
      BY <1>1, <1>4, <3>1 DEF Stream, UnderWay
    <3>2. CASE j \notin 1 .. Len(net)
      <4>1. net'[j].type \in Game /\ j > Len(net)
        BY <1>2, <3>2
      <4>2. ~(j <= b) /\ ~(j <= e)
        BY <1>1, <1>4, <4>1
      <4> QED
        BY <4>1, <4>2
    <3> QED
      BY <3>1, <3>2
  <2> QED
    BY <2>1 DEF Stream, UnderWay, Game, Handled
<1>5. Ordered'
  <2>1. clientState' = clientState
    BY DEF clientVars
  <2>2. CASE clientState = "Disconnected"
    <3>1. PICK e \in 2 .. Len(net) : Stream(1, e)
      BY <2>2 DEF WayInv, Ordered
    <3>2. e \in 0 .. Len(net) /\ e \in 2 .. Len(net') /\ Len(net) > 0
      BY <1>1
    <3> QED
      BY <1>4, <2>1, <2>2, <3>1, <3>2 DEF Ordered
  <2>3. CASE clientState = "ReceiveInitial"
    <3>1. PICK e \in 1 .. Len(net) : Stream(0, e)
      BY <2>3 DEF WayInv, Ordered
    <3>2. e \in 0 .. Len(net) /\ e \in 1 .. Len(net')
      BY <1>1
    <3> QED
      BY <1>4, <2>1, <2>3, <3>1, <3>2 DEF Ordered
  <2>4. CASE clientState = "Running"
    <3>1. Stream(0, 0) /\ 0 \in 0 .. Len(net)
      BY <1>1, <2>4 DEF WayInv, Ordered
    <3> QED
      BY <1>4, <2>1, <2>4, <3>1 DEF Ordered
  <2> QED
    BY <2>2, <2>3, <2>4 DEF WayInv, Ordered
<1> QED
  BY <1>3, <1>5

(* A step of the server that sends nothing and removes nothing. *)
LEMMA SilentOrder ==
    ASSUME WayInv, UNCHANGED <<net, player, clientState, mcs, rcs>>,
           \A id \in Of(moves') : id \in moveDiff' \/ (id \in Of(moves) /\ id \notin moveDiff)
                                     \/ player = None,
           \A id \in Of(born') : id \in renderDiff' \/ (id \in Of(born) /\ id \notin renderDiff)
                                     \/ player = None
    PROVE  WayInv'
<1>1. /\ \A id, n : HasMove(id, n)' <=> HasMove(id, n)
      /\ \A id, n : HasRender(id, n)' <=> HasRender(id, n)
  BY DEF HasMove, HasRender, Survives, Removes
<1>2. Ordered' /\ Carries' /\ RemovalsFind'
  BY <1>1 DEF WayInv, Ordered, Stream, Carries, RemovalsFind, UnderWay, Game, Handled
<1>3. AllTold'
  BY <1>1 DEF WayInv, AllTold, Of
<1> QED
  BY <1>2, <1>3 DEF WayInv

LEMMA OfOnly == /\ Of(Nothing) = {}
                /\ \A cs, S : Of(Only(cs, S)) = Of(cs) \cap S
BY DEF Of, Nothing, Only

LEMMA OtherJoinsOrder ==
    ASSUME OrderInv, NEW id \in Ids, OtherJoins(id)
    PROVE  OrderInv'
<1>1. Inv'
  BY OtherJoinsInv DEF OrderInv
<1>2. /\ UNCHANGED <<net, faults, player, clientState, mcs, rcs>> /\ phase' = "update"
      /\ moveDiff' = moveDiff \cup {id} /\ renderDiff' = renderDiff \cup {id}
  BY DEF OtherJoins, Create, PollEnds, netVars, clientVars, ecsVars
<1>3. Of(moves') = Of(moves) \cup {id} /\ Of(born') = Of(born) \cup {id}
  <2>1. stamp' \in Stamps /\ stamp' # None
    BY MaxStampAssumption DEF OrderInv, Inv, ServerTypeOK, OtherJoins, Create, Stamps, None
  <2> QED
    BY <2>1, ExceptType DEF OrderInv, Inv, ServerTypeOK, OtherJoins, Create
<1>4. SameIds' /\ DiffsGone'
  BY <1>2, <1>3 DEF OrderInv, SameIds, DiffsGone, Of
<1>5. WayInv => WayInv'
  BY <1>2, <1>3, SilentOrder
<1> QED
  BY <1>1, <1>2, <1>4, <1>5 DEF OrderInv

LEMMA MoveOrder ==
    ASSUME OrderInv, NEW movers \in SUBSET Alive, Move(movers)
    PROVE  OrderInv'
<1>1. Inv'
  BY MoveInv DEF OrderInv
<1>2. /\ UNCHANGED <<net, faults, player, clientState, mcs, rcs, born, renderDiff>>
      /\ phase' = phase /\ phase = "update"
      /\ moveDiff' = moveDiff \cup movers
  BY DEF Move, netVars, clientVars, ecsVars
<1>3. Of(moves') = Of(moves)
  <2>1. stamp' \in Stamps /\ stamp' # None
    BY MaxStampAssumption DEF OrderInv, Inv, ServerTypeOK, Move, Stamps, None
  <2>2. moves' = [id \in Ids |-> IF id \in movers THEN stamp' ELSE moves[id]]
    BY DEF Move
  <2> QED
    BY <2>1, <2>2 DEF Of, Alive
<1>4. SameIds' /\ DiffsGone'
  BY <1>2, <1>3 DEF OrderInv, SameIds, DiffsGone, Of
<1>5. WayInv => WayInv'
  BY <1>2, <1>3, SilentOrder
<1> QED
  BY <1>1, <1>2, <1>4, <1>5 DEF OrderInv

LEMMA QuietOrder ==
    ASSUME OrderInv, NoPacket \/ Render \/ UNCHANGED vars
    PROVE  OrderInv'
<1>1. Inv'
  BY NextInv DEF OrderInv, Next, Server
<1>2. /\ UNCHANGED <<net, faults, player, clientState, mcs, rcs>>
      /\ UNCHANGED <<moves, born, moveDiff, renderDiff>>
      /\ phase' = phase \/ phase' = "update"
  BY DEF NoPacket, PollEnds, Render, vars, serverVars, entityVars, netVars, clientVars, ecsVars
<1>3. SameIds' /\ DiffsGone'
  BY <1>2 DEF OrderInv, SameIds, DiffsGone, Of
<1>4. WayInv => WayInv'
  BY <1>2, SilentOrder
<1> QED
  BY <1>1, <1>2, <1>3, <1>4 DEF OrderInv

(* The diffs hold what the client has not been told. *)
LEMMA SendDiffOrder ==
    ASSUME OrderInv, SendDiff
    PROVE  OrderInv'
<1> DEFINE pm == Packet("MOVEDIFF", Only(moves, moveDiff), Nothing, None)
           pr == Packet("RENDERDIFF", Nothing, Only(born, renderDiff), None)
           ext == MoveDiffs \o RenderDiffs
<1>1. Inv'
  BY SendDiffInv DEF OrderInv
<1>2. /\ UNCHANGED <<faults, player, moves, born>> /\ UNCHANGED clientVars
      /\ UNCHANGED <<clientState, mcs, rcs>>
      /\ moveDiff' = {} /\ renderDiff' = {}
      /\ net' = IF player = None THEN net ELSE net \o ext
  BY DEF SendDiff, DiffsSent, clientVars, ecsVars
<1>3. SameIds' /\ DiffsGone'
  BY <1>2 DEF OrderInv, SameIds, DiffsGone, Of
<1>4. /\ pm \in PairedPackets /\ pm.type = "MOVEDIFF"
      /\ Of(pm.move) = Of(moves) \cap moveDiff /\ Of(pm.render) = {}
  <2>1. pm \in PairedPackets
    BY NothingType, OnlyType, PacketType DEF OrderInv, Inv, ServerTypeOK, Types
  <2> QED
    BY <2>1, OfOnly DEF Packet
<1>5. /\ pr \in PairedPackets /\ pr.type = "RENDERDIFF"
      /\ Of(pr.render) = Of(born) \cap renderDiff /\ Of(pr.move) = {}
  <2>1. pr \in PairedPackets
    BY NothingType, OnlyType, PacketType DEF OrderInv, Inv, ServerTypeOK, Types
  <2> QED
    BY <2>1, OfOnly DEF Packet
<1> HIDE DEF pm, pr
<1>6. /\ ext \in Seq(PairedPackets)
      /\ \A j \in 1 .. Len(ext) : ext[j] \in {pm, pr}
      /\ moveDiff # {} => \E j \in 1 .. Len(ext) : ext[j] = pm
      /\ renderDiff # {} => \E j \in 1 .. Len(ext) : ext[j] = pr
  <2>1. /\ MoveDiffs = IF moveDiff = {} THEN <<>> ELSE <<pm>>
        /\ RenderDiffs = IF renderDiff = {} THEN <<>> ELSE <<pr>>
    BY DEF MoveDiffs, RenderDiffs, pm, pr
  <2>2. CASE moveDiff = {} /\ renderDiff = {}
    BY <2>1, <2>2
  <2>3. CASE moveDiff # {} /\ renderDiff = {}
    <3>1. ext = <<pm>>
      BY <1>4, <2>1, <2>3
    <3> QED
      BY <1>4, <2>3, <3>1
  <2>4. CASE moveDiff = {} /\ renderDiff # {}
    <3>1. ext = <<pr>>
      BY <1>5, <2>1, <2>4
    <3> QED
      BY <1>5, <2>4, <3>1
  <2>5. CASE moveDiff # {} /\ renderDiff # {}
    <3>1. MoveDiffs = <<pm>> /\ RenderDiffs = <<pr>>
      BY <2>1, <2>5
    <3>2. MoveDiffs \in Seq(PairedPackets) /\ RenderDiffs \in Seq(PairedPackets)
      BY <1>4, <1>5, <3>1
    <3>3. ext \in Seq(PairedPackets) /\ Len(ext) = 2 /\ ext[1] = pm /\ ext[2] = pr
      BY <3>1, <3>2
    <3> QED
      BY <3>3
  <2> QED
    BY <2>2, <2>3, <2>4, <2>5
<1> HIDE DEF ext
<1>7. ASSUME WayInv, player # None
      PROVE  WayInv'
  <2> SUFFICES ASSUME NEW N, N = Len(net), NEW L, L = Len(net')
               PROVE  WayInv'
    OBVIOUS
  <2>1. net' = net \o ext /\ net \in Seq(PairedPackets) /\ Inv /\ N \in Nat
    BY <1>2, <1>7 DEF OrderInv, Inv, NetTypeOK
  <2>2. \A j \in 1 .. Len(ext) :
          /\ ext[j].type \in Game /\ ext[j].type # "REMOVE_ID"
          /\ ext[j].type \notin {"INITIAL", "MOVEDIFF"} => Of(ext[j].move) = {}
          /\ ext[j].type \notin {"INITIAL", "RENDERDIFF"} => Of(ext[j].render) = {}
    BY <1>4, <1>5, <1>6 DEF Game, Handled
  <2>3. Ordered' /\ Carries'
    BY <1>2, <1>6, <1>7, <2>1, <2>2, SentOrder
  <2>4. /\ UNCHANGED <<mcs, rcs>> /\ N = Len(net) /\ L = Len(net')
        /\ ext \in Seq(PairedPackets)
    BY <1>2, <1>6
  <2>5. ASSUME NEW id, NEW n \in 1 .. N + 1
        PROVE  /\ HasMove(id, n) => HasMove(id, n)'
               /\ HasRender(id, n) => HasRender(id, n)'
    BY <2>1, <2>4, AppendedKeeps
  <2>6. ASSUME NEW id
        PROVE  /\ HasMove(id, N + 1) \/ (\E j \in 1 .. Len(ext) : id \in Of(ext[j].move))
                    => HasMove(id, L + 1)'
               /\ HasRender(id, N + 1) \/ (\E j \in 1 .. Len(ext) : id \in Of(ext[j].render))
                    => HasRender(id, L + 1)'
    <3>1. \A j \in 1 .. Len(ext) : ext[j].type = "REMOVE_ID" => ext[j].id # id
      BY <2>2
    <3> QED
      BY <2>1, <2>4, <3>1, AppendedTells
  <2>7. AllTold'
    <3>1. ASSUME NEW id \in Of(moves)
          PROVE  HasMove(id, L + 1)'
      BY <1>4, <1>6, <1>7, <2>6, <3>1 DEF WayInv, AllTold
    <3>2. ASSUME NEW id \in Of(born)
          PROVE  HasRender(id, L + 1)'
      BY <1>5, <1>6, <1>7, <2>6, <3>2 DEF WayInv, AllTold
    <3> QED
      BY <1>2, <3>1, <3>2 DEF AllTold, Of
  <2>8. RemovalsFind'
    <3>1. ASSUME NEW i \in 1 .. L, net'[i].type = "REMOVE_ID"
          PROVE  i \in 1 .. N /\ net'[i] = net[i]
      <4>1. CASE i \in 1 .. N
        BY <2>1, <4>1
      <4>2. CASE i \notin 1 .. N
        <5>1. i - N \in 1 .. Len(ext) /\ net'[i] = ext[i - N]
          BY <1>6, <2>1, <4>2
        <5> QED
          BY <2>2, <3>1, <5>1
      <4> QED
        BY <4>1, <4>2
    <3>2. ASSUME NEW i \in 1 .. L, NEW id, id = net'[i].id, net'[i].type = "REMOVE_ID"
          PROVE  HasMove(id, i)' /\ HasRender(id, i)'
      <4>1. i \in 1 .. N /\ net'[i] = net[i]
        BY <3>1, <3>2
      <4>2. HasMove(id, i) /\ HasRender(id, i) /\ i \in 1 .. N + 1
        BY <1>7, <2>1, <3>2, <4>1 DEF WayInv, RemovalsFind, UnderWay
      <4> QED
        BY <2>5, <4>2
    <3> QED
      BY <3>2 DEF RemovalsFind, UnderWay
  <2> QED
    BY <2>3, <2>7, <2>8 DEF WayInv
<1>8. ASSUME WayInv, player = None
      PROVE  WayInv'
  BY <1>2, <1>8, SilentOrder
<1> QED
  BY <1>1, <1>2, <1>3, <1>7, <1>8 DEF OrderInv

(* An entity that leaves is one the client has been told of: the diffs of    *)
(* its creation were sent before the packet that removes it was handled. *)
LEMMA OtherLeavesOrder ==
    ASSUME OrderInv, NEW gone \in Ids, OtherLeaves(gone)
    PROVE  OrderInv'
<1> DEFINE ext == <<RemoveId(gone)>>
<1>1. Inv'
  BY OtherLeavesInv DEF OrderInv
<1>2. /\ UNCHANGED <<faults, player>> /\ UNCHANGED clientVars
      /\ UNCHANGED <<clientState, mcs, rcs>>
      /\ gone \in Of(moves) /\ gone \in Of(born)
      /\ moveDiff = {} /\ renderDiff = {} /\ moveDiff' = {} /\ renderDiff' = {}
      /\ phase' = "update"
      /\ net' = IF player = None THEN net ELSE Append(net, RemoveId(gone))
  BY DEF OtherLeaves, PollEnds, Alive, OrderInv, SameIds, DiffsGone, clientVars, ecsVars
<1>3. Of(moves') = Of(moves) \ {gone} /\ Of(born') = Of(born) \ {gone}
  BY ExceptType DEF OrderInv, Inv, ServerTypeOK, OtherLeaves
<1>4. SameIds' /\ DiffsGone'
  BY <1>2, <1>3 DEF OrderInv, SameIds, DiffsGone, Of
<1>5. /\ ext \in Seq(PairedPackets) /\ Len(ext) = 1
      /\ ext[1].type = "REMOVE_ID" /\ ext[1].id = gone
      /\ Of(ext[1].move) = {} /\ Of(ext[1].render) = {}
      /\ net \in Seq(PairedPackets) /\ Append(net, RemoveId(gone)) = net \o ext
  <2>1. RemoveId(gone) \in PairedPackets
    BY NothingType, PacketType DEF RemoveId, Types
  <2>2. net \in Seq(PairedPackets)
    BY DEF OrderInv, Inv, NetTypeOK
  <2>3. Append(net, RemoveId(gone)) = net \o ext
    BY <2>1, <2>2
  <2> QED
    BY <2>1, <2>2, <2>3, OfOnly DEF RemoveId, Packet
<1> HIDE DEF ext
<1>6. ASSUME WayInv, player # None
      PROVE  WayInv'
  <2> SUFFICES ASSUME NEW N, N = Len(net), NEW L, L = Len(net')
               PROVE  WayInv'
    OBVIOUS
  <2>1. /\ net' = net \o ext /\ net \in Seq(PairedPackets) /\ ext \in Seq(PairedPackets)
        /\ Inv /\ N \in Nat /\ L = N + 1 /\ net'[L] = ext[1]
        /\ \A i \in 1 .. N : net'[i] = net[i]
    <3>1. net' = net \o ext /\ Inv
      BY <1>2, <1>5, <1>6 DEF OrderInv
    <3> QED
      BY <1>5, <3>1
  <2>2. Ordered' /\ Carries'
    <3>1. \A j \in 1 .. Len(ext) : /\ ext[j].type \in Game
                                   /\ Of(ext[j].move) = {} /\ Of(ext[j].render) = {}
      BY <1>5 DEF Game, Handled
    <3> QED
      BY <1>2, <1>6, <2>1, <3>1, SentOrder
  <2>3. UNCHANGED <<mcs, rcs>> /\ N = Len(net) /\ L = Len(net')
    BY <1>2
  <2>4. ASSUME NEW id, NEW n \in 1 .. N + 1
        PROVE  /\ HasMove(id, n) => HasMove(id, n)'
               /\ HasRender(id, n) => HasRender(id, n)'
    BY <2>1, <2>3, AppendedKeeps
  <2>5. ASSUME NEW id, id # gone
        PROVE  /\ HasMove(id, N + 1) => HasMove(id, L + 1)'
               /\ HasRender(id, N + 1) => HasRender(id, L + 1)'
    <3>1. \A j \in 1 .. Len(ext) : ext[j].type = "REMOVE_ID" => ext[j].id # id
      BY <1>5, <2>5
    <3> QED
      BY <2>1, <2>3, <3>1, AppendedTells
  <2>6. /\ \A id \in Of(moves) : HasMove(id, N + 1)
        /\ \A id \in Of(born) : HasRender(id, N + 1)
    BY <1>2, <1>6 DEF WayInv, AllTold
  <2>7. AllTold'
    <3>1. ASSUME NEW id \in Of(moves) \ {gone}
          PROVE  HasMove(id, L + 1)'
      BY <2>5, <2>6
    <3>2. ASSUME NEW id \in Of(born) \ {gone}
          PROVE  HasRender(id, L + 1)'
      BY <2>5, <2>6
    <3> QED
      BY <1>3, <3>1, <3>2 DEF AllTold, Of
  <2>8. RemovalsFind'
    <3>1. ASSUME NEW i \in 1 .. L, NEW id, id = net'[i].id, net'[i].type = "REMOVE_ID"
          PROVE  HasMove(id, i)' /\ HasRender(id, i)'
      <4>1. CASE i \in 1 .. N
        <5>1. HasMove(id, i) /\ HasRender(id, i) /\ i \in 1 .. N + 1
          BY <1>6, <2>1, <3>1, <4>1 DEF WayInv, RemovalsFind, UnderWay
        <5> QED
          BY <2>4, <5>1
      <4>2. CASE i \notin 1 .. N
        <5>1. i = N + 1 /\ id = gone /\ i \in 1 .. N + 1
          BY <1>5, <2>1, <3>1, <4>2
        <5>2. HasMove(id, i) /\ HasRender(id, i)
          BY <1>2, <2>6, <5>1
        <5> QED
          BY <2>4, <5>1, <5>2
      <4> QED
        BY <4>1, <4>2
    <3> QED
      BY <3>1 DEF RemovalsFind, UnderWay
  <2> QED
    BY <2>2, <2>7, <2>8 DEF WayInv
<1>7. ASSUME WayInv, player = None
      PROVE  WayInv'
  BY <1>2, <1>3, <1>7, SilentOrder
<1> QED
  BY <1>1, <1>2, <1>4, <1>6, <1>7 DEF OrderInv

(* The packets of the initial transmission, and the reply behind them. *)
Transmitted(all, c, id, cs) ==
    /\ Len(c) \in Nat /\ Len(all) = Len(c) + 3
    /\ all[1] = Bare("BEGIN") /\ all[Len(c) + 2] = Bare("END") /\ all[Len(c) + 3] = Reply(id)
    /\ \A i \in 1 .. Len(c) : /\ all[i + 1].type = "INITIAL"
                               /\ all[i + 1].move = Only(cs, c[i])
                               /\ all[i + 1].render = Only(cs, c[i])

LEMMA TransmissionPackets ==
    ASSUME born' \in Components, NEW S \in SUBSET Ids, NEW c \in Splits(S), NEW id \in Ids
    PROVE  Transmitted(Transmission(c) \o <<Reply(id)>>, c, id, born')
<1> SUFFICES ASSUME NEW K, K = Len(c), NEW all, all = Transmission(c) \o <<Reply(id)>>
             PROVE  Transmitted(all, c, id, born')
  OBVIOUS
<1> DEFINE initial(i) == Packet("INITIAL", Only(born', c[i]), Only(born', c[i]), None)
           initials == [i \in 1 .. K |-> initial(i)]
           front == <<Bare("BEGIN")>> \o initials
<1>1. K \in Nat
  BY SplitLength
<1>2. Bare("BEGIN") \in PairedPackets /\ Bare("END") \in PairedPackets
      /\ Reply(id) \in PairedPackets
  BY NothingType, PacketType DEF Bare, Reply, Types
<1>3. \A i \in 1 .. K : initial(i) \in PairedPackets
  BY OnlyType, PacketType DEF Types
<1>4. /\ initials \in Seq(PairedPackets) /\ Len(initials) = K
      /\ \A i \in 1 .. K : initials[i] = initial(i)
  BY <1>1, <1>3
<1> HIDE DEF initials
<1>5. /\ front \in Seq(PairedPackets) /\ Len(front) = K + 1 /\ front[1] = Bare("BEGIN")
      /\ \A i \in 1 .. K : front[i + 1] = initial(i)
  BY <1>1, <1>2, <1>4
<1>6. Transmission(c) = front \o <<Bare("END")>>
  BY DEF Transmission, initials
<1> HIDE DEF front, initial
<1>7. /\ Transmission(c) \in Seq(PairedPackets) /\ Len(Transmission(c)) = K + 2
      /\ \A i \in 1 .. K + 1 : Transmission(c)[i] = front[i]
      /\ Transmission(c)[K + 2] = Bare("END")
  BY <1>1, <1>2, <1>5, <1>6
<1>8. /\ Len(all) = K + 3 /\ all[K + 3] = Reply(id)
      /\ \A i \in 1 .. K + 2 : all[i] = Transmission(c)[i]
  BY <1>1, <1>2, <1>7
<1>9. /\ 1 \in 1 .. K + 2 /\ 1 \in 1 .. K + 1 /\ K + 2 \in 1 .. K + 2
      /\ \A i \in 1 .. K : i + 1 \in 1 .. K + 2 /\ i + 1 \in 1 .. K + 1
  BY <1>1
<1>10. \A i \in 1 .. K : /\ initial(i).type = "INITIAL"
                        /\ initial(i).move = Only(born', c[i])
                        /\ initial(i).render = Only(born', c[i])
  BY DEF initial, Packet
<1>11. ASSUME NEW i \in 1 .. K
       PROVE  all[i + 1] = initial(i)
  <2>1. i + 1 \in 1 .. K + 2 /\ i + 1 \in 1 .. K + 1
    BY <1>9
  <2>2. all[i + 1] = Transmission(c)[i + 1]
    BY <1>8, <2>1
  <2>3. Transmission(c)[i + 1] = front[i + 1]
    BY <1>7, <2>1
  <2> QED
    BY <1>5, <2>2, <2>3
<1>12. all[1] = Bare("BEGIN") /\ all[K + 2] = Bare("END")
  BY <1>5, <1>7, <1>8, <1>9
<1>13. ASSUME NEW i \in 1 .. K
       PROVE  /\ all[i + 1].type = "INITIAL"
              /\ all[i + 1].move = Only(born', c[i])
              /\ all[i + 1].render = Only(born', c[i])
  <2>1. all[i + 1] = initial(i)
    BY <1>11
  <2> QED
    BY <1>10, <2>1
<1> HIDE DEF initial
<1> QED
  BY <1>1, <1>8, <1>12, <1>13 DEF Transmitted

(* None of them removes anything, and all carry entities as they were created, *)
(* look and transform together.                                                *)
CarriesCreated(all, id, cs) ==
    \A j \in 1 .. Len(all) : /\ all[j].type # "REMOVE_ID"
                             /\ all[j].type = "REPLY" => all[j].id = id
                             /\ \A k \in Ids : /\ all[j].move[k] \in {None, cs[k]}
                                               /\ all[j].render[k] = all[j].move[k]

LEMMA TransmissionCarries ==
    ASSUME NEW c, NEW id \in Ids, NEW all, NEW cs, Transmitted(all, c, id, cs)
    PROVE  CarriesCreated(all, id, cs)
<1> SUFFICES ASSUME NEW j \in 1 .. Len(all), NEW K, K = Len(c)
             PROVE  /\ all[j].type # "REMOVE_ID"
                    /\ all[j].type = "REPLY" => all[j].id = id
                    /\ \A k \in Ids : /\ all[j].move[k] \in {None, cs[k]}
                                      /\ all[j].render[k] = all[j].move[k]
  BY DEF CarriesCreated
<1>1. /\ K \in Nat /\ Len(all) = K + 3
      /\ all[1] = Bare("BEGIN") /\ all[K + 2] = Bare("END") /\ all[K + 3] = Reply(id)
      /\ \A i \in 1 .. K : /\ all[i + 1].type = "INITIAL"
                           /\ all[i + 1].move = Only(cs, c[i])
                           /\ all[i + 1].render = Only(cs, c[i])
  BY DEF Transmitted
<1>2. CASE j \in {1, K + 2, K + 3}
  BY <1>1, <1>2 DEF Bare, Reply, Packet, Nothing
<1>3. CASE j \in 2 .. K + 1
  <2>1. j - 1 \in 1 .. K /\ (j - 1) + 1 = j
    BY <1>1, <1>3
  <2>2. /\ all[j].type = "INITIAL"
        /\ all[j].move = Only(cs, c[j - 1]) /\ all[j].render = Only(cs, c[j - 1])
    BY <1>1, <2>1
  <2> QED
    BY <2>2 DEF Only
<1> QED
  BY <1>1, <1>2, <1>3

(* No id is left out of the containers. *)
LEMMA SplitCovers ==
    ASSUME NEW S \in SUBSET Ids, NEW c \in Splits(S), NEW id \in S
    PROVE  \E i \in 1 .. Len(c) : id \in c[i]
<1> DEFINE n == (Cardinality(S) + ContainerSize - 1) \div ContainerSize
<1>1. DOMAIN c = 1 .. Len(c)
  BY SplitLength
<1>2. c \in [1 .. n -> SUBSET S] /\ UNION {c[i] : i \in 1 .. n} = S
  BY DEF Splits
<1>3. 1 .. n = 1 .. Len(c)
  BY <1>1, <1>2
<1> HIDE DEF n
<1> QED
  BY <1>2, <1>3

(* The transmission holds every entity there is, and removes none. *)
LEMMA JoinOrder ==
    ASSUME OrderInv, NEW new \in Ids, Join(new)
    PROVE  OrderInv'
<1>1. Inv'
  BY JoinInv DEF OrderInv
<1>2. /\ UNCHANGED <<faults, clientState, mcs, rcs>>
      /\ phase' = "update" /\ player = None /\ player' = new /\ player' # None
  BY IdsAssumption DEF Join, PollEnds, clientVars, ecsVars, None
<1>3. /\ Of(moves') = Of(moves) \cup {new} /\ Of(born') = Of(born) \cup {new}
      /\ born' \in Components
  <2>1. stamp' \in Stamps /\ stamp' # None
    BY MaxStampAssumption DEF OrderInv, Inv, ServerTypeOK, Join, Create, Stamps, None
  <2> QED
    BY <2>1, ExceptType DEF OrderInv, Inv, ServerTypeOK, Join, Create
<1>4. Of(moves') = Of(born')
  BY <1>3 DEF OrderInv, SameIds
<1>5. SameIds' /\ DiffsGone'
  BY <1>2, <1>4 DEF SameIds, DiffsGone, Of
<1>6. PICK c \in Splits(Of(born')) : net' = net \o Transmission(c) \o <<Reply(new)>>
  BY DEF Join
<1>7. ASSUME WayInv
      PROVE  WayInv'
  <2> SUFFICES ASSUME NEW K, K = Len(c), NEW all, all = Transmission(c) \o <<Reply(new)>>
               PROVE  WayInv'
    OBVIOUS
  <2>1. clientState = "Disconnected" /\ net = <<>>
    BY <1>2, <1>7 DEF WayInv, Ordered
  <2>2. Of(born') \in SUBSET Ids
    BY DEF Of
  <2>3. /\ K \in Nat /\ Len(all) = K + 3
        /\ all[1] = Bare("BEGIN") /\ all[K + 2] = Bare("END") /\ all[K + 3] = Reply(new)
        /\ \A i \in 1 .. K : /\ all[i + 1].type = "INITIAL"
                              /\ all[i + 1].move = Only(born', c[i])
                              /\ all[i + 1].render = Only(born', c[i])
    <3>1. Transmitted(Transmission(c) \o <<Reply(new)>>, c, new, born')
      <4>1. born' \in Components /\ Of(born') \in SUBSET Ids /\ c \in Splits(Of(born'))
        BY <1>3, <2>2
      <4> QED
        BY <4>1, TransmissionPackets, Zenon
    <3>2. Transmitted(all, c, new, born')
      BY <3>1, Zenon
    <3> QED
      BY <3>2 DEF Transmitted
  <2>4. net' = all
    <3>1. Transmission(c) \in Seq(PairedPackets)
      BY <1>3, <2>2, TransmissionType
    <3>2. <<>> \o Transmission(c) = Transmission(c)
      BY <3>1
    <3> QED
      BY <1>6, <2>1, <3>2
  <2>5. ASSUME NEW j \in 1 .. K + 3
        PROVE  /\ j <= 1 => net'[j].type = "BEGIN"
               /\ 1 < j /\ j < K + 2 => net'[j].type = "INITIAL"
               /\ j = K + 2 => net'[j].type = "END"
               /\ j > K + 2 => net'[j].type = "REPLY"
               /\ net'[j].type \notin {"INITIAL"} => Of(net'[j].move) = {}
                                                      /\ Of(net'[j].render) = {}
    <3>1. CASE j = 1
      BY <2>3, <2>4, <3>1, OfOnly DEF Bare, Packet
    <3>2. CASE j = K + 2
      BY <2>3, <2>4, <3>2, OfOnly DEF Bare, Packet
    <3>3. CASE j = K + 3
      BY <2>3, <2>4, <3>3, OfOnly DEF Reply, Packet
    <3>4. CASE j \in 2 .. K + 1
      <4>1. j - 1 \in 1 .. K /\ (j - 1) + 1 = j
        BY <2>3, <3>4
      <4>2. net'[j].type = "INITIAL"
        BY <2>3, <2>4, <4>1
      <4> QED
        BY <2>3, <3>4, <4>2
    <3> QED
      BY <2>3, <3>1, <3>2, <3>3, <3>4
  <2>6. Len(net') = K + 3
    BY <2>3, <2>4
  <2>7. \A j \in 1 .. K + 3 : net'[j].type # "REMOVE_ID"
    BY <2>3, <2>5
  <2>8. Ordered'
    <3>1. Stream(1, K + 2)'
      BY <2>5, <2>6 DEF Stream, UnderWay, Game, Handled
    <3>2. K + 2 \in 2 .. Len(net')
      BY <2>3, <2>6
    <3> QED
      BY <1>2, <2>1, <3>1, <3>2 DEF Ordered
  <2>9. Carries'
    BY <2>5, <2>6 DEF Carries, UnderWay, Of
  <2>10. RemovalsFind'
    BY <2>6, <2>7 DEF RemovalsFind, UnderWay
  <2>11. ASSUME NEW id \in Of(born'), NEW M, M = Len(net') + 1
         PROVE  HasMove(id, M)' /\ HasRender(id, M)'
    <3>2. PICK i \in 1 .. K : id \in c[i]
      BY <2>2, <2>11, SplitCovers
    <3>3. net'[i + 1].move = Only(born', c[i]) /\ net'[i + 1].render = Only(born', c[i])
      BY <2>3, <2>4
    <3>4. id \in Of(net'[i + 1].move) /\ id \in Of(net'[i + 1].render)
      BY <2>11, <3>2, <3>3, OfOnly
    <3>5. i + 1 \in 1 .. M - 1 /\ \A m \in (i + 1) + 1 .. M - 1 : m \in 1 .. K + 3
      BY <2>3, <2>6, <2>11
    <3>6. Survives(id, i + 1, M)'
      BY <2>7, <3>5 DEF Survives, Removes
    <3> QED
      BY <3>4, <3>5, <3>6 DEF HasMove, HasRender, Of
  <2>12. AllTold'
    BY <1>4, <2>11 DEF AllTold, Of
  <2> QED
    BY <2>8, <2>9, <2>10, <2>12 DEF WayInv
<1> QED
  BY <1>1, <1>2, <1>5, <1>7 DEF OrderInv

LEMMA NextOrder ==
    ASSUME OrderInv, [Next]_vars
    PROVE  OrderInv'
<1>1. CASE \/ \E id \in Ids : Join(id) \/ OtherJoins(id) \/ OtherLeaves(id)
           \/ \E movers \in SUBSET Alive : Move(movers)
  BY <1>1, JoinOrder, OtherJoinsOrder, OtherLeavesOrder, MoveOrder
<1>2. CASE SendDiff
  BY <1>2, SendDiffOrder
<1>3. CASE \E i \in UnderWay : Lose(i) \/ Receive(i)
  BY <1>3, LoseOrder, ReceiveOrder
<1>4. CASE NoPacket \/ Render \/ UNCHANGED vars
  BY <1>4, QuietOrder
<1> QED
  BY <1>1, <1>2, <1>3, <1>4 DEF Next, Server

(* The exception of a REMOVE_ID whose id the client does not know takes a    *)
(* lost, repeated or reordered packet: the order in which the server sends   *)
(* the world, the diffs and the REMOVE_IDs never causes it.                  *)
THEOREM OrderNeverCrashes == Spec => []CrashNeedsFault
<1>1. Init => OrderInv
  BY InitOrder
<1>2. OrderInv /\ [Next]_vars => OrderInv'
  BY NextOrder
<1>3. OrderInv => CrashNeedsFault
  BY OrderImpliesCrashNeedsFault
<1> QED
  BY <1>1, <1>2, <1>3, PTL DEF Spec
-----------------------------------------------------------------------------
(* NeverBackwards: the transforms of an id are in the order of their age,    *)
(* from the client over the packets to the server. *)
Told(v, last, now) == v <= now /\ (last # None => v <= last)
Within(v, w) == w # None => v <= w

ServerAges == \A id \in Ids : moves[id] <= stamp /\ born[id] <= moves[id]
NetAges == \A id \in Ids : \A j \in UnderWay :
              /\ Told(net[j].move[id], moves[id], stamp)
              /\ \A i \in 1 .. j - 1 : Within(net[i].move[id], net[j].move[id])
ClientAges == \A id \in Ids : /\ Told(mcs[id], moves[id], stamp)
                              /\ \A j \in UnderWay : Within(mcs[id], net[j].move[id])
Unconnected == player = None => net = <<>> /\ mcs = Nothing

AgeInv == /\ Inv /\ ServerAges
          /\ faults = 0 => NetAges /\ ClientAges /\ Unconnected

LEMMA InitAge == Init => AgeInv
<1> SUFFICES ASSUME Init PROVE AgeInv
  OBVIOUS
<1>1. Inv
  BY InitInv
<1>2. ServerAges
  BY <1>1 DEF Init, ServerAges, Inv, ServerTypeOK, Components, Only, None
<1>3. NetAges /\ Unconnected
  BY DEF Init, NetInit, NetAges, Unconnected, UnderWay
<1>4. ClientAges
  BY <1>1 DEF Init, NetInit, ClientAges, UnderWay, Nothing, Told, Inv, ServerTypeOK, Stamps, None,
              Components
<1> QED
  BY <1>1, <1>2, <1>3, <1>4 DEF AgeInv

(* What the server does makes nothing that was told newer than what it has.  *)
LEMMA ServerGoesOn ==
    ASSUME Inv, ServerAges, Server
    PROVE  /\ ServerAges'
           /\ \A id \in Ids, v \in {None} \cup Stamps : Told(v, moves[id], stamp) => Told(v, moves'[id], stamp')
<1> USE DEF Inv, ServerTypeOK, Components, Stamps, None, ServerAges, Told
<1>1. CASE \E new \in Ids : Create(new)
  BY <1>1, MaxStampAssumption DEF Create
<1>2. CASE \E gone \in Ids : OtherLeaves(gone)
  BY <1>2, MaxStampAssumption DEF OtherLeaves
<1>3. CASE \E movers \in SUBSET Alive : Move(movers)
  <2>1. PICK movers \in SUBSET Alive : Move(movers)
    BY <1>3
  <2>2. /\ moves' = [id \in Ids |-> IF id \in movers THEN stamp' ELSE moves[id]]
        /\ born' = born /\ stamp' = stamp + 1 /\ stamp' \in Stamps
    BY <2>1, MaxStampAssumption DEF Move
  <2> QED
    BY <2>2, MaxStampAssumption DEF Alive, Of
<1>4. CASE UNCHANGED <<moves, born, stamp>>
  BY <1>4
<1> QED
  BY <1>1, <1>2, <1>3, <1>4 DEF Server, Join, OtherJoins, NoPacket, SendDiff, DiffsSent, entityVars

(* Packets sent behind the others that carry what the server has.            *)
LEMMA SentAges ==
    ASSUME Inv, Inv', NetAges, ClientAges, UNCHANGED mcs,
           NEW ext \in Seq(PairedPackets), net' = net \o ext,
           \A id \in Ids, v \in {None} \cup Stamps : Told(v, moves[id], stamp) => Told(v, moves'[id], stamp'),
           NEW cs \in Components,
           \A id \in Ids : Told(cs[id], moves'[id], stamp'),
           \A id \in Ids, v \in {None} \cup Stamps : Told(v, moves[id], stamp) => Within(v, cs[id]),
           \A j \in 1 .. Len(ext) : \A id \in Ids : ext[j].move[id] \in {None, cs[id]}
    PROVE  NetAges' /\ ClientAges'
<1> DEFINE n == Len(net)
<1>1. /\ n \in Nat /\ Len(net') = n + Len(ext)
      /\ \A j \in 1 .. n : net'[j] = net[j] /\ net[j].move \in Components
      /\ \A j \in n + 1 .. Len(net') : j - n \in 1 .. Len(ext) /\ net'[j] = ext[j - n]
  BY DEF Inv, NetTypeOK, PairedPackets, Packets
<1>2. ASSUME NEW id \in Ids, NEW j \in 1 .. n
      PROVE  net'[j].move[id] = net[j].move[id] /\ net[j].move[id] \in {None} \cup Stamps
             /\ Told(net[j].move[id], moves[id], stamp) /\ j \in UnderWay
  BY <1>1, <1>2 DEF NetAges, UnderWay, Components
<1>3. ASSUME NEW id \in Ids, NEW j \in n + 1 .. Len(net')
      PROVE  net'[j].move[id] \in {None, cs[id]}
  BY <1>1, <1>3
<1>4. \A id \in Ids : mcs[id] \in {None} \cup Stamps /\ Told(mcs[id], moves[id], stamp) /\ cs[id] \in {None} \cup Stamps
  BY DEF Inv, ClientTypeOK, ClientAges, Components
<1>5. \A id \in Ids : Told(None, moves'[id], stamp')
  BY DEF Told, Inv, ServerTypeOK, Components, Stamps, None
<1>6. ASSUME NEW id \in Ids, NEW j \in UnderWay'
      PROVE  Told(net'[j].move[id], moves'[id], stamp')
  <2>1. j \in 1 .. n \/ j \in n + 1 .. Len(net')
    BY <1>1, <1>6 DEF UnderWay
  <2>2. CASE j \in 1 .. n
    <3> DEFINE v == net[j].move[id]
    <3>1. v \in {None} \cup Stamps /\ Told(v, moves[id], stamp) /\ net'[j].move[id] = v
      BY <1>2, <2>2
    <3> HIDE DEF v
    <3> QED
      BY <3>1
  <2>3. CASE j \in n + 1 .. Len(net')
    <3>1. net'[j].move[id] \in {None, cs[id]}
      BY <1>3, <2>3
    <3> QED
      BY <1>5, <3>1
  <2> QED
    BY <2>1, <2>2, <2>3
<1>7. ASSUME NEW id \in Ids, NEW j \in UnderWay', NEW i \in 1 .. j - 1
      PROVE  Within(net'[i].move[id], net'[j].move[id])
  <2>1. i \in 1 .. n \/ i \in n + 1 .. Len(net')
    BY <1>1, <1>7 DEF UnderWay
  <2>2. CASE j \in 1 .. n
    <3>1. i \in 1 .. n
      BY <1>1, <1>7, <2>2
    <3>2. net'[i].move[id] = net[i].move[id] /\ net'[j].move[id] = net[j].move[id] /\ j \in UnderWay
      BY <1>2, <2>2, <3>1
    <3> QED
      BY <3>2 DEF NetAges
  <2>3. CASE j \in n + 1 .. Len(net') /\ i \in 1 .. n
    <3> DEFINE v == net[i].move[id]
    <3>1. v \in {None} \cup Stamps /\ Told(v, moves[id], stamp) /\ net'[i].move[id] = v
      BY <1>2, <2>3
    <3> HIDE DEF v
    <3>2. Within(v, cs[id]) /\ net'[j].move[id] \in {None, cs[id]}
      BY <1>3, <2>3, <3>1
    <3> QED
      BY <3>1, <3>2 DEF Within
  <2>4. CASE j \in n + 1 .. Len(net') /\ i \in n + 1 .. Len(net')
    <3>1. net'[j].move[id] \in {None, cs[id]} /\ net'[i].move[id] \in {None, cs[id]}
      BY <1>3, <2>4
    <3>2. \A c \in {None} \cup Stamps : \A v, w \in {None, c} : Within(v, w)
      BY MaxStampAssumption DEF Within, Stamps, None
    <3> QED
      BY <1>4, <3>1, <3>2
  <2>5. j \in 1 .. n \/ j \in n + 1 .. Len(net')
    BY <1>1, <1>7 DEF UnderWay
  <2> QED
    BY <2>1, <2>2, <2>3, <2>4, <2>5
<1>8. ASSUME NEW id \in Ids, NEW j \in UnderWay'
      PROVE  Within(mcs'[id], net'[j].move[id])
  <2>1. mcs'[id] = mcs[id] /\ Within(mcs[id], cs[id])
    BY <1>4
  <2>2. CASE j \in 1 .. n
    BY <1>2, <2>1, <2>2 DEF ClientAges
  <2>3. CASE j \in n + 1 .. Len(net')
    <3>1. net'[j].move[id] \in {None, cs[id]}
      BY <1>3, <2>3
    <3> QED
      BY <2>1, <3>1 DEF Within
  <2>4. j \in 1 .. n \/ j \in n + 1 .. Len(net')
    BY <1>1, <1>8 DEF UnderWay
  <2> QED
    BY <2>2, <2>3, <2>4
<1>9. \A id \in Ids : Told(mcs'[id], moves'[id], stamp')
  BY <1>4
<1> QED
  BY <1>6, <1>7, <1>8, <1>9 DEF NetAges, ClientAges

(* Packet 1 is what the client takes while there is no fault, and it leaves  *)
(* a transform that was there, or brings that of the packet. *)
LEMMA ReceivedMove ==
    ASSUME Inv, NEW i \in UnderWay, Receive(i), faults' = 0
    PROVE  /\ faults = 0 /\ i = 1 /\ net' = Tail(net)
           /\ UNCHANGED serverVars
           /\ \A id \in Ids : \/ mcs'[id] \in {None, mcs[id]}
                              \/ mcs'[id] = net[1].move[id] /\ net[1].move[id] # None
<1>1. Take(i)
  BY DEF Receive, HandleBegin, HandleInitial, HandleEnd, HandleReply, HandleMoveDiff,
         HandleRenderDiff, HandleRemoveId, RemoveIdThrows, Ignored, Handle
<1>2. faults = 0 /\ i = 1 /\ net' = Tail(net) /\ UNCHANGED serverVars
  BY <1>1 DEF Inv, NetTypeOK, Take, Delivers, InOrder, Overtaking, Repeated, Fault
<1>3. CASE HandleInitial(i) \/ HandleMoveDiff(i)
  <2>1. mcs' = Sync(mcs, net[1].move)
    BY <1>2, <1>3 DEF HandleInitial, HandleMoveDiff
  <2>2. \A id \in Ids : \/ mcs'[id] = mcs[id]
                        \/ mcs'[id] = net[1].move[id] /\ net[1].move[id] # None
    BY <2>1 DEF Sync
  <2> QED
    BY <1>2, <2>2
<1>4. CASE HandleRemoveId(i)
  <2>1. mcs' = [mcs EXCEPT ![net[i].id] = None] /\ mcs \in Components
    BY <1>4 DEF HandleRemoveId, Inv, ClientTypeOK
  <2>2. \A id \in Ids : mcs'[id] \in {None, mcs[id]}
    BY <2>1 DEF Components
  <2> QED
    BY <1>2, <2>2
<1>5. CASE UNCHANGED mcs
  BY <1>2, <1>5
<1> QED
  BY <1>2, <1>3, <1>4, <1>5 DEF Receive, HandleBegin, HandleEnd, HandleReply,
     HandleRenderDiff, RemoveIdThrows, Ignored, ecsVars, clientVars

LEMMA ReceiveAges ==
    ASSUME AgeInv, NEW i \in UnderWay, Receive(i)
    PROVE  AgeInv'
<1>1. Inv'
  BY ReceiveInv DEF AgeInv
<1>2. ServerAges'
  <2>1. UNCHANGED serverVars
    BY DEF Receive, HandleBegin, HandleInitial, HandleEnd, HandleReply, HandleMoveDiff,
           HandleRenderDiff, HandleRemoveId, RemoveIdThrows, Ignored, Handle, Take
  <2> QED
    BY <2>1 DEF serverVars, entityVars, AgeInv, ServerAges
<1>3. ASSUME faults' = 0
      PROVE  NetAges' /\ ClientAges' /\ Unconnected'
  <2>1. /\ faults = 0 /\ i = 1 /\ net' = Tail(net)
        /\ UNCHANGED <<moves, stamp, player>>
        /\ \A id \in Ids : \/ mcs'[id] \in {None, mcs[id]}
                           \/ mcs'[id] = net[1].move[id] /\ net[1].move[id] # None
    BY <1>3, ReceivedMove DEF AgeInv, serverVars, entityVars
  <2>2. NetAges /\ ClientAges /\ Unconnected /\ Inv
    BY <2>1 DEF AgeInv
  <2>3. /\ net # <<>> /\ Len(net') = Len(net) - 1 /\ Len(net) \in Nat /\ 1 \in UnderWay
        /\ \A j \in UnderWay' : net'[j] = net[j + 1] /\ j + 1 \in UnderWay /\ 1 \in 1 .. (j + 1) - 1
    BY <2>1, <2>2 DEF UnderWay, Inv, NetTypeOK
  <2>4. NetAges'
    <3>1. ASSUME NEW id \in Ids, NEW j \in UnderWay', NEW k \in 1 .. j - 1
          PROVE  Within(net'[k].move[id], net'[j].move[id])
      <4>1. k \in UnderWay' /\ k + 1 \in 1 .. (j + 1) - 1
        BY <3>1, <2>3 DEF UnderWay
      <4> QED
        BY <2>2, <2>3, <3>1, <4>1 DEF NetAges
    <3>2. ASSUME NEW id \in Ids, NEW j \in UnderWay'
          PROVE  Told(net'[j].move[id], moves'[id], stamp')
      BY <2>1, <2>2, <2>3, <3>2 DEF NetAges
    <3> QED
      BY <3>1, <3>2 DEF NetAges
  <2>5. ClientAges'
    <3>1. ASSUME NEW id \in Ids
          PROVE  /\ mcs[id] \in Nat /\ net[1].move[id] \in Nat
                 /\ moves[id] \in Nat /\ stamp \in Nat
                 /\ \A j \in UnderWay' : net'[j].move[id] \in Nat
      <4>1. \A p \in PairedPackets : p.move[id] \in Nat
        BY DEF PairedPackets, Packets, Components, Stamps, None
      <4>2. \A j \in UnderWay : net[j] \in PairedPackets
        BY <2>2 DEF Inv, NetTypeOK, UnderWay
      <4> QED
        BY <2>2, <2>3, <4>1, <4>2
        DEF Inv, ServerTypeOK, ClientTypeOK, Components, Stamps, None
    <3>2. ASSUME NEW id \in Ids
          PROVE  Told(mcs'[id], moves'[id], stamp')
      <4>1. Told(mcs[id], moves[id], stamp) /\ Told(net[1].move[id], moves[id], stamp)
        BY <2>2, <2>3 DEF NetAges, ClientAges
      <4> QED
        BY <2>1, <3>1, <4>1 DEF Told, None
    <3>3. ASSUME NEW id \in Ids, NEW j \in UnderWay'
          PROVE  Within(mcs'[id], net'[j].move[id])
      <4>1. Within(mcs[id], net'[j].move[id]) /\ Within(net[1].move[id], net'[j].move[id])
        BY <2>2, <2>3, <3>3 DEF NetAges, ClientAges
      <4> QED
        <5> DEFINE w == net'[j].move[id]
        <5>1. w \in Nat /\ mcs[id] \in Nat /\ net[1].move[id] \in Nat
          BY <3>1, <3>3
        <5>2. mcs'[id] \in {None, mcs[id], net[1].move[id]}
          BY <2>1, <3>3
        <5> HIDE DEF w
        <5>3. Within(None, w)
          BY <5>1 DEF Within, None
        <5> QED
          BY <4>1, <5>2, <5>3 DEF w
    <3> QED
      BY <3>2, <3>3 DEF ClientAges
  <2>6. Unconnected'
    BY <2>1, <2>2, <2>3 DEF Unconnected
  <2> QED
    BY <2>4, <2>5, <2>6
<1> QED
  BY <1>1, <1>2, <1>3 DEF AgeInv

LEMMA LoseAges ==
    ASSUME AgeInv, NEW i \in UnderWay, Lose(i)
    PROVE  AgeInv'
<1>1. Inv'
  BY LoseInv DEF AgeInv
<1>2. ServerAges'
  BY DEF Lose, serverVars, entityVars, AgeInv, ServerAges
<1>3. faults' # 0
  BY DEF Lose, Loses, Fault, AgeInv, Inv, NetTypeOK
<1> QED
  BY <1>1, <1>2, <1>3 DEF AgeInv

LEMMA KeptAges ==
    ASSUME AgeInv, Inv', UNCHANGED <<moves, born, stamp, player, netVars, mcs>>
    PROVE  AgeInv'
BY DEF AgeInv, ServerAges, NetAges, ClientAges, Unconnected, UnderWay, netVars

(* A server that tells nothing. *)
LEMMA SilentAges ==
    ASSUME AgeInv, Inv', Server, UNCHANGED <<player, netVars, mcs>>
    PROVE  AgeInv'
<1>1. /\ ServerAges'
      /\ \A id \in Ids, v \in {None} \cup Stamps :
            Told(v, moves[id], stamp) => Told(v, moves'[id], stamp')
  BY ServerGoesOn DEF AgeInv
<1>2. /\ \A id \in Ids : mcs[id] \in {None} \cup Stamps
      /\ \A id \in Ids, j \in UnderWay : net[j].move[id] \in {None} \cup Stamps
  BY DEF AgeInv, Inv, ClientTypeOK, NetTypeOK, UnderWay, PairedPackets, Packets, Components
<1>3. ASSUME NetAges, ClientAges, Unconnected
      PROVE  NetAges' /\ ClientAges' /\ Unconnected'
  <2>1. UnderWay' = UnderWay
    BY DEF UnderWay, netVars
  <2>2. NetAges'
    BY <1>1, <1>2, <1>3, <2>1 DEF NetAges, netVars
  <2>3. ClientAges'
    BY <1>1, <1>2, <1>3, <2>1 DEF ClientAges, netVars
  <2>4. Unconnected'
    BY <1>3 DEF Unconnected, netVars
  <2> QED
    BY <2>2, <2>3, <2>4
<1> QED
  BY <1>1, <1>3 DEF AgeInv, netVars

(* The diffs carry the transforms that the server has. *)
LEMMA SendDiffAges ==
    ASSUME AgeInv, SendDiff
    PROVE  AgeInv'
<1> DEFINE ext == MoveDiffs \o RenderDiffs
<1>1. Inv' /\ Server /\ UNCHANGED <<moves, stamp, player, faults, mcs>>
  BY SendDiffInv DEF AgeInv, Server, SendDiff, DiffsSent, clientVars, ecsVars
<1>2. CASE player = None
  <2>1. UNCHANGED netVars
    BY <1>2 DEF SendDiff, DiffsSent, netVars
  <2> QED
    BY <1>1, <2>1, SilentAges DEF netVars
<1>3. CASE player # None
  <2>1. net' = net \o ext
    BY <1>3 DEF SendDiff, DiffsSent
  <2>2. Packet("MOVEDIFF", Only(moves, moveDiff), Nothing, None) \in PairedPackets
    BY NothingType, OnlyType, PacketType DEF AgeInv, Inv, ServerTypeOK, Types
  <2>3. Packet("RENDERDIFF", Nothing, Only(born, renderDiff), None) \in PairedPackets
    BY NothingType, OnlyType, PacketType DEF AgeInv, Inv, ServerTypeOK, Types
  <2>4. /\ MoveDiffs \in Seq(PairedPackets) /\ RenderDiffs \in Seq(PairedPackets)
        /\ \A j \in 1 .. Len(MoveDiffs) : \A id \in Ids : MoveDiffs[j].move[id] \in {None, moves[id]}
        /\ \A j \in 1 .. Len(RenderDiffs) : \A id \in Ids : RenderDiffs[j].move[id] \in {None, moves[id]}
    BY <2>2, <2>3 DEF MoveDiffs, RenderDiffs, Packet, Only, Nothing
  <2>5. /\ ext \in Seq(PairedPackets)
        /\ \A j \in 1 .. Len(ext) : \/ j \in 1 .. Len(MoveDiffs) /\ ext[j] = MoveDiffs[j]
                                    \/ /\ j - Len(MoveDiffs) \in 1 .. Len(RenderDiffs)
                                       /\ ext[j] = RenderDiffs[j - Len(MoveDiffs)]
    BY <2>4
  <2>6. \A j \in 1 .. Len(ext) : \A id \in Ids : ext[j].move[id] \in {None, moves[id]}
    BY <2>4, <2>5
  <2>7. /\ ServerAges'
        /\ \A id \in Ids, v \in {None} \cup Stamps :
              Told(v, moves[id], stamp) => Told(v, moves'[id], stamp')
    BY <1>1, ServerGoesOn DEF AgeInv
  <2>8. moves \in Components /\ \A id \in Ids : Told(moves[id], moves'[id], stamp')
    BY <1>1 DEF AgeInv, Inv, ServerTypeOK, ServerAges, Told, Components, Stamps, None
  <2>9. \A id \in Ids, v \in {None} \cup Stamps : Told(v, moves[id], stamp) => Within(v, moves[id])
    BY DEF Told, Within
  <2>10. faults' = 0 => NetAges' /\ ClientAges' /\ Unconnected'
    <3>1. SUFFICES ASSUME faults' = 0
                   PROVE  NetAges' /\ ClientAges' /\ Unconnected'
      OBVIOUS
    <3>2. NetAges /\ ClientAges /\ Inv
      BY <1>1, <3>1 DEF AgeInv
    <3> HIDE DEF ext
    <3>3. NetAges' /\ ClientAges'
      BY ONLY <1>1, <2>1, <2>5, <2>6, <2>7, <2>8, <2>9, <3>2, SentAges
    <3> QED
      BY <1>1, <1>3, <3>3 DEF Unconnected
  <2> QED
    BY <1>1, <2>7, <2>10 DEF AgeInv
<1> QED
  BY <1>2, <1>3

(* The REMOVE_ID carries no transform. *)
LEMMA OtherLeavesAges ==
    ASSUME AgeInv, NEW gone \in Ids, OtherLeaves(gone)
    PROVE  AgeInv'
<1>1. Inv' /\ Server /\ UNCHANGED <<stamp, player, faults, mcs>>
  BY OtherLeavesInv DEF AgeInv, Server, OtherLeaves, clientVars, ecsVars
<1>2. CASE player = None
  <2>1. UNCHANGED netVars
    BY <1>1, <1>2 DEF OtherLeaves, netVars
  <2> QED
    BY <1>1, <2>1, SilentAges
<1>3. CASE player # None
  <2> DEFINE ext == <<RemoveId(gone)>>
  <2>1. net' = net \o ext /\ ext \in Seq(PairedPackets)
    <3>1. RemoveId(gone) \in PairedPackets
      BY NothingType, PacketType DEF RemoveId, Types
    <3>2. net' = Append(net, RemoveId(gone)) /\ net \in Seq(PairedPackets)
      BY <1>3 DEF OtherLeaves, AgeInv, Inv, NetTypeOK
    <3> QED
      BY <3>1, <3>2
  <2>2. \A j \in 1 .. Len(ext) : \A id \in Ids : ext[j].move[id] \in {None, Nothing[id]}
    BY DEF RemoveId, Packet, Nothing
  <2>3. /\ ServerAges'
        /\ \A id \in Ids, v \in {None} \cup Stamps :
              Told(v, moves[id], stamp) => Told(v, moves'[id], stamp')
    BY <1>1, ServerGoesOn DEF AgeInv
  <2>4. Nothing \in Components /\ \A id \in Ids : Told(Nothing[id], moves'[id], stamp')
    BY <1>1, NothingType DEF Inv, ServerTypeOK, Told, Components, Stamps, Nothing, None
  <2>5. \A id \in Ids, v \in {None} \cup Stamps : Told(v, moves[id], stamp) => Within(v, Nothing[id])
    BY DEF Within, Nothing
  <2>6. faults' = 0 => NetAges' /\ ClientAges' /\ Unconnected'
    <3>1. SUFFICES ASSUME faults' = 0
                   PROVE  NetAges' /\ ClientAges' /\ Unconnected'
      OBVIOUS
    <3>2. NetAges /\ ClientAges /\ Inv
      BY <1>1, <3>1 DEF AgeInv
    <3> HIDE DEF ext
    <3>3. NetAges' /\ ClientAges'
      BY ONLY <1>1, <2>1, <2>2, <2>3, <2>4, <2>5, <3>2, SentAges
    <3> QED
      BY <1>1, <1>3, <3>3 DEF Unconnected
  <2> QED
    BY <1>1, <2>3, <2>6 DEF AgeInv
<1> QED
  BY <1>2, <1>3

(* The initial transmission carries the copies of the entities' creations,   *)
(* to a client that has nothing. *)
LEMMA JoinAges ==
    ASSUME AgeInv, NEW new \in Ids, Join(new)
    PROVE  AgeInv'
<1>1. Inv' /\ Server /\ UNCHANGED <<faults, mcs>> /\ player = None /\ player' # None
  BY JoinInv, IdsAssumption DEF AgeInv, Server, Join, clientVars, ecsVars, None
<1>2. /\ ServerAges'
      /\ \A id \in Ids, v \in {None} \cup Stamps :
            Told(v, moves[id], stamp) => Told(v, moves'[id], stamp')
  BY <1>1, ServerGoesOn DEF AgeInv
<1>3. ASSUME faults' = 0
      PROVE  NetAges' /\ ClientAges' /\ Unconnected'
  <2>1. net = <<>> /\ mcs = Nothing
    BY <1>1, <1>3 DEF AgeInv, Unconnected
  <2>2. PICK c \in Splits(Of(born')) : net' = net \o Transmission(c) \o <<Reply(new)>>
    BY DEF Join
  <2>3. /\ born' \in Components /\ moves' \in Components /\ stamp' \in Stamps
        /\ Of(born') \in SUBSET Ids
    BY <1>1 DEF Inv, ServerTypeOK, Of
  <2>4. Transmitted(Transmission(c) \o <<Reply(new)>>, c, new, born')
    BY <2>3, TransmissionPackets, Zenon
  <2>5. net' = Transmission(c) \o <<Reply(new)>>
    <3>1. Transmission(c) \in Seq(PairedPackets)
      BY <2>3, TransmissionType
    <3>2. <<>> \o Transmission(c) = Transmission(c)
      BY <3>1
    <3> QED
      BY <2>1, <2>2, <3>2
  <2>6. Transmitted(net', c, new, born')
    BY <2>4, <2>5
  <2>7. ASSUME NEW j \in UnderWay', NEW id \in Ids
        PROVE  net'[j].move[id] \in {None, born'[id]}
    <3> DEFINE K == Len(c)
    <3>1. /\ K \in Nat /\ j \in 1 .. K + 3
          /\ net'[1] = Bare("BEGIN") /\ net'[K + 2] = Bare("END") /\ net'[K + 3] = Reply(new)
          /\ \A i \in 1 .. K : net'[i + 1].move = Only(born', c[i])
      BY <2>6 DEF Transmitted, UnderWay
    <3>2. CASE j \in {1, K + 2, K + 3}
      BY <3>1, <3>2 DEF Bare, Reply, Packet, Nothing
    <3>3. CASE j \in 2 .. K + 1
      <4>1. j - 1 \in 1 .. K /\ (j - 1) + 1 = j
        BY <3>1, <3>3
      <4>2. net'[j].move = Only(born', c[j - 1])
        BY <3>1, <4>1
      <4> QED
        BY <4>2 DEF Only
    <3> HIDE DEF K
    <3> QED
      BY <3>1, <3>2, <3>3
  <2>8. \A id \in Ids : /\ born'[id] \in Nat /\ moves'[id] \in Nat /\ stamp' \in Nat
                        /\ born'[id] <= moves'[id] /\ moves'[id] <= stamp'
    BY <1>2, <2>3, MaxStampAssumption DEF ServerAges, Components, Stamps, None
  <2>9. \A id \in Ids : \A v, w \in {None, born'[id]} :
           Told(v, moves'[id], stamp') /\ Within(v, w)
    BY <2>8 DEF Told, Within, None
  <2>10. NetAges'
    <3>1. \A j \in UnderWay' : \A i \in 1 .. j - 1 : i \in UnderWay'
      BY <1>1 DEF UnderWay, Inv, NetTypeOK
    <3> QED
      BY <2>7, <2>9, <3>1 DEF NetAges
  <2>11. ClientAges'
    <3>1. \A id \in Ids : mcs'[id] = None
      BY <1>1, <2>1 DEF Nothing
    <3> QED
      BY <2>7, <2>9, <3>1 DEF ClientAges
  <2>12. Unconnected'
    BY <1>1 DEF Unconnected
  <2> QED
    BY <2>10, <2>11, <2>12
<1> QED
  BY <1>1, <1>2, <1>3 DEF AgeInv

LEMMA NextAges ==
    ASSUME AgeInv, [Next]_vars
    PROVE  AgeInv'
<1>0. Inv'
  BY NextInv DEF AgeInv
<1>1. CASE \E id \in Ids : Join(id) \/ OtherLeaves(id)
  BY <1>1, JoinAges, OtherLeavesAges
<1>2. CASE (\E id \in Ids : OtherJoins(id)) \/ \E movers \in SUBSET Alive : Move(movers)
  <2>1. Server /\ UNCHANGED <<player, netVars, mcs>>
    BY <1>2 DEF Server, OtherJoins, Move, clientVars, ecsVars
  <2> QED
    BY <1>0, <2>1, SilentAges
<1>3. CASE SendDiff
  BY <1>3, SendDiffAges
<1>4. CASE \E i \in UnderWay : Lose(i) \/ Receive(i)
  BY <1>4, LoseAges, ReceiveAges
<1>5. CASE NoPacket \/ Render \/ UNCHANGED vars
  <2>1. UNCHANGED <<moves, born, stamp, player, netVars, mcs>>
    BY <1>5 DEF NoPacket, Render, vars, serverVars, entityVars, clientVars, ecsVars
  <2> QED
    BY <1>0, <2>1, KeptAges
<1> QED
  BY <1>1, <1>2, <1>3, <1>4, <1>5 DEF Next, Server

(* While no packet is lost, repeated or reordered, the client's transform of *)
(* an entity never goes back to an older one: the copies of the creations    *)
(* come before every diff, and an id that is used again is newer.            *)
THEOREM TransformsGoOn == Spec => NeverBackwards
<1>1. Init => AgeInv
  BY InitAge
<1>2. AgeInv /\ [Next]_vars => AgeInv'
  BY NextAges
<1>3. ASSUME AgeInv, [Next]_vars, faults' = 0, NEW id \in Ids, mcs'[id] # None
      PROVE  mcs'[id] >= mcs[id]
  <2>1. mcs[id] \in Nat
    BY <1>3 DEF AgeInv, Inv, ClientTypeOK, Components, Stamps, None
  <2>2. CASE \E i \in UnderWay : Receive(i)
    <3>1. /\ faults = 0 /\ 1 \in UnderWay
          /\ \/ mcs'[id] \in {None, mcs[id]}
             \/ mcs'[id] = net[1].move[id] /\ net[1].move[id] # None
      BY <1>3, <2>2, ReceivedMove DEF AgeInv
    <3>2. Within(mcs[id], net[1].move[id])
      BY <1>3, <3>1 DEF AgeInv, ClientAges
    <3>3. net[1].move[id] \in Nat
      BY <1>3, <3>1
      DEF AgeInv, Inv, NetTypeOK, UnderWay, PairedPackets, Packets, Components, Stamps, None
    <3> QED
      BY <1>3, <2>1, <3>1, <3>2, <3>3 DEF Within
  <2>3. CASE UNCHANGED mcs
    BY <2>1, <2>3
  <2>4. UNCHANGED mcs \/ \E i \in UnderWay : Receive(i)
    BY <1>3 DEF Next, Server, Join, OtherJoins, OtherLeaves, Move, NoPacket, SendDiff, DiffsSent,
                Lose, Render, vars, clientVars, ecsVars
  <2> QED
    BY <2>2, <2>3, <2>4
<1>4. AgeInv /\ [Next]_vars =>
        [faults' = 0 => \A id \in Ids : mcs'[id] # None => mcs'[id] >= mcs[id]]_vars
  BY <1>3
<1> QED
  BY <1>1, <1>2, <1>4, PTL DEF Spec, NeverBackwards

-----------------------------------------------------------------------------
(* MirrorsWorld: an entry, of the client (0) or of a packet, that no         *)
(* REMOVE_ID behind it takes away, tells the client what the server has. *)
MoveAt(id, j) == IF j = 0 THEN mcs[id] ELSE net[j].move[id]
RenderAt(id, j) == IF j = 0 THEN rcs[id] ELSE net[j].render[id]
Lasts(id, j) == Survives(id, j, Len(net) + 1)
Entries == 0 .. Len(net)
TellsMove(id, v) == \E j \in Entries : MoveAt(id, j) = v /\ Lasts(id, j)
TellsRender(id, v) == \E j \in Entries : RenderAt(id, j) = v /\ Lasts(id, j)

RendersTrue == \A id \in Ids, v \in Stamps : TellsRender(id, v) => v = born[id]
MovesAlive == \A id \in Ids, v \in Stamps : TellsMove(id, v) => moves[id] # None

(* The transform is to be told, or is told, or is as it was when the client  *)
(* joined and the client is told that of the creation. *)
Unmoved(id) == moves[id] < born[player] /\ \A v \in Stamps : TellsMove(id, v) => v = born[id]
MovesTrue == player # None =>
    \A id \in Alive, v \in Stamps :
        moves[id] = v => id \in moveDiff \/ TellsMove(id, v) \/ Unmoved(id)

Camera == player # None =>
    /\ player \in Alive
    /\ \A j \in UnderWay : /\ net[j].type = "REPLY" => net[j].id = player
                           /\ net[j].type = "REMOVE_ID" => net[j].id # player
    /\ cameraSource = player \/ \E j \in UnderWay : net[j].type = "REPLY"

(* A container comes before END, so the client plays. *)
Plays == /\ clientState # "Left"
         /\ clientState = "Disconnected" /\ player # None =>
              2 \in UnderWay /\ net[2].type = "INITIAL"
         /\ clientState = "ReceiveInitial" =>
              received >= 1 \/ (1 \in UnderWay /\ net[1].type = "INITIAL")

Mirror == /\ RendersTrue /\ MovesAlive /\ MovesTrue /\ Camera /\ Plays
          /\ player = None => rcs = Nothing

MirrorInv == /\ OrderInv /\ AgeInv
             /\ faults = 0 => Mirror

LEMMA MirrorImpliesMirrorsWorld == MirrorInv => MirrorsWorld
<1> SUFFICES ASSUME MirrorInv, faults = 0, Quiescent
             PROVE  /\ clientState = "Running"
                    /\ Of(mcs) = Alive
                    /\ rcs = born
                    /\ cameraSource = player
                    /\ \A id \in Alive : \/ mcs[id] = moves[id]
                                         \/ mcs[id] = born[id] /\ moves[id] < born[player]
  BY DEF MirrorsWorld
<1>1. net = <<>> /\ moveDiff = {} /\ renderDiff = {} /\ player # None /\ Mirror
  BY DEF Quiescent, MirrorInv
<1>2. Len(net) = 0 /\ UnderWay = {} /\ Entries = {0} /\ \A id : Lasts(id, 0)
  BY <1>1 DEF UnderWay, Entries, Lasts, Survives
<1>3. clientState # "Left" /\ clientState # "Crashed" /\ WayInv
  BY <1>1 DEF MirrorInv, OrderInv, Mirror, Plays
<1>4. clientState = "Running"
  BY <1>1, <1>2, <1>3 DEF WayInv, Ordered
<1>5. /\ \A id, v : TellsMove(id, v) <=> mcs[id] = v
      /\ \A id, v : TellsRender(id, v) <=> rcs[id] = v
  BY <1>2 DEF TellsMove, TellsRender, MoveAt, RenderAt
<1>6. /\ mcs \in Components /\ rcs \in Components /\ born \in Components
      /\ moves \in Components /\ Of(moves) = Of(born)
  BY DEF MirrorInv, OrderInv, SameIds, Inv, ServerTypeOK, ClientTypeOK
<1>7. Of(moves) \subseteq Of(mcs) /\ Of(born) \subseteq Of(rcs)
  <2>1. /\ \A id \in Of(moves) : HasMove(id, 0 + 1)
        /\ \A id \in Of(born) : HasRender(id, 0 + 1)
    BY <1>1, <1>2, <1>3 DEF WayInv, AllTold
  <2>2. 1 .. (0 + 1) - 1 = {}
    OBVIOUS
  <2> QED
    BY <2>1, <2>2 DEF HasMove, HasRender
<1>8. Of(mcs) = Alive
  <2>1. \A id \in Ids : mcs[id] # None => moves[id] # None
    BY <1>1, <1>5, <1>6 DEF Mirror, MovesAlive, Components
  <2> QED
    BY <1>7, <2>1 DEF Of, Alive
<1>9. rcs = born
  <2>1. \A id \in Ids : rcs[id] # None => rcs[id] = born[id]
    BY <1>1, <1>5, <1>6 DEF Mirror, RendersTrue, Components
  <2>2. \A id \in Ids : rcs[id] = born[id]
    BY <1>7, <2>1 DEF Of
  <2> QED
    BY <1>6, <2>2 DEF Components
<1>10. cameraSource = player
  BY <1>1, <1>2 DEF Mirror, Camera
<1>11. ASSUME NEW id \in Alive
       PROVE  \/ mcs[id] = moves[id]
              \/ mcs[id] = born[id] /\ moves[id] < born[player]
  <2>1. mcs[id] \in Stamps /\ moves[id] \in Stamps
    BY <1>6, <1>8, <1>11 DEF Of, Components, Alive
  <2> QED
    BY <1>1, <1>5, <1>11, <2>1 DEF Mirror, MovesTrue, Unmoved
<1> QED
  BY <1>4, <1>8, <1>9, <1>10, <1>11

LEMMA InitMirror == Init => MirrorInv
<1> SUFFICES ASSUME Init PROVE MirrorInv
  OBVIOUS
<1>1. OrderInv /\ AgeInv
  BY InitOrder, InitAge
<1>2. net = <<>> /\ mcs = Nothing /\ rcs = Nothing /\ player = None /\ clientState = "Disconnected"
  BY DEF Init, NetInit
<1>3. \A id \in Ids, v \in Stamps : ~TellsMove(id, v) /\ ~TellsRender(id, v)
  BY <1>2 DEF TellsMove, TellsRender, Entries, MoveAt, RenderAt, Nothing, Stamps, None
<1> QED
  BY <1>1, <1>2, <1>3 DEF MirrorInv, Mirror, RendersTrue, MovesAlive, MovesTrue, Camera, Plays

(* Which entries last when packets are sent behind them ... *)
LEMMA LastsSent ==
    ASSUME NEW ext \in Seq(PairedPackets), net \in Seq(PairedPackets), net' = net \o ext,
           NEW id, NEW N, N = Len(net), NEW L, L = Len(net')
    PROVE  /\ \A j \in 0 .. N : Lasts(id, j)' => Lasts(id, j)
           /\ (\A j \in 1 .. Len(ext) : ext[j].type = "REMOVE_ID" => ext[j].id # id) =>
                /\ \A j \in 0 .. N : Lasts(id, j) => Lasts(id, j)'
                /\ \A j \in N + 1 .. L : Lasts(id, j)'
<1>1. /\ N \in Nat /\ Len(ext) \in Nat /\ L = N + Len(ext)
      /\ \A j \in 1 .. N : net'[j] = net[j]
      /\ \A m \in N + 1 .. L : m - N \in 1 .. Len(ext) /\ net'[m] = ext[m - N]
  OBVIOUS
<1>2. /\ \A j \in Nat : Lasts(id, j) <=> \A m \in j + 1 .. N :
                                           ~(net[m].type = "REMOVE_ID" /\ net[m].id = id)
      /\ \A j \in Nat : Lasts(id, j)' <=> \A m \in j + 1 .. L :
                                           ~(net'[m].type = "REMOVE_ID" /\ net'[m].id = id)
  <2>1. (N + 1) - 1 = N /\ (L + 1) - 1 = L
    BY <1>1
  <2> QED
    BY <2>1 DEF Lasts, Survives, Removes
<1>3. ASSUME NEW j \in 0 .. N, Lasts(id, j)'
      PROVE  Lasts(id, j)
  <2>1. \A m \in j + 1 .. N : m \in j + 1 .. L /\ m \in 1 .. N
    BY <1>1
  <2> QED
    BY <1>1, <1>2, <1>3, <2>1
<1>4. ASSUME \A j \in 1 .. Len(ext) : ext[j].type = "REMOVE_ID" => ext[j].id # id
      PROVE  /\ \A j \in 0 .. N : Lasts(id, j) => Lasts(id, j)'
             /\ \A j \in N + 1 .. L : Lasts(id, j)'
  <2>1. \A m \in N + 1 .. L : ~(net'[m].type = "REMOVE_ID" /\ net'[m].id = id)
    BY <1>1, <1>4
  <2>2. ASSUME NEW j \in 0 .. N, Lasts(id, j)
        PROVE  Lasts(id, j)'
    <3>1. \A m \in j + 1 .. L : m \in N + 1 .. L \/ (m \in j + 1 .. N /\ m \in 1 .. N)
      BY <1>1
    <3>2. j \in Nat
      BY <1>1
    <3> QED
      BY <1>1, <1>2, <2>1, <2>2, <3>1, <3>2
  <2>3. ASSUME NEW j \in N + 1 .. L
        PROVE  Lasts(id, j)'
    <3>1. j \in Nat /\ \A m \in j + 1 .. L : m \in N + 1 .. L
      BY <1>1
    <3> QED
      BY <1>2, <2>1, <3>1
  <2> QED
    BY <2>2, <2>3
<1> QED
  BY <1>3, <1>4

(* ... and when the first is taken. *)
LEMMA LastsTaken ==
    ASSUME net \in Seq(PairedPackets), net # <<>>, net' = Tail(net), NEW id,
           NEW N, N = Len(net)
    PROVE  /\ \A j \in 1 .. N : Lasts(id, j) <=> Lasts(id, j - 1)'
           /\ Lasts(id, 0) <=> Lasts(id, 1) /\ ~Removes(1, id)
<1>1. /\ N \in Nat \ {0} /\ Len(net') = N - 1
      /\ \A j \in 1 .. N - 1 : net'[j] = net[j + 1]
  OBVIOUS
<1>2. /\ \A j \in Nat : Lasts(id, j) <=> \A m \in j + 1 .. N :
                                           ~(net[m].type = "REMOVE_ID" /\ net[m].id = id)
      /\ \A j \in Nat : Lasts(id, j)' <=> \A m \in j + 1 .. N - 1 :
                                           ~(net'[m].type = "REMOVE_ID" /\ net'[m].id = id)
  <2>1. (N + 1) - 1 = N /\ Len(net') + 1 - 1 = N - 1
    BY <1>1
  <2> QED
    BY <2>1 DEF Lasts, Survives, Removes
<1>3. ASSUME NEW j \in 1 .. N
      PROVE  Lasts(id, j) <=> Lasts(id, j - 1)'
  <2>1. j \in Nat /\ j - 1 \in Nat /\ (j - 1) + 1 = j
    BY <1>1
  <2>2. \A m \in j .. N - 1 : net'[m] = net[m + 1] /\ m + 1 \in j + 1 .. N
    BY <1>1
  <2>3. \A m \in j + 1 .. N : m - 1 \in j .. N - 1 /\ net'[m - 1] = net[m]
    <3>1. ASSUME NEW m \in j + 1 .. N
          PROVE  m - 1 \in j .. N - 1 /\ m - 1 \in 1 .. N - 1 /\ (m - 1) + 1 = m
      BY <1>1
    <3> QED
      BY <1>1, <3>1
  <2>4. Lasts(id, j) <=> \A m \in j + 1 .. N : ~(net[m].type = "REMOVE_ID" /\ net[m].id = id)
    BY <1>2, <2>1
  <2>5. Lasts(id, j - 1)' <=> \A m \in j .. N - 1 :
                                 ~(net'[m].type = "REMOVE_ID" /\ net'[m].id = id)
    <3>1. Lasts(id, j - 1)' <=> \A m \in (j - 1) + 1 .. N - 1 :
                                 ~(net'[m].type = "REMOVE_ID" /\ net'[m].id = id)
      BY <1>2, <2>1
    <3> QED
      BY <2>1, <3>1
  <2> QED
    BY <2>2, <2>3, <2>4, <2>5
<1>4. Lasts(id, 0) <=> Lasts(id, 1) /\ ~Removes(1, id)
  <2>1. \A m \in 0 + 1 .. N : m = 1 \/ m \in 1 + 1 .. N
    BY <1>1
  <2>2. 1 \in 0 + 1 .. N /\ \A m \in 1 + 1 .. N : m \in 0 + 1 .. N
    BY <1>1
  <2> QED
    BY <1>2, <2>1, <2>2 DEF Removes
<1> QED
  BY <1>3, <1>4

(* What is told when packets are sent ... *)
LEMMA TellsSent ==
    ASSUME NEW ext \in Seq(PairedPackets), net \in Seq(PairedPackets), net' = net \o ext,
           UNCHANGED <<mcs, rcs>>, NEW id, NEW v
    PROVE  /\ TellsMove(id, v)' =>
                TellsMove(id, v) \/ \E j \in 1 .. Len(ext) : ext[j].move[id] = v
           /\ TellsRender(id, v)' =>
                TellsRender(id, v) \/ \E j \in 1 .. Len(ext) : ext[j].render[id] = v
           /\ (\A j \in 1 .. Len(ext) : ext[j].type = "REMOVE_ID" => ext[j].id # id) =>
                (TellsMove(id, v) \/ (\E j \in 1 .. Len(ext) : ext[j].move[id] = v)
                  => TellsMove(id, v)')
<1> SUFFICES ASSUME NEW N, N = Len(net), NEW L, L = Len(net')
             PROVE  /\ TellsMove(id, v)' =>
                         TellsMove(id, v) \/ \E j \in 1 .. Len(ext) : ext[j].move[id] = v
                    /\ TellsRender(id, v)' =>
                         TellsRender(id, v) \/ \E j \in 1 .. Len(ext) : ext[j].render[id] = v
                    /\ (\A j \in 1 .. Len(ext) : ext[j].type = "REMOVE_ID" => ext[j].id # id) =>
                         (TellsMove(id, v) \/ (\E j \in 1 .. Len(ext) : ext[j].move[id] = v)
                           => TellsMove(id, v)')
  OBVIOUS
<1>1. /\ N \in Nat /\ Len(ext) \in Nat /\ L = N + Len(ext)
      /\ \A j \in 1 .. N : net'[j] = net[j]
      /\ \A m \in N + 1 .. L : m - N \in 1 .. Len(ext) /\ net'[m] = ext[m - N]
      /\ \A j \in 1 .. Len(ext) : N + j \in N + 1 .. L /\ net'[N + j] = ext[j]
  OBVIOUS
<1>2. /\ \A j \in 0 .. N : Lasts(id, j)' => Lasts(id, j)
      /\ (\A j \in 1 .. Len(ext) : ext[j].type = "REMOVE_ID" => ext[j].id # id) =>
           /\ \A j \in 0 .. N : Lasts(id, j) => Lasts(id, j)'
           /\ \A j \in N + 1 .. L : Lasts(id, j)'
  BY LastsSent
<1>3. ASSUME NEW j \in 0 .. N
      PROVE  MoveAt(id, j)' = MoveAt(id, j) /\ RenderAt(id, j)' = RenderAt(id, j)
  <2>1. j = 0 \/ j \in 1 .. N
    BY <1>1
  <2> QED
    BY <1>1, <2>1 DEF MoveAt, RenderAt
<1>4. ASSUME NEW j \in N + 1 .. L
      PROVE  /\ MoveAt(id, j)' = ext[j - N].move[id]
             /\ RenderAt(id, j)' = ext[j - N].render[id]
             /\ j - N \in 1 .. Len(ext)
  <2>1. j # 0
    BY <1>1
  <2> QED
    BY <1>1, <2>1 DEF MoveAt, RenderAt
<1>5. \A j \in 0 .. L : j \in 0 .. N \/ j \in N + 1 .. L
  BY <1>1
<1>6. /\ \A j \in 0 .. N : j \in 0 .. L
      /\ \A j \in N + 1 .. L : j \in 0 .. L
  BY <1>1
<1>7. TellsMove(id, v)' => TellsMove(id, v) \/ \E j \in 1 .. Len(ext) : ext[j].move[id] = v
  BY <1>2, <1>3, <1>4, <1>5 DEF TellsMove, Entries
<1>8. TellsRender(id, v)' => TellsRender(id, v) \/ \E j \in 1 .. Len(ext) : ext[j].render[id] = v
  BY <1>2, <1>3, <1>4, <1>5 DEF TellsRender, Entries
<1>9. ASSUME \A j \in 1 .. Len(ext) : ext[j].type = "REMOVE_ID" => ext[j].id # id
      PROVE  /\ TellsMove(id, v) => TellsMove(id, v)'
             /\ (\E j \in 1 .. Len(ext) : ext[j].move[id] = v) => TellsMove(id, v)'
  <2>1. TellsMove(id, v) => TellsMove(id, v)'
    BY <1>2, <1>3, <1>6, <1>9 DEF TellsMove, Entries
  <2>2. ASSUME NEW j \in 1 .. Len(ext), ext[j].move[id] = v
        PROVE  TellsMove(id, v)'
    <3>1. N + j \in N + 1 .. L /\ (N + j) - N = j
      BY <1>1
    <3>2. MoveAt(id, N + j)' = v /\ Lasts(id, N + j)' /\ N + j \in 0 .. L
      BY <1>2, <1>4, <1>6, <1>9, <2>2, <3>1
    <3> QED
      BY <3>2 DEF TellsMove, Entries
  <2> QED
    BY <2>1, <2>2
<1> QED
  BY <1>7, <1>8, <1>9

(* The first packet, when it is handled, changes the client by what it says, *)
(* and by nothing else. *)
Applied ==
    /\ \A id \in Ids : Removes(1, id) => mcs'[id] = None /\ rcs'[id] = None
    /\ \A id \in Ids : ~Removes(1, id) =>
          /\ mcs'[id] = IF net[1].move[id] # None THEN net[1].move[id] ELSE mcs[id]
          /\ rcs'[id] = IF net[1].render[id] # None THEN net[1].render[id] ELSE rcs[id]
    /\ \A id \in Ids : Removes(1, id) => net[1].move[id] = None /\ net[1].render[id] = None

(* ... and when one is received. *)
LEMMA TellsTaken ==
    ASSUME Inv, net # <<>>, net' = Tail(net), Applied, NEW id \in Ids, NEW v \in Stamps
    PROVE  /\ TellsMove(id, v)' => TellsMove(id, v)
           /\ TellsRender(id, v)' => TellsRender(id, v)
           /\ TellsMove(id, v) /\ (mcs[id] = v => net[1].move[id] \in {None, v})
                => TellsMove(id, v)'
<1> SUFFICES ASSUME NEW N, N = Len(net)
             PROVE  /\ TellsMove(id, v)' => TellsMove(id, v)
                    /\ TellsRender(id, v)' => TellsRender(id, v)
                    /\ TellsMove(id, v) /\ (mcs[id] = v => net[1].move[id] \in {None, v})
                         => TellsMove(id, v)'
  OBVIOUS
<1>1. /\ net \in Seq(PairedPackets) /\ N \in Nat \ {0} /\ Len(net') = N - 1
      /\ \A j \in 1 .. N - 1 : net'[j] = net[j + 1]
  BY DEF Inv, NetTypeOK
<1>2. /\ \A j \in 1 .. N : Lasts(id, j) <=> Lasts(id, j - 1)'
      /\ Lasts(id, 0) <=> Lasts(id, 1) /\ ~Removes(1, id)
  BY <1>1, LastsTaken
<1>3. v # None
  BY DEF Stamps, None
<1>4. /\ MoveAt(id, 0) = mcs[id] /\ MoveAt(id, 0)' = mcs'[id]
      /\ RenderAt(id, 0) = rcs[id] /\ RenderAt(id, 0)' = rcs'[id]
      /\ MoveAt(id, 1) = net[1].move[id] /\ RenderAt(id, 1) = net[1].render[id]
  BY DEF MoveAt, RenderAt
<1>5. ASSUME NEW j \in 1 .. N - 1
      PROVE  /\ MoveAt(id, j)' = MoveAt(id, j + 1) /\ RenderAt(id, j)' = RenderAt(id, j + 1)
             /\ Lasts(id, j)' <=> Lasts(id, j + 1)
  <2>1. j # 0 /\ j + 1 # 0 /\ j + 1 \in 1 .. N /\ (j + 1) - 1 = j
    BY <1>1
  <2>2. Lasts(id, j + 1) <=> Lasts(id, (j + 1) - 1)'
    BY <1>2, <2>1
  <2>3. Lasts(id, j)' <=> Lasts(id, j + 1)
    BY <2>1, <2>2
  <2> QED
    BY <1>1, <2>1, <2>3 DEF MoveAt, RenderAt
<1>6. Lasts(id, 0)' <=> Lasts(id, 1)
  <2>1. 1 \in 1 .. N /\ 1 - 1 = 0
    BY <1>1
  <2>2. Lasts(id, 1) <=> Lasts(id, 1 - 1)'
    BY <1>2, <2>1
  <2> QED
    BY <2>1, <2>2
<1>7. /\ 0 \in 0 .. N /\ 1 \in 0 .. N /\ 0 \in 0 .. N - 1
      /\ \A j \in 0 .. N - 1 : j = 0 \/ (j \in 1 .. N - 1 /\ j + 1 \in 0 .. N)
      /\ \A j \in 0 .. N : \/ j = 0 \/ j = 1
                           \/ j - 1 \in 1 .. N - 1 /\ j - 1 \in 0 .. N - 1 /\ (j - 1) + 1 = j
  BY <1>1
<1>8. TellsMove(id, v)' => TellsMove(id, v)
  <2>1. SUFFICES ASSUME NEW j \in 0 .. N - 1, MoveAt(id, j)' = v, Lasts(id, j)'
                 PROVE  \E i \in 0 .. N : MoveAt(id, i) = v /\ Lasts(id, i)
    BY <1>1 DEF TellsMove, Entries
  <2>2. CASE j = 0
    <3>1. ~Removes(1, id)
      BY <1>3, <1>4, <2>1, <2>2 DEF Applied
    <3>2. mcs[id] = v \/ net[1].move[id] = v
      BY <1>4, <2>1, <2>2, <3>1 DEF Applied
    <3> QED
      BY <1>2, <1>4, <1>6, <1>7, <2>1, <2>2, <3>1, <3>2
  <2> QED
    BY <1>5, <1>7, <2>1, <2>2
<1>9. TellsRender(id, v)' => TellsRender(id, v)
  <2>1. SUFFICES ASSUME NEW j \in 0 .. N - 1, RenderAt(id, j)' = v, Lasts(id, j)'
                 PROVE  \E i \in 0 .. N : RenderAt(id, i) = v /\ Lasts(id, i)
    BY <1>1 DEF TellsRender, Entries
  <2>2. CASE j = 0
    <3>1. ~Removes(1, id)
      BY <1>3, <1>4, <2>1, <2>2 DEF Applied
    <3>2. rcs[id] = v \/ net[1].render[id] = v
      BY <1>4, <2>1, <2>2, <3>1 DEF Applied
    <3> QED
      BY <1>2, <1>4, <1>6, <1>7, <2>1, <2>2, <3>1, <3>2
  <2> QED
    BY <1>5, <1>7, <2>1, <2>2
<1>10. ASSUME TellsMove(id, v), mcs[id] = v => net[1].move[id] \in {None, v}
       PROVE  TellsMove(id, v)'
  <2>1. PICK j \in 0 .. N : MoveAt(id, j) = v /\ Lasts(id, j)
    BY <1>10 DEF TellsMove, Entries
  <2>2. SUFFICES \E i \in 0 .. N - 1 : MoveAt(id, i)' = v /\ Lasts(id, i)'
    BY <1>1 DEF TellsMove, Entries
  <2>3. CASE j = 0
    <3>1. mcs[id] = v /\ ~Removes(1, id) /\ Lasts(id, 0)'
      BY <1>2, <1>4, <1>6, <2>1, <2>3
    <3>2. mcs'[id] = v
      BY <1>10, <3>1 DEF Applied
    <3> QED
      BY <1>4, <1>7, <3>1, <3>2
  <2>4. CASE j = 1
    <3>1. net[1].move[id] = v /\ Lasts(id, 0)'
      BY <1>4, <1>6, <2>1, <2>4
    <3>2. ~Removes(1, id)
      BY <1>3, <3>1 DEF Applied
    <3>3. mcs'[id] = v
      BY <1>3, <3>1, <3>2 DEF Applied
    <3> QED
      BY <1>4, <1>7, <3>1, <3>3
  <2>5. CASE j - 1 \in 1 .. N - 1 /\ j - 1 \in 0 .. N - 1 /\ (j - 1) + 1 = j
    <3>1. MoveAt(id, j - 1)' = MoveAt(id, j) /\ (Lasts(id, j - 1)' <=> Lasts(id, j))
      BY <1>5, <2>5
    <3> QED
      BY <2>1, <2>5, <3>1
  <2> QED
    BY <1>7, <2>3, <2>4, <2>5
<1> QED
  BY <1>8, <1>9, <1>10

-----------------------------------------------------------------------------
(* The client's steps. *)
LEMMA HeadHandled ==
    ASSUME Inv, WayInv, net # <<>>, clientState \in DOMAIN Handled
    PROVE  net[1].type \in Handled[clientState] /\ player # None
<1>1. 1 \in UnderWay /\ Len(net) \in Nat \ {0}
  BY DEF UnderWay, Inv, NetTypeOK
<1>2. CASE clientState = "Disconnected"
  BY <1>1, <1>2 DEF WayInv, Ordered, Stream, Handled
<1>3. CASE clientState = "ReceiveInitial"
  <2>1. PICK e \in 1 .. Len(net) : Stream(0, e)
    BY <1>3 DEF WayInv, Ordered
  <2>2. 1 < e \/ 1 = e
    BY <1>1
  <2> QED
    BY <1>1, <1>3, <2>1, <2>2 DEF WayInv, Ordered, Stream, Handled
<1>4. CASE clientState = "Running"
  BY <1>1, <1>4 DEF WayInv, Ordered, Stream, Game
<1> QED
  BY <1>2, <1>3, <1>4 DEF Handled

LEMMA ReceiveApplies ==
    ASSUME Inv, WayInv, net # <<>>, Receive(1), clientState' # "Crashed"
    PROVE  /\ Applied
           /\ \/ HandleBegin(1) \/ HandleInitial(1) \/ HandleEnd(1) \/ HandleReply(1)
              \/ HandleMoveDiff(1) \/ HandleRenderDiff(1) \/ HandleRemoveId(1)
<1> DEFINE p == net[1]
<1>1. 1 \in UnderWay /\ mcs \in Components /\ rcs \in Components /\ Len(net) \in Nat \ {0}
  BY DEF UnderWay, Inv, NetTypeOK, ClientTypeOK
<1>2. /\ p.type \notin {"INITIAL", "MOVEDIFF"} => \A id \in Ids : p.move[id] = None
      /\ p.type \notin {"INITIAL", "RENDERDIFF"} => \A id \in Ids : p.render[id] = None
  BY <1>1 DEF WayInv, Carries, Of
<1>3. \/ HandleBegin(1) \/ HandleInitial(1) \/ HandleEnd(1) \/ HandleReply(1)
      \/ HandleMoveDiff(1) \/ HandleRenderDiff(1) \/ HandleRemoveId(1)
  BY HeadHandled DEF Receive, RemoveIdThrows, Ignored
<1>4. \A id \in Ids : Removes(1, id) => p.move[id] = None /\ p.render[id] = None
  BY <1>2 DEF Removes
<1> HIDE DEF p
<1>5. CASE HandleBegin(1) \/ HandleEnd(1) \/ HandleReply(1)
  <2>1. /\ UNCHANGED <<mcs, rcs>> /\ p.type \in {"BEGIN", "END", "REPLY"}
    BY <1>5 DEF HandleBegin, HandleEnd, HandleReply, Handle, ecsVars, p
  <2> QED
    BY <1>2, <1>3, <1>4, <2>1 DEF Applied, Removes, p
<1>6. CASE HandleInitial(1)
  <2>1. p.type = "INITIAL" /\ mcs' = Sync(mcs, p.move) /\ rcs' = Sync(rcs, p.render)
    BY <1>6 DEF HandleInitial, Handle, p
  <2> QED
    BY <1>3, <1>4, <2>1 DEF Applied, Removes, Sync, p
<1>7. CASE HandleMoveDiff(1)
  <2>1. p.type = "MOVEDIFF" /\ mcs' = Sync(mcs, p.move) /\ rcs' = rcs
    BY <1>7 DEF HandleMoveDiff, Handle, p
  <2> QED
    BY <1>2, <1>3, <1>4, <2>1 DEF Applied, Removes, Sync, p
<1>8. CASE HandleRenderDiff(1)
  <2>1. p.type = "RENDERDIFF" /\ rcs' = Sync(rcs, p.render) /\ mcs' = mcs
    BY <1>8 DEF HandleRenderDiff, Handle, p
  <2> QED
    BY <1>2, <1>3, <1>4, <2>1 DEF Applied, Removes, Sync, p
<1>9. CASE HandleRemoveId(1)
  <2>1. /\ p.type = "REMOVE_ID" /\ mcs' = [mcs EXCEPT ![p.id] = None]
        /\ rcs' = [rcs EXCEPT ![p.id] = None]
    BY <1>9 DEF HandleRemoveId, Handle, p
  <2>2. /\ mcs'[p.id] = None \/ p.id \notin Ids
        /\ rcs'[p.id] = None \/ p.id \notin Ids
        /\ \A id \in Ids : id # p.id => mcs'[id] = mcs[id] /\ rcs'[id] = rcs[id]
    BY <1>1, <2>1 DEF Components
  <2> QED
    BY <1>2, <1>3, <1>4, <2>1, <2>2 DEF Applied, Removes, p
<1> QED
  BY <1>3, <1>5, <1>6, <1>7, <1>8, <1>9

(* The camera and the states: a reply comes, and a container before END. *)
LEMMA ReceivePlays ==
    ASSUME Inv, player # None, Camera, Plays, net # <<>>, net' = Tail(net), UNCHANGED serverVars,
           \/ HandleBegin(1) \/ HandleInitial(1) \/ HandleEnd(1) \/ HandleReply(1)
           \/ HandleMoveDiff(1) \/ HandleRenderDiff(1) \/ HandleRemoveId(1)
    PROVE  Camera' /\ Plays'
<1>1. /\ Len(net) \in Nat \ {0} /\ Len(net') = Len(net) - 1 /\ received \in Nat
      /\ 1 \in UnderWay
      /\ \A j \in 1 .. Len(net) - 1 : net'[j] = net[j + 1] /\ j + 1 \in 1 .. Len(net)
      /\ \A j \in 1 .. Len(net) : j = 1 \/ (j - 1 \in 1 .. Len(net) - 1 /\ net'[j - 1] = net[j])
      /\ UnderWay = 1 .. Len(net) /\ UnderWay' = 1 .. Len(net) - 1
  <2>1. /\ net \in Seq(PairedPackets) /\ received \in Nat
        /\ Len(net) \in Nat \ {0} /\ Len(net') = Len(net) - 1
        /\ \A j \in 1 .. Len(net) - 1 : net'[j] = net[j + 1]
    BY DEF Inv, NetTypeOK, ClientTypeOK
  <2>2. ASSUME NEW j \in 1 .. Len(net), j # 1
        PROVE  j - 1 \in 1 .. Len(net) - 1 /\ net'[j - 1] = net[j]
    <3>1. j - 1 \in 1 .. Len(net) - 1 /\ (j - 1) + 1 = j
      BY <2>1, <2>2
    <3> QED
      BY <2>1, <3>1
  <2>3. \A j \in 1 .. Len(net) - 1 : j + 1 \in 1 .. Len(net)
    BY <2>1
  <2> QED
    BY <2>1, <2>2, <2>3 DEF UnderWay
<1>2. player' = player /\ player \in Alive' /\ player \in Alive
  BY DEF serverVars, entityVars, Camera, Alive, Of
<1>3. \A j \in UnderWay' : /\ net'[j].type = "REPLY" => net'[j].id = player
                           /\ net'[j].type = "REMOVE_ID" => net'[j].id # player
  <2>1. \A j \in UnderWay : /\ net[j].type = "REPLY" => net[j].id = player
                            /\ net[j].type = "REMOVE_ID" => net[j].id # player
    BY DEF Camera
  <2> QED
    BY <1>1, <2>1
<1>4. net[1].type # "REPLY" /\ (\E j \in UnderWay : net[j].type = "REPLY") =>
        \E j \in UnderWay' : net'[j].type = "REPLY"
  BY <1>1
<1>5. CASE HandleBegin(1)
  <2>1. /\ clientState = "Disconnected" /\ clientState' = "ReceiveInitial"
        /\ net[1].type = "BEGIN" /\ UNCHANGED cameraSource
    BY <1>5 DEF HandleBegin, Handle, ecsVars
  <2>2. 2 \in UnderWay /\ net[2].type = "INITIAL"
    BY <2>1 DEF Plays
  <2>3. 2 - 1 \in UnderWay' /\ net'[2 - 1] = net[2] /\ 2 - 1 = 1
    BY <1>1, <2>2
  <2>4. 1 \in UnderWay' /\ net'[1].type = "INITIAL"
    BY <2>2, <2>3
  <2> QED
    BY <1>2, <1>3, <1>4, <2>1, <2>4 DEF Camera, Plays
<1>6. CASE HandleInitial(1)
  <2>1. /\ clientState' = "ReceiveInitial" /\ received' = received + 1
        /\ net[1].type = "INITIAL" /\ UNCHANGED cameraSource
    BY <1>6 DEF HandleInitial, Handle
  <2>2. received' >= 1
    BY <1>1, <2>1
  <2> QED
    BY <1>2, <1>3, <1>4, <2>1, <2>2 DEF Camera, Plays
<1>7. CASE HandleEnd(1)
  <2>1. /\ clientState = "ReceiveInitial" /\ net[1].type = "END" /\ UNCHANGED cameraSource
        /\ clientState' = IF received < 1 THEN "Left" ELSE "Running"
    BY <1>7 DEF HandleEnd, Handle, Expected, ecsVars
  <2>2. received >= 1
    BY <2>1 DEF Plays
  <2>3. clientState' = "Running"
    BY <1>1, <2>1, <2>2
  <2> QED
    BY <1>2, <1>3, <1>4, <2>1, <2>3 DEF Camera, Plays
<1>8. CASE HandleReply(1)
  <2>1. /\ clientState' = "Running" /\ net[1].type = "REPLY" /\ cameraSource' = net[1].id
    BY <1>8 DEF HandleReply, Handle
  <2>2. cameraSource' = player
    BY <1>1, <2>1 DEF Camera
  <2> QED
    BY <1>2, <1>3, <2>1, <2>2 DEF Camera, Plays
<1>9. CASE HandleMoveDiff(1) \/ HandleRenderDiff(1)
  <2>1. /\ clientState' = "Running" /\ net[1].type # "REPLY" /\ UNCHANGED cameraSource
    BY <1>9 DEF HandleMoveDiff, HandleRenderDiff, Handle
  <2> QED
    BY <1>2, <1>3, <1>4, <2>1 DEF Camera, Plays
<1>10. CASE HandleRemoveId(1)
  <2>1. /\ clientState' = "Running" /\ net[1].type = "REMOVE_ID"
        /\ cameraSource' = IF cameraSource = net[1].id THEN None ELSE cameraSource
    BY <1>10 DEF HandleRemoveId, Handle
  <2>2. net[1].id # player
    BY <1>1, <2>1 DEF Camera
  <2> QED
    BY <1>2, <1>3, <1>4, <2>1, <2>2 DEF Camera, Plays
<1> QED
  BY <1>5, <1>6, <1>7, <1>8, <1>9, <1>10

LEMMA ReceiveMirror ==
    ASSUME MirrorInv, NEW i \in UnderWay, Receive(i)
    PROVE  MirrorInv'
<1>1. OrderInv' /\ AgeInv'
  BY ReceiveOrder, ReceiveAges DEF MirrorInv
<1>2. ASSUME faults' = 0
      PROVE  Mirror'
  <2>1. clientState \in DOMAIN Handled /\ net # <<>>
    BY DEF Receive, HandleBegin, HandleInitial, HandleEnd, HandleReply, HandleMoveDiff,
           HandleRenderDiff, HandleRemoveId, RemoveIdThrows, Ignored, Handle, Handled, UnderWay
  <2>2. Inv /\ faults = 0 /\ i = 1 /\ net' = Tail(net) /\ UNCHANGED serverVars
    BY <1>2, ReceivedMove DEF MirrorInv, AgeInv
  <2>3. WayInv /\ Mirror /\ NetAges /\ ClientAges
    BY <2>1, <2>2 DEF MirrorInv, OrderInv, AgeInv, Handled
  <2>4. clientState' # "Crashed"
    BY <1>1, <1>2 DEF OrderInv
  <2>5. /\ Applied
        /\ \/ HandleBegin(1) \/ HandleInitial(1) \/ HandleEnd(1) \/ HandleReply(1)
           \/ HandleMoveDiff(1) \/ HandleRenderDiff(1) \/ HandleRemoveId(1)
    BY <2>1, <2>2, <2>3, <2>4, ReceiveApplies
  <2>6. player # None
    BY <2>1, <2>2, <2>3, HeadHandled
  <2>7. UNCHANGED <<moves, born, player, moveDiff>>
    BY <2>2 DEF serverVars, entityVars
  <2>8. ASSUME NEW id \in Ids, NEW v \in Stamps
        PROVE  /\ TellsMove(id, v)' => TellsMove(id, v)
               /\ TellsRender(id, v)' => TellsRender(id, v)
               /\ TellsMove(id, v) /\ (mcs[id] = v => net[1].move[id] \in {None, v})
                    => TellsMove(id, v)'
    BY <2>1, <2>2, <2>5, TellsTaken
  <2>9. Camera' /\ Plays'
    BY <2>1, <2>2, <2>3, <2>5, <2>6, ReceivePlays DEF Mirror
  <2>10. RendersTrue' /\ MovesAlive'
    BY <2>3, <2>7, <2>8 DEF Mirror, RendersTrue, MovesAlive
  <2>11. ASSUME NEW id \in Alive, NEW v \in Stamps, moves[id] = v
         PROVE  id \in moveDiff' \/ TellsMove(id, v)' \/ Unmoved(id)'
    <3>1. id \in Ids
      BY DEF Alive, Of
    <3>2. CASE TellsMove(id, v)
      <4>1. ASSUME mcs[id] = v
            PROVE  net[1].move[id] \in {None, v}
        <5>1. /\ Within(v, net[1].move[id])
              /\ Told(net[1].move[id], v, stamp)
          BY <2>1, <2>2, <2>3, <2>11, <3>1, <4>1 DEF NetAges, ClientAges, Inv, NetTypeOK, UnderWay
        <5>2. net[1].move[id] \in {None} \cup Stamps
          BY <2>1, <2>2, <3>1 DEF Inv, NetTypeOK, PairedPackets, Packets, Components
        <5>3. net[1].move[id] # None => net[1].move[id] \in Nat
          BY <5>2 DEF Stamps
        <5>4. v \in Nat /\ v # None
          BY DEF Stamps, None
        <5> QED
          BY <5>1, <5>3, <5>4 DEF Within, Told
      <4> QED
        BY <2>8, <3>1, <3>2, <4>1
    <3>3. CASE Unmoved(id)
      BY <2>7, <2>8, <3>1, <3>3 DEF Unmoved
    <3> QED
      BY <2>3, <2>6, <2>7, <2>11, <3>2, <3>3 DEF Mirror, MovesTrue
  <2>12. MovesTrue'
    BY <2>7, <2>11 DEF MovesTrue, Alive, Of
  <2> QED
    BY <2>6, <2>7, <2>9, <2>10, <2>12 DEF Mirror
<1> QED
  BY <1>1, <1>2 DEF MirrorInv

LEMMA LoseMirror ==
    ASSUME MirrorInv, NEW i \in UnderWay, Lose(i)
    PROVE  MirrorInv'
<1>1. OrderInv' /\ AgeInv'
  BY LoseOrder, LoseAges DEF MirrorInv
<1>2. faults' # 0
  BY DEF Lose, Loses, Fault, MirrorInv, AgeInv, Inv, NetTypeOK
<1> QED
  BY <1>1, <1>2 DEF MirrorInv

-----------------------------------------------------------------------------
(* The server's steps: one that tells nothing ... *)
LEMMA SilentMirror ==
    ASSUME Mirror, Inv, Inv', player' = player,
           UNCHANGED <<net, mcs, rcs, clientState, received, cameraSource>>,
           \A id \in Ids : moves'[id] # moves[id] => id \in moveDiff' /\ moves'[id] # None,
           \A id \in Ids : born'[id] # born[id] =>
                              id \in moveDiff' /\ born[id] = None /\ moves[id] = None,
           player = None \/ moveDiff \subseteq moveDiff'
    PROVE  Mirror'
<1>1. /\ UnderWay' = UnderWay
      /\ \A id, v : /\ TellsMove(id, v)' <=> TellsMove(id, v)
                    /\ TellsRender(id, v)' <=> TellsRender(id, v)
  BY DEF UnderWay, TellsMove, TellsRender, Entries, MoveAt, RenderAt, Lasts, Survives, Removes
<1>2. \A v \in Stamps : v # None
  BY DEF Stamps, None
<1>3. RendersTrue'
  BY <1>1, <1>2 DEF Mirror, RendersTrue
<1>4. MovesAlive'
  BY <1>1 DEF Mirror, MovesAlive
<1>5. Camera'
  <2>1. player # None => player \in Ids /\ moves[player] # None /\ moves'[player] # None
    BY DEF Mirror, Camera, Alive, Of
  <2> QED
    BY <1>1, <2>1 DEF Mirror, Camera, Alive, Of
<1>6. Plays'
  BY <1>1 DEF Mirror, Plays
<1>7. ASSUME player # None, NEW id \in Ids, NEW v \in Stamps, moves'[id] = v, id \notin moveDiff'
      PROVE  TellsMove(id, v)' \/ Unmoved(id)'
  <2>1. moves[id] = v /\ born'[id] = born[id] /\ id \notin moveDiff /\ id \in Alive
    BY <1>2, <1>7 DEF Alive, Of
  <2>2. born'[player] = born[player] /\ player \in Ids
    BY <1>7 DEF Mirror, Camera, Alive, Of
  <2>3. TellsMove(id, v) \/ Unmoved(id)
    BY <1>7, <2>1 DEF Mirror, MovesTrue
  <2> QED
    BY <1>1, <1>7, <2>1, <2>2, <2>3 DEF Unmoved
<1>8. MovesTrue'
  BY <1>7 DEF MovesTrue, Alive, Of
<1> QED
  BY <1>3, <1>4, <1>5, <1>6, <1>8 DEF Mirror

(* ... and one that sends packets of the game. *)
LEMMA SentPlays ==
    ASSUME Mirror, Inv, player # None, player' = player, player \in Alive',
           NEW ext \in Seq(PairedPackets), net' = net \o ext,
           UNCHANGED <<clientState, received, cameraSource>>,
           \A j \in 1 .. Len(ext) : /\ ext[j].type # "REPLY"
                                    /\ ext[j].type = "REMOVE_ID" => ext[j].id # player
    PROVE  Camera' /\ Plays'
<1> SUFFICES ASSUME NEW N, N = Len(net), NEW L, L = Len(net')
             PROVE  Camera' /\ Plays'
  OBVIOUS
<1>1. /\ UnderWay = 1 .. N /\ UnderWay' = 1 .. L
      /\ \A j \in 1 .. N : j \in 1 .. L /\ net'[j] = net[j]
      /\ \A j \in 1 .. L : j \in 1 .. N \/ (j - N \in 1 .. Len(ext) /\ net'[j] = ext[j - N])
  <2>1. /\ net \in Seq(PairedPackets) /\ N \in Nat /\ L = N + Len(ext) /\ Len(ext) \in Nat
        /\ \A j \in 1 .. N : net'[j] = net[j]
        /\ \A j \in N + 1 .. L : j - N \in 1 .. Len(ext) /\ net'[j] = ext[j - N]
    BY DEF Inv, NetTypeOK
  <2>2. /\ \A j \in 1 .. N : j \in 1 .. L
        /\ \A j \in 1 .. L : j \in 1 .. N \/ j \in N + 1 .. L
    BY <2>1
  <2> QED
    BY <2>1, <2>2 DEF UnderWay
<1>2. Camera'
  <2>1. /\ \A j \in 1 .. N : /\ net[j].type = "REPLY" => net[j].id = player
                             /\ net[j].type = "REMOVE_ID" => net[j].id # player
        /\ cameraSource = player \/ \E j \in 1 .. N : net[j].type = "REPLY"
    BY <1>1 DEF Mirror, Camera
  <2>2. \A j \in 1 .. L : /\ net'[j].type = "REPLY" => net'[j].id = player
                          /\ net'[j].type = "REMOVE_ID" => net'[j].id # player
    BY <1>1, <2>1
  <2> QED
    BY <1>1, <2>1, <2>2 DEF Camera
<1>3. Plays'
  BY <1>1 DEF Mirror, Plays
<1> QED
  BY <1>2, <1>3

LEMMA SendDiffMirror ==
    ASSUME MirrorInv, SendDiff, faults' = 0
    PROVE  Mirror'
<1> DEFINE ext == MoveDiffs \o RenderDiffs
<1>1. /\ UNCHANGED <<moves, born, stamp, player, faults, mcs, rcs, clientState, received, cameraSource>>
      /\ moveDiff' = {}
  BY DEF SendDiff, DiffsSent, clientVars, ecsVars
<1>2. Inv /\ Inv' /\ Mirror
  BY <1>1, SendDiffInv DEF MirrorInv, AgeInv
<1>3. CASE player = None
  <2>1. net' = net
    BY <1>3 DEF SendDiff, DiffsSent
  <2> QED
    BY <1>1, <1>2, <1>3, <2>1, SilentMirror
<1>4. CASE player # None
  <2>1. net' = net \o ext /\ net \in Seq(PairedPackets)
    BY <1>2, <1>4 DEF SendDiff, DiffsSent, Inv, NetTypeOK
  <2>2. Packet("MOVEDIFF", Only(moves, moveDiff), Nothing, None) \in PairedPackets
    BY <1>2, NothingType, OnlyType, PacketType DEF Inv, ServerTypeOK, Types
  <2>3. Packet("RENDERDIFF", Nothing, Only(born, renderDiff), None) \in PairedPackets
    BY <1>2, NothingType, OnlyType, PacketType DEF Inv, ServerTypeOK, Types
  <2>4. /\ MoveDiffs \in Seq(PairedPackets) /\ RenderDiffs \in Seq(PairedPackets)
        /\ \A j \in 1 .. Len(MoveDiffs) :
              /\ MoveDiffs[j].type = "MOVEDIFF"
              /\ \A id \in Ids : /\ MoveDiffs[j].move[id] = IF id \in moveDiff THEN moves[id] ELSE None
                                 /\ MoveDiffs[j].render[id] = None
        /\ \A j \in 1 .. Len(RenderDiffs) :
              /\ RenderDiffs[j].type = "RENDERDIFF"
              /\ \A id \in Ids : /\ RenderDiffs[j].render[id] \in {None, born[id]}
                                 /\ RenderDiffs[j].move[id] = None
        /\ Len(MoveDiffs) = IF moveDiff = {} THEN 0 ELSE 1
    BY <2>2, <2>3 DEF MoveDiffs, RenderDiffs, Packet, Only, Nothing
  <2>5. /\ ext \in Seq(PairedPackets)
        /\ \A j \in 1 .. Len(ext) : \/ j \in 1 .. Len(MoveDiffs) /\ ext[j] = MoveDiffs[j]
                                    \/ /\ j - Len(MoveDiffs) \in 1 .. Len(RenderDiffs)
                                       /\ ext[j] = RenderDiffs[j - Len(MoveDiffs)]
        /\ \A j \in 1 .. Len(MoveDiffs) : j \in 1 .. Len(ext) /\ ext[j] = MoveDiffs[j]
    <3>1. /\ ext \in Seq(PairedPackets)
          /\ \A j \in 1 .. Len(ext) : \/ j \in 1 .. Len(MoveDiffs) /\ ext[j] = MoveDiffs[j]
                                      \/ /\ j - Len(MoveDiffs) \in 1 .. Len(RenderDiffs)
                                         /\ ext[j] = RenderDiffs[j - Len(MoveDiffs)]
      <4>1. MoveDiffs \in Seq(PairedPackets) /\ RenderDiffs \in Seq(PairedPackets)
        BY <2>4
      <4> QED
        BY ONLY <4>1 DEF ext
    <3>2. \A j \in 1 .. Len(MoveDiffs) : j \in 1 .. Len(ext) /\ ext[j] = MoveDiffs[j]
      BY <2>4
    <3> QED
      BY <3>1, <3>2
  <2> HIDE DEF ext
  <2>6. \A j \in 1 .. Len(ext) :
           /\ ext[j].type \in {"MOVEDIFF", "RENDERDIFF"}
           /\ \A id \in Ids : /\ ext[j].move[id] \in {None, moves[id]}
                              /\ id \notin moveDiff => ext[j].move[id] = None
                              /\ ext[j].render[id] \in {None, born[id]}
    <3>1. ASSUME NEW j \in 1 .. Len(ext), NEW id \in Ids
          PROVE  /\ ext[j].move[id] \in {None, moves[id]}
                 /\ id \notin moveDiff => ext[j].move[id] = None
                 /\ ext[j].render[id] \in {None, born[id]}
      <4>1. CASE j \in 1 .. Len(MoveDiffs) /\ ext[j] = MoveDiffs[j]
        BY <2>4, <4>1
      <4>2. CASE /\ j - Len(MoveDiffs) \in 1 .. Len(RenderDiffs)
                 /\ ext[j] = RenderDiffs[j - Len(MoveDiffs)]
        <5> DEFINE k == j - Len(MoveDiffs)
        <5>1. k \in 1 .. Len(RenderDiffs) /\ ext[j] = RenderDiffs[k]
          BY <4>2
        <5> HIDE DEF k
        <5> QED
          BY <2>4, <5>1
      <4> QED
        BY <2>5, <4>1, <4>2
    <3>2. \A j \in 1 .. Len(ext) : ext[j].type \in {"MOVEDIFF", "RENDERDIFF"}
      <4>1. ASSUME NEW j \in 1 .. Len(ext)
            PROVE  ext[j].type \in {"MOVEDIFF", "RENDERDIFF"}
        <5>1. CASE j \in 1 .. Len(MoveDiffs) /\ ext[j] = MoveDiffs[j]
          BY <2>4, <5>1
        <5>2. CASE /\ j - Len(MoveDiffs) \in 1 .. Len(RenderDiffs)
                   /\ ext[j] = RenderDiffs[j - Len(MoveDiffs)]
          BY <2>4, <5>2
        <5> QED
          BY <2>5, <5>1, <5>2
      <4> QED
        BY <4>1
    <3> QED
      BY <3>1, <3>2
  <2>7. \A id \in moveDiff : \E j \in 1 .. Len(ext) : ext[j].move[id] = moves[id]
    <3>1. ASSUME NEW id \in moveDiff
          PROVE  \E j \in 1 .. Len(ext) : ext[j].move[id] = moves[id]
      <4>1. Len(MoveDiffs) = 1 /\ 1 \in 1 .. Len(MoveDiffs) /\ id \in Ids
        BY <1>2, <2>4, <3>1 DEF Inv, ServerTypeOK, Alive, Of
      <4>2. MoveDiffs[1].move[id] = moves[id]
        BY <2>4, <3>1, <4>1
      <4> QED
        BY <2>5, <4>1, <4>2
    <3> QED
      BY <3>1
  <2>8. ASSUME NEW id \in Ids, NEW v \in Stamps
        PROVE  /\ TellsMove(id, v)' =>
                    TellsMove(id, v) \/ \E j \in 1 .. Len(ext) : ext[j].move[id] = v
               /\ TellsRender(id, v)' =>
                    TellsRender(id, v) \/ \E j \in 1 .. Len(ext) : ext[j].render[id] = v
               /\ TellsMove(id, v) \/ (\E j \in 1 .. Len(ext) : ext[j].move[id] = v)
                    => TellsMove(id, v)'
    <3>1. \A j \in 1 .. Len(ext) : ext[j].type = "REMOVE_ID" => ext[j].id # id
      BY <2>6
    <3>2. UNCHANGED <<mcs, rcs>>
      BY <1>1
    <3>3. ext \in Seq(PairedPackets)
      BY <2>5
    <3>4. /\ TellsMove(id, v)' =>
               TellsMove(id, v) \/ \E j \in 1 .. Len(ext) : ext[j].move[id] = v
          /\ TellsRender(id, v)' =>
               TellsRender(id, v) \/ \E j \in 1 .. Len(ext) : ext[j].render[id] = v
          /\ (\A j \in 1 .. Len(ext) : ext[j].type = "REMOVE_ID" => ext[j].id # id) =>
               (TellsMove(id, v) \/ (\E j \in 1 .. Len(ext) : ext[j].move[id] = v)
                 => TellsMove(id, v)')
      BY ONLY <2>1, <3>2, <3>3, TellsSent, Zenon
    <3> QED
      BY <3>1, <3>4, Zenon
  <2>9. \A v \in Stamps : v # None
    BY DEF Stamps, None
  <2>10. RendersTrue' /\ MovesAlive'
    BY <1>1, <1>2, <2>6, <2>8, <2>9 DEF Mirror, RendersTrue, MovesAlive
  <2>11. ASSUME NEW id \in Alive, NEW v \in Stamps, moves[id] = v
         PROVE  TellsMove(id, v)' \/ Unmoved(id)'
    <3>1. id \in Ids
      BY DEF Alive, Of
    <3>2. CASE id \in moveDiff \/ TellsMove(id, v)
      BY <2>7, <2>8, <2>11, <3>1, <3>2
    <3>3. CASE id \notin moveDiff /\ Unmoved(id)
      BY <1>1, <2>6, <2>8, <2>9, <3>1, <3>3 DEF Unmoved
    <3> QED
      BY <1>2, <1>4, <2>11, <3>2, <3>3 DEF Mirror, MovesTrue
  <2>12. MovesTrue'
    BY <1>1, <2>11 DEF MovesTrue, Alive, Of
  <2>13. Camera' /\ Plays'
    <3>1. player \in Alive'
      BY <1>1, <1>2, <1>4 DEF Mirror, Camera, Alive, Of
    <3>2. \A j \in 1 .. Len(ext) : ext[j].type # "REPLY" /\ ext[j].type # "REMOVE_ID"
      BY <2>6
    <3> QED
      BY <1>1, <1>2, <1>4, <2>1, <2>5, <3>1, <3>2, SentPlays
  <2> QED
    BY <1>1, <1>4, <2>10, <2>12, <2>13 DEF Mirror
<1> QED
  BY <1>3, <1>4

(* The REMOVE_ID takes away what the client was told of the entity. *)
LEMMA OtherLeavesMirror ==
    ASSUME MirrorInv, NEW gone \in Ids, OtherLeaves(gone), faults' = 0
    PROVE  Mirror'
<1>1. /\ UNCHANGED <<player, faults, mcs, rcs, clientState, received, cameraSource>>
      /\ gone # player /\ moveDiff' = moveDiff \ {gone}
      /\ moves' = [moves EXCEPT ![gone] = None] /\ born' = [born EXCEPT ![gone] = None]
  BY DEF OtherLeaves, clientVars, ecsVars
<1>2. Inv /\ Inv' /\ Mirror /\ Unconnected
  BY <1>1, OtherLeavesInv DEF MirrorInv, AgeInv
<1>3. /\ moves'[gone] = None /\ born'[gone] = None
      /\ \A id \in Ids : id # gone => moves'[id] = moves[id] /\ born'[id] = born[id]
  BY <1>1, <1>2 DEF Inv, ServerTypeOK, Components
<1>4. \A v \in Stamps : v # None
  BY DEF Stamps, None
<1>5. CASE player = None
  <2>1. net' = net /\ net = <<>> /\ mcs = Nothing /\ rcs = Nothing
    BY <1>2, <1>5 DEF OtherLeaves, Unconnected, Mirror
  <2>2. \A id \in Ids, v \in Stamps : ~TellsMove(id, v)' /\ ~TellsRender(id, v)'
    BY <1>1, <1>4, <2>1 DEF TellsMove, TellsRender, Entries, MoveAt, RenderAt, Nothing
  <2>3. Plays'
    BY <1>1, <1>2, <1>5, <2>1 DEF Mirror, Plays, UnderWay
  <2> QED
    BY <1>1, <1>5, <2>1, <2>2, <2>3
    DEF Mirror, RendersTrue, MovesAlive, MovesTrue, Camera
<1>6. CASE player # None
  <2> DEFINE ext == <<RemoveId(gone)>>
  <2>1. /\ net \in Seq(PairedPackets) /\ RemoveId(gone) \in PairedPackets
        /\ net' = Append(net, RemoveId(gone))
    BY <1>2, <1>6, NothingType, PacketType DEF Inv, NetTypeOK, RemoveId, Types, OtherLeaves
  <2>2. net' = net \o ext /\ ext \in Seq(PairedPackets)
    BY <2>1
  <2>3. \A j \in 1 .. Len(ext) :
           /\ ext[j].type = "REMOVE_ID" /\ ext[j].id = gone
           /\ \A id \in Ids : ext[j].move[id] = None /\ ext[j].render[id] = None
    BY DEF RemoveId, Packet, Nothing
  <2>4. ASSUME NEW v \in Stamps
        PROVE  ~TellsMove(gone, v)' /\ ~TellsRender(gone, v)'
    <3> SUFFICES ASSUME NEW N, N = Len(net)
                 PROVE  ~TellsMove(gone, v)' /\ ~TellsRender(gone, v)'
      OBVIOUS
    <3>1. /\ N \in Nat /\ Len(net') = N + 1 /\ net'[N + 1] = RemoveId(gone)
      BY <2>1
    <3>2. (N + 1) + 1 - 1 = N + 1
      BY <3>1
    <3>3. /\ MoveAt(gone, N + 1)' = None /\ RenderAt(gone, N + 1)' = None
      <4>1. N + 1 # 0
        BY <3>1
      <4> QED
        BY <3>1, <4>1 DEF MoveAt, RenderAt, RemoveId, Packet, Nothing
    <3>4. ASSUME NEW j \in 0 .. N
          PROVE  ~Lasts(gone, j)'
      <4>1. N + 1 \in j + 1 .. (N + 1) + 1 - 1
        BY <3>1
      <4>2. net'[N + 1].type = "REMOVE_ID" /\ net'[N + 1].id = gone
        BY <3>1 DEF RemoveId, Packet
      <4> QED
        BY <3>1, <4>1, <4>2 DEF Lasts, Survives, Removes
    <3>5. \A j \in 0 .. N + 1 : j \in 0 .. N \/ j = N + 1
      BY <3>1
    <3> QED
      BY <1>4, <3>1, <3>3, <3>4, <3>5 DEF TellsMove, TellsRender, Entries
  <2> HIDE DEF ext
  <2>5. ASSUME NEW id \in Ids, NEW v \in Stamps
        PROVE  /\ TellsMove(id, v)' =>
                    TellsMove(id, v) \/ \E j \in 1 .. Len(ext) : ext[j].move[id] = v
               /\ TellsRender(id, v)' =>
                    TellsRender(id, v) \/ \E j \in 1 .. Len(ext) : ext[j].render[id] = v
               /\ (\A j \in 1 .. Len(ext) : ext[j].type = "REMOVE_ID" => ext[j].id # id) =>
                    (TellsMove(id, v) \/ (\E j \in 1 .. Len(ext) : ext[j].move[id] = v)
                      => TellsMove(id, v)')
    <3>1. UNCHANGED <<mcs, rcs>>
      BY <1>1
    <3> QED
      BY ONLY <2>1, <2>2, <3>1, TellsSent, Zenon
  <2>6. ASSUME NEW id \in Ids, NEW v \in Stamps, id # gone
        PROVE  /\ TellsMove(id, v)' <=> TellsMove(id, v)
               /\ TellsRender(id, v)' => TellsRender(id, v)
    <3>1. \A j \in 1 .. Len(ext) : /\ ext[j].id # id
                                   /\ ext[j].move[id] # v /\ ext[j].render[id] # v
      BY <1>4, <2>3, <2>6
    <3> QED
      BY <2>5, <3>1
  <2>7. RendersTrue' /\ MovesAlive'
    BY <1>2, <1>3, <2>4, <2>6 DEF Mirror, RendersTrue, MovesAlive
  <2>8. ASSUME NEW id \in Ids, NEW v \in Stamps, moves'[id] = v, id \notin moveDiff'
        PROVE  TellsMove(id, v)' \/ Unmoved(id)'
    <3>1. id # gone /\ moves[id] = v /\ id \notin moveDiff /\ id \in Alive
      BY <1>1, <1>3, <1>4, <2>8 DEF Alive, Of
    <3>2. TellsMove(id, v) \/ Unmoved(id)
      BY <1>2, <1>6, <3>1 DEF Mirror, MovesTrue
    <3>3. player \in Ids /\ born'[player] = born[player] /\ player' = player
      BY <1>1, <1>2, <1>3, <1>6 DEF Mirror, Camera, Alive, Of
    <3> QED
      BY <1>3, <2>6, <2>8, <3>1, <3>2, <3>3 DEF Unmoved
  <2>9. MovesTrue'
    BY <2>8 DEF MovesTrue, Alive, Of
  <2>10. Camera' /\ Plays'
    <3>1. player \in Alive'
      BY <1>1, <1>2, <1>3, <1>6 DEF Mirror, Camera, Alive, Of
    <3>2. \A j \in 1 .. Len(ext) : /\ ext[j].type # "REPLY"
                                   /\ ext[j].type = "REMOVE_ID" => ext[j].id # player
      BY <1>1, <2>3
    <3> QED
      BY <1>1, <1>2, <1>6, <2>2, <3>1, <3>2, SentPlays
  <2> QED
    BY <1>1, <1>6, <2>7, <2>9, <2>10 DEF Mirror
<1> QED
  BY <1>5, <1>6

(* To a client that joins everything is told as it was created. *)
LEMMA JoinMirror ==
    ASSUME MirrorInv, NEW new \in Ids, Join(new), faults' = 0
    PROVE  Mirror'
<1>1. /\ UNCHANGED <<faults, mcs, rcs, clientState, received, cameraSource>>
      /\ player = None /\ player' = new /\ player' # None
      /\ new \notin Alive /\ stamp' = stamp + 1
      /\ moves' = [moves EXCEPT ![new] = stamp'] /\ born' = [born EXCEPT ![new] = stamp']
      /\ moveDiff' = moveDiff \cup {new}
  BY IdsAssumption DEF Join, Create, clientVars, ecsVars, None
<1>2. Inv /\ OrderInv /\ Inv' /\ OrderInv' /\ ServerAges /\ Mirror /\ Unconnected
  BY <1>1, JoinOrder DEF MirrorInv, OrderInv, AgeInv
<1>3. /\ net = <<>> /\ mcs = Nothing /\ rcs = Nothing /\ clientState = "Disconnected"
  <2>1. net = <<>> /\ mcs = Nothing /\ rcs = Nothing
    BY <1>1, <1>2 DEF Mirror, Unconnected
  <2>2. clientState # "Left" /\ clientState # "Crashed" /\ WayInv
    BY <1>1, <1>2 DEF Mirror, Plays, OrderInv
  <2> QED
    BY <1>1, <2>1, <2>2 DEF WayInv, Ordered
<1>4. /\ born \in Components /\ moves \in Components /\ stamp \in Stamps
      /\ born' \in Components /\ moves' \in Components /\ stamp' \in Stamps
      /\ Of(born') \in SUBSET Ids /\ Of(moves') = Of(born')
  <2>1. Of(moves') = Of(born')
    BY <1>2 DEF OrderInv, SameIds, Of
  <2> QED
    BY <1>2, <2>1 DEF Inv, ServerTypeOK, Of
<1>5. PICK c \in Splits(Of(born')) : net' = net \o Transmission(c) \o <<Reply(new)>>
  BY DEF Join
<1> DEFINE K == Len(c)
<1>6. Transmitted(net', c, new, born')
  <2>1. Transmitted(Transmission(c) \o <<Reply(new)>>, c, new, born')
    BY <1>4, TransmissionPackets, Zenon
  <2>2. Transmission(c) \in Seq(PairedPackets)
    BY <1>4, TransmissionType
  <2>3. <<>> \o Transmission(c) = Transmission(c)
    BY <2>2
  <2>4. net' = Transmission(c) \o <<Reply(new)>>
    BY <1>3, <1>5, <2>3
  <2> QED
    BY <2>1, <2>4
<1>7. /\ K \in Nat /\ Len(net') = K + 3
      /\ net'[1] = Bare("BEGIN") /\ net'[K + 2] = Bare("END") /\ net'[K + 3] = Reply(new)
      /\ \A i \in 1 .. K : /\ net'[i + 1].type = "INITIAL"
                           /\ net'[i + 1].move = Only(born', c[i])
                           /\ net'[i + 1].render = Only(born', c[i])
  BY <1>6 DEF Transmitted
<1>8. \E i \in 1 .. K : new \in c[i]
  <2>1. new \in Of(born')
    BY <1>1, <1>4 DEF Of, Components, Stamps, None
  <2> QED
    BY <1>4, <2>1, SplitCovers
<1>9. 2 \in 1 .. K + 3 /\ net'[2].type = "INITIAL"
  <2>1. 1 \in 1 .. K
    BY <1>7, <1>8
  <2>2. net'[1 + 1].type = "INITIAL" /\ 1 + 1 = 2
    BY <1>7, <2>1
  <2> QED
    BY <1>7, <2>2
<1> HIDE DEF K
<1>10. ASSUME NEW j \in 1 .. K + 3
       PROVE  /\ net'[j].type # "REMOVE_ID"
              /\ net'[j].type = "REPLY" => net'[j].id = new
              /\ \A id \in Ids : /\ net'[j].move[id] \in {None, born'[id]}
                                 /\ net'[j].render[id] \in {None, born'[id]}
  <2>1. CarriesCreated(net', new, born')
    BY <1>6, TransmissionCarries, Zenon
  <2> QED
    BY <1>7, <2>1 DEF CarriesCreated
<1>11. ASSUME NEW id \in Ids, NEW v \in Stamps
       PROVE  /\ TellsMove(id, v)' => v = born'[id]
              /\ TellsRender(id, v)' => v = born'[id]
  <2>1. ASSUME NEW j \in 0 .. K + 3
        PROVE  /\ MoveAt(id, j)' \in {None, born'[id]}
               /\ RenderAt(id, j)' \in {None, born'[id]}
    <3>1. CASE j = 0
      BY <1>1, <1>3, <3>1 DEF MoveAt, RenderAt, Nothing
    <3>2. CASE j # 0
      <4>1. j \in 1 .. K + 3
        BY <1>7, <3>2
      <4> QED
        BY <1>10, <3>2, <4>1 DEF MoveAt, RenderAt
    <3> QED
      BY <3>1, <3>2
  <2>2. v # None
    BY DEF Stamps, None
  <2> QED
    BY <1>7, <2>1, <2>2 DEF TellsMove, TellsRender, Entries
<1>12. RendersTrue'
  BY <1>11 DEF RendersTrue
<1>13. MovesAlive'
  <2>1. \A id \in Ids, v \in Stamps : v = born'[id] => moves'[id] # None
    BY <1>4 DEF Of, Stamps, None
  <2> QED
    BY <1>11, <2>1 DEF MovesAlive
<1>14. ASSUME NEW id \in Ids, NEW v \in Stamps, moves'[id] = v, id \notin moveDiff'
       PROVE  Unmoved(id)'
  <2>1. id # new /\ moves'[id] = moves[id]
    BY <1>1, <1>4, <1>14 DEF Components
  <2>2. moves'[id] < born'[new]
    BY <1>1, <1>2, <1>4, <2>1, MaxStampAssumption DEF ServerAges, Components, Stamps, None
  <2> QED
    BY <1>1, <1>11, <1>14, <2>2 DEF Unmoved
<1>15. MovesTrue'
  BY <1>14 DEF MovesTrue, Alive, Of
<1>16. Camera'
  <2>1. new \in Alive'
    BY <1>1, <1>4 DEF Alive, Of, Components, Stamps, None
  <2>2. K + 3 \in 1 .. K + 3 /\ net'[K + 3].type = "REPLY"
    BY <1>7 DEF Reply, Packet
  <2> QED
    BY <1>1, <1>7, <1>10, <2>1, <2>2 DEF Camera, UnderWay
<1>17. Plays'
  BY <1>1, <1>3, <1>7, <1>9 DEF Plays, UnderWay
<1> QED
  BY <1>1, <1>12, <1>13, <1>15, <1>16, <1>17 DEF Mirror

LEMMA NextMirror ==
    ASSUME MirrorInv, [Next]_vars
    PROVE  MirrorInv'
<1>1. OrderInv' /\ AgeInv'
  BY NextOrder, NextAges DEF MirrorInv
<1>2. Inv /\ Inv'
  BY <1>1 DEF MirrorInv, AgeInv
<1>3. CASE \E i \in UnderWay : Lose(i) \/ Receive(i)
  BY <1>3, LoseMirror, ReceiveMirror
<1>4. ASSUME faults' = 0, UNCHANGED faults
      PROVE  Server \/ Render \/ UNCHANGED vars => Mirror'
  <2>1. Mirror
    BY <1>4 DEF MirrorInv
  <2>2. CASE \E id \in Ids : Join(id) \/ OtherLeaves(id)
    BY <1>4, <2>2, JoinMirror, OtherLeavesMirror
  <2>3. CASE SendDiff
    BY <1>4, <2>3, SendDiffMirror
  <2>4. CASE \E id \in Ids : OtherJoins(id)
    <3>1. PICK id \in Ids : OtherJoins(id)
      BY <2>4
    <3>2. /\ UNCHANGED <<player, net, mcs, rcs, clientState, received, cameraSource>>
          /\ id \notin Alive /\ stamp' = stamp + 1 /\ moveDiff' = moveDiff \cup {id}
          /\ moves' = [moves EXCEPT ![id] = stamp'] /\ born' = [born EXCEPT ![id] = stamp']
      BY <3>1 DEF OtherJoins, Create, netVars, clientVars, ecsVars
    <3>3. /\ moves \in Components /\ born \in Components /\ stamp' # None
          /\ Of(moves) = Of(born)
      BY <1>2 DEF Inv, ServerTypeOK, Stamps, None, MirrorInv, OrderInv, SameIds
    <3>4. moves[id] = None /\ born[id] = None
      BY <3>2, <3>3 DEF Alive, Of
    <3>5. /\ moves'[id] = stamp'
          /\ \A k \in Ids : k # id => moves'[k] = moves[k] /\ born'[k] = born[k]
      BY <3>2, <3>3 DEF Components
    <3>6. /\ \A k \in Ids : moves'[k] # moves[k] => k \in moveDiff' /\ moves'[k] # None
          /\ \A k \in Ids : born'[k] # born[k] =>
                               k \in moveDiff' /\ born[k] = None /\ moves[k] = None
      BY <3>2, <3>3, <3>4, <3>5
    <3>7. moveDiff \subseteq moveDiff'
      BY <3>2
    <3> QED
      BY <1>2, <2>1, <3>2, <3>6, <3>7, SilentMirror
  <2>5. CASE \E movers \in SUBSET Alive : Move(movers)
    <3>1. PICK movers \in SUBSET Alive : Move(movers)
      BY <2>5
    <3>2. /\ UNCHANGED <<born, player, net, mcs, rcs, clientState, received, cameraSource>>
          /\ stamp' = stamp + 1 /\ moveDiff' = moveDiff \cup movers
          /\ moves' = [id \in Ids |-> IF id \in movers THEN stamp' ELSE moves[id]]
      BY <3>1 DEF Move, netVars, clientVars, ecsVars
    <3>3. moves \in Components /\ stamp' # None
      BY <1>2 DEF Inv, ServerTypeOK, Stamps, None
    <3>4. \A k \in Ids : moves'[k] # moves[k] => k \in moveDiff' /\ moves'[k] # None
      BY <3>2, <3>3 DEF Components
    <3> QED
      BY <1>2, <2>1, <3>2, <3>4, SilentMirror
  <2>6. CASE NoPacket \/ Render \/ UNCHANGED vars
    <3>1. UNCHANGED <<moves, born, moveDiff, player, net, mcs, rcs, clientState, received,
                      cameraSource>>
      BY <2>6 DEF NoPacket, Render, vars, serverVars, entityVars, netVars, clientVars, ecsVars
    <3> QED
      BY <1>2, <2>1, <3>1, SilentMirror
  <2> QED
    BY <2>2, <2>3, <2>4, <2>5, <2>6 DEF Server
<1>5. Server \/ Render \/ UNCHANGED vars => UNCHANGED faults
  BY DEF Server, Join, OtherJoins, OtherLeaves, Move, NoPacket, SendDiff, DiffsSent, Render,
         netVars, vars
<1> QED
  BY <1>1, <1>3, <1>4, <1>5 DEF Next, MirrorInv

(* When the server has nothing left to send and the network nothing to       *)
(* deliver, and nothing was lost, repeated or reordered, the client's copy   *)
(* is the server's world, apart from what has not moved since it joined.     *)
THEOREM CopyMirrors == Spec => []MirrorsWorld
<1>1. Init => MirrorInv
  BY InitMirror
<1>2. MirrorInv /\ [Next]_vars => MirrorInv'
  BY NextMirror
<1>3. MirrorInv => MirrorsWorld
  BY MirrorImpliesMirrorsWorld
<1> QED
  BY <1>1, <1>2, <1>3, PTL DEF Spec
-----------------------------------------------------------------------------
(* CopiesFaithfully: a look and a transform of one id are of one life.  What  *)
(* a REMOVE_ID takes away is older than the life that has the id now, and     *)
(* behind every look there is the transform that came with it.                *)
LooksTold(now) == \A id \in Ids, j \in Entries : RenderAt(id, j) <= now
LooksInOrder == \A id \in Ids, j \in Entries : \A i \in 0 .. j - 1 :
                   Within(RenderAt(id, i), RenderAt(id, j))
RemovedOld(lives) == \A id \in Ids, j \in Entries :
    ~Lasts(id, j) /\ lives[id] # None =>
        MoveAt(id, j) < lives[id] /\ RenderAt(id, j) < lives[id]
LooksFollow == \A id \in Ids, j \in Entries : RenderAt(id, j) # None =>
    \E i \in 0 .. j : MoveAt(id, i) >= RenderAt(id, j) /\ Survives(id, i, j)

Lives == LooksTold(stamp) /\ LooksInOrder /\ RemovedOld(born) /\ LooksFollow

LifeInv == /\ MirrorInv
           /\ renderDiff \subseteq moveDiff
           /\ faults = 0 => Lives

LEMMA EntryTypes ==
    ASSUME Inv, NEW id \in Ids, NEW j \in Entries
    PROVE  /\ j \in Nat
           /\ MoveAt(id, j) \in {None} \cup Stamps /\ MoveAt(id, j) \in Nat
           /\ RenderAt(id, j) \in {None} \cup Stamps /\ RenderAt(id, j) \in Nat
<1>1. Len(net) \in Nat /\ net \in Seq(PairedPackets)
  BY DEF Inv, NetTypeOK
<1>2. j \in Nat /\ (j = 0 \/ j \in 1 .. Len(net))
  BY <1>1 DEF Entries
<1>3. CASE j = 0
  BY <1>2, <1>3 DEF Inv, ClientTypeOK, Components, MoveAt, RenderAt, Stamps, None
<1>4. CASE j \in 1 .. Len(net)
  <2>1. net[j] \in PairedPackets /\ j # 0
    BY <1>1, <1>4
  <2> QED
    BY <1>2, <2>1 DEF PairedPackets, Packets, Components, MoveAt, RenderAt, Stamps, None
<1> QED
  BY <1>2, <1>3, <1>4

(* No look is of a later life than the one that has the id. *)
LEMMA LooksBehind ==
    ASSUME Inv, Lives, RendersTrue, NEW id \in Ids, NEW j \in Entries
    PROVE  Within(RenderAt(id, j), born[id])
<1>1. RenderAt(id, j) \in {None} \cup Stamps /\ RenderAt(id, j) \in Nat
  BY EntryTypes
<1>2. born[id] \in Nat
  BY DEF Inv, ServerTypeOK, Components, Stamps, None
<1>3. CASE RenderAt(id, j) = None
  BY <1>2, <1>3 DEF Within, None
<1>4. CASE RenderAt(id, j) \in Stamps /\ Lasts(id, j)
  <2>1. RenderAt(id, j) = born[id]
    BY <1>4 DEF RendersTrue, TellsRender
  <2> QED
    BY <1>1, <2>1 DEF Within
<1>5. CASE ~Lasts(id, j)
  BY <1>1, <1>2, <1>5 DEF Lives, RemovedOld, Within
<1> QED
  BY <1>1, <1>3, <1>4, <1>5

(* Packets sent behind the others, whose looks are those of the lives that   *)
(* are, and have their transforms with them or before them. *)
LEMMA LifeSent ==
    ASSUME Inv, Inv', UNCHANGED <<mcs, rcs>>,
           NEW ext \in Seq(PairedPackets), net' = net \o ext,
           LooksTold(stamp'), LooksInOrder, RemovedOld(born'), LooksFollow,
           \A id \in Ids, j \in Entries : Within(RenderAt(id, j), born'[id]),
           \A id \in Ids : born'[id] <= stamp',
           \A id \in Ids : born'[id] # None =>
              \A j \in 1 .. Len(ext) : ext[j].type = "REMOVE_ID" => ext[j].id # id,
           \A id \in Ids : \A j \in 1 .. Len(ext) : ext[j].render[id] \in {None, born'[id]},
           \A id \in Ids : \A j \in 1 .. Len(ext) : ext[j].render[id] # None =>
              \E i \in 1 .. j : /\ ext[i].move[id] >= ext[j].render[id]
                                /\ \A m \in i + 1 .. j - 1 : ext[m].type # "REMOVE_ID"
    PROVE  Lives'
<1> SUFFICES ASSUME NEW N, N = Len(net), NEW L, L = Len(net')
             PROVE  Lives'
  OBVIOUS
<1>1. /\ N \in Nat /\ Len(ext) \in Nat /\ L = N + Len(ext)
      /\ \A j \in 1 .. N : net'[j] = net[j]
      /\ \A j \in N + 1 .. L : j - N \in 1 .. Len(ext) /\ net'[j] = ext[j - N]
      /\ \A j \in 1 .. Len(ext) : N + j \in N + 1 .. L /\ net'[N + j] = ext[j]
  BY DEF Inv, NetTypeOK
<1>2. Entries = 0 .. N /\ Entries' = 0 .. L
  BY DEF Entries
<1>3. \A j \in 0 .. L : j \in 0 .. N \/ j \in N + 1 .. L
  BY <1>1
<1>4. ASSUME NEW id \in Ids, NEW j \in 0 .. N
      PROVE  /\ MoveAt(id, j)' = MoveAt(id, j) /\ RenderAt(id, j)' = RenderAt(id, j)
             /\ MoveAt(id, j) \in Nat /\ RenderAt(id, j) \in Nat
  <2>1. j = 0 \/ j \in 1 .. N
    BY <1>1
  <2>2. MoveAt(id, j)' = MoveAt(id, j) /\ RenderAt(id, j)' = RenderAt(id, j)
    BY <1>1, <2>1 DEF MoveAt, RenderAt
  <2> QED
    BY <1>2, <2>2, EntryTypes
<1>5. ASSUME NEW id \in Ids, NEW j \in N + 1 .. L
      PROVE  /\ MoveAt(id, j)' = ext[j - N].move[id]
             /\ RenderAt(id, j)' = ext[j - N].render[id]
             /\ j - N \in 1 .. Len(ext)
             /\ RenderAt(id, j)' \in {None, born'[id]}
  <2>1. j # 0
    BY <1>1
  <2> QED
    BY <1>1, <2>1 DEF MoveAt, RenderAt
<1>6. ASSUME NEW id \in Ids
      PROVE  born'[id] \in Nat /\ stamp' \in Nat /\ None \in Nat
  BY DEF Inv, ServerTypeOK, Components, Stamps, None
<1>7. LooksTold(stamp)'
  <2>1. ASSUME NEW id \in Ids, NEW j \in 0 .. L
        PROVE  RenderAt(id, j)' <= stamp'
    <3>1. CASE j \in 0 .. N
      BY <1>2, <1>4, <3>1 DEF LooksTold
    <3>2. CASE j \in N + 1 .. L
      <4>1. RenderAt(id, j)' \in {None, born'[id]}
        BY <1>5, <3>2
      <4> QED
        BY <1>6, <4>1 DEF None
    <3> QED
      BY <1>3, <3>1, <3>2
  <2> QED
    BY <1>2, <2>1 DEF LooksTold
<1>8. LooksInOrder'
  <2>1. ASSUME NEW id \in Ids, NEW j \in 0 .. L, NEW i \in 0 .. j - 1
        PROVE  Within(RenderAt(id, i)', RenderAt(id, j)')
    <3>1. CASE j \in 0 .. N
      <4>1. i \in 0 .. N
        BY <1>1, <3>1
      <4> QED
        BY <1>2, <1>4, <3>1, <4>1 DEF LooksInOrder
    <3>2. CASE j \in N + 1 .. L
      <4>1. i \in 0 .. N \/ i \in N + 1 .. L
        BY <1>1, <3>2
      <4>2. Within(RenderAt(id, i)', born'[id])
        <5>1. CASE i \in 0 .. N
          BY <1>2, <1>4, <5>1
        <5>2. CASE i \in N + 1 .. L
          <6>1. RenderAt(id, i)' \in {None, born'[id]} /\ born'[id] \in Nat
            BY <1>5, <1>6, <5>2
          <6>2. \A b \in Nat : \A v \in {None, b} : Within(v, b)
            BY DEF Within, None
          <6> QED
            BY <6>1, <6>2
        <5> QED
          BY <4>1, <5>1, <5>2
      <4> QED
        BY <1>5, <3>2, <4>2 DEF Within
    <3> QED
      BY <1>3, <3>1, <3>2
  <2> QED
    BY <1>2, <2>1 DEF LooksInOrder
<1>9. RemovedOld(born)'
  <2>1. ASSUME NEW id \in Ids, NEW j \in 0 .. L, ~Lasts(id, j)', born'[id] # None
        PROVE  MoveAt(id, j)' < born'[id] /\ RenderAt(id, j)' < born'[id]
    <3>1. \A k \in 1 .. Len(ext) : ext[k].type = "REMOVE_ID" => ext[k].id # id
      BY <2>1
    <3>2. /\ \A k \in 0 .. N : Lasts(id, k) => Lasts(id, k)'
          /\ \A k \in N + 1 .. L : Lasts(id, k)'
      BY <3>1, LastsSent DEF Inv, NetTypeOK
    <3>3. j \in 0 .. N /\ ~Lasts(id, j)
      BY <1>3, <2>1, <3>2
    <3> QED
      BY <1>2, <1>4, <2>1, <3>3 DEF RemovedOld
  <2> QED
    BY <1>2, <2>1 DEF RemovedOld
<1>10. LooksFollow'
  <2>1. ASSUME NEW id \in Ids, NEW j \in 0 .. L, RenderAt(id, j)' # None
        PROVE  \E i \in 0 .. j : MoveAt(id, i)' >= RenderAt(id, j)' /\ Survives(id, i, j)'
    <3>1. CASE j \in 0 .. N
      <4>1. PICK i \in 0 .. j : MoveAt(id, i) >= RenderAt(id, j) /\ Survives(id, i, j)
        BY <1>2, <1>4, <2>1, <3>1 DEF LooksFollow
      <4>2. i \in 0 .. N /\ \A m \in i + 1 .. j - 1 : m \in 1 .. N
        BY <1>1, <3>1
      <4>3. Survives(id, i, j)'
        BY <1>1, <4>1, <4>2 DEF Survives, Removes
      <4> QED
        BY <1>4, <3>1, <4>1, <4>2, <4>3
    <3>2. CASE j \in N + 1 .. L
      <4>1. j - N \in 1 .. Len(ext) /\ ext[j - N].render[id] # None
        BY <1>5, <2>1, <3>2
      <4>2. PICK i \in 1 .. j - N : /\ ext[i].move[id] >= ext[j - N].render[id]
                                    /\ \A m \in i + 1 .. (j - N) - 1 : ext[m].type # "REMOVE_ID"
        BY <4>1
      <4>3. N + i \in N + 1 .. L /\ N + i \in 0 .. j /\ (N + i) - N = i
        BY <1>1, <3>2
      <4>4. MoveAt(id, N + i)' >= RenderAt(id, j)'
        <5>1. MoveAt(id, N + i)' = ext[(N + i) - N].move[id]
          BY ONLY <1>5, <4>3
        <5>2. RenderAt(id, j)' = ext[j - N].render[id]
          BY <1>5, <3>2
        <5> QED
          BY <4>2, <4>3, <5>1, <5>2
      <4>5. Survives(id, N + i, j)'
        <5>1. ASSUME NEW m \in (N + i) + 1 .. j - 1
              PROVE  net'[m].type # "REMOVE_ID"
          <6>1. m \in N + 1 .. L /\ m - N \in i + 1 .. (j - N) - 1
            BY <1>1, <3>2
          <6> QED
            BY <1>1, <4>2, <6>1
        <5> QED
          BY <5>1 DEF Survives, Removes
      <4> QED
        BY <4>3, <4>4, <4>5
    <3> QED
      BY <1>3, <3>1, <3>2
  <2> QED
    BY <1>2, <2>1 DEF LooksFollow
<1> QED
  BY <1>7, <1>8, <1>9, <1>10 DEF Lives

(* What lies between two entries when the first packet is taken. *)
LEMMA SurvivesTaken ==
    ASSUME net \in Seq(PairedPackets), net # <<>>, net' = Tail(net), NEW id,
           NEW j \in 1 .. Len(net), NEW i \in 0 .. j, Survives(id, i, j)
    PROVE  /\ i > 0 => Survives(id, i - 1, j - 1)'
           /\ i = 0 => Survives(id, 0, j - 1)'
           /\ i = 0 /\ j > 1 => ~Removes(1, id)
<1>1. /\ Len(net) \in Nat \ {0}
      /\ \A m \in 1 .. Len(net) - 1 : net'[m] = net[m + 1]
  OBVIOUS
<1>2. ASSUME NEW k \in {i - 1, i}, k >= 0, NEW m \in k + 1 .. (j - 1) - 1
      PROVE  m \in 1 .. Len(net) - 1 /\ m + 1 \in i + 1 .. j - 1
  BY <1>1, <1>2
<1>3. ASSUME NEW k \in {i - 1, i}, k >= 0
      PROVE  Survives(id, k, j - 1)'
  <2>1. ASSUME NEW m \in k + 1 .. (j - 1) - 1
        PROVE  ~(net'[m].type = "REMOVE_ID" /\ net'[m].id = id)
    <3>1. net'[m] = net[m + 1] /\ m + 1 \in i + 1 .. j - 1
      BY <1>1, <1>2, <1>3
    <3> QED
      BY <3>1 DEF Survives, Removes
  <2> QED
    BY <2>1 DEF Survives, Removes
<1>4. i > 0 => Survives(id, i - 1, j - 1)'
  BY <1>3
<1>5. i = 0 => Survives(id, 0, j - 1)'
  BY <1>3
<1>6. i = 0 /\ j > 1 => ~Removes(1, id)
  <2>1. i = 0 /\ j > 1 => 1 \in i + 1 .. j - 1
    BY <1>1
  <2> QED
    BY <2>1 DEF Survives
<1> QED
  BY <1>4, <1>5, <1>6

(* The first packet is taken: what it brings is not older than what was     *)
(* there, and each entry is one that was there before, or is gone. *)
LEMMA LifeTaken ==
    ASSUME Inv, Inv', net # <<>>, net' = Tail(net), Applied, Lives, ClientAges,
           UNCHANGED <<born, stamp>>
    PROVE  /\ Lives'
           /\ \A id \in Ids : ~Removes(1, id) => mcs[id] <= mcs'[id] /\ rcs[id] <= rcs'[id]
<1> SUFFICES ASSUME NEW N, N = Len(net)
             PROVE  /\ Lives'
                    /\ \A id \in Ids : ~Removes(1, id) =>
                          mcs[id] <= mcs'[id] /\ rcs[id] <= rcs'[id]
  OBVIOUS
<1>1. /\ net \in Seq(PairedPackets) /\ N \in Nat \ {0} /\ Len(net') = N - 1
      /\ \A j \in 1 .. N - 1 : net'[j] = net[j + 1]
      /\ Entries = 0 .. N /\ Entries' = 0 .. N - 1
      /\ 1 \in UnderWay /\ 0 \in 0 .. N /\ 1 \in 0 .. N
      /\ \A j \in 0 .. N - 1 : j = 0 \/ (j \in 1 .. N - 1 /\ j + 1 \in 0 .. N)
  BY DEF Inv, NetTypeOK, Entries, UnderWay
<1>2. ASSUME NEW id \in Ids
      PROVE  /\ MoveAt(id, 0) = mcs[id] /\ MoveAt(id, 1) = net[1].move[id]
             /\ RenderAt(id, 0) = rcs[id] /\ RenderAt(id, 1) = net[1].render[id]
             /\ MoveAt(id, 0)' = mcs'[id] /\ RenderAt(id, 0)' = rcs'[id]
  BY DEF MoveAt, RenderAt
<1>3. ASSUME NEW id \in Ids, NEW j \in 0 .. N
      PROVE  MoveAt(id, j) \in Nat /\ RenderAt(id, j) \in Nat
  BY <1>1, EntryTypes
<1>4. ASSUME NEW id \in Ids, NEW j \in 1 .. N - 1
      PROVE  /\ MoveAt(id, j)' = MoveAt(id, j + 1) /\ RenderAt(id, j)' = RenderAt(id, j + 1)
             /\ Lasts(id, j)' <=> Lasts(id, j + 1)
             /\ j + 1 \in 0 .. N
  <2>1. j # 0 /\ j + 1 # 0 /\ j + 1 \in 1 .. N /\ (j + 1) - 1 = j
    BY <1>1
  <2>2. Lasts(id, j + 1) <=> Lasts(id, (j + 1) - 1)'
    BY <1>1, <2>1, LastsTaken
  <2> QED
    BY <1>1, <2>1, <2>2 DEF MoveAt, RenderAt
<1>5. ASSUME NEW id \in Ids
      PROVE  /\ Lasts(id, 0)' <=> Lasts(id, 1)
             /\ Lasts(id, 0) <=> Lasts(id, 1) /\ ~Removes(1, id)
  <2>1. 1 \in 1 .. N /\ 1 - 1 = 0
    BY <1>1
  <2>2. /\ Lasts(id, 1) <=> Lasts(id, 1 - 1)'
        /\ Lasts(id, 0) <=> Lasts(id, 1) /\ ~Removes(1, id)
    BY <1>1, <2>1, LastsTaken
  <2> QED
    BY <2>1, <2>2
<1>6. ASSUME NEW id \in Ids
      PROVE  /\ Removes(1, id) => /\ MoveAt(id, 0)' = None /\ RenderAt(id, 0)' = None
                                  /\ MoveAt(id, 1) = None /\ RenderAt(id, 1) = None
             /\ ~Removes(1, id) =>
                  /\ MoveAt(id, 0)' = IF MoveAt(id, 1) # None THEN MoveAt(id, 1) ELSE MoveAt(id, 0)
                  /\ RenderAt(id, 0)' =
                       IF RenderAt(id, 1) # None THEN RenderAt(id, 1) ELSE RenderAt(id, 0)
  BY <1>2 DEF Applied
<1>7. ASSUME NEW id \in Ids
      PROVE  Within(MoveAt(id, 0), MoveAt(id, 1)) /\ Within(RenderAt(id, 0), RenderAt(id, 1))
  <2>1. Within(mcs[id], net[1].move[id])
    BY <1>1 DEF ClientAges
  <2>2. 0 \in 0 .. 1 - 1
    OBVIOUS
  <2> QED
    BY <1>1, <1>2, <2>1, <2>2 DEF Lives, LooksInOrder
<1>8. ASSUME NEW id \in Ids, ~Removes(1, id)
      PROVE  MoveAt(id, 0) <= MoveAt(id, 0)' /\ RenderAt(id, 0) <= RenderAt(id, 0)'
  BY <1>1, <1>3, <1>6, <1>7, <1>8 DEF Within, None
<1>9. \A id \in Ids : ~Removes(1, id) => mcs[id] <= mcs'[id] /\ rcs[id] <= rcs'[id]
  BY <1>2, <1>8
<1>10. LooksTold(stamp)'
  <2>1. ASSUME NEW id \in Ids, NEW j \in 0 .. N - 1
        PROVE  RenderAt(id, j)' <= stamp
    <3>1. \A k \in 0 .. N : RenderAt(id, k) <= stamp
      BY <1>1 DEF Lives, LooksTold
    <3>2. None <= stamp
      BY DEF Inv, ServerTypeOK, Stamps, None
    <3> QED
      BY <1>1, <1>4, <1>6, <3>1, <3>2
  <2> QED
    BY <1>1, <2>1 DEF LooksTold
<1>11. LooksInOrder'
  <2>1. ASSUME NEW id \in Ids, NEW j \in 0 .. N - 1, NEW i \in 0 .. j - 1
        PROVE  Within(RenderAt(id, i)', RenderAt(id, j)')
    <3>1. /\ j \in 1 .. N - 1 /\ j + 1 \in 0 .. N
          /\ 0 \in 0 .. (j + 1) - 1 /\ 1 \in 0 .. (j + 1) - 1
          /\ i = 0 \/ (i \in 1 .. N - 1 /\ i + 1 \in 0 .. (j + 1) - 1)
      BY <1>1, <2>1
    <3>2. \A k \in 0 .. (j + 1) - 1 : Within(RenderAt(id, k), RenderAt(id, j + 1))
      BY <1>1, <3>1 DEF Lives, LooksInOrder
    <3>3. Within(None, RenderAt(id, j + 1))
      BY <1>3, <3>1 DEF Within, None
    <3> QED
      BY <1>4, <1>6, <3>1, <3>2, <3>3
  <2> QED
    BY <1>1, <2>1 DEF LooksInOrder
<1>12. RemovedOld(born)'
  <2>1. ASSUME NEW id \in Ids, NEW j \in 0 .. N - 1, ~Lasts(id, j)', born[id] # None
        PROVE  MoveAt(id, j)' < born[id] /\ RenderAt(id, j)' < born[id]
    <3>1. \A k \in 0 .. N : ~Lasts(id, k) => MoveAt(id, k) < born[id] /\ RenderAt(id, k) < born[id]
      BY <1>1, <2>1 DEF Lives, RemovedOld
    <3>2. None < born[id]
      BY <2>1 DEF Inv, ServerTypeOK, Components, Stamps, None
    <3> QED
      BY <1>1, <1>4, <1>5, <1>6, <2>1, <3>1, <3>2
  <2> QED
    BY <1>1, <2>1 DEF RemovedOld
<1>13. LooksFollow'
  <2>1. ASSUME NEW id \in Ids, NEW j \in 0 .. N - 1, RenderAt(id, j)' # None
        PROVE  \E i \in 0 .. j : MoveAt(id, i)' >= RenderAt(id, j)' /\ Survives(id, i, j)'
    <3>1. ASSUME NEW k \in 0 .. N, RenderAt(id, k) # None
          PROVE  \E i \in 0 .. k : MoveAt(id, i) >= RenderAt(id, k) /\ Survives(id, i, k)
      BY <1>1, <3>1 DEF Lives, LooksFollow
    <3>2. CASE j = 0
      <4>1. ~Removes(1, id) /\ RenderAt(id, 0)' \in {RenderAt(id, 0), RenderAt(id, 1)}
        BY <1>6, <2>1, <3>2
      <4>2. MoveAt(id, 0)' \in Nat /\ MoveAt(id, 0)' >= MoveAt(id, 0) /\ MoveAt(id, 0)' >= MoveAt(id, 1)
        BY <1>1, <1>3, <1>6, <1>8, <4>1 DEF None
      <4>3. MoveAt(id, 0)' >= RenderAt(id, 0)'
        <5>1. PICK k \in 0 .. 1 : RenderAt(id, 0)' = RenderAt(id, k)
          BY <4>1
        <5>2. k \in 0 .. N /\ RenderAt(id, k) # None /\ \A i \in 0 .. k : i \in {0, 1}
          BY <1>1, <2>1, <3>2, <5>1
        <5>3. PICK i \in {0, 1} : MoveAt(id, i) >= RenderAt(id, k)
          BY <3>1, <5>2
        <5> QED
          BY <1>1, <1>3, <4>2, <5>1, <5>2, <5>3
      <4>4. Survives(id, 0, 0)'
        BY DEF Survives
      <4> QED
        BY <3>2, <4>3, <4>4
    <3>3. CASE j \in 1 .. N - 1
      <4>1. /\ RenderAt(id, j)' = RenderAt(id, j + 1) /\ j + 1 \in 0 .. N /\ j + 1 \in 1 .. N
            /\ (j + 1) - 1 = j /\ j + 1 > 1
        BY <1>1, <1>4, <3>3
      <4>2. PICK i \in 0 .. j + 1 : /\ MoveAt(id, i) >= RenderAt(id, j + 1)
                                    /\ Survives(id, i, j + 1)
        BY <2>1, <3>1, <4>1
      <4>3. /\ i > 0 => Survives(id, i - 1, (j + 1) - 1)'
            /\ i = 0 => Survives(id, 0, (j + 1) - 1)' /\ ~Removes(1, id)
        BY <1>1, <4>1, <4>2, SurvivesTaken
      <4>4. CASE i = 0
        <5>1. MoveAt(id, 0)' >= MoveAt(id, 0) /\ MoveAt(id, 0)' \in Nat
          BY <1>1, <1>3, <1>6, <1>8, <4>3, <4>4
        <5>2. MoveAt(id, 0)' >= RenderAt(id, j)'
          BY <1>1, <1>3, <4>1, <4>2, <4>4, <5>1
        <5> QED
          BY <3>3, <4>1, <4>3, <4>4, <5>2
      <4>5. CASE i = 1
        <5>1. RenderAt(id, j + 1) # None /\ RenderAt(id, j + 1) \in Nat
          BY <1>3, <2>1, <4>1
        <5>2. MoveAt(id, 1) # None
          BY <1>1, <1>3, <4>2, <4>5, <5>1 DEF None
        <5>3. MoveAt(id, 0)' = MoveAt(id, 1)
          BY <1>6, <5>2
        <5>4. i > 0 /\ i - 1 = 0
          BY <4>5
        <5> QED
          BY <3>3, <4>1, <4>2, <4>3, <4>5, <5>3, <5>4
      <4>6. CASE i > 1
        <5>1. i - 1 \in 1 .. N - 1 /\ i - 1 \in 0 .. j /\ (i - 1) + 1 = i /\ i > 0
          BY <1>1, <3>3, <4>6
        <5>2. MoveAt(id, i - 1)' = MoveAt(id, i)
          BY <1>4, <5>1
        <5> QED
          BY <4>1, <4>2, <4>3, <5>1, <5>2
      <4>7. i = 0 \/ i = 1 \/ i > 1
        BY <1>1
      <4> QED
        BY <4>4, <4>5, <4>6, <4>7
    <3> QED
      BY <1>1, <3>2, <3>3
  <2> QED
    BY <1>1, <2>1 DEF LooksFollow
<1> QED
  BY <1>9, <1>10, <1>11, <1>12, <1>13 DEF Lives

-----------------------------------------------------------------------------
(* A new life begins later than all that was told. *)
LEMMA CreatedLife ==
    ASSUME Inv, Inv', ServerAges, NetAges, ClientAges, RendersTrue, Lives,
           NEW new \in Ids, Create(new)
    PROVE  /\ LooksTold(stamp') /\ LooksInOrder /\ RemovedOld(born') /\ LooksFollow
           /\ \A id \in Ids, j \in Entries : Within(RenderAt(id, j), born'[id])
           /\ \A id \in Ids : born'[id] <= stamp'
<1>1. /\ stamp' = stamp + 1 /\ stamp \in Nat
      /\ born'[new] = stamp' /\ \A id \in Ids : id # new => born'[id] = born[id]
      /\ \A id \in Ids : born[id] \in Nat /\ born[id] <= stamp
  <2>1. \A id \in Ids : born[id] \in Nat /\ moves[id] \in Nat /\ born[id] <= moves[id] /\ moves[id] <= stamp
    BY DEF ServerAges, Inv, ServerTypeOK, Components, Stamps, None
  <2> QED
    BY <2>1 DEF Create, Inv, ServerTypeOK, Components, Stamps
<1>2. ASSUME NEW id \in Ids, NEW j \in Entries
      PROVE  /\ MoveAt(id, j) \in Nat /\ RenderAt(id, j) \in Nat
             /\ MoveAt(id, j) <= stamp /\ RenderAt(id, j) <= stamp
             /\ Within(RenderAt(id, j), born[id])
  <2>1. j = 0 \/ j \in UnderWay
    BY DEF Entries, UnderWay, Inv, NetTypeOK
  <2>2. MoveAt(id, j) <= stamp
    BY <2>1 DEF MoveAt, NetAges, ClientAges, Told, Entries, UnderWay
  <2> QED
    BY <2>2, EntryTypes, LooksBehind DEF Lives, LooksTold
<1>3. LooksTold(stamp')
  BY <1>1, <1>2 DEF LooksTold
<1>4. RemovedOld(born')
  <2>1. ASSUME NEW id \in Ids, NEW j \in Entries, ~Lasts(id, j), born'[id] # None
        PROVE  MoveAt(id, j) < born'[id] /\ RenderAt(id, j) < born'[id]
    <3>1. CASE id = new
      BY <1>1, <1>2, <3>1
    <3>2. CASE id # new
      BY <1>1, <2>1, <3>2 DEF Lives, RemovedOld
    <3> QED
      BY <3>1, <3>2
  <2> QED
    BY <2>1 DEF RemovedOld
<1>5. ASSUME NEW id \in Ids, NEW j \in Entries
      PROVE  Within(RenderAt(id, j), born'[id])
  <2>1. CASE id = new
    BY <1>1, <1>2, <2>1 DEF Within
  <2>2. CASE id # new
    BY <1>1, <1>2, <2>2
  <2> QED
    BY <2>1, <2>2
<1>6. \A id \in Ids : born'[id] <= stamp'
  BY <1>1
<1> QED
  BY <1>3, <1>4, <1>5, <1>6 DEF Lives

(* A step that sends nothing. *)
LEMMA KeptLife ==
    ASSUME UNCHANGED <<net, mcs, rcs>>,
           LooksTold(stamp'), LooksInOrder, RemovedOld(born'), LooksFollow
    PROVE  Lives'
BY DEF Lives, LooksTold, LooksInOrder, RemovedOld, LooksFollow, Entries, MoveAt, RenderAt,
       Lasts, Survives, Removes

LEMMA OtherJoinsLife ==
    ASSUME LifeInv, Inv', NEW new \in Ids, OtherJoins(new), faults' = 0
    PROVE  Lives'
<1>1. faults = 0 /\ UNCHANGED <<net, mcs, rcs>> /\ Create(new)
  BY DEF OtherJoins, netVars, clientVars, ecsVars
<1>2. Inv /\ ServerAges /\ NetAges /\ ClientAges /\ RendersTrue /\ Lives
  BY <1>1 DEF LifeInv, MirrorInv, AgeInv, Mirror
<1> QED
  BY <1>1, <1>2, CreatedLife, KeptLife

LEMMA JoinLife ==
    ASSUME LifeInv, Inv', NEW new \in Ids, Join(new), faults' = 0
    PROVE  Lives'
<1>1. /\ faults = 0 /\ UNCHANGED <<mcs, rcs>> /\ Create(new) /\ player = None
  BY DEF Join, clientVars, ecsVars
<1>2. /\ Inv /\ ServerAges /\ NetAges /\ ClientAges /\ RendersTrue /\ Lives /\ net = <<>>
  BY <1>1 DEF LifeInv, MirrorInv, AgeInv, Mirror, Unconnected
<1>3. born' \in Components /\ Of(born') \in SUBSET Ids
  BY DEF Inv, ServerTypeOK, Of
<1>4. PICK c \in Splits(Of(born')) : net' = net \o Transmission(c) \o <<Reply(new)>>
  BY DEF Join
<1> DEFINE ext == Transmission(c) \o <<Reply(new)>>
<1>5. Transmitted(ext, c, new, born')
  BY <1>3, TransmissionPackets, Zenon
<1>6. ext \in Seq(PairedPackets) /\ net' = net \o ext
  <2>1. Transmission(c) \in Seq(PairedPackets) /\ Reply(new) \in PairedPackets
    BY <1>3, TransmissionType, NothingType, PacketType DEF Reply, Types
  <2> QED
    BY <1>2, <1>4, <2>1
<1> HIDE DEF ext
<1>7. ASSUME NEW j \in 1 .. Len(ext)
      PROVE  /\ ext[j].type # "REMOVE_ID"
             /\ \A id \in Ids : /\ ext[j].move[id] \in {None, born'[id]}
                                /\ ext[j].render[id] = ext[j].move[id]
  <2>1. CarriesCreated(ext, new, born')
    BY <1>5, TransmissionCarries, Zenon
  <2> QED
    BY <2>1 DEF CarriesCreated
<1>8. /\ LooksTold(stamp') /\ LooksInOrder /\ RemovedOld(born') /\ LooksFollow
      /\ \A id \in Ids, j \in Entries : Within(RenderAt(id, j), born'[id])
      /\ \A id \in Ids : born'[id] <= stamp'
  BY <1>1, <1>2, CreatedLife
<1>9. ASSUME NEW id \in Ids, NEW j \in 1 .. Len(ext)
      PROVE  \E i \in 1 .. j : /\ ext[i].move[id] >= ext[j].render[id]
                               /\ \A m \in i + 1 .. j - 1 : ext[m].type # "REMOVE_ID"
  <2>1. ext[j].move[id] >= ext[j].render[id]
    BY <1>3, <1>7 DEF Components, Stamps, None
  <2>2. j \in 1 .. j /\ j + 1 .. j - 1 = {}
    BY <1>6
  <2> QED
    BY <2>1, <2>2
<1>10. /\ \A id \in Ids : \A j \in 1 .. Len(ext) : ext[j].render[id] \in {None, born'[id]}
       /\ \A id \in Ids : born'[id] # None =>
            \A j \in 1 .. Len(ext) : ext[j].type = "REMOVE_ID" => ext[j].id # id
       /\ \A id \in Ids : \A j \in 1 .. Len(ext) : ext[j].render[id] # None =>
            \E i \in 1 .. j : /\ ext[i].move[id] >= ext[j].render[id]
                              /\ \A m \in i + 1 .. j - 1 : ext[m].type # "REMOVE_ID"
  BY <1>7, <1>9
<1> QED
  BY <1>1, <1>2, <1>6, <1>8, <1>10, LifeSent

LEMMA OtherLeavesLife ==
    ASSUME LifeInv, Inv', NEW gone \in Ids, OtherLeaves(gone), faults' = 0
    PROVE  Lives'
<1>1. /\ faults = 0 /\ UNCHANGED <<stamp, mcs, rcs>>
      /\ born' = [born EXCEPT ![gone] = None]
  BY DEF OtherLeaves, clientVars, ecsVars
<1>2. Inv /\ ServerAges /\ RendersTrue /\ Lives
  BY <1>1 DEF LifeInv, MirrorInv, AgeInv, Mirror
<1>3. /\ born'[gone] = None
      /\ \A id \in Ids : id # gone => born'[id] = born[id]
  BY <1>1, <1>2 DEF Inv, ServerTypeOK, Components
<1>4. LooksTold(stamp') /\ LooksInOrder /\ LooksFollow
  BY <1>1, <1>2 DEF Lives
<1>5. RemovedOld(born')
  BY <1>2, <1>3 DEF Lives, RemovedOld
<1>6. ASSUME NEW id \in Ids, NEW j \in Entries
      PROVE  Within(RenderAt(id, j), born'[id])
  <2>1. CASE id = gone
    BY <1>3, <2>1 DEF Within
  <2>2. CASE id # gone
    BY <1>2, <1>3, <2>2, LooksBehind
  <2> QED
    BY <2>1, <2>2
<1>7. ASSUME NEW id \in Ids
      PROVE  born'[id] <= stamp'
  <2>1. /\ born[id] \in Nat /\ moves[id] \in Nat /\ stamp \in Nat
        /\ born[id] <= moves[id] /\ moves[id] <= stamp
    BY <1>2 DEF ServerAges, Inv, ServerTypeOK, Components, Stamps, None
  <2>2. born'[id] = None \/ born'[id] = born[id]
    BY <1>3
  <2> QED
    BY <1>1, <2>1, <2>2 DEF None
<1>8. CASE player = None
  <2>1. net' = net
    BY <1>8 DEF OtherLeaves
  <2> QED
    BY <1>1, <1>4, <1>5, <2>1, KeptLife
<1>9. CASE player # None
  <2> DEFINE ext == <<RemoveId(gone)>>
  <2>1. net \in Seq(PairedPackets) /\ RemoveId(gone) \in PairedPackets
    BY <1>2, NothingType, PacketType DEF Inv, NetTypeOK, RemoveId, Types
  <2>2. ext \in Seq(PairedPackets) /\ net' = net \o ext
    BY <1>9, <2>1 DEF OtherLeaves
  <2>3. \A j \in 1 .. Len(ext) : /\ ext[j].id = gone
                                 /\ \A id \in Ids : ext[j].render[id] = None
    BY DEF RemoveId, Packet, Nothing
  <2> HIDE DEF ext
  <2>4. /\ \A id \in Ids : \A j \in 1 .. Len(ext) : ext[j].render[id] \in {None, born'[id]}
        /\ \A id \in Ids : born'[id] # None =>
             \A j \in 1 .. Len(ext) : ext[j].type = "REMOVE_ID" => ext[j].id # id
        /\ \A id \in Ids : \A j \in 1 .. Len(ext) : ext[j].render[id] # None =>
             \E i \in 1 .. j : /\ ext[i].move[id] >= ext[j].render[id]
                               /\ \A m \in i + 1 .. j - 1 : ext[m].type # "REMOVE_ID"
    BY <1>3, <2>3
  <2> QED
    BY <1>1, <1>2, <1>4, <1>5, <1>6, <1>7, <2>2, <2>4, LifeSent
<1> QED
  BY <1>8, <1>9

(* The diffs tell the new lives, each behind its place. *)
LEMMA SendDiffLife ==
    ASSUME LifeInv, Inv', SendDiff, faults' = 0
    PROVE  Lives'
<1> DEFINE ext == MoveDiffs \o RenderDiffs
<1>1. faults = 0 /\ UNCHANGED <<moves, born, stamp, mcs, rcs>>
  BY DEF SendDiff, DiffsSent, clientVars, ecsVars
<1>2. Inv /\ ServerAges /\ RendersTrue /\ Lives /\ renderDiff \subseteq moveDiff
  BY <1>1 DEF LifeInv, MirrorInv, AgeInv, Mirror
<1>3. LooksTold(stamp') /\ LooksInOrder /\ RemovedOld(born') /\ LooksFollow
  BY <1>1, <1>2 DEF Lives
<1>4. \A id \in Ids, j \in Entries : Within(RenderAt(id, j), born'[id])
  BY <1>1, <1>2, LooksBehind
<1>5. ASSUME NEW id \in Ids
      PROVE  /\ born[id] \in Nat /\ moves[id] \in Nat /\ stamp \in Nat
             /\ born[id] <= moves[id] /\ born[id] <= stamp
  <2>1. /\ born[id] \in Nat /\ moves[id] \in Nat /\ stamp \in Nat
        /\ born[id] <= moves[id] /\ moves[id] <= stamp
    BY <1>2 DEF ServerAges, Inv, ServerTypeOK, Components, Stamps, None
  <2> QED
    BY <2>1
<1>6. CASE player = None
  <2>1. net' = net
    BY <1>6 DEF SendDiff, DiffsSent
  <2> QED
    BY <1>1, <1>3, <2>1, KeptLife
<1>7. CASE player # None
  <2>1. /\ Packet("MOVEDIFF", Only(moves, moveDiff), Nothing, None) \in PairedPackets
        /\ Packet("RENDERDIFF", Nothing, Only(born, renderDiff), None) \in PairedPackets
    BY <1>2, NothingType, OnlyType, PacketType DEF Inv, ServerTypeOK, Types
  <2>2. /\ MoveDiffs \in Seq(PairedPackets) /\ RenderDiffs \in Seq(PairedPackets)
        /\ net' = net \o ext
    BY <1>7, <2>1 DEF MoveDiffs, RenderDiffs, SendDiff, DiffsSent
  <2>3. \A j \in 1 .. Len(MoveDiffs) :
           /\ MoveDiffs[j].type = "MOVEDIFF"
           /\ \A id \in Ids : MoveDiffs[j].render[id] = None
           /\ \A id \in moveDiff \cap Ids : MoveDiffs[j].move[id] = moves[id]
    BY DEF MoveDiffs, Packet, Only, Nothing
  <2>4. \A j \in 1 .. Len(RenderDiffs) :
           /\ RenderDiffs[j].type = "RENDERDIFF"
           /\ \A id \in Ids : RenderDiffs[j].render[id] = IF id \in renderDiff THEN born[id] ELSE None
    BY DEF RenderDiffs, Packet, Only
  <2>5. /\ Len(MoveDiffs) = IF moveDiff = {} THEN 0 ELSE 1
        /\ Len(RenderDiffs) = IF renderDiff = {} THEN 0 ELSE 1
    BY DEF MoveDiffs, RenderDiffs
  <2>6. /\ ext \in Seq(PairedPackets) /\ Len(ext) = Len(MoveDiffs) + Len(RenderDiffs)
        /\ \A j \in 1 .. Len(MoveDiffs) : ext[j] = MoveDiffs[j]
        /\ \A j \in 1 .. Len(RenderDiffs) : ext[Len(MoveDiffs) + j] = RenderDiffs[j]
    BY <2>2
  <2> HIDE DEF ext
  <2>7. ASSUME NEW j \in 1 .. Len(ext)
        PROVE  \/ j = 1 /\ Len(MoveDiffs) = 1 /\ ext[j] = MoveDiffs[1]
               \/ /\ j = Len(MoveDiffs) + 1 /\ ext[j] = RenderDiffs[1]
                  /\ 1 \in 1 .. Len(RenderDiffs) /\ renderDiff # {}
    BY <2>5, <2>6
  <2>8. ASSUME NEW j \in 1 .. Len(ext)
        PROVE  /\ ext[j].type # "REMOVE_ID"
               /\ \A id \in Ids : ext[j].render[id] \in {None, born[id]}
    BY <2>3, <2>4, <2>7
  <2>9. ASSUME NEW id \in Ids, NEW j \in 1 .. Len(ext), ext[j].render[id] # None
        PROVE  \E i \in 1 .. j : /\ ext[i].move[id] >= ext[j].render[id]
                                 /\ \A m \in i + 1 .. j - 1 : ext[m].type # "REMOVE_ID"
    <3>1. ext[j] # MoveDiffs[1] \/ Len(MoveDiffs) # 1
      BY <2>3, <2>9
    <3>2. /\ j = Len(MoveDiffs) + 1 /\ ext[j] = RenderDiffs[1] /\ 1 \in 1 .. Len(RenderDiffs)
          /\ renderDiff # {}
      BY <2>7, <3>1
    <3>3. id \in renderDiff /\ ext[j].render[id] = born[id]
      BY <2>4, <2>9, <3>2
    <3>4. Len(MoveDiffs) = 1 /\ j = 2 /\ id \in moveDiff
      BY <1>2, <2>5, <3>2, <3>3
    <3>5. ext[1] = MoveDiffs[1] /\ ext[1].move[id] = moves[id]
      BY <2>3, <2>6, <3>4
    <3>6. ext[1].move[id] >= ext[j].render[id]
      BY <1>5, <3>3, <3>5
    <3>7. 1 \in 1 .. j /\ 1 + 1 .. j - 1 = {}
      BY <3>4
    <3> QED
      BY <3>6, <3>7
  <2>10. /\ \A id \in Ids : born'[id] <= stamp'
         /\ \A id \in Ids : \A j \in 1 .. Len(ext) : ext[j].render[id] \in {None, born'[id]}
         /\ \A id \in Ids : born'[id] # None =>
              \A j \in 1 .. Len(ext) : ext[j].type = "REMOVE_ID" => ext[j].id # id
         /\ \A id \in Ids : \A j \in 1 .. Len(ext) : ext[j].render[id] # None =>
              \E i \in 1 .. j : /\ ext[i].move[id] >= ext[j].render[id]
                                /\ \A m \in i + 1 .. j - 1 : ext[m].type # "REMOVE_ID"
    BY <1>1, <1>5, <2>8, <2>9
  <2> QED
    BY <1>1, <1>2, <1>3, <1>4, <2>2, <2>6, <2>10, LifeSent
<1> QED
  BY <1>6, <1>7

(* What a client that is told everything in order does with a packet. *)
LEMMA ReceivedInOrder ==
    ASSUME LifeInv, NEW i \in UnderWay, Receive(i), faults' = 0
    PROVE  /\ faults = 0 /\ net # <<>> /\ net' = Tail(net)
           /\ UNCHANGED serverVars
           /\ Inv /\ Inv' /\ Lives /\ ClientAges /\ RendersTrue
           /\ Applied
           /\ \/ HandleBegin(1) \/ HandleInitial(1) \/ HandleEnd(1) \/ HandleReply(1)
              \/ HandleMoveDiff(1) \/ HandleRenderDiff(1) \/ HandleRemoveId(1)
<1>1. clientState \in DOMAIN Handled /\ net # <<>>
  BY DEF Receive, HandleBegin, HandleInitial, HandleEnd, HandleReply, HandleMoveDiff,
         HandleRenderDiff, HandleRemoveId, RemoveIdThrows, Ignored, Handle, Handled, UnderWay
<1>2. Inv /\ faults = 0 /\ i = 1 /\ net' = Tail(net) /\ UNCHANGED serverVars
  BY ReceivedMove DEF LifeInv, MirrorInv, AgeInv
<1>3. WayInv /\ ClientAges /\ RendersTrue /\ Lives
  BY <1>1, <1>2 DEF LifeInv, MirrorInv, OrderInv, AgeInv, Mirror, Handled
<1>4. OrderInv'
  BY ReceiveOrder DEF LifeInv, MirrorInv
<1>5. Inv' /\ clientState' # "Crashed"
  BY <1>4 DEF OrderInv
<1> QED
  BY <1>1, <1>2, <1>3, <1>5, ReceiveApplies

LEMMA InitLife == Init => LifeInv
<1> SUFFICES ASSUME Init PROVE LifeInv
  OBVIOUS
<1>1. MirrorInv
  BY InitMirror
<1>2. /\ net = <<>> /\ rcs = Nothing /\ mcs = Nothing /\ stamp = 1
      /\ renderDiff = {} /\ moveDiff = {}
  BY DEF Init, NetInit
<1>3. Entries = {0} /\ \A id : Lasts(id, 0)
  BY <1>2 DEF Entries, Lasts, Survives
<1>4. \A id \in Ids : RenderAt(id, 0) = None
  BY <1>2 DEF RenderAt, Nothing
<1>5. None <= stamp /\ 0 .. 0 - 1 = {}
  BY <1>2 DEF None
<1>6. Lives
  BY <1>3, <1>4, <1>5 DEF Lives, LooksTold, LooksInOrder, RemovedOld, LooksFollow
<1> QED
  BY <1>1, <1>2, <1>6 DEF LifeInv

LEMMA NextLife ==
    ASSUME LifeInv, [Next]_vars
    PROVE  LifeInv'
<1>1. MirrorInv' /\ Inv /\ Inv'
  <2>1. MirrorInv'
    BY NextMirror DEF LifeInv
  <2> QED
    BY <2>1 DEF LifeInv, MirrorInv, AgeInv
<1>2. renderDiff' \subseteq moveDiff'
  BY DEF LifeInv, Next, Server, Join, OtherJoins, OtherLeaves, Create, Move, NoPacket, SendDiff,
         DiffsSent, Lose, Render, Receive, HandleBegin, HandleInitial, HandleEnd, HandleReply,
         HandleMoveDiff, HandleRenderDiff, HandleRemoveId, RemoveIdThrows, Ignored, Handle, Take,
         serverVars, entityVars, vars
<1>3. ASSUME faults' = 0
      PROVE  Lives'
  <2>1. CASE \E id \in Ids : Join(id) \/ OtherJoins(id) \/ OtherLeaves(id)
    BY <1>1, <1>3, <2>1, JoinLife, OtherJoinsLife, OtherLeavesLife
  <2>2. CASE SendDiff
    BY <1>1, <1>3, <2>2, SendDiffLife
  <2>3. CASE \E i \in UnderWay : Lose(i)
    BY <1>1, <1>3, <2>3 DEF Lose, Loses, Fault, Inv, NetTypeOK
  <2>4. CASE \E i \in UnderWay : Receive(i)
    <3>1. PICK i \in UnderWay : Receive(i)
      BY <2>4
    <3>2. UNCHANGED <<born, stamp>> /\ Inv /\ net # <<>> /\ net' = Tail(net)
      BY <1>3, <3>1, ReceivedInOrder DEF serverVars, entityVars
    <3> QED
      BY <1>1, <1>3, <3>1, <3>2, ReceivedInOrder, LifeTaken
  <2>5. CASE (\E movers \in SUBSET Alive : Move(movers)) \/ NoPacket \/ Render \/ UNCHANGED vars
    <3>1. /\ UNCHANGED <<faults, net, mcs, rcs, born>>
          /\ stamp' = stamp \/ stamp' = stamp + 1
      BY <2>5 DEF Move, NoPacket, Render, vars, serverVars, entityVars, netVars, clientVars, ecsVars
    <3>2. Lives
      BY <1>3, <3>1 DEF LifeInv
    <3>3. LooksTold(stamp')
      <4>1. \A id \in Ids, j \in Entries : RenderAt(id, j) \in Nat /\ RenderAt(id, j) <= stamp
        BY <1>1, <3>2, EntryTypes DEF Lives, LooksTold
      <4>2. stamp \in Nat
        BY <1>1 DEF Inv, ServerTypeOK, Stamps
      <4> QED
        BY <3>1, <4>1, <4>2 DEF LooksTold
    <3>4. LooksInOrder /\ RemovedOld(born') /\ LooksFollow
      BY <3>1, <3>2 DEF Lives
    <3> QED
      BY <3>1, <3>3, <3>4, KeptLife
  <2> QED
    BY <2>1, <2>2, <2>3, <2>4, <2>5 DEF Next, Server
<1> QED
  BY <1>1, <1>2, <1>3 DEF LifeInv

-----------------------------------------------------------------------------
(* What WorldCopy asks of the copy, whatever it learns. *)
OneLife == faults = 0 => \A id \in Ids : Copy!OfOneLife(id)

LEMMA LifeIsOne == LifeInv => OneLife
<1> SUFFICES ASSUME LifeInv, faults = 0, NEW id \in Ids
             PROVE  Copy!OfOneLife(id)
  BY DEF OneLife
<1>1. Inv /\ Lives /\ RendersTrue
  BY DEF LifeInv, MirrorInv, AgeInv, Mirror
<1>2. /\ 0 \in Entries /\ 0 .. 0 = {0}
      /\ MoveAt(id, 0) = mcs[id] /\ RenderAt(id, 0) = rcs[id]
  BY <1>1 DEF Inv, NetTypeOK, Entries, MoveAt, RenderAt
<1>3. rcs[id] \in {None} \cup Stamps /\ rcs[id] \in Nat /\ mcs[id] \in Nat /\ born[id] \in Nat
  BY <1>1, <1>2, EntryTypes DEF Inv, ServerTypeOK, Components, Stamps, None
<1>4. rcs[id] # None => rcs[id] <= mcs[id]
  <2>1. ASSUME rcs[id] # None
        PROVE  \E i \in {0} : MoveAt(id, i) >= RenderAt(id, 0)
    BY <1>1, <1>2, <2>1 DEF Lives, LooksFollow
  <2> QED
    BY <1>2, <1>3, <2>1
<1>5. ASSUME rcs[id] # None, born[id] # None, born[id] <= mcs[id]
      PROVE  rcs[id] = born[id]
  <2>1. Lasts(id, 0)
    BY <1>1, <1>2, <1>3, <1>5 DEF Lives, RemovedOld
  <2> QED
    BY <1>1, <1>2, <1>3, <1>5, <2>1 DEF RendersTrue, TellsRender
<1> QED
  BY <1>4, <1>5 DEF Copy!OfOneLife

(* A packet that is handled teaches the copy, or makes it forget one entity. *)
LEMMA ReceiveRefinesCopy ==
    ASSUME LifeInv, LifeInv', OneLife', NEW i \in UnderWay, Receive(i), faults' = 0
    PROVE  [Copy!Next]_Copy!vars
<1>1. /\ faults = 0 /\ net # <<>> /\ net' = Tail(net) /\ Inv /\ Inv' /\ Lives /\ ClientAges
      /\ Applied /\ RendersTrue
      /\ UNCHANGED <<moves, born, stamp>>
  BY ReceivedInOrder DEF serverVars, entityVars
<1>2. \A id \in Ids : ~Removes(1, id) => mcs[id] <= mcs'[id] /\ rcs[id] <= rcs'[id]
  BY <1>1, LifeTaken
<1>3. CASE HandleRemoveId(1)
  <2> DEFINE gone == net[1].id
  <2>1. /\ gone \in Both
        /\ mcs' = [mcs EXCEPT ![gone] = None] /\ rcs' = [rcs EXCEPT ![gone] = None]
        /\ Removes(1, gone)
    BY <1>3 DEF HandleRemoveId, Handle, Removes
  <2>2. gone \in Ids /\ rcs[gone] # None
    BY <2>1 DEF Both, Of
  <2> HIDE DEF gone
  <2>3. ~Lasts(gone, 0)
    BY <1>1, <2>1, LastsTaken DEF Inv, NetTypeOK
  <2>4. rcs[gone] # born[gone]
    <3>1. /\ 0 \in Entries /\ RenderAt(gone, 0) = rcs[gone] /\ born[gone] \in Nat
      BY <1>1, <2>2 DEF Inv, NetTypeOK, ServerTypeOK, Components, Stamps, None, Entries, RenderAt
    <3>2. born[gone] # None => rcs[gone] < born[gone]
      BY <1>1, <2>2, <2>3, <3>1 DEF Lives, RemovedOld
    <3> QED
      BY <2>2, <3>1, <3>2
  <2>5. Copy!Forgets(gone)
    BY <1>1, <2>1, <2>4 DEF Copy!Forgets, Copy!world
  <2>6. UNCHANGED (faults = 0)
    BY <1>1
  <2> QED
    BY <2>2, <2>5, <2>6 DEF Copy!Next
<1>4. CASE ~HandleRemoveId(1)
  <2>1. \A id \in Ids : ~Removes(1, id)
    <3>1. net[1].type # "REMOVE_ID"
      BY <1>4, ReceivedInOrder DEF HandleBegin, HandleInitial, HandleEnd, HandleReply,
         HandleMoveDiff, HandleRenderDiff, Handle
    <3> QED
      BY <3>1 DEF Removes
  <2>2. ASSUME NEW id \in Ids
        PROVE  /\ mcs'[id] <= stamp /\ rcs'[id] <= stamp
               /\ mcs[id] <= mcs'[id] /\ rcs[id] <= rcs'[id]
    <3>1. ClientAges' /\ Lives'
      BY <1>1 DEF LifeInv, MirrorInv, AgeInv
    <3>2. 0 \in Entries' /\ RenderAt(id, 0)' = rcs'[id]
      BY <1>1 DEF Inv, NetTypeOK, Entries, RenderAt
    <3>3. rcs'[id] <= stamp'
      BY <3>1, <3>2 DEF Lives, LooksTold
    <3>4. mcs'[id] <= stamp'
      BY <3>1 DEF ClientAges, Told
    <3> QED
      BY <1>1, <1>2, <2>1, <3>3, <3>4
  <2>3. mcs' \in [Ids -> Nat] /\ rcs' \in [Ids -> Nat]
    BY <1>1 DEF Inv, ClientTypeOK, Components, Stamps, None
  <2>4. \A id \in Ids : Copy!OfOneLife(id)'
    BY DEF OneLife
  <2>5. Copy!Goes(rcs, rcs') /\ Copy!Goes(mcs, mcs')
    BY <2>2, <2>3 DEF Copy!Goes
  <2>6. Copy!Learns
    BY <1>1, <2>4, <2>5 DEF Copy!Learns, Copy!world
  <2>7. UNCHANGED (faults = 0)
    BY <1>1
  <2> QED
    BY <2>6, <2>7 DEF Copy!Next
<1> QED
  BY <1>3, <1>4

LEMMA NextRefinesCopy ==
    ASSUME LifeInv, LifeInv', OneLife', [Next]_vars
    PROVE  [Copy!Next]_Copy!vars
<1>1. CASE faults' # 0
  <2>1. (faults' = 0) = FALSE
    BY <1>1
  <2> QED
    BY <2>1 DEF Copy!Next, Copy!Fails
<1>2. ASSUME faults' = 0
      PROVE  [Copy!Next]_Copy!vars
  <2>1. /\ Of(moves) = Of(born)
        /\ Inv
    BY DEF LifeInv, MirrorInv, AgeInv, OrderInv, SameIds
  <2>2. \A id \in Ids : moves[id] # None <=> born[id] # None
    BY <2>1 DEF Of
  <2>3. CASE \E id \in Ids : Join(id) \/ OtherJoins(id)
    <3>1. PICK id \in Ids : Join(id) \/ OtherJoins(id)
      BY <2>3
    <3>2. Create(id) /\ UNCHANGED <<faults, mcs, rcs>>
      BY <3>1 DEF Join, OtherJoins, netVars, clientVars, ecsVars
    <3>3. Copy!Enters(id)
      BY <2>2, <3>2 DEF Create, Alive, Of, Copy!Enters, Copy!Ticks, Copy!copy
    <3> QED
      BY <3>2, <3>3 DEF Copy!Next
  <2>4. CASE \E id \in Ids : OtherLeaves(id)
    <3>1. PICK id \in Ids : OtherLeaves(id)
      BY <2>4
    <3>2. UNCHANGED <<faults, mcs, rcs>>
      BY <3>1 DEF OtherLeaves, clientVars, ecsVars
    <3>3. Copy!Leaves(id)
      BY <2>2, <3>1, <3>2 DEF OtherLeaves, Alive, Of, Copy!Leaves, Copy!copy
    <3> QED
      BY <3>2, <3>3 DEF Copy!Next
  <2>5. CASE \E movers \in SUBSET Alive : Move(movers)
    <3>1. PICK movers \in SUBSET Alive : Move(movers)
      BY <2>5
    <3>2. UNCHANGED <<faults, mcs, rcs>>
      BY <3>1 DEF Move, netVars, clientVars, ecsVars
    <3>3. Copy!Moves(movers) /\ movers \in SUBSET Ids
      BY <2>2, <3>1, <3>2 DEF Move, Alive, Of, Copy!Moves, Copy!Ticks, Copy!copy
    <3> QED
      BY <3>2, <3>3 DEF Copy!Next
  <2>6. CASE NoPacket \/ SendDiff \/ Render \/ UNCHANGED vars
    BY <2>6 DEF NoPacket, SendDiff, DiffsSent, Render, vars, serverVars, entityVars, netVars,
                clientVars, ecsVars, Copy!vars, Copy!world, Copy!copy
  <2>7. CASE \E i \in UnderWay : Lose(i)
    BY <1>2, <2>1, <2>7 DEF Lose, Loses, Fault, Inv, NetTypeOK
  <2>8. CASE \E i \in UnderWay : Receive(i)
    BY <1>2, <2>8, ReceiveRefinesCopy
  <2> QED
    BY <2>3, <2>4, <2>5, <2>6, <2>7, <2>8 DEF Next, Server
<1> QED
  BY <1>1, <1>2

(* The client's maps of components are, at every moment and for any number   *)
(* of packets under way, a copy such as WorldCopy promises.                  *)
THEOREM CopyIsFaithful == Spec => CopiesFaithfully
<1>1. Init => LifeInv
  BY InitLife
<1>2. LifeInv /\ [Next]_vars => LifeInv'
  BY NextLife
<1>3. Init => Copy!Init
  <2> SUFFICES ASSUME Init PROVE Copy!Init
    OBVIOUS
  <2>1. born \in [Ids -> {None, stamp}]
    BY DEF Init, Only
  <2> QED
    BY <2>1 DEF Init, NetInit, Nothing, Copy!Init
<1>4. LifeInv /\ LifeInv' /\ OneLife' /\ [Next]_vars => [Copy!Next]_Copy!vars
  BY NextRefinesCopy
<1>5. LifeInv => OneLife
  BY LifeIsOne
<1> QED
  BY <1>1, <1>2, <1>3, <1>4, <1>5, PTL DEF Spec, CopiesFaithfully, Copy!Spec
=============================================================================
