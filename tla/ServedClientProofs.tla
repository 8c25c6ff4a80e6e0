--------------------------- MODULE ServedClientProofs ---------------------------
(* Theorems about ServedClient, for every set of ids, scenery and size of     *)
(* container. *)
EXTENDS ServedClient, TLAPS

(* The server of ClientWorld keeps the entities in its two maps of stamps.   *)
Stamped == /\ moves \in World!Components
           /\ born \in World!Components
           /\ World!Alive = shown
           /\ World!Of(born) = shown
           /\ stamp \in World!Stamps

(* The scenery stays, since only players leave; a diff that was sent is      *)
(* empty until the next update.                                              *)
Told == /\ Scenery \subseteq shown
        /\ shown \subseteq Ids
        /\ players \subseteq shown \ Scenery
        /\ moved \subseteq shown
        /\ appeared \subseteq shown
        /\ phase \in {"update", "poll"}
        /\ phase = "poll" => moved = {} /\ appeared = {}

Inv == Stamped /\ Told

LEMMA InitInv == HistoryInit => Inv
<1> SUFFICES ASSUME HistoryInit PROVE Inv
  OBVIOUS
<1>1. Scenery \subseteq Ids /\ 1 \in 1 .. MaxStamp
  BY SceneryAssumption, MaxStampAssumption
<1>2. Stamped
  <2>1. /\ moves = [id \in Ids |-> IF id \in Scenery THEN 1 ELSE 0]
        /\ born = moves /\ stamp = 1 /\ shown = Scenery
    BY DEF HistoryInit
  <2>2. moves \in World!Components
    BY <1>1, <2>1 DEF World!Components, World!Stamps, World!None
  <2>3. World!Of(moves) = Scenery
    <3>1. ASSUME NEW id \in Ids
          PROVE  moves[id] # 0 <=> id \in Scenery
      <4>1. CASE id \in Scenery
        <5>1. moves[id] = 1
          BY <2>1, <4>1
        <5> QED
          BY <4>1, <5>1
      <4>2. CASE id \notin Scenery
        <5>1. moves[id] = 0
          BY <2>1, <4>2
        <5> QED
          BY <4>2, <5>1
      <4> QED
        BY <4>1, <4>2
    <3> QED
      BY <1>1, <3>1 DEF World!Of, World!None
  <2> QED
    BY <1>1, <2>1, <2>2, <2>3 DEF Stamped, World!Stamps, World!Alive, World!Of
<1>3. Told
  BY <1>1 DEF HistoryInit, Init, Told
<1> QED
  BY <1>2, <1>3 DEF Inv

LEMMA InitServes == HistoryInit => World!Init
BY DEF HistoryInit, Init, World!Init, World!Only, World!NetInit, World!None, World!Nothing, Nothing

-----------------------------------------------------------------------------
(* The steps keep the invariant. *)
LEMMA StampType ==
    ASSUME Stamped, Changes
    PROVE  stamp' \in World!Stamps /\ stamp' # World!None /\ stamp < MaxStamp
BY MaxStampAssumption DEF Stamped, Changes, World!Stamps, World!None

LEMMA AppearsStamped ==
    ASSUME Stamped, NEW id \in Ids, shown' = shown \cup {id}, Appears(id)
    PROVE  Stamped'
<1>1. stamp' \in World!Stamps /\ stamp' # World!None
  BY StampType DEF Appears
<1> QED
  BY <1>1 DEF Stamped, Appears, World!Components, World!Stamps, World!Alive, World!Of

LEMMA NextInv ==
    ASSUME Inv, [HistoryNext]_<<vars, history>>
    PROVE  Inv'
<1> USE DEF Inv
<1>1. ASSUME NEW id \in Ids, Joins(id), Appears(id)
      PROVE  Inv'
  <2>1. id \in Ids \ shown /\ shown' = shown \cup {id} /\ moved' = moved \cup {id}
        /\ appeared' = appeared \cup {id} /\ phase' = "update"
        /\ players' \in {players, players \cup {id}}
    BY <1>1 DEF Joins, Shows, PollEnds
  <2>2. Stamped'
    BY <1>1, <2>1, AppearsStamped
  <2>3. Told'
    BY <2>1 DEF Told
  <2> QED
    BY <2>2, <2>3
<1>2. ASSUME NEW id \in Ids, OtherLeaves(id)
      PROVE  Inv'
  <2>1. id \in players /\ shown' = shown \ {id} /\ players' = players \ {id}
        /\ phase = "poll" /\ phase' = "update" /\ UNCHANGED <<moved, appeared, stamp>>
        /\ moves' = [moves EXCEPT ![id] = 0] /\ born' = [born EXCEPT ![id] = 0]
    BY <1>2 DEF OtherLeaves, Leaves, PollEnds, diffs
  <2>2. Stamped'
    BY <2>1 DEF Stamped, World!Components, World!None, World!Alive, World!Of
  <2>3. Told'
    BY <2>1 DEF Told
  <2> QED
    BY <2>2, <2>3
<1>3. ASSUME NEW movers \in SUBSET shown, Moved(movers)
      PROVE  Inv'
  <2>1. /\ stamp' \in World!Stamps /\ stamp' # World!None
        /\ moves' = [id \in Ids |-> IF id \in movers THEN stamp' ELSE moves[id]]
        /\ moved' = moved \cup movers
        /\ UNCHANGED <<shown, appeared, players, born>> /\ phase = "update" /\ phase' = phase
    BY <1>3, StampType DEF Moved, Moves
  <2>2. Stamped'
    BY <2>1 DEF Stamped, World!Components, World!Alive, World!Of
  <2>3. Told'
    BY <2>1 DEF Told
  <2> QED
    BY <2>2, <2>3
<1>4. ASSUME Sent \/ Idled \/ UNCHANGED <<vars, history>>
      PROVE  Inv'
  <2>1. UNCHANGED <<shown, players, moves, born, stamp>>
    BY <1>4 DEF Sent, Sends, Idled, Idles, vars, history
  <2>2. Stamped'
    BY <2>1 DEF Stamped, World!Alive, World!Of
  <2>3. Told'
    BY <1>4, <2>1 DEF Told, Sent, Sends, Idled, Idles, PollEnds, vars, diffs
  <2> QED
    BY <2>2, <2>3
<1> QED
  BY <1>1, <1>2, <1>3, <1>4 DEF HistoryNext, ThisJoins, OtherJoins

-----------------------------------------------------------------------------
(* Each step of the server is a step of ClientWorld's. *)
LEMMA AppearsCreates ==
    ASSUME Inv, NEW id \in Ids, Joins(id), Appears(id)
    PROVE  World!PollEnds /\ World!Create(id) /\ World!Of(born') = shown'
<1>1. shown' = shown \cup {id}
  BY DEF Joins, Shows
<1>2. World!Of(born') = shown'
  BY <1>1, AppearsStamped DEF Inv, Stamped, World!Of
<1>3. World!PollEnds
  BY DEF Joins, PollEnds, World!PollEnds
<1>4. World!Create(id)
  BY DEF Inv, Stamped, Joins, Shows, Appears, Changes, World!Create
<1> QED
  BY <1>2, <1>3, <1>4

LEMMA StepServes ==
    ASSUME Inv, HistoryNext
    PROVE  World!Server
<1> USE DEF Inv
<1>1. ASSUME NEW id \in Ids, ThisJoins(id)
      PROVE  World!Join(id)
  <2>1. World!PollEnds /\ World!Create(id) /\ World!Of(born') = shown'
    BY <1>1, AppearsCreates DEF ThisJoins
  <2> QED
    BY <1>1, <2>1 DEF ThisJoins, World!Join, World!None, World!clientVars, World!ecsVars,
                      World!systemVars, Nothing
<1>2. ASSUME NEW id \in Ids, OtherJoins(id)
      PROVE  World!OtherJoins(id)
  <2>1. World!PollEnds /\ World!Create(id)
    BY <1>2, AppearsCreates DEF OtherJoins
  <2> QED
    BY <1>2, <2>1 DEF OtherJoins, World!OtherJoins, World!netVars, World!clientVars,
                      World!ecsVars, World!systemVars, Nothing
<1>3. ASSUME NEW id \in Ids, OtherLeaves(id)
      PROVE  World!OtherLeaves(id)
  <2>1. id \in World!Alive \ (Scenery \cup {player})
    BY <1>3 DEF OtherLeaves, Leaves, Stamped, Told
  <2>2. moved = {} /\ appeared = {} /\ UNCHANGED <<moved, appeared>> /\ World!PollEnds
    BY <1>3 DEF OtherLeaves, Leaves, Told, PollEnds, diffs, World!PollEnds
  <2>3. moved' = moved \ {id} /\ appeared' = appeared \ {id}
    BY <2>2
  <2> QED
    BY <1>3, <2>1, <2>2, <2>3 DEF OtherLeaves, World!OtherLeaves, World!None, World!clientVars,
                                  World!ecsVars, World!systemVars, Nothing
<1>4. ASSUME NEW movers \in SUBSET shown, Moved(movers)
      PROVE  movers \in SUBSET World!Alive /\ World!Move(movers)
  BY <1>4 DEF Stamped, Moved, Moves, Changes, World!Move, World!netVars, World!clientVars,
              World!ecsVars, World!systemVars, Nothing
<1>5. ASSUME Sent
      PROVE  World!SendDiff
  BY <1>5 DEF Sent, Sends, World!SendDiff, World!DiffsSent, World!None, World!clientVars,
              World!ecsVars, World!systemVars, Nothing
<1>6. ASSUME Idled
      PROVE  World!NoPacket
  BY <1>6 DEF Idled, Idles, PollEnds, diffs, history, World!NoPacket, World!PollEnds,
              World!entityVars, World!netVars, World!clientVars, World!ecsVars,
              World!systemVars, Nothing
<1> QED
  BY <1>1, <1>2, <1>3, <1>4, <1>5, <1>6 DEF HistoryNext, World!Server

LEMMA NextServes ==
    ASSUME Inv, [HistoryNext]_<<vars, history>>
    PROVE  [World!Next]_(World!vars)
<1>1. CASE HistoryNext
  BY <1>1, StepServes DEF World!Next
<1>2. CASE UNCHANGED <<vars, history>>
  BY <1>2 DEF vars, diffs, history, World!vars, World!serverVars, World!entityVars,
              World!netVars, World!clientVars, World!ecsVars, World!systemVars, Nothing
<1> QED
  BY <1>1, <1>2

(* Every server that keeps DiffServer's promise, the ECS of ServerWorld with  *)
(* its systems and recycled ids among them, is covered by the few sets that   *)
(* stand for the server in ClientWorld.                                       *)
THEOREM ServerIsCovered == HistorySpec => ServesClient
<1>1. HistoryInit => Inv /\ World!Init
  BY InitInv, InitServes
<1>2. Inv /\ [HistoryNext]_<<vars, history>> => Inv' /\ [World!Next]_(World!vars)
  BY NextInv, NextServes
<1> QED
  BY <1>1, <1>2, PTL DEF HistorySpec, ServesClient, World!Spec
=============================================================================
