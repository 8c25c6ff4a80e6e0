------------------------------ MODULE ClientWorld ------------------------------
(***************************************************************************)
(* How one client's copy of the world follows the server's: the transfer   *)
(* of the world when the client joins, the diffs of every server step, the *)
(* REMOVE_IDs, and what the client's systems make of them.                 *)
(*                                                                         *)
(* A component is the stamp of its last change on the server; None stands  *)
(* for a component that a map does not hold.  The threads, the timeouts    *)
(* and the count of containers are ClientLifecycle's subject, and so is    *)
(* what becomes of a client that has left or crashed, which here receives  *)
(* nothing more; the server's ECS is ServerWorld's.                        *)
(*                                                                         *)
(* Left out because nothing depends on them: playerId, which after the     *)
(* first SERVER_REPLY_TO_CONNECT is the id the camera was given; how often *)
(* an id is in RenderSystem::activeIds; the queue and the cells of the     *)
(* texture hash grid (TextureBoundingBox answers an empty box, so no cell  *)
(* ever holds an id).                                                      *)
(***************************************************************************)
EXTENDS Datagrams, FiniteSets

CONSTANTS Ids,           \* the ids of the entities
          Scenery,       \* the entities the world is built of
          ContainerSize, \* componentsPerContainer in Server::sendInitial
          MaxStamp       \* bound: changes of a component

ASSUME IdsAssumption == Ids \subseteq Nat \ {0}
ASSUME SceneryAssumption == Scenery \subseteq Ids /\ IsFiniteSet(Ids)
ASSUME ContainerSizeAssumption == ContainerSize \in Nat \ {0}
ASSUME MaxStampAssumption == MaxStamp \in Nat \ {0}

VARIABLES moves,      \* the server's componentManager.moveComponents
          born,       \* its renderComponents, and the copies InitialComponentsSystem
                      \* took of both components when the entity was created
          stamp,      \* the last stamp
          moveDiff,   \* MoveDiffSystem::ids
          renderDiff, \* RenderDiffSystem::ids
          player,     \* ClientData::id, once the client has joined
          phase,      \* what comes next in Server::step()
          clientState,
          received,     \* receivedSmallContainers
          mcs, rcs,     \* the client's moveComponents and renderComponents
          gridIds,      \* HashGridSystem::ids
          renderIds,    \* RenderSystem::ids
          activeIds,    \* RenderSystem::activeIds
          cameraSource, \* CameraSystem::cameraSource
          scene         \* what render() last gave the renderer

entityVars == <<moves, born, stamp, moveDiff, renderDiff>>
serverVars == <<entityVars, player, phase>>
systemVars == <<gridIds, renderIds, activeIds>>
ecsVars == <<mcs, rcs, systemVars, cameraSource, scene>>
clientVars == <<clientState, received, ecsVars>>
vars == <<serverVars, netVars, clientVars>>

None == 0
Stamps == 1 .. MaxStamp

(* A map of components, the ids it holds, what it holds of some ids, and     *)
(* Components::sync().                                                       *)
Components == [Ids -> {None} \cup Stamps]
Nothing == [id \in Ids |-> None]
Of(cs) == {id \in Ids : cs[id] # None}
Only(cs, S) == [id \in Ids |-> IF id \in S THEN cs[id] ELSE None]
Sync(mine, theirs) == [id \in Ids |-> IF theirs[id] # None THEN theirs[id] ELSE mine[id]]

Packet(type, move, render, id) == [type |-> type, move |-> move, render |-> render, id |-> id]
Bare(type) == Packet(type, Nothing, Nothing, None)

(* Mutant of Reply: the id is the one ServerReplyToConnectData has by default. *)
ReplyUndefined(id) == Packet("REPLY", Nothing, Nothing, -1)

Reply(id) == Packet("REPLY", Nothing, Nothing, id)

RemoveId(id) == Packet("REMOVE_ID", Nothing, Nothing, id)
Types == {"BEGIN", "INITIAL", "END", "REPLY", "MOVEDIFF", "RENDERDIFF", "REMOVE_ID"}
Packets == [type : Types, move : Components, render : Components, id : {None} \cup Ids]

Init == /\ moves = Only([id \in Ids |-> 1], Scenery)
        /\ born = moves
        /\ stamp = 1
        /\ moveDiff = {}
        /\ renderDiff = {}
        /\ player = None
        /\ phase = "update"
        /\ NetInit
        /\ clientState = "Disconnected"
        /\ received = 0
        /\ mcs = Nothing
        /\ rcs = Nothing
        /\ gridIds = {}
        /\ renderIds = {}
        /\ activeIds = {}
        /\ cameraSource = None
        /\ scene = Nothing

-----------------------------------------------------------------------------
(* The server: one step updates the systems, sends the diffs and handles at  *)
(* most one packet.                                                          *)
Alive == Of(moves)

(* EntityManager::createFatMan(), under whichever id is free. *)
Create(id) == /\ id \in Ids \ Alive
              /\ stamp < MaxStamp
              /\ stamp' = stamp + 1
              /\ moves' = [moves EXCEPT ![id] = stamp']
              /\ born' = [born EXCEPT ![id] = stamp']
              /\ moveDiff' = moveDiff \cup {id}
              /\ renderDiff' = renderDiff \cup {id}

PollEnds == phase = "poll" /\ phase' = "update"

(* Components::split(): as many containers as it takes, filled in the order  *)
(* of the hash table.  The server splits the two maps apart from each other; *)
(* their ids were inserted and erased together, so they split alike.         *)
Splits(S) ==
    LET n == (Cardinality(S) + ContainerSize - 1) \div ContainerSize
    IN {c \in [1 .. n -> SUBSET S] :
          /\ UNION {c[i] : i \in 1 .. n} = S
          /\ \A i \in 1 .. n : /\ i < n => Cardinality(c[i]) = ContainerSize
                               /\ Cardinality(c[i]) <= ContainerSize
                               /\ \A j \in 1 .. n : i # j => c[i] \cap c[j] = {}}

(* Server::sendInitial() with the containers c. *)
Transmission(c) ==
    <<Bare("BEGIN")>>
      \o [i \in 1 .. Len(c) |-> Packet("INITIAL", Only(born', c[i]), Only(born', c[i]), None)]
      \o <<Bare("END")>>

(* Mutant of Join: the client is told its id before it is sent the world. *)
JoinReplyFirst(id) == /\ PollEnds
                      /\ player = None
                      /\ Create(id)
                      /\ player' = id
                      /\ \E c \in Splits(Of(born')) :
                           net' = net \o <<Reply(id)>> \o Transmission(c)
                      /\ UNCHANGED <<faults, clientVars>>

(* Server::onConnect() for this client ... *)
Join(id) == /\ PollEnds
            /\ player = None
            /\ Create(id)
            /\ player' = id
            /\ \E c \in Splits(Of(born')) : net' = net \o Transmission(c) \o <<Reply(id)>>
            /\ UNCHANGED <<faults, clientVars>>

(* ... and for another. *)
OtherJoins(id) == /\ PollEnds
                  /\ Create(id)
                  /\ UNCHANGED <<player, netVars, clientVars>>

(* Mutant of OtherLeaves: the client is not told. *)
OtherLeavesUntold(id) ==
    /\ PollEnds
    /\ id \in Alive \ (Scenery \cup {player})
    /\ moves' = [moves EXCEPT ![id] = None]
    /\ born' = [born EXCEPT ![id] = None]
    /\ moveDiff' = moveDiff \ {id}
    /\ renderDiff' = renderDiff \ {id}
    /\ UNCHANGED <<stamp, player, netVars, clientVars>>

(* onDisconnect() of another client: EntityManager::remove() takes the id    *)
(* from the systems it is registered in and tells the clients.               *)
OtherLeaves(id) ==
    /\ PollEnds
    /\ id \in Alive \ (Scenery \cup {player})
    /\ moves' = [moves EXCEPT ![id] = None]
    /\ born' = [born EXCEPT ![id] = None]
    /\ moveDiff' = moveDiff \ {id}
    /\ renderDiff' = renderDiff \ {id}
    /\ net' = IF player = None THEN net ELSE Append(net, RemoveId(id))
    /\ UNCHANGED <<stamp, player, faults, clientVars>>

NoPacket == /\ PollEnds
            /\ UNCHANGED <<entityVars, player, netVars, clientVars>>

(* One update of MoveSystem moves some entities, birds of the scenery and     *)
(* players, whose ON_MOVE adds them to MOVEDIFF.                             *)
Move(movers) == /\ phase = "update"
                /\ movers # {}
                /\ stamp < MaxStamp
                /\ stamp' = stamp + 1
                /\ moves' = [id \in Ids |-> IF id \in movers THEN stamp' ELSE moves[id]]
                /\ moveDiff' = moveDiff \cup movers
                /\ UNCHANGED <<born, renderDiff, player, phase, netVars, clientVars>>

(* The packets of Server::sendDiff(), none for an empty diff. *)
MoveDiffs == IF moveDiff = {} THEN <<>>
             ELSE <<Packet("MOVEDIFF", Only(moves, moveDiff), Nothing, None)>>

RenderDiffs == IF renderDiff = {} THEN <<>>
               ELSE <<Packet("RENDERDIFF", Nothing, Only(born, renderDiff), None)>>

DiffsSent(packets) == /\ phase = "update"
                      /\ phase' = "poll"
                      /\ net' = IF player = None THEN net ELSE net \o packets
                      /\ moveDiff' = {}
                      /\ renderDiff' = {}
                      /\ UNCHANGED <<moves, born, stamp, player, faults, clientVars>>

(* Mutant of SendDiff: no RENDERDIFF. *)
SendDiffMovesOnly == DiffsSent(MoveDiffs)

SendDiff == DiffsSent(MoveDiffs \o RenderDiffs)

Server == \/ \E id \in Ids : Join(id) \/ OtherJoins(id) \/ OtherLeaves(id)
          \/ \E movers \in SUBSET Alive : Move(movers)
          \/ NoPacket \/ SendDiff

-----------------------------------------------------------------------------
Lose(i) == Loses(i) /\ UNCHANGED <<serverVars, clientVars>>

-----------------------------------------------------------------------------
(* The client: the handlers of its three states. *)
Both == Of(mcs) \cap Of(rcs)

Take(i) == Delivers(i) /\ UNCHANGED serverVars

Handle(i, state, type) == Take(i) /\ clientState = state /\ net[i].type = type

(* The ids are put into the texture hash grid and the render system, whether *)
(* they are there yet (activateId) or not (add).                             *)
Show(S) == /\ gridIds' = gridIds \cup S
           /\ renderIds' = renderIds \cup S
           /\ activeIds' = activeIds \cup S

HandleBegin(i) == /\ Handle(i, "Disconnected", "BEGIN")
                  /\ clientState' = "ReceiveInitial"
                  /\ UNCHANGED <<received, ecsVars>>

HandleInitial(i) == /\ Handle(i, "ReceiveInitial", "INITIAL")
                    /\ received' = received + 1
                    /\ mcs' = Sync(mcs, net[i].move)
                    /\ rcs' = Sync(rcs, net[i].render)
                    /\ Show(Of(net[i].move))
                    /\ UNCHANGED <<clientState, cameraSource, scene>>

(* The count in BEGIN passes through a bool, so END expects one container,   *)
(* and leaves the client disconnected when none has come.                    *)
Expected == 1

HandleEnd(i) == /\ Handle(i, "ReceiveInitial", "END")
                /\ received' = 0
                /\ clientState' = IF received < Expected THEN "Left" ELSE "Running"
                /\ UNCHANGED ecsVars

HandleReply(i) == /\ Handle(i, "Running", "REPLY")
                  /\ cameraSource' = net[i].id
                  /\ UNCHANGED <<clientState, received, mcs, rcs, systemVars, scene>>

(* Mutant of HandleMoveDiff: the ids are shown where they were. *)
HandleMoveDiffUnsynced(i) ==
    /\ Handle(i, "Running", "MOVEDIFF")
    /\ Show(Of(net[i].move) \cap Of(rcs))
    /\ UNCHANGED <<clientState, received, mcs, rcs, cameraSource, scene>>

HandleMoveDiff(i) == /\ Handle(i, "Running", "MOVEDIFF")
                     /\ mcs' = Sync(mcs, net[i].move)
                     /\ Show(Of(net[i].move) \cap Of(rcs))
                     /\ UNCHANGED <<clientState, received, rcs, cameraSource, scene>>

HandleRenderDiff(i) == /\ Handle(i, "Running", "RENDERDIFF")
                       /\ rcs' = Sync(rcs, net[i].render)
                       /\ Show(Of(net[i].render) \cap Of(mcs))
                       /\ UNCHANGED <<clientState, received, mcs, cameraSource, scene>>

(* Mutant of RemoveFromSystems: the render system keeps the id. *)
RemoveFromGrid(id) == /\ gridIds' = gridIds \ {id}
                      /\ UNCHANGED <<renderIds, activeIds>>

(* RenderSystem::remove() does not look at activeIds. *)
RemoveFromSystems(id) == /\ gridIds' = gridIds \ {id}
                         /\ renderIds' = renderIds \ {id}
                         /\ UNCHANGED activeIds

HandleRemoveId(i) ==
    LET id == net[i].id
    IN /\ Handle(i, "Running", "REMOVE_ID")
       /\ id \in Both
       /\ RemoveFromSystems(id)
       /\ mcs' = [mcs EXCEPT ![id] = None]
       /\ rcs' = [rcs EXCEPT ![id] = None]
       /\ cameraSource' = IF cameraSource = id THEN None ELSE cameraSource
       /\ UNCHANGED <<clientState, received, scene>>

(* HashGridSystem::remove() asks for a bounding box, which a missing         *)
(* component denies: out_of_range leaves the handler, poll() and the thread. *)
RemoveIdThrows(i) == /\ Handle(i, "Running", "REMOVE_ID")
                     /\ net[i].id \notin Both
                     /\ RemoveFromSystems(net[i].id)
                     /\ clientState' = "Crashed"
                     /\ UNCHANGED <<received, mcs, rcs, cameraSource, scene>>

(* What a state does not handle it ignores, as PacketHandler does. *)
Handled == [Disconnected |-> {"BEGIN"},
            ReceiveInitial |-> {"INITIAL", "END"},
            Running |-> {"REPLY", "MOVEDIFF", "RENDERDIFF", "REMOVE_ID"}]

Ignored(i) == /\ Take(i)
              /\ clientState \in DOMAIN Handled
              /\ net[i].type \notin Handled[clientState]
              /\ UNCHANGED clientVars

Receive(i) == \/ HandleBegin(i) \/ HandleInitial(i) \/ HandleEnd(i)
              \/ HandleReply(i) \/ HandleMoveDiff(i) \/ HandleRenderDiff(i)
              \/ HandleRemoveId(i) \/ RemoveIdThrows(i)
              \/ Ignored(i)

(* RenderSystem::update().  A missing component of an active id throws, and  *)
(* the scene stays what it was.                                              *)
Drawable == activeIds \subseteq Both

Render == /\ clientState = "Running"
          /\ Drawable
          /\ scene' = Only(mcs, activeIds)
          /\ UNCHANGED <<serverVars, netVars, clientState, received, mcs, rcs, systemVars,
                         cameraSource>>

Next == \/ Server
        \/ \E i \in UnderWay : Lose(i) \/ Receive(i)
        \/ Render

Spec == Init /\ [][Next]_vars

(* The server keeps stepping, the client keeps polling and drawing, and what *)
(* is not lost arrives.  Nobody need join, move or leave.                    *)
Fairness == /\ WF_vars(SendDiff)
            /\ WF_vars(NoPacket)
            /\ WF_vars(net # <<>> /\ Receive(1))
            /\ WF_vars(Render)

FairSpec == Spec /\ Fairness

-----------------------------------------------------------------------------
(* Properties. *)

(* The server's and the client's state, and the packets between them. *)
TypeOK == /\ {moves, born} \subseteq Components
          /\ stamp \in Stamps
          /\ moveDiff \subseteq Alive
          /\ renderDiff \subseteq Of(born)
          /\ player \in {None} \cup Ids
          /\ phase \in {"update", "poll"}
          /\ net \in Seq(Packets)
          /\ faults \in 0 .. MaxFaults
          /\ clientState \in {"Disconnected", "ReceiveInitial", "Running", "Left", "Crashed"}
          /\ received \in Nat
          /\ {mcs, rcs, scene} \subseteq Components
          /\ gridIds \subseteq Ids /\ renderIds \subseteq Ids /\ activeIds \subseteq Ids
          /\ cameraSource \in {None} \cup Ids

(* Whatever the network does to the packets, the ids in the client's render  *)
(* system, those in its texture hash grid and those with both components are *)
(* the same: EntityManager::remove() assumes it of every client when it      *)
(* sends one REMOVE_ID for all of them.                                      *)
SystemsAgree == clientState # "Crashed" => gridIds = Both /\ renderIds = Both

(* The exception that a REMOVE_ID of an unknown id throws in the client's    *)
(* thread, where nothing catches it, takes a lost, repeated or reordered     *)
(* packet: the order in which the server sends the world, the diffs and the  *)
(* REMOVE_IDs never causes it.                                               *)
CrashNeedsFault == clientState = "Crashed" => faults > 0

(* When the network has made no mistake and nothing is left to send or to    *)
(* receive, the client plays, has exactly the server's entities, looks at    *)
(* its own, and every transform it has is the server's, or is the one of the *)
(* entity's creation where the entity has not moved since the client joined. *)
Quiescent == net = <<>> /\ moveDiff = {} /\ renderDiff = {} /\ player # None
MirrorsWorld ==
    faults = 0 /\ Quiescent =>
        /\ clientState = "Running"
        /\ Of(mcs) = Alive
        /\ rcs = born
        /\ cameraSource = player
        /\ \A id \in Alive : \/ mcs[id] = moves[id]
                             \/ mcs[id] = born[id] /\ moves[id] < born[player]

(* Without such mistakes a transform never goes back to an older one: not    *)
(* by a diff, not by the initial copies, not when an id is used again.       *)
NeverBackwards ==
    [][faults' = 0 => \A id \in Ids : mcs'[id] # None => mcs'[id] >= mcs[id]]_vars

(* The client's maps are at every moment a copy such as WorldCopy promises:  *)
(* while the network makes no mistake a component only gets newer, an entity *)
(* is given up, transform and look together, only when it has left, and no   *)
(* entity is ever drawn with the look of one that had its id before.         *)
Copy == INSTANCE WorldCopy
        WITH clock <- stamp, life <- born, place <- moves,
             copyLife <- rcs, copyPlace <- mcs, trusted <- (faults = 0)
CopiesFaithfully == Copy!Spec

(* A move of an entity, or its creation, comes to be drawn on the client     *)
(* unless the entity is removed, the network fails or some active id keeps   *)
(* the render system from drawing anything.  (Stamp 1 is the building of the *)
(* world, which no diff tells of.)                                           *)
MovesSeen ==
    \A id \in Ids, s \in 2 .. MaxStamp :
        clientState = "Running" /\ id \in moveDiff /\ moves[id] = s
          ~> scene[id] >= s \/ moves[id] = None \/ faults > 0 \/ ~Drawable

(* The one REMOVE_ID is sufficient: every id that is to be drawn has its     *)
(* components.                                                               *)
RemovalSuffices == clientState = "Running" => Drawable
=============================================================================
