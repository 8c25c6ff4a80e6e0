------------------------------ MODULE ServedClient ------------------------------
(***************************************************************************)
(* DiffServer with history variables: when each component was changed, and *)
(* what one of the clients is sent.  ServerWorld implements DiffServer,    *)
(* and DiffServer with its history implements the server of ClientWorld;   *)
(* so what is checked and proved of ClientWorld's client holds of a client *)
(* of the ECS, whichever archetypes, systems and ids that server has.      *)
(*                                                                         *)
(* The history follows the client from its CONNECT, which it sends once,   *)
(* for as long as it plays: its own leaving, and a CONNECT that comes      *)
(* twice, are beyond ClientWorld.  It begins with the world built and its  *)
(* diffs empty: what the building left in them, the first step's sendDiff  *)
(* clears before anyone can have joined.                                   *)
(* Apart from this, and from MaxStamp, no step of DiffServer is prevented. *)
(***************************************************************************)
EXTENDS DiffServer, Naturals, Sequences, FiniteSets

CONSTANTS Scenery,       \* as in ClientWorld
          ContainerSize,
          MaxStamp       \* bound: changes of a component

ASSUME IdsAssumption == Ids \subseteq Nat \ {0}
ASSUME SceneryAssumption == Scenery \subseteq Ids /\ IsFiniteSet(Ids)
ASSUME ContainerSizeAssumption == ContainerSize \in Nat \ {0}
ASSUME MaxStampAssumption == MaxStamp \in Nat \ {0}

VARIABLES moves,  \* when each entity that is shown changed its place,
          born,   \* and when it appeared
          stamp,  \* the last change
          player, \* the entity of the client that is followed
          net     \* what that client has been sent

history == <<moves, born, stamp, player, net>>

(* ClientWorld with this server, before its client has received anything. *)
Nothing == [id \in Ids |-> 0]
World == INSTANCE ClientWorld
         WITH moveDiff <- moved, renderDiff <- appeared, faults <- 0, MaxFaults <- 0,
              clientState <- "Disconnected", received <- 0, mcs <- Nothing, rcs <- Nothing,
              gridIds <- {}, renderIds <- {}, activeIds <- {}, cameraSource <- 0,
              scene <- Nothing

HistoryInit == /\ phase = "update"
               /\ shown = Scenery
               /\ Init
               /\ moves = [id \in Ids |-> IF id \in Scenery THEN 1 ELSE 0]
               /\ born = moves
               /\ stamp = 1
               /\ player = 0
               /\ net = <<>>

-----------------------------------------------------------------------------
Changes == stamp < MaxStamp /\ stamp' = stamp + 1

Appears(id) == /\ Changes
               /\ moves' = [moves EXCEPT ![id] = stamp']
               /\ born' = [born EXCEPT ![id] = stamp']

(* The client connects and is sent the world, then its id; others connect *)
(* without its being told at once.                                         *)
ThisJoins(id) == /\ Joins(id)
                 /\ id \in players'
                 /\ player = 0
                 /\ player' = id
                 /\ Appears(id)
                 /\ \E c \in World!Splits(shown') :
                      net' = net \o World!Transmission(c) \o <<World!Reply(id)>>

OtherJoins(id) == /\ Joins(id)
                  /\ Appears(id)
                  /\ UNCHANGED <<player, net>>

OtherLeaves(id) == /\ Leaves(id)
                   /\ id # player
                   /\ moves' = [moves EXCEPT ![id] = 0]
                   /\ born' = [born EXCEPT ![id] = 0]
                   /\ net' = IF player = 0 THEN net ELSE Append(net, World!RemoveId(id))
                   /\ UNCHANGED <<stamp, player>>

Moved(movers) == /\ Moves(movers)
                 /\ movers # {}
                 /\ Changes
                 /\ moves' = [id \in Ids |-> IF id \in movers THEN stamp' ELSE moves[id]]
                 /\ UNCHANGED <<born, player, net>>

Sent == /\ Sends
        /\ net' = IF player = 0 THEN net ELSE net \o (World!MoveDiffs \o World!RenderDiffs)
        /\ UNCHANGED <<moves, born, stamp, player>>

Idled == Idles /\ UNCHANGED history

HistoryNext == \/ \E id \in Ids : ThisJoins(id) \/ OtherJoins(id) \/ OtherLeaves(id)
               \/ \E movers \in SUBSET shown : Moved(movers)
               \/ Sent
               \/ Idled

HistorySpec == HistoryInit /\ [][HistoryNext]_<<vars, history>>

-----------------------------------------------------------------------------
(* Whatever DiffServer does, and so whatever the ECS tells of its entities   *)
(* in sendInitial(), sendDiff() and remove(), the server that ClientWorld    *)
(* has in its place may do as well: ClientWorld leaves no server out.        *)
ServesClient == World!Spec
=============================================================================
