------------------------------ MODULE ServerWorld ------------------------------
(***************************************************************************)
(* The server's entity-component-system and the step that drives it:       *)
(* Server::step() updates every system, broadcasts and clears the diffs,   *)
(* then handles at most one packet.  IdManager, EntityManager,             *)
(* ComponentManager and the systems are represented by which ids they      *)
(* hold; the data inside a component is abstracted except for the presses  *)
(* waiting in an inputComponent.                                           *)
(*                                                                         *)
(* SystemManager::update() walks an unordered_map, so the systems update   *)
(* in any order.  A system of the server whose update() changes no         *)
(* membership (acceleration, bird, animation, the diffs) is no action.     *)
(***************************************************************************)
EXTENDS Integers, Sequences, FiniteSets, SequencesExt, Archetypes

CONSTANTS Ips,         \* the addresses clients play from
          MaxIds,      \* bound: ids the world hands out (IdManager::MAX_IDS only logs)
          QueueBound   \* bound: ids waiting in one system's activeIds

ASSUME MaxIdsAssumption == MaxIds \in Nat
ASSUME QueueBoundAssumption == QueueBound \in Nat

VARIABLES ids,         \* EntityManager::ids
          registered,  \* EntityManager::entityServerSystemMap
          freeIds,     \* IdManager::freeIds, top of the stack first
          lastId,      \* IdManager::id
          comps,       \* ComponentManager: the ids each map holds
          onMove,      \* the ON_MOVE list of an id's commandComponent
          presses,     \* InputComponent::presses
          members,     \* the ids of each system
          activeIds,   \* the queues of the systems that have one
          cells,       \* the ids found in cells of the hash grid
          clients,     \* Server::clients, the id each address controls
          phase,       \* where Server::step() is
          todo         \* systems SystemManager::update() has still to run

idVars == <<ids, registered, freeIds, lastId>>
entityVars == <<comps, onMove, presses>>
systemVars == <<members, activeIds, cells>>
vars == <<idVars, entityVars, systemVars, clients, phase, todo>>

Ids == 1 .. MaxIds
NoId == 0                       \* IdManager::id starts at 0, so 0 is nobody's id
Queued == {"INPUT", "COLLISION", "ATTACK", "HASHGRID_SIZE"}
Updating == Queued \cup {"MOVE"}
Keys == {"space", "other"}      \* space is bound to ATTACK, any other key to a move
NoCommands == [activate |-> {}, add |-> {}]

Init == /\ ids = {}
        /\ registered = [i \in Ids |-> {}]
        /\ freeIds = <<>>
        /\ lastId = 0
        /\ comps = [c \in Components |-> {}]
        /\ onMove = [i \in Ids |-> NoCommands]
        /\ presses = [i \in Ids |-> {}]
        /\ members = [s \in Systems |-> {}]
        /\ activeIds = [q \in Queued |-> <<>>]
        /\ cells = {}
        /\ clients = [ip \in Ips |-> NoId]
        /\ phase = "construct"
        /\ todo = {}

-----------------------------------------------------------------------------
(* Mutant of Acquired: the id before it is incremented. *)
AcquiredEarly == IF freeIds # <<>> THEN Head(freeIds) ELSE lastId

(* IdManager::acquireId() reuses the id released last. *)
CanAcquire == freeIds # <<>> \/ lastId < MaxIds
Acquired == IF freeIds # <<>> THEN Head(freeIds) ELSE lastId + 1

AcquireId == IF freeIds # <<>> THEN freeIds' = Tail(freeIds) /\ UNCHANGED lastId
                               ELSE lastId' = lastId + 1 /\ UNCHANGED freeIds

(* Mutant of ReleaseId: the id is pushed and counted as never used too. *)
ReleaseLast(id) == /\ freeIds' = <<id>> \o freeIds
                   /\ lastId' = IF id = lastId THEN lastId - 1 ELSE lastId

ReleaseId(id) == freeIds' = <<id>> \o freeIds /\ UNCHANGED lastId

(* Adding to ANIMATION adds to RENDERDIFF as well (AnimationSystem::add). *)
Joins(kind) == kind.systems \cup (IF "ANIMATION" \in kind.systems THEN {"RENDERDIFF"} ELSE {})

(* EntityManager::create...: the components, then registerIdToSystem for     *)
(* each system, whose add() may also queue the id (COLLISION) or place it in *)
(* the grid (HASHGRID_SIZE).                                                 *)
Create(kind) == LET id == Acquired IN
    /\ CanAcquire
    /\ AcquireId
    /\ ids' = ids \cup {id}
    /\ comps' = [c \in Components |-> IF c \in kind.comps THEN comps[c] \cup {id} ELSE comps[c]]
    /\ onMove' = [onMove EXCEPT ![id] = [activate |-> kind.activate, add |-> kind.add]]
    /\ presses' = [presses EXCEPT ![id] = {}]
    /\ registered' = [registered EXCEPT ![id] = kind.systems]
    /\ members' = [s \in Systems |-> IF s \in Joins(kind) THEN members[s] \cup {id}
                                                          ELSE members[s]]
    /\ activeIds' = IF "COLLISION" \in kind.systems
                    THEN [activeIds EXCEPT !["COLLISION"] = Append(@, id)] ELSE activeIds
    /\ cells' = IF "HASHGRID_SIZE" \in kind.systems THEN cells \cup {id} ELSE cells

(* ComponentManager::clearComponents forgets two maps. *)
Cleared == Components \ {"bird", "camera"}

(* Mutant of RemoveEntity: the registrations are erased before the loop over them. *)
RemoveEntityErasedFirst(id) ==
    /\ registered' = [registered EXCEPT ![id] = {}]
    /\ comps' = [c \in Components |-> IF c \in Cleared THEN comps[c] \ {id} ELSE comps[c]]
    /\ onMove' = [onMove EXCEPT ![id] = NoCommands]
    /\ presses' = [presses EXCEPT ![id] = {}]
    /\ ids' = ids \ {id}
    /\ ReleaseId(id)
    /\ UNCHANGED systemVars

(* EntityManager::remove: leave the registered systems (while the components *)
(* the grid needs are still there), drop the components, release the id.     *)
RemoveEntity(id) ==
    /\ members' = [s \in Systems |-> IF s \in registered[id] THEN members[s] \ {id}
                                                             ELSE members[s]]
    /\ cells' = IF "HASHGRID_SIZE" \in registered[id] THEN cells \ {id} ELSE cells
    /\ registered' = [registered EXCEPT ![id] = {}]
    /\ comps' = [c \in Components |-> IF c \in Cleared THEN comps[c] \ {id} ELSE comps[c]]
    /\ onMove' = [onMove EXCEPT ![id] = NoCommands]
    /\ presses' = [presses EXCEPT ![id] = {}]
    /\ ids' = ids \ {id}
    /\ ReleaseId(id)
    /\ UNCHANGED activeIds

-----------------------------------------------------------------------------
(* Server::Server populates the world, then Server::run() starts to step. *)
BuildWorld(kind) == /\ phase = "construct"
                    /\ Create(kind)
                    /\ UNCHANGED <<clients, phase, todo>>

StepBegins == phase' = "update" /\ todo' = Updating

Run == /\ phase = "construct"
       /\ StepBegins
       /\ UNCHANGED <<idVars, entityVars, systemVars, clients>>

-----------------------------------------------------------------------------
(* SystemManager::update() comes to one system. *)
Updates(s) == /\ phase = "update"
              /\ s \in todo
              /\ todo' = todo \ {s}
              /\ UNCHANGED <<idVars, clients, phase>>

Equipped(id, s) == \A c \in Needs[s] : id \in comps[c]

(* Mutant of Served: the update goes on after an id that throws. *)
ServedAll(s) == 1 .. Len(activeIds[s])

(* A queued system handles its queue from the front.  At an id whose         *)
(* components are gone at() throws, SystemManager::update() catches, and     *)
(* what is behind that id waits for the next step.                           *)
Served(s) == {n \in 1 .. Len(activeIds[s]) : \A m \in 1 .. n : Equipped(activeIds[s][m], s)}

Handled(s) == {activeIds[s][n] : n \in Served(s)}

(* Mutant of Rest: the id that throws stays at the front. *)
RestUnpopped(s) == SubSeq(activeIds[s], Cardinality(Served(s)) + 1, Len(activeIds[s]))

(* The id that throws was popped before its components were looked up. *)
Rest(s) == SubSeq(activeIds[s], Cardinality(Served(s)) + 2, Len(activeIds[s]))

(* COLLISION and ATTACK only drain their queue. *)
DrainUpdate(s) == /\ s \in {"COLLISION", "ATTACK"}
                  /\ Updates(s)
                  /\ activeIds' = [activeIds EXCEPT ![s] = Rest(s)]
                  /\ UNCHANGED <<entityVars, members, cells>>

(* HashGridSystem::update(): out of the old cells, into the new ones. *)
HashGridUpdate == /\ Updates("HASHGRID_SIZE")
                  /\ activeIds' = [activeIds EXCEPT !["HASHGRID_SIZE"] = Rest("HASHGRID_SIZE")]
                  /\ cells' = cells \cup Handled("HASHGRID_SIZE")
                  /\ UNCHANGED <<entityVars, members>>

(* Mutant of InputUpdate: the presses are not consumed. *)
InputUpdateKeeping ==
    /\ Updates("INPUT")
    /\ LET served == Handled("INPUT")
           attackers == {id \in served \cap members["ATTACK"] : "space" \in presses[id]}
       IN /\ \E order \in SetToSeqs(attackers) :
                 activeIds' = [activeIds EXCEPT !["INPUT"] = Rest("INPUT"),
                                                !["ATTACK"] = @ \o order]
          /\ members' = [members EXCEPT
                            !["MOVE"] = @ \cup {id \in served : "other" \in presses[id]}]
    /\ UNCHANGED <<comps, onMove, presses, cells>>

(* InputSystem::update(): space runs ActivateId(ATTACK), any other key       *)
(* AddIdToSystem(MOVE); the presses are then consumed.                       *)
InputUpdate ==
    /\ Updates("INPUT")
    /\ LET served == Handled("INPUT")
           attackers == {id \in served \cap members["ATTACK"] : "space" \in presses[id]}
       IN /\ \E order \in SetToSeqs(attackers) :
                 activeIds' = [activeIds EXCEPT !["INPUT"] = Rest("INPUT"),
                                                !["ATTACK"] = @ \o order]
          /\ members' = [members EXCEPT
                            !["MOVE"] = @ \cup {id \in served : "other" \in presses[id]}]
          /\ presses' = [id \in Ids |-> IF id \in served THEN {} ELSE presses[id]]
    /\ UNCHANGED <<comps, onMove, cells>>

(* The entities whose ON_MOVE list activates them in q, and that q accepts. *)
Activated(movers, q) == {id \in movers \cap members[q] : q \in onMove[id].activate}

(* MoveSystem::update(): any of its entities may have moved since the last   *)
(* step; those with a commandComponent run their ON_MOVE list, in the order  *)
(* of an unordered_set.                                                      *)
MoveUpdate(moved) ==
    /\ Updates("MOVE")
    /\ LET movers == moved \cap comps["command"]
       IN /\ members' = [s \in Systems |-> members[s] \cup {id \in movers : s \in onMove[id].add}]
          /\ \E colliding \in SetToSeqs(Activated(movers, "COLLISION")) :
             \E shifted \in SetToSeqs(Activated(movers, "HASHGRID_SIZE")) :
                 /\ Len(activeIds["COLLISION"]) + Len(colliding) =< QueueBound
                 /\ Len(activeIds["HASHGRID_SIZE"]) + Len(shifted) =< QueueBound
                 /\ activeIds' = [activeIds EXCEPT !["COLLISION"] = @ \o colliding,
                                                   !["HASHGRID_SIZE"] = @ \o shifted]
    /\ UNCHANGED <<entityVars, cells>>

-----------------------------------------------------------------------------
(* Mutant of SendDiff: RENDERDIFF is not cleared. *)
SendDiffKeepingLooks == /\ phase = "update"
                        /\ todo = {}
                        /\ phase' = "poll"
                        /\ members' = [members EXCEPT !["MOVEDIFF"] = {}]
                        /\ UNCHANGED <<idVars, entityVars, activeIds, cells, clients, todo>>

(* Server::sendDiff() sends what the diff systems hold and clears them. *)
SendDiff == /\ phase = "update"
            /\ todo = {}
            /\ phase' = "poll"
            /\ members' = [members EXCEPT !["MOVEDIFF"] = {}, !["RENDERDIFF"] = {}]
            /\ UNCHANGED <<idVars, entityVars, activeIds, cells, clients, todo>>

(* packetManager.receive() finds no packet, or one the server ignores. *)
NoPacket == /\ phase = "poll"
            /\ StepBegins
            /\ UNCHANGED <<idVars, entityVars, systemVars, clients>>

(* Server::onConnect(): a FatMan is created in any case, but insert() keeps  *)
(* the entry of an address that is already a client.                         *)
OnConnect(ip) == /\ phase = "poll"
                 /\ StepBegins
                 /\ Create(FatMan)
                 /\ clients' = IF clients[ip] = NoId THEN [clients EXCEPT ![ip] = Acquired]
                                                     ELSE clients

(* Mutant of OnDisconnect: the entity goes, the client stays. *)
OnDisconnectKeeping(ip) == /\ phase = "poll"
                           /\ StepBegins
                           /\ clients[ip] # NoId
                           /\ IF clients[ip] \in ids
                              THEN RemoveEntity(clients[ip])
                              ELSE UNCHANGED <<idVars, entityVars, systemVars>>
                           /\ UNCHANGED clients

(* Server::onDisconnect() *)
OnDisconnect(ip) == /\ phase = "poll"
                    /\ StepBegins
                    /\ clients[ip] # NoId
                    /\ IF clients[ip] \in ids
                       THEN RemoveEntity(clients[ip])
                       ELSE UNCHANGED <<idVars, entityVars, systemVars>>
                    /\ clients' = [clients EXCEPT ![ip] = NoId]

(* Mutant of OnInput: poll() goes on to the next packet of the step. *)
OnInputPollingOn(ip, keys) == LET id == clients[ip] IN
    /\ phase = "poll"
    /\ id # NoId
    /\ id \in comps["input"]
    /\ Len(activeIds["INPUT"]) < QueueBound
    /\ presses' = [presses EXCEPT ![id] = keys]
    /\ activeIds' = IF id \in members["INPUT"]
                    THEN [activeIds EXCEPT !["INPUT"] = Append(@, id)] ELSE activeIds
    /\ UNCHANGED <<idVars, comps, onMove, members, cells, clients, phase, todo>>

(* Server::handle of an INPUTDATA packet: the presses replace the ones of    *)
(* before, and the id is queued.                                             *)
OnInput(ip, keys) == LET id == clients[ip] IN
    /\ phase = "poll"
    /\ StepBegins
    /\ id # NoId
    /\ id \in comps["input"]
    /\ presses' = [presses EXCEPT ![id] = keys]
    /\ activeIds' = IF id \in members["INPUT"]
                    THEN [activeIds EXCEPT !["INPUT"] = Append(@, id)] ELSE activeIds
    /\ UNCHANGED <<idVars, comps, onMove, members, cells, clients>>

Update == \/ \E s \in Queued : DrainUpdate(s)
          \/ HashGridUpdate
          \/ InputUpdate
          \/ \E moved \in SUBSET members["MOVE"] : MoveUpdate(moved)

Poll == \/ NoPacket
        \/ \E ip \in Ips : \/ OnConnect(ip)
                           \/ OnDisconnect(ip)
                           \/ \E keys \in SUBSET Keys : OnInput(ip, keys)

Next == \/ \E kind \in WorldKinds : BuildWorld(kind)
        \/ Run
        \/ Update
        \/ SendDiff
        \/ Poll

(* The server thread keeps stepping.  No packet has to arrive: NoPacket is a *)
(* step of the loop like any other.                                          *)
Fairness == WF_vars(Next)

Spec == Init /\ [][Next]_vars
FairSpec == Spec /\ Fairness

-----------------------------------------------------------------------------
Commands == [activate : SUBSET {"COLLISION", "HASHGRID_SIZE"}, add : SUBSET Systems]

(* Every variable stays in its domain. *)
TypeOK == /\ ids \subseteq Ids
          /\ registered \in [Ids -> SUBSET Systems]
          /\ freeIds \in Seq(Ids)
          /\ lastId \in 0 .. MaxIds
          /\ comps \in [Components -> SUBSET Ids]
          /\ onMove \in [Ids -> Commands]
          /\ presses \in [Ids -> SUBSET Keys]
          /\ members \in [Systems -> SUBSET Ids]
          /\ activeIds \in [Queued -> Seq(Ids)]
          /\ cells \subseteq Ids
          /\ clients \in [Ips -> Ids \cup {NoId}]
          /\ phase \in {"construct", "update", "poll"}
          /\ todo \subseteq Updating

(* An id that was handed out (idmanager.cpp:13-31) belongs to exactly one    *)
(* entity or waits exactly once in freeIds: no two entities ever share one.  *)
Free == {freeIds[n] : n \in 1 .. Len(freeIds)}
IdsPartition == /\ \A m, n \in 1 .. Len(freeIds) : freeIds[m] = freeIds[n] => m = n
                /\ ids \cap Free = {}
                /\ ids \cup Free = 1 .. lastId

(* remove() walks entityServerSystemMap only (entitymanager.cpp:538), and    *)
(* add() is also called around it: by AnimationSystem::add, by the commands  *)
(* of ON_MOVE and of the keys (the FIXME of entitymanager.hpp:78-84).  Still *)
(* no id is in a system that its removal would leave it in.                  *)
MembershipRegistered == /\ \A s \in Systems : \A id \in members[s] : s \in registered[id]
                        /\ \A id \in Ids : registered[id] # {} <=> id \in ids

(* Whatever is a member of a system has the components the system fetches:   *)
(* the at() of sendDiff() (server.cpp:198, 215), which nobody catches, never *)
(* throws, nor those of the updates that go through their members.           *)
MembersEquipped == \A s \in Systems : \A id \in members[s] : Equipped(id, s)

(* InputSystem::update() (inputsystem.cpp:11-13) never meets an id that was  *)
(* removed after it was queued, though activateId() and the removal come     *)
(* from packets in any order: no press waits behind an id that throws.       *)
InputFresh == \A n \in 1 .. Len(activeIds["INPUT"]) : Equipped(activeIds["INPUT"][n], "INPUT")

(* What StaleDrained and PressesConsumed promise some day happens at once:   *)
(* when the server comes to its packets, no press of an earlier packet       *)
(* waits, although ids that were removed may stand in the queues and their   *)
(* at() throws; each press is acted on by the one update after its packet    *)
(* (inputsystem.cpp:17-30).                                                  *)
NoPressWaits == phase = "poll" \/ (phase = "update" /\ "INPUT" \notin todo)
                    => \A id \in Ids : presses[id] = {}

(* The id a client steers is alive, has an inputComponent and is nobody      *)
(* else's, through every order of connects, disconnects and recycled ids.    *)
PlayersAlive == \A ip \in Ips : clients[ip] # NoId =>
                    /\ clients[ip] \in ids \cap comps["input"] \cap members["INPUT"]
                    /\ \A other \in Ips \ {ip} : clients[other] # clients[ip]

(* The cells of the hash grid hold its members and nobody else: an update    *)
(* that throws half way (hashgridsystem.cpp:161-179) leaves no ghost that    *)
(* query() would ask a bounding box of.                                      *)
GridMatches == cells = members["HASHGRID_SIZE"]

(* Whatever the kinds of entities, the order of the systems, the packets and *)
(* the ids used again, what initial transfer and diffs are made of behaves   *)
(* as DiffServer says.  The diff systems that server.cpp:196-226 sends are   *)
(* filled by registerIdToSystem, AnimationSystem::add and the commands of    *)
(* ON_MOVE; an entity only one of them knows would be half of one on the     *)
(* clients, and would end them when it is removed.                           *)
Players == {clients[ip] : ip \in Ips} \ {NoId}
Diffs == INSTANCE DiffServer
         WITH shown <- members["INITIAL_COMPONENTS"], moved <- members["MOVEDIFF"],
              appeared <- members["RENDERDIFF"], players <- Players
ServesDiffs == Diffs!Spec

(* An id that was removed while it waited in a system's activeIds does not   *)
(* wait there for ever, nor block what is behind it: it is popped before     *)
(* at() throws (hashgridsystem.cpp:163, attacksystem.cpp:26).                *)
StaleDrained == \A q \in Queued, id \in Ids :
                    (Len(activeIds[q]) > 0 /\ Head(activeIds[q]) = id /\ id \notin ids)
                        ~> (activeIds[q] = <<>> \/ Head(activeIds[q]) # id \/ id \in ids)

(* A press that reached the server is acted on: InputSystem consumes it,     *)
(* whatever else the step meets.                                             *)
PressesConsumed == \A id \in Ids : presses[id] # {} ~> presses[id] = {}

(* "Make the client aware of its ID" (server.cpp:128): the id onConnect()    *)
(* replies, the one it just acquired, is the id the client then steers.      *)
RepliesOwnId == [][\A ip \in Ips : OnConnect(ip) => clients'[ip] = Acquired]_vars
=============================================================================
