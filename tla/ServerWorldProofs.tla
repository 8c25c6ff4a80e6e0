--------------------------- MODULE ServerWorldProofs ---------------------------
(***************************************************************************)
(* The invariants of ServerWorld hold for any addresses and any number of  *)
(* ids.  Two things make them inductive.  What remove() and the systems    *)
(* rely on is settled when an entity is created, by the tables of          *)
(* Archetypes (KindsAreSound), and is kept per id: RegisteredEquipped and  *)
(* CommandsRegistered.  And a queue may hold removed ids only in the       *)
(* phases where nothing acts on them: InputWaits and GridQueue.            *)
(***************************************************************************)
EXTENDS ServerWorld, FiniteSetTheorems, SequenceTheorems, TLAPS

(* An id registered with a system has the components the system fetches. *)
RegisteredEquipped == \A id \in Ids : \A s \in registered[id] : Equipped(id, s)

(* The systems commands add an id to are among those it is registered with. *)
CommandsRegistered == \A id \in Ids : /\ onMove[id].add \subseteq registered[id] \cap {"MOVE", "MOVEDIFF"}
                                      /\ "INPUT" \in registered[id] => "MOVE" \in registered[id]

(* What is queued in INPUT is a member of it, and nothing is queued there    *)
(* while the server handles packets.                                         *)
InputWaits == /\ activeIds["INPUT"] \in Seq(members["INPUT"])
              /\ (phase # "update" \/ "INPUT" \notin todo) => activeIds["INPUT"] = <<>>

(* An id queued in the hash grid is a member of it or has no size any more. *)
Griddable == members["HASHGRID_SIZE"] \cup (Ids \ comps["size"])
GridQueue == /\ activeIds["HASHGRID_SIZE"] \in Seq(Griddable)
             /\ phase = "construct" => activeIds["HASHGRID_SIZE"] = <<>>

(* What holds of the entities wherever the server is in its step. *)
Static == /\ IdsPartition
          /\ MembershipRegistered
          /\ RegisteredEquipped
          /\ CommandsRegistered
          /\ GridMatches

IInv == /\ TypeOK
        /\ Static
        /\ InputWaits
        /\ PlayersAlive
        /\ GridQueue

-----------------------------------------------------------------------------
(* What the tables of Archetypes promise of every kind of entity. *)
Sound(kind) == /\ kind.comps \subseteq Components
               /\ kind.systems \subseteq Systems
               /\ kind.systems # {}
               /\ Joins(kind) = kind.systems
               /\ kind.add \subseteq kind.systems \cap {"MOVE", "MOVEDIFF"}
               /\ kind.activate \subseteq {"COLLISION", "HASHGRID_SIZE"}
               /\ \A s \in kind.systems : Needs[s] \subseteq kind.comps
               /\ "INPUT" \in kind.systems => "MOVE" \in kind.systems

LEMMA NeedsOf ==
  /\ Needs["MOVEDIFF"] = {"move"} /\ Needs["RENDERDIFF"] = {"render"}
  /\ Needs["INPUT"] = {"input", "command"} /\ Needs["ACCELERATION"] = {"move", "acceleration"}
  /\ Needs["MOVE"] = {"move"} /\ Needs["BIRD"] = {"bird", "move", "acceleration"}
  /\ Needs["ANIMATION"] = {"animation", "move"} /\ Needs["HASHGRID_SIZE"] = {"move", "size"}
  /\ Needs["COLLISION"] = {} /\ Needs["ATTACK"] = {"attack", "move"}
  /\ Needs["HEALTH"] = {"health"} /\ Needs["REMOVE"] = {"command"}
  /\ Needs["INITIAL_COMPONENTS"] = {"move", "render"}
BY DEF Needs

LEMMA KindsAreSound == \A kind \in WorldKinds : Sound(kind)
<1> USE NeedsOf DEF Sound, Components, Systems, Joins, Shown
<1>1. Sound(FatMan)
  BY DEF FatMan
<1>2. Sound(Tree)
  BY DEF Tree
<1>3. Sound(GrassTile)
  BY DEF GrassTile
<1>4. Sound(Flower)
  BY DEF Flower
<1>5. Sound(Stone)
  BY DEF Stone
<1>6. Sound(BlueBird)
  BY DEF BlueBird
<1>7. Sound(SwarmPoint)
  BY DEF SwarmPoint
<1>8. Sound(Skybox)
  BY DEF Skybox
<1>9. Sound(Terrain)
  BY DEF Terrain
<1> QED
  BY ONLY <1>1, <1>2, <1>3, <1>4, <1>5, <1>6, <1>7, <1>8, <1>9 DEF WorldKinds

LEMMA FatManIsAPlayer == /\ FatMan \in WorldKinds
                         /\ {"INPUT", "HASHGRID_SIZE"} \subseteq FatMan.systems
                         /\ "input" \in FatMan.comps
BY DEF FatMan, WorldKinds

-----------------------------------------------------------------------------
(* The queue of freeIds as a set, after a pop and after a push. *)
LEMMA PopFree ==
  ASSUME TypeOK, IdsPartition, freeIds # <<>>, freeIds' = Tail(freeIds)
  PROVE  /\ Head(freeIds) \in Free
         /\ Free' = Free \ {Head(freeIds)}
         /\ \A m, n \in 1 .. Len(freeIds') : freeIds'[m] = freeIds'[n] => m = n
         /\ freeIds' \in Seq(Ids)
<1>1. /\ freeIds \in Seq(Ids) /\ Len(freeIds) \in Nat \ {0} /\ freeIds' \in Seq(Ids)
      /\ Len(freeIds') = Len(freeIds) - 1 /\ Head(freeIds) = freeIds[1]
      /\ \A n \in 1 .. Len(freeIds') : freeIds'[n] = freeIds[n + 1]
  BY HeadTailProperties, EmptySeq DEF TypeOK
<1>2. \A m, n \in 1 .. Len(freeIds) : freeIds[m] = freeIds[n] => m = n
  BY DEF IdsPartition
<1>3. Free' = Free \ {freeIds[1]}
  <2>1. ASSUME NEW x \in Free, x # freeIds[1] PROVE x \in Free'
    <3>1. PICK n \in 1 .. Len(freeIds) : x = freeIds[n]
      BY DEF Free
    <3>2. n - 1 \in 1 .. Len(freeIds') /\ freeIds'[n - 1] = x
      BY <1>1, <2>1, <3>1
    <3> QED BY <3>2 DEF Free
  <2>2. ASSUME NEW x \in Free' PROVE x \in Free /\ x # freeIds[1]
    <3>1. PICK n \in 1 .. Len(freeIds') : x = freeIds'[n]
      BY DEF Free
    <3>2. n + 1 \in 1 .. Len(freeIds) /\ freeIds[n + 1] = x /\ n + 1 # 1
      BY <1>1, <3>1
    <3> QED BY <1>1, <1>2, <3>2 DEF Free
  <2> QED BY <2>1, <2>2
<1>4. \A m, n \in 1 .. Len(freeIds') : freeIds'[m] = freeIds'[n] => m = n
  BY <1>1, <1>2
<1>5. freeIds[1] \in Free
  BY <1>1 DEF Free
<1> QED BY <1>1, <1>3, <1>4, <1>5

LEMMA PushFree ==
  ASSUME TypeOK, IdsPartition, NEW id \in Ids \ Free, freeIds' = <<id>> \o freeIds
  PROVE  /\ Free' = Free \cup {id}
         /\ \A m, n \in 1 .. Len(freeIds') : freeIds'[m] = freeIds'[n] => m = n
         /\ freeIds' \in Seq(Ids)
<1>1. /\ freeIds \in Seq(Ids) /\ Len(freeIds) \in Nat /\ freeIds' \in Seq(Ids)
      /\ Len(freeIds') = Len(freeIds) + 1 /\ freeIds'[1] = id
      /\ \A n \in 2 .. Len(freeIds') : freeIds'[n] = freeIds[n - 1]
  <2>1. <<id>> \in Seq(Ids) /\ Len(<<id>>) = 1 /\ <<id>>[1] = id
    OBVIOUS
  <2>2. freeIds \in Seq(Ids) /\ Len(freeIds) \in Nat
    BY DEF TypeOK
  <2> QED BY <2>1, <2>2, ConcatProperties
<1>2. \A m, n \in 1 .. Len(freeIds) : freeIds[m] = freeIds[n] => m = n
  BY DEF IdsPartition
<1>3. Free' = Free \cup {id}
  <2>1. ASSUME NEW x \in Free PROVE x \in Free'
    <3>1. PICK n \in 1 .. Len(freeIds) : x = freeIds[n]
      BY DEF Free
    <3>2. n + 1 \in 1 .. Len(freeIds') /\ freeIds'[n + 1] = x
      BY <1>1, <3>1
    <3> QED BY <3>2 DEF Free
  <2>2. ASSUME NEW x \in Free' PROVE x \in Free \cup {id}
    <3>1. PICK n \in 1 .. Len(freeIds') : x = freeIds'[n]
      BY DEF Free
    <3>2. n = 1 \/ (n - 1 \in 1 .. Len(freeIds) /\ freeIds[n - 1] = x)
      BY <1>1, <3>1
    <3> QED BY <1>1, <3>1, <3>2 DEF Free
  <2>3. id \in Free'
    BY <1>1 DEF Free
  <2> QED BY <2>1, <2>2, <2>3
<1>4. \A n \in 1 .. Len(freeIds) : freeIds[n] # id
  BY DEF Free
<1>5. \A m, n \in 1 .. Len(freeIds') : freeIds'[m] = freeIds'[n] => m = n
  BY <1>1, <1>2, <1>4
<1> QED BY <1>1, <1>3, <1>5

LEMMA AcquireKeepsPartition ==
  ASSUME TypeOK, IdsPartition, CanAcquire, AcquireId, ids' = ids \cup {Acquired}
  PROVE  /\ Acquired \in Ids /\ Acquired \notin ids
         /\ IdsPartition'
         /\ freeIds' \in Seq(Ids) /\ lastId' \in 0 .. MaxIds
<1> USE MaxIdsAssumption DEF Ids
<1>1. /\ lastId \in 0 .. MaxIds /\ freeIds \in Seq(Ids)
      /\ ids \cap Free = {} /\ ids \cup Free = 1 .. lastId
  BY DEF TypeOK, IdsPartition
<1>2. CASE freeIds # <<>>
  <2>1. freeIds' = Tail(freeIds) /\ lastId' = lastId /\ Acquired = Head(freeIds)
    BY <1>2 DEF AcquireId, Acquired
  <2>2. /\ Acquired \in Free /\ Free' = Free \ {Acquired}
        /\ \A m, n \in 1 .. Len(freeIds') : freeIds'[m] = freeIds'[n] => m = n
        /\ freeIds' \in Seq(Ids)
    BY <1>2, <2>1, PopFree
  <2>3. Acquired \in 1 .. lastId /\ Acquired \notin ids
    BY <1>1, <2>2
  <2>4. ids' \cap Free' = {} /\ ids' \cup Free' = 1 .. lastId'
    BY <1>1, <2>1, <2>2
  <2> QED BY <1>1, <2>1, <2>2, <2>3, <2>4 DEF IdsPartition
<1>3. CASE freeIds = <<>>
  <2>1. /\ freeIds' = freeIds /\ lastId' = lastId + 1 /\ Acquired = lastId + 1
        /\ lastId < MaxIds
    BY <1>3 DEF AcquireId, Acquired, CanAcquire
  <2>2. Acquired \in Ids /\ Acquired \notin 1 .. lastId /\ lastId' \in 0 .. MaxIds
    BY <1>1, <2>1
  <2>3. Free' = Free
    BY <2>1 DEF Free
  <2>4. ids' \cap Free' = {} /\ ids' \cup Free' = 1 .. lastId'
    <3>1. 1 .. lastId + 1 = (1 .. lastId) \cup {lastId + 1}
      BY <1>1
    <3> QED BY <1>1, <2>1, <2>2, <2>3, <3>1
  <2> QED BY <1>1, <2>1, <2>2, <2>4 DEF IdsPartition
<1> QED BY <1>2, <1>3

-----------------------------------------------------------------------------
(* Creating any kind of entity keeps the types and what is static. *)

(* TypeOK without the variables Server::step() itself keeps. *)
WorldTypeOK == /\ ids \subseteq Ids
               /\ registered \in [Ids -> SUBSET Systems]
               /\ freeIds \in Seq(Ids)
               /\ lastId \in 0 .. MaxIds
               /\ comps \in [Components -> SUBSET Ids]
               /\ onMove \in [Ids -> Commands]
               /\ presses \in [Ids -> SUBSET Keys]
               /\ members \in [Systems -> SUBSET Ids]
               /\ activeIds \in [Queued -> Seq(Ids)]
               /\ cells \subseteq Ids

LEMMA CreateTypes ==
  ASSUME TypeOK, IdsPartition, NEW kind \in WorldKinds, Create(kind)
  PROVE  WorldTypeOK'
<1> DEFINE id == Acquired
<1>1. Sound(kind)
  BY KindsAreSound
<1>2. id \in Ids /\ freeIds' \in Seq(Ids) /\ lastId' \in 0 .. MaxIds
  BY AcquireKeepsPartition DEF Create
<1>3. ids' \subseteq Ids /\ cells' \subseteq Ids
  BY <1>2 DEF TypeOK, Create
<1>4. comps' \in [Components -> SUBSET Ids]
  BY <1>2 DEF TypeOK, Create
<1>5. onMove' \in [Ids -> Commands]
  <2>1. [activate |-> kind.activate, add |-> kind.add] \in Commands
    BY <1>1 DEF Sound, Commands
  <2> QED BY <1>2, <2>1 DEF TypeOK, Create
<1>6. presses' \in [Ids -> SUBSET Keys]
  BY <1>2 DEF TypeOK, Create
<1>7. registered' \in [Ids -> SUBSET Systems]
  BY <1>1, <1>2 DEF TypeOK, Create, Sound
<1>8. members' \in [Systems -> SUBSET Ids]
  BY <1>2 DEF TypeOK, Create
<1>9. activeIds' \in [Queued -> Seq(Ids)]
  <2>1. activeIds["COLLISION"] \in Seq(Ids)
    BY DEF TypeOK, Queued
  <2>2. Append(activeIds["COLLISION"], id) \in Seq(Ids)
    BY <1>2, <2>1
  <2> QED BY <2>2 DEF TypeOK, Create
<1> QED BY <1>2, <1>3, <1>4, <1>5, <1>6, <1>7, <1>8, <1>9 DEF WorldTypeOK

LEMMA CreateKeeps ==
  ASSUME TypeOK, Static, NEW kind \in WorldKinds, Create(kind)
  PROVE  /\ Static'
         /\ Acquired \in Ids /\ Acquired \notin ids
         /\ \A s \in Systems : members[s] \subseteq members'[s]
         /\ \A s \in kind.systems : Acquired \in members'[s]
         /\ \A c \in Components : comps[c] \subseteq comps'[c]
         /\ \A c \in Components : comps'[c] \subseteq comps[c] \cup {Acquired}
<1> DEFINE id == Acquired
<1>1. Sound(kind)
  BY KindsAreSound
<1>2. id \in Ids /\ id \notin ids /\ IdsPartition'
  BY AcquireKeepsPartition DEF Create, Static
<1>3. /\ ids' = ids \cup {id}
      /\ registered' = [registered EXCEPT ![id] = kind.systems]
      /\ \A s \in Systems : members'[s] = IF s \in kind.systems THEN members[s] \cup {id}
                                                               ELSE members[s]
      /\ \A c \in Components : comps'[c] = IF c \in kind.comps THEN comps[c] \cup {id}
                                                              ELSE comps[c]
      /\ onMove' = [onMove EXCEPT ![id] = [activate |-> kind.activate, add |-> kind.add]]
      /\ cells' = IF "HASHGRID_SIZE" \in kind.systems THEN cells \cup {id} ELSE cells
  BY <1>1 DEF Create, Sound
<1>4. /\ registered \in [Ids -> SUBSET Systems] /\ onMove \in [Ids -> Commands]
      /\ registered'[id] = kind.systems /\ onMove'[id].add = kind.add
      /\ \A i \in Ids \ {id} : registered'[i] = registered[i] /\ onMove'[i] = onMove[i]
  BY <1>2, <1>3 DEF TypeOK
<1>5. registered[id] = {}
  BY <1>2 DEF Static, MembershipRegistered
<1>6. MembershipRegistered'
  <2>1. ASSUME NEW s \in Systems, NEW i \in members'[s] PROVE s \in registered'[i]
    <3>1. CASE i \in members[s]
      BY <1>2, <1>4, <1>5, <3>1 DEF Static, MembershipRegistered, TypeOK
    <3>2. CASE i \notin members[s]
      <4>1. members'[s] = IF s \in kind.systems THEN members[s] \cup {id} ELSE members[s]
        BY <1>3
      <4>2. s \in kind.systems /\ i = id
        BY <3>2, <4>1
      <4> QED BY <1>4, <4>2
    <3> QED BY <3>1, <3>2
  <2>2. ASSUME NEW i \in Ids PROVE registered'[i] # {} <=> i \in ids'
    BY <1>1, <1>3, <1>4 DEF Static, MembershipRegistered, Sound
  <2> QED BY <2>1, <2>2 DEF MembershipRegistered
<1>7. \A s \in Systems : Needs[s] \subseteq Components
  BY NeedsOf DEF Systems, Components
<1>8. RegisteredEquipped'
  <2>1. ASSUME NEW i \in Ids, NEW s \in registered'[i], NEW c \in Needs[s] PROVE i \in comps'[c]
    <3>1. CASE i = id
      <4>1. s \in kind.systems /\ c \in kind.comps /\ c \in Components
        BY <1>1, <1>4, <3>1 DEF Sound
      <4> QED BY <1>3, <3>1, <4>1
    <3>2. CASE i # id
      <4>1. s \in registered[i] /\ s \in Systems /\ c \in Components
        BY <1>4, <1>7, <3>2
      <4>2. i \in comps[c]
        BY <4>1 DEF Static, RegisteredEquipped, Equipped
      <4> QED BY <1>3, <4>1, <4>2
    <3> QED BY <3>1, <3>2
  <2> QED BY <2>1 DEF RegisteredEquipped, Equipped
<1>9. CommandsRegistered'
  BY <1>1, <1>4 DEF Static, CommandsRegistered, Sound
<1>10. GridMatches'
  BY <1>3 DEF Static, GridMatches, Systems
<1>11. \A s \in kind.systems : s \in Systems
  BY <1>1 DEF Sound
<1>12. Static'
  BY <1>2, <1>6, <1>8, <1>9, <1>10 DEF Static
<1>13. /\ \A s \in Systems : members[s] \subseteq members'[s]
       /\ \A s \in kind.systems : id \in members'[s]
       /\ \A c \in Components : comps[c] \subseteq comps'[c]
       /\ \A c \in Components : comps'[c] \subseteq comps[c] \cup {id}
  BY <1>3, <1>11
<1> QED BY <1>2, <1>12, <1>13
-----------------------------------------------------------------------------
(* Removing an entity keeps the same facts, and takes the id from its systems. *)
LEMMA RemoveTypes ==
  ASSUME TypeOK, IdsPartition, NEW id \in ids, RemoveEntity(id)
  PROVE  WorldTypeOK'
<1>1. id \in Ids \ Free /\ freeIds' = <<id>> \o freeIds /\ lastId' = lastId
  BY DEF TypeOK, IdsPartition, RemoveEntity, ReleaseId
<1>2. freeIds' \in Seq(Ids) /\ lastId' \in 0 .. MaxIds
  BY <1>1, PushFree DEF TypeOK
<1>3. ids' \subseteq Ids /\ cells' \subseteq Ids /\ activeIds' \in [Queued -> Seq(Ids)]
  BY DEF TypeOK, RemoveEntity
<1>4. comps' \in [Components -> SUBSET Ids] /\ members' \in [Systems -> SUBSET Ids]
  BY DEF TypeOK, RemoveEntity
<1>5. /\ registered' \in [Ids -> SUBSET Systems] /\ presses' \in [Ids -> SUBSET Keys]
      /\ onMove' \in [Ids -> Commands]
  <2>1. NoCommands \in Commands
    BY DEF NoCommands, Commands
  <2> QED BY <2>1 DEF TypeOK, RemoveEntity
<1> QED BY <1>2, <1>3, <1>4, <1>5 DEF WorldTypeOK

LEMMA RemoveKeeps ==
  ASSUME TypeOK, Static, NEW id \in ids, RemoveEntity(id)
  PROVE  /\ Static'
         /\ \A s \in Systems : members'[s] = members[s] \ {id}
         /\ \A c \in Components : comps'[c] \subseteq comps[c]
         /\ \A c \in Components : comps[c] \ {id} \subseteq comps'[c]
         /\ \A c \in Cleared : id \notin comps'[c]
<1>1. id \in Ids \ Free /\ freeIds' = <<id>> \o freeIds /\ lastId' = lastId /\ ids' = ids \ {id}
  BY DEF TypeOK, Static, IdsPartition, RemoveEntity, ReleaseId
<1>2. IdsPartition'
  <2>1. Free' = Free \cup {id}
        /\ \A m, n \in 1 .. Len(freeIds') : freeIds'[m] = freeIds'[n] => m = n
    BY <1>1, PushFree DEF Static
  <2> QED BY <1>1, <2>1 DEF Static, IdsPartition
<1>3. /\ registered \in [Ids -> SUBSET Systems] /\ onMove \in [Ids -> Commands]
      /\ registered' = [registered EXCEPT ![id] = {}]
      /\ onMove' = [onMove EXCEPT ![id] = NoCommands]
      /\ \A s \in Systems : members'[s] = IF s \in registered[id] THEN members[s] \ {id}
                                                                 ELSE members[s]
      /\ \A c \in Components : comps'[c] = IF c \in Cleared THEN comps[c] \ {id} ELSE comps[c]
      /\ cells' = IF "HASHGRID_SIZE" \in registered[id] THEN cells \ {id} ELSE cells
  BY DEF TypeOK, RemoveEntity
<1>4. /\ registered'[id] = {} /\ onMove'[id].add = {}
      /\ \A i \in Ids \ {id} : registered'[i] = registered[i] /\ onMove'[i] = onMove[i]
  BY <1>1, <1>3 DEF NoCommands
<1>5. \A s \in Systems : members'[s] = members[s] \ {id}
  <2> SUFFICES ASSUME NEW s \in Systems PROVE members'[s] = members[s] \ {id}
    OBVIOUS
  <2>1. id \in members[s] => s \in registered[id]
    BY DEF Static, MembershipRegistered
  <2>2. members'[s] = IF s \in registered[id] THEN members[s] \ {id} ELSE members[s]
    BY <1>3
  <2> QED BY <2>1, <2>2
<1>6. MembershipRegistered'
  <2>1. ASSUME NEW s \in Systems, NEW i \in members'[s] PROVE s \in registered'[i]
    <3>1. i \in members[s] /\ i # id
      BY <1>5
    <3> QED BY <1>4, <3>1 DEF Static, MembershipRegistered, TypeOK
  <2>2. ASSUME NEW i \in Ids PROVE registered'[i] # {} <=> i \in ids'
    BY <1>1, <1>4 DEF Static, MembershipRegistered
  <2> QED BY <2>1, <2>2 DEF MembershipRegistered
<1>7. RegisteredEquipped'
  <2>1. ASSUME NEW i \in Ids, NEW s \in registered'[i], NEW c \in Needs[s] PROVE i \in comps'[c]
    <3>1. i # id /\ s \in registered[i] /\ s \in Systems
      BY <1>3, <1>4
    <3>2. c \in Components
      BY <3>1, NeedsOf DEF Systems, Components
    <3>3. i \in comps[c]
      BY <3>1 DEF Static, RegisteredEquipped, Equipped
    <3> QED BY <1>3, <3>1, <3>2, <3>3
  <2> QED BY <2>1 DEF RegisteredEquipped, Equipped
<1>8. CommandsRegistered'
  BY <1>4 DEF Static, CommandsRegistered
<1>9. GridMatches'
  <2>1. cells' = cells \ {id}
    <3>1. id \in cells => "HASHGRID_SIZE" \in registered[id]
      BY DEF Static, GridMatches, MembershipRegistered, Systems
    <3> QED BY <1>3, <3>1
  <2> QED BY <1>5, <2>1 DEF Static, GridMatches, Systems
<1>10. Static'
  BY <1>2, <1>6, <1>7, <1>8, <1>9 DEF Static
<1>11. /\ \A c \in Components : comps'[c] \subseteq comps[c]
       /\ \A c \in Components : comps[c] \ {id} \subseteq comps'[c]
       /\ \A c \in Cleared : id \notin comps'[c]
  BY <1>3 DEF Cleared
<1> QED BY <1>5, <1>10, <1>11
-----------------------------------------------------------------------------
(* What an update takes from its queue and what it leaves there. *)
LEMMA ServingAQueue ==
  ASSUME TypeOK, NEW s \in Queued, NEW S, activeIds[s] \in Seq(S)
  PROVE  /\ Rest(s) \in Seq(S)
         /\ Handled(s) \subseteq S
         /\ \A id \in Handled(s) : Equipped(id, s)
         /\ (\A id \in S : Equipped(id, s)) => Rest(s) = <<>>
<1> DEFINE q == activeIds[s]
           k == Cardinality(Served(s))
<1>1. Len(q) \in Nat /\ \A n \in 1 .. Len(q) : q[n] \in S
  BY LenProperties, ElementOfSeq
<1>2. IsFiniteSet(1 .. Len(q)) /\ Cardinality(1 .. Len(q)) = Len(q)
  <2>1. ASSUME NEW n \in Nat
        PROVE  IsFiniteSet(1 .. n) /\ Cardinality(1 .. n) = n
    BY ONLY n \in Nat, FS_Interval
  <2> QED
    BY <1>1, <2>1
<1>3. Served(s) \in SUBSET (1 .. Len(q))
  BY DEF Served
<1>4. IsFiniteSet(Served(s))
  BY <1>2, <1>3, FS_Subset
<1>5. k \in Nat
  BY <1>4, FS_CardinalityType
<1>6. Rest(s) \in Seq(S)
  <2>1. \A n \in k + 2 .. Len(q) : q[n] \in S
    BY <1>1, <1>5
  <2>2. k + 2 \in Int /\ Len(q) \in Int
    BY <1>1, <1>5
  <2>3. SubSeq(q, k + 2, Len(q)) \in Seq(S)
    BY <2>1, <2>2, SubSeqProperties
  <2> QED BY <2>3 DEF Rest
<1>7. Handled(s) \subseteq S
  BY <1>1, <1>3 DEF Handled
<1>8. \A id \in Handled(s) : Equipped(id, s)
  <2>1. ASSUME NEW n \in Served(s) PROVE Equipped(q[n], s)
    <3>1. n \in 1 .. n
      BY <1>3
    <3> QED BY <3>1 DEF Served
  <2> QED BY <2>1 DEF Handled
<1>9. ASSUME \A id \in S : Equipped(id, s) PROVE Rest(s) = <<>>
  <2>1. Served(s) = 1 .. Len(q)
    BY <1>1, <1>9 DEF Served
  <2>2. k = Len(q)
    BY <1>2, <2>1
  <2> QED BY <1>1, <2>2, SubSeqEmpty DEF Rest
<1> QED BY <1>6, <1>7, <1>8, <1>9

LEMMA ShuffledSet ==
  ASSUME NEW T \in SUBSET Ids, NEW order \in SetToSeqs(T)
  PROVE  order \in Seq(T)
<1>1. IsFiniteSet(Ids)
  BY FS_Interval, MaxIdsAssumption DEF Ids
<1>2. Cardinality(T) \in Nat
  BY <1>1, FS_Subset, FS_CardinalityType
<1>3. order \in [1 .. Cardinality(T) -> T]
  BY DEF SetToSeqs
<1> QED BY <1>2, <1>3

(* Members of INPUT and of the grid have what those systems fetch. *)
LEMMA MembersAreEquipped ==
  ASSUME TypeOK, Static
  PROVE  MembersEquipped
<1> SUFFICES ASSUME NEW s \in Systems, NEW id \in members[s] PROVE Equipped(id, s)
  BY DEF MembersEquipped
<1>1. id \in Ids /\ s \in registered[id]
  BY DEF TypeOK, Static, MembershipRegistered
<1> QED BY <1>1 DEF Static, RegisteredEquipped

-----------------------------------------------------------------------------
(* The steps of the server.  First those that only move it along. *)
LEMMA Starts == Init => IInv
<1> SUFFICES ASSUME Init PROVE IInv
  OBVIOUS
<1> USE MaxIdsAssumption
<1>1. TypeOK
  <2>1. NoCommands \in Commands
    BY DEF NoCommands, Commands
  <2>2. <<>> \in Seq(Ids)
    BY EmptySeq
  <2> QED BY <2>1, <2>2 DEF Init, TypeOK
<1>2. IdsPartition
  <2>1. Len(freeIds) = 0 /\ Free = {}
    BY DEF Init, Free
  <2> QED BY <2>1 DEF Init, IdsPartition
<1>3. MembershipRegistered /\ RegisteredEquipped /\ GridMatches
  BY DEF Init, MembershipRegistered, RegisteredEquipped, GridMatches, Systems
<1>4. CommandsRegistered
  BY DEF Init, CommandsRegistered, NoCommands
<1>5. InputWaits /\ GridQueue
  BY EmptySeq DEF Init, InputWaits, GridQueue, Queued
<1>6. PlayersAlive
  BY DEF Init, PlayersAlive
<1> QED BY <1>1, <1>2, <1>3, <1>4, <1>5, <1>6 DEF IInv, Static

LEMMA StaticUnchanged ==
  ASSUME Static, UNCHANGED <<idVars, comps, onMove, members, cells>>
  PROVE  Static'
BY DEF Static, idVars, IdsPartition, Free, MembershipRegistered, RegisteredEquipped, Equipped,
       CommandsRegistered, GridMatches

LEMMA IdleStep ==
  ASSUME IInv, Run \/ NoPacket \/ UNCHANGED vars
  PROVE  IInv'
<1>1. /\ UNCHANGED <<idVars, entityVars, systemVars, clients>>
      /\ (phase' = "update" /\ todo' = Updating) \/ UNCHANGED <<phase, todo>>
  BY DEF Run, NoPacket, StepBegins, vars
<1>2. TypeOK'
  BY <1>1 DEF IInv, TypeOK, idVars, entityVars, systemVars
<1>3. Static'
  BY <1>1, StaticUnchanged DEF IInv, entityVars, systemVars
<1>4. InputWaits' /\ GridQueue'
  BY <1>1 DEF IInv, InputWaits, GridQueue, Griddable, Updating, Queued, idVars, entityVars, systemVars
<1>5. PlayersAlive'
  BY <1>1 DEF IInv, PlayersAlive, idVars, entityVars, systemVars
<1> QED BY <1>2, <1>3, <1>4, <1>5 DEF IInv

LEMMA SendDiffStep ==
  ASSUME IInv, SendDiff
  PROVE  IInv'
<1>1. /\ UNCHANGED <<idVars, entityVars, activeIds, cells, clients, todo>>
      /\ phase = "update" /\ todo = {} /\ phase' = "poll"
      /\ members \in [Systems -> SUBSET Ids]
      /\ members' = [members EXCEPT !["MOVEDIFF"] = {}, !["RENDERDIFF"] = {}]
  BY DEF SendDiff, IInv, TypeOK
<1>2. /\ members' \in [Systems -> SUBSET Ids]
      /\ \A s \in Systems : members'[s] \subseteq members[s]
      /\ members'["INPUT"] = members["INPUT"]
      /\ members'["HASHGRID_SIZE"] = members["HASHGRID_SIZE"]
  BY <1>1 DEF Systems
<1>3. TypeOK'
  BY <1>1, <1>2 DEF IInv, TypeOK, idVars, entityVars
<1>4. Static'
  <2>1. MembershipRegistered'
    BY <1>1, <1>2 DEF IInv, Static, MembershipRegistered, idVars
  <2> QED BY <1>1, <1>2, <2>1 DEF IInv, Static, idVars, entityVars, IdsPartition, Free,
                                  RegisteredEquipped, Equipped, CommandsRegistered, GridMatches
<1>5. InputWaits' /\ GridQueue'
  BY <1>1, <1>2 DEF IInv, InputWaits, GridQueue, Griddable, entityVars
<1>6. PlayersAlive'
  BY <1>1, <1>2 DEF IInv, PlayersAlive, idVars, entityVars
<1> QED BY <1>3, <1>4, <1>5, <1>6 DEF IInv
-----------------------------------------------------------------------------
(* A system's update creates and removes nobody; it may add members.         *)
LEMMA UpdatesKeep ==
  ASSUME TypeOK, Static, PlayersAlive, NEW s \in Updating, Updates(s),
         UNCHANGED <<comps, onMove>>,
         members' \in [Systems -> SUBSET Ids],
         \A r \in Systems : members[r] \subseteq members'[r],
         \A r \in Systems : \A id \in members'[r] : r \in registered[id],
         cells' = members'["HASHGRID_SIZE"],
         presses' \in [Ids -> SUBSET Keys],
         activeIds' \in [Queued -> Seq(Ids)]
  PROVE  TypeOK' /\ Static' /\ PlayersAlive'
<1>1. UNCHANGED <<idVars, clients, phase>> /\ todo' \subseteq Updating
  BY DEF Updates, TypeOK
<1>2. cells' \subseteq Ids
  BY DEF Systems
<1>3. TypeOK'
  BY <1>1, <1>2 DEF TypeOK, idVars
<1>4. MembershipRegistered'
  BY <1>1 DEF Static, MembershipRegistered, idVars
<1>5. Static'
  BY <1>1, <1>4 DEF Static, idVars, IdsPartition, Free, RegisteredEquipped, Equipped,
                    CommandsRegistered, GridMatches
<1>6. PlayersAlive'
  BY <1>1 DEF PlayersAlive, idVars, Systems
<1> QED BY <1>3, <1>5, <1>6

LEMMA DrainStep ==
  ASSUME IInv, NEW s \in {"COLLISION", "ATTACK"}, DrainUpdate(s)
  PROVE  IInv'
<1>1. /\ Updates(s) /\ UNCHANGED <<entityVars, members, cells>>
      /\ activeIds' = [activeIds EXCEPT ![s] = Rest(s)]
      /\ s \in Queued /\ s \in Updating
  BY DEF DrainUpdate, Queued, Updating
<1>2. Rest(s) \in Seq(Ids)
  BY <1>1, ServingAQueue DEF IInv, TypeOK
<1>3. TypeOK' /\ Static' /\ PlayersAlive'
  <2>1. \A r \in Systems : \A id \in members[r] : r \in registered[id]
    BY DEF IInv, Static, MembershipRegistered
  <2>2. activeIds' \in [Queued -> Seq(Ids)]
    BY <1>1, <1>2 DEF IInv, TypeOK
  <2>3. cells = members["HASHGRID_SIZE"]
    BY DEF IInv, Static, GridMatches
  <2> QED BY <1>1, <2>1, <2>2, <2>3, UpdatesKeep DEF IInv, TypeOK, entityVars
<1>4. activeIds'["INPUT"] = activeIds["INPUT"]
      /\ activeIds'["HASHGRID_SIZE"] = activeIds["HASHGRID_SIZE"]
  BY <1>1 DEF IInv, TypeOK, Queued
<1>5. InputWaits' /\ GridQueue'
  BY <1>1, <1>4 DEF IInv, InputWaits, GridQueue, Griddable, Updates, entityVars
<1> QED BY <1>3, <1>5 DEF IInv

LEMMA HashGridStep ==
  ASSUME IInv, HashGridUpdate
  PROVE  IInv'
<1> DEFINE G == "HASHGRID_SIZE"
<1>1. /\ Updates(G) /\ UNCHANGED <<entityVars, members>>
      /\ activeIds' = [activeIds EXCEPT ![G] = Rest(G)]
      /\ cells' = cells \cup Handled(G)
      /\ G \in Queued /\ G \in Updating /\ G \in Systems
  BY DEF HashGridUpdate, Queued, Updating, Systems
<1>2. /\ Rest(G) \in Seq(Griddable) /\ Rest(G) \in Seq(Ids)
      /\ Handled(G) \subseteq Griddable
      /\ \A id \in Handled(G) : Equipped(id, G)
  <2>1. activeIds[G] \in Seq(Griddable) /\ activeIds[G] \in Seq(Ids)
    BY <1>1 DEF IInv, TypeOK, GridQueue
  <2> QED BY <1>1, <2>1, ServingAQueue DEF IInv
<1>3. Handled(G) \subseteq members[G]
  BY <1>2, NeedsOf DEF Griddable, Equipped
<1>4. TypeOK' /\ Static' /\ PlayersAlive'
  <2>1. \A r \in Systems : \A id \in members[r] : r \in registered[id]
    BY DEF IInv, Static, MembershipRegistered
  <2>2. activeIds' \in [Queued -> Seq(Ids)]
    BY <1>1, <1>2 DEF IInv, TypeOK
  <2>3. cells' = members'[G]
    BY <1>1, <1>3 DEF IInv, Static, GridMatches
  <2> QED BY <1>1, <2>1, <2>2, <2>3, UpdatesKeep DEF IInv, TypeOK, entityVars
<1>5. activeIds'["INPUT"] = activeIds["INPUT"] /\ activeIds'[G] = Rest(G)
  BY <1>1 DEF IInv, TypeOK, Queued
<1>6. InputWaits' /\ GridQueue'
  BY <1>1, <1>2, <1>5 DEF IInv, InputWaits, GridQueue, Griddable, Updates, entityVars
<1> QED BY <1>4, <1>6 DEF IInv

LEMMA InputStep ==
  ASSUME IInv, InputUpdate
  PROVE  IInv'
<1> DEFINE I == "INPUT"
           served == Handled(I)
<1>1. /\ Updates(I) /\ UNCHANGED <<comps, onMove, cells>>
      /\ members' = [members EXCEPT !["MOVE"] = @ \cup {id \in served : "other" \in presses[id]}]
      /\ presses' = [id \in Ids |-> IF id \in served THEN {} ELSE presses[id]]
      /\ I \in Queued /\ I \in Updating /\ I \in Systems /\ "ATTACK" \in Queued
      /\ members \in [Systems -> SUBSET Ids] /\ members[I] \subseteq Ids
      /\ activeIds[I] \in Seq(members[I]) /\ activeIds \in [Queued -> Seq(Ids)]
  BY DEF InputUpdate, Queued, Updating, Systems, IInv, TypeOK, InputWaits
<1>2. \A id \in members[I] : Equipped(id, I) /\ id \in Ids /\ {I, "MOVE"} \subseteq registered[id]
  <2>1. \A id \in members[I] : Equipped(id, I)
    BY <1>1, MembersAreEquipped DEF IInv, MembersEquipped
  <2> QED BY <1>1, <2>1 DEF IInv, Static, MembershipRegistered, CommandsRegistered
<1>3. Rest(I) = <<>> /\ served \subseteq members[I]
  <2>1. \A id \in members[I] : Equipped(id, I)
    BY <1>2
  <2> QED BY <1>1, <2>1, ServingAQueue DEF IInv
<1>4. PICK order \in SetToSeqs({id \in served \cap members["ATTACK"] : "space" \in presses[id]}) :
          activeIds' = [activeIds EXCEPT ![I] = Rest(I), !["ATTACK"] = @ \o order]
  BY DEF InputUpdate
<1>5. order \in Seq(Ids)
  <2> DEFINE T == {id \in served \cap members["ATTACK"] : "space" \in presses[id]}
  <2>1. T \in SUBSET Ids
    BY <1>1, <1>3
  <2>2. order \in Seq(T)
    BY <1>4, <2>1, ShuffledSet
  <2> QED BY <2>1, <2>2, SeqMonotonic
<1>6. /\ activeIds' \in [Queued -> Seq(Ids)]
      /\ activeIds'[I] = <<>>
      /\ activeIds'["HASHGRID_SIZE"] = activeIds["HASHGRID_SIZE"]
  <2>1. activeIds["ATTACK"] \o order \in Seq(Ids)
    BY <1>1, <1>5, ConcatProperties
  <2>2. <<>> \in Seq(Ids)
    BY EmptySeq
  <2> QED BY <1>1, <1>3, <1>4, <2>1, <2>2 DEF Queued
<1>7. /\ members' \in [Systems -> SUBSET Ids]
      /\ \A r \in Systems : members[r] \subseteq members'[r]
      /\ members'[I] = members[I]
      /\ members'["HASHGRID_SIZE"] = members["HASHGRID_SIZE"]
      /\ \A r \in Systems \ {"MOVE"} : members'[r] = members[r]
      /\ members'["MOVE"] \subseteq members["MOVE"] \cup served
  BY <1>1, <1>3 DEF Systems
<1>8. TypeOK' /\ Static' /\ PlayersAlive'
  <2>1. \A r \in Systems : \A id \in members'[r] : r \in registered[id]
    <3>1. \A r \in Systems : \A id \in members[r] : r \in registered[id]
      BY DEF IInv, Static, MembershipRegistered
    <3> QED BY <1>2, <1>3, <1>7, <3>1 DEF Systems
  <2>2. cells' = members'["HASHGRID_SIZE"]
    BY <1>1, <1>7 DEF IInv, Static, GridMatches
  <2>3. presses' \in [Ids -> SUBSET Keys]
    BY <1>1 DEF IInv, TypeOK
  <2> QED BY <1>1, <1>6, <1>7, <2>1, <2>2, <2>3, UpdatesKeep DEF IInv
<1>9. InputWaits' /\ GridQueue'
  BY <1>1, <1>6, <1>7, EmptySeq DEF IInv, InputWaits, GridQueue, Griddable, Updates
<1> QED BY <1>8, <1>9 DEF IInv

LEMMA MoveStep ==
  ASSUME IInv, NEW moved \in SUBSET members["MOVE"], MoveUpdate(moved)
  PROVE  IInv'
<1> DEFINE G == "HASHGRID_SIZE"
           C == "COLLISION"
           movers == moved \cap comps["command"]
<1>1. /\ Updates("MOVE") /\ UNCHANGED <<entityVars, cells>>
      /\ members' = [s \in Systems |-> members[s] \cup {id \in movers : s \in onMove[id].add}]
      /\ G \in Queued /\ C \in Queued /\ "MOVE" \in Updating /\ G \in Systems /\ "MOVE" \in Systems
      /\ members \in [Systems -> SUBSET Ids] /\ movers \subseteq Ids
      /\ activeIds \in [Queued -> Seq(Ids)]
  BY DEF MoveUpdate, Queued, Updating, Systems, IInv, TypeOK
<1>2. PICK colliding \in SetToSeqs(Activated(movers, C)), shifted \in SetToSeqs(Activated(movers, G)) :
          activeIds' = [activeIds EXCEPT ![C] = @ \o colliding, ![G] = @ \o shifted]
  BY DEF MoveUpdate
<1>3. colliding \in Seq(Ids) /\ shifted \in Seq(Ids) /\ shifted \in Seq(Griddable)
  <2>1. Activated(movers, C) \in SUBSET Ids /\ Activated(movers, G) \in SUBSET Ids
    BY <1>1 DEF Activated
  <2>2. Activated(movers, G) \subseteq Griddable
    BY DEF Activated, Griddable
  <2>3. colliding \in Seq(Activated(movers, C)) /\ shifted \in Seq(Activated(movers, G))
    BY <1>2, <2>1, ShuffledSet
  <2> QED BY <2>1, <2>2, <2>3, SeqMonotonic
<1>4. /\ activeIds' \in [Queued -> Seq(Ids)]
      /\ activeIds'["INPUT"] = activeIds["INPUT"]
      /\ activeIds'[G] = activeIds[G] \o shifted
  <2>1. activeIds[C] \o colliding \in Seq(Ids) /\ activeIds[G] \o shifted \in Seq(Ids)
    BY <1>1, <1>3, ConcatProperties
  <2> QED BY <1>1, <1>2, <2>1 DEF Queued
<1>5. \A r \in Systems : \A id \in members'[r] : r \in registered[id]
  <2>1. \A r \in Systems : \A id \in members[r] : r \in registered[id]
    BY DEF IInv, Static, MembershipRegistered
  <2>2. \A id \in movers : onMove[id].add \subseteq registered[id]
    BY <1>1 DEF IInv, Static, CommandsRegistered
  <2> QED BY <1>1, <2>1, <2>2
<1>6. /\ members' \in [Systems -> SUBSET Ids]
      /\ \A r \in Systems : members[r] \subseteq members'[r]
  BY <1>1
<1>7. members'[G] = members[G] /\ members'["INPUT"] = members["INPUT"]
  <2>1. \A id \in movers : onMove[id].add \subseteq {"MOVE", "MOVEDIFF"}
    BY <1>1 DEF IInv, Static, CommandsRegistered
  <2> QED BY <1>1, <2>1 DEF Systems
<1>8. TypeOK' /\ Static' /\ PlayersAlive'
  <2>1. cells' = members'[G]
    BY <1>1, <1>7 DEF IInv, Static, GridMatches
  <2> QED BY <1>1, <1>4, <1>5, <1>6, <2>1, UpdatesKeep DEF IInv, TypeOK, entityVars
<1>9. InputWaits'
  BY <1>1, <1>4, <1>7 DEF IInv, InputWaits, Updates
<1>10. GridQueue'
  <2>1. activeIds'[G] \in Seq(Griddable)
    BY <1>3, <1>4, ConcatProperties DEF IInv, GridQueue
  <2>2. Griddable' = Griddable
    BY <1>1, <1>7 DEF Griddable, entityVars
  <2> QED BY <1>1, <2>1, <2>2 DEF GridQueue, Updates
<1> QED BY <1>8, <1>9, <1>10 DEF IInv

-----------------------------------------------------------------------------
(* The steps that create or remove an entity, and the packets. *)
LEMMA CreationStep ==
  ASSUME IInv, NEW kind \in WorldKinds, Create(kind),
         phase = "construct" \/ "HASHGRID_SIZE" \in kind.systems,
         phase # "update", phase' = phase \/ phase' # "construct",
         (phase' # "update" /\ todo' = todo) \/ (phase' = "update" /\ todo' = Updating)
  PROVE  InputWaits' /\ GridQueue'
<1> DEFINE G == "HASHGRID_SIZE"
<1>1. /\ Acquired \in Ids
      /\ \A s \in Systems : members[s] \subseteq members'[s]
      /\ \A s \in kind.systems : Acquired \in members'[s]
      /\ \A c \in Components : comps'[c] \subseteq comps[c] \cup {Acquired}
  BY CreateKeeps DEF IInv
<1>2. activeIds'["INPUT"] = activeIds["INPUT"] /\ activeIds'[G] = activeIds[G]
  BY DEF Create, IInv, TypeOK, Queued
<1>3. activeIds["INPUT"] = <<>>
  BY DEF IInv, InputWaits
<1>4. InputWaits'
  BY <1>2, <1>3, EmptySeq DEF InputWaits
<1>5. activeIds[G] \in Seq(Griddable')
  <2>1. CASE phase = "construct"
    BY <2>1, EmptySeq DEF IInv, GridQueue
  <2>2. CASE G \in kind.systems
    <3>1. members[G] \subseteq members'[G] /\ Acquired \in members'[G]
      BY <1>1, <2>2 DEF Systems
    <3>2. comps'["size"] \subseteq comps["size"] \cup {Acquired}
      BY <1>1 DEF Components
    <3>3. Griddable \subseteq Griddable'
      BY <3>1, <3>2 DEF Griddable
    <3> QED BY <3>3, SeqMonotonic DEF IInv, GridQueue
  <2> QED BY <2>1, <2>2
<1>6. GridQueue'
  BY <1>2, <1>5 DEF IInv, GridQueue
<1> QED BY <1>4, <1>6

LEMMA BuildStep ==
  ASSUME IInv, NEW kind \in WorldKinds, BuildWorld(kind)
  PROVE  IInv'
<1>1. Create(kind) /\ phase = "construct" /\ UNCHANGED <<clients, phase, todo>>
  BY DEF BuildWorld
<1>2. Static' /\ (\A s \in Systems : members[s] \subseteq members'[s])
      /\ (\A c \in Components : comps[c] \subseteq comps'[c]) /\ ids \subseteq ids'
  BY <1>1, CreateKeeps DEF IInv, Create
<1>3. TypeOK'
  BY <1>1, CreateTypes DEF IInv, Static, WorldTypeOK, TypeOK
<1>4. InputWaits' /\ GridQueue'
  BY <1>1, CreationStep
<1>5. PlayersAlive'
  BY <1>1, <1>2 DEF IInv, PlayersAlive, Systems, Components
<1> QED BY <1>2, <1>3, <1>4, <1>5 DEF IInv

LEMMA ConnectStep ==
  ASSUME IInv, NEW ip \in Ips, OnConnect(ip)
  PROVE  IInv'
<1>1. /\ Create(FatMan) /\ phase = "poll" /\ phase' = "update" /\ todo' = Updating
      /\ clients' = IF clients[ip] = NoId THEN [clients EXCEPT ![ip] = Acquired] ELSE clients
  BY DEF OnConnect, StepBegins
<1>2. /\ Static' /\ Acquired \in Ids /\ Acquired \notin ids
      /\ \A s \in Systems : members[s] \subseteq members'[s]
      /\ \A s \in FatMan.systems : Acquired \in members'[s]
      /\ \A c \in Components : comps[c] \subseteq comps'[c]
      /\ ids' = ids \cup {Acquired}
  BY <1>1, FatManIsAPlayer, CreateKeeps DEF IInv, Create
<1>3. TypeOK'
  BY <1>1, <1>2, FatManIsAPlayer, CreateTypes DEF IInv, Static, WorldTypeOK, TypeOK
<1>4. InputWaits' /\ GridQueue'
  BY <1>1, FatManIsAPlayer, CreationStep
<1>5. Acquired \in ids' \cap comps'["input"] \cap members'["INPUT"]
  <2>1. Acquired \in comps'["input"]
    BY <1>1, FatManIsAPlayer DEF Create, Components
  <2> QED BY <1>2, <2>1, FatManIsAPlayer
<1>6. PlayersAlive'
  <2>1. ids \subseteq ids' /\ comps["input"] \subseteq comps'["input"]
        /\ members["INPUT"] \subseteq members'["INPUT"]
    BY <1>2 DEF Components, Systems
  <2>2. \A o \in Ips : clients[o] # NoId => clients[o] \in ids
    BY DEF IInv, PlayersAlive
  <2> QED BY <1>1, <1>2, <1>5, <2>1, <2>2 DEF IInv, TypeOK, PlayersAlive
<1> QED BY <1>2, <1>3, <1>4, <1>6 DEF IInv

LEMMA DisconnectStep ==
  ASSUME IInv, NEW ip \in Ips, OnDisconnect(ip)
  PROVE  IInv'
<1> DEFINE id == clients[ip]
           G == "HASHGRID_SIZE"
<1>1. /\ phase = "poll" /\ phase' = "update" /\ todo' = Updating
      /\ id # NoId /\ id \in ids /\ RemoveEntity(id)
      /\ clients' = [clients EXCEPT ![ip] = NoId]
  BY DEF OnDisconnect, StepBegins, IInv, PlayersAlive
<1>2. /\ Static'
      /\ \A s \in Systems : members'[s] = members[s] \ {id}
      /\ \A c \in Components : comps'[c] \subseteq comps[c]
      /\ \A c \in Components : comps[c] \ {id} \subseteq comps'[c]
      /\ \A c \in Cleared : id \notin comps'[c]
      /\ ids' = ids \ {id}
      /\ activeIds' = activeIds
  BY <1>1, RemoveKeeps DEF IInv, RemoveEntity
<1>3. TypeOK'
  BY <1>1, RemoveTypes DEF IInv, Static, WorldTypeOK, TypeOK
<1>4. InputWaits'
  <2>1. activeIds'["INPUT"] = <<>>
    BY <1>1, <1>2 DEF IInv, InputWaits
  <2> QED BY <2>1, EmptySeq DEF InputWaits
<1>5. GridQueue'
  <2>1. members'[G] = members[G] \ {id} /\ comps'["size"] \subseteq comps["size"]
        /\ id \notin comps'["size"] /\ id \in Ids
    BY <1>1, <1>2 DEF Systems, Components, Cleared, IInv, TypeOK
  <2>2. Griddable \subseteq Griddable'
    BY <2>1 DEF Griddable
  <2> QED BY <1>1, <1>2, <2>2, SeqMonotonic DEF IInv, GridQueue
<1>6. PlayersAlive'
  <2>1. comps["input"] \ {id} \subseteq comps'["input"] /\ members'["INPUT"] = members["INPUT"] \ {id}
    BY <1>2 DEF Components, Systems
  <2> QED BY <1>1, <1>2, <2>1 DEF IInv, TypeOK, PlayersAlive
<1> QED BY <1>2, <1>3, <1>4, <1>5, <1>6 DEF IInv

LEMMA InputPacketStep ==
  ASSUME IInv, NEW ip \in Ips, NEW keys \in SUBSET Keys, OnInput(ip, keys)
  PROVE  IInv'
<1> DEFINE id == clients[ip]
<1>1. /\ phase = "poll" /\ phase' = "update" /\ todo' = Updating
      /\ id \in Ids /\ id \in members["INPUT"]
      /\ presses' = [presses EXCEPT ![id] = keys]
      /\ activeIds' = [activeIds EXCEPT !["INPUT"] = Append(@, id)]
      /\ UNCHANGED <<idVars, comps, onMove, members, cells, clients>>
  BY DEF OnInput, StepBegins, IInv, TypeOK, PlayersAlive
<1>2. /\ activeIds \in [Queued -> Seq(Ids)] /\ "INPUT" \in Queued /\ "HASHGRID_SIZE" \in Queued
      /\ activeIds["INPUT"] \in Seq(members["INPUT"]) /\ activeIds["INPUT"] \in Seq(Ids)
  BY DEF IInv, TypeOK, Queued, InputWaits
<1>3. /\ Append(activeIds["INPUT"], id) \in Seq(members["INPUT"])
      /\ Append(activeIds["INPUT"], id) \in Seq(Ids)
  BY <1>1, <1>2, AppendProperties
<1>4. TypeOK'
  BY <1>1, <1>2, <1>3 DEF IInv, TypeOK, idVars
<1>5. Static'
  BY <1>1, StaticUnchanged DEF IInv
<1>6. InputWaits'
  BY <1>1, <1>2, <1>3 DEF InputWaits, Updating, Queued
<1>7. GridQueue'
  BY <1>1, <1>2 DEF IInv, GridQueue, Griddable
<1>8. PlayersAlive'
  BY <1>1 DEF IInv, PlayersAlive, idVars
<1> QED BY <1>4, <1>5, <1>6, <1>7, <1>8 DEF IInv

LEMMA Invariance == Spec => []IInv
<1>1. IInv /\ [Next]_vars => IInv'
  <2> SUFFICES ASSUME IInv, [Next]_vars PROVE IInv'
    OBVIOUS
  <2>1. ASSUME NEW kind \in WorldKinds, BuildWorld(kind) PROVE IInv'
    BY <2>1, BuildStep
  <2>2. CASE Run \/ NoPacket \/ UNCHANGED vars
    BY <2>2, IdleStep
  <2>3. ASSUME NEW s \in Queued, DrainUpdate(s) PROVE IInv'
    BY <2>3, DrainStep DEF DrainUpdate
  <2>4. CASE HashGridUpdate
    BY <2>4, HashGridStep
  <2>5. CASE InputUpdate
    BY <2>5, InputStep
  <2>6. ASSUME NEW moved \in SUBSET members["MOVE"], MoveUpdate(moved) PROVE IInv'
    BY <2>6, MoveStep
  <2>7. CASE SendDiff
    BY <2>7, SendDiffStep
  <2>8. ASSUME NEW ip \in Ips, OnConnect(ip) PROVE IInv'
    BY <2>8, ConnectStep
  <2>9. ASSUME NEW ip \in Ips, OnDisconnect(ip) PROVE IInv'
    BY <2>9, DisconnectStep
  <2>10. ASSUME NEW ip \in Ips, NEW keys \in SUBSET Keys, OnInput(ip, keys) PROVE IInv'
    BY <2>10, InputPacketStep
  <2> QED BY <2>1, <2>2, <2>3, <2>4, <2>5, <2>6, <2>7, <2>8, <2>9, <2>10 DEF Next, Update, Poll
<1> QED BY <1>1, Starts, PTL DEF Spec

-----------------------------------------------------------------------------
(* Every variable of the server's world stays in its domain. *)
THEOREM TypeCorrect == Spec => []TypeOK
<1>1. IInv => TypeOK
  BY DEF IInv
<1> QED BY <1>1, Invariance, PTL

(* No two entities share an id: acquireId() and releaseId() hand each out once. *)
THEOREM IdsNeverShared == Spec => []IdsPartition
<1>1. IInv => IdsPartition
  BY DEF IInv, Static
<1> QED BY <1>1, Invariance, PTL

(* EntityManager::remove() leaves no id in a system, whatever the commands added it to. *)
THEOREM RemovalLeavesSystems == Spec => []MembershipRegistered
<1>1. IInv => MembershipRegistered
  BY DEF IInv, Static
<1> QED BY <1>1, Invariance, PTL

(* sendDiff() and the systems that go through their members find every component. *)
THEOREM NoMissingComponent == Spec => []MembersEquipped
<1>1. IInv => MembersEquipped
  BY MembersAreEquipped DEF IInv
<1> QED BY <1>1, Invariance, PTL

(* InputSystem::update() never throws at a removed id. *)
THEOREM InputNeverStale == Spec => []InputFresh
<1>1. IInv => InputFresh
  <2> SUFFICES ASSUME IInv, NEW n \in 1 .. Len(activeIds["INPUT"])
               PROVE  Equipped(activeIds["INPUT"][n], "INPUT")
    BY DEF InputFresh
  <2>1. activeIds["INPUT"][n] \in members["INPUT"]
    BY ElementOfSeq DEF IInv, InputWaits
  <2> QED BY <2>1, MembersAreEquipped DEF IInv, MembersEquipped, Systems
<1> QED BY <1>1, Invariance, PTL

(* A press that waits is the business of an id that is queued for INPUT. *)
PressesQueued == \A id \in Ids : presses[id] # {} =>
                     \E n \in 1 .. Len(activeIds["INPUT"]) : activeIds["INPUT"][n] = id

(* InputSystem::update() comes to every id that is queued: none throws. *)
LEMMA InputServesAll ==
  ASSUME IInv, PressesQueued, InputUpdate
  PROVE  \A id \in Ids : presses'[id] = {}
<1> DEFINE I == "INPUT"
<1>1. \A n \in 1 .. Len(activeIds[I]) : Equipped(activeIds[I][n], I)
  <2>1. \A n \in 1 .. Len(activeIds[I]) : activeIds[I][n] \in members[I]
    BY ElementOfSeq DEF IInv, InputWaits
  <2> QED BY <2>1, MembersAreEquipped DEF IInv, MembersEquipped, Systems
<1>2. Len(activeIds[I]) \in Nat
  BY LenProperties DEF IInv, InputWaits
<1>3. Served(I) = 1 .. Len(activeIds[I])
  BY <1>1, <1>2 DEF Served
<1>4. \A id \in Ids : presses[id] # {} => id \in Handled(I)
  BY <1>3 DEF PressesQueued, Handled
<1> QED BY <1>4 DEF InputUpdate

(* The other steps add no press but the one of a packet, whose id is queued. *)
LEMMA PressesStayQueued ==
  ASSUME IInv, PressesQueued, [Next]_vars
  PROVE  PressesQueued'
<1> DEFINE I == "INPUT"
<1>1. ASSUME UNCHANGED presses, activeIds'[I] = activeIds[I] PROVE PressesQueued'
  BY <1>1 DEF PressesQueued
<1>2. ASSUME NEW id \in Ids, presses' = [presses EXCEPT ![id] = {}], activeIds'[I] = activeIds[I]
      PROVE  PressesQueued'
  BY <1>2 DEF PressesQueued, IInv, TypeOK
<1>3. activeIds \in [Queued -> Seq(Ids)] /\ I \in Queued
  BY DEF IInv, TypeOK, Queued
<1>4. ASSUME NEW kind \in WorldKinds, Create(kind) PROVE PressesQueued'
  <2>1. Acquired \in Ids
    BY <1>4, AcquireKeepsPartition DEF Create, IInv, Static, TypeOK
  <2>2. activeIds'[I] = activeIds[I]
    BY <1>3, <1>4 DEF Create
  <2> QED BY <1>2, <1>4, <2>1, <2>2 DEF Create
<1>5. CASE Run \/ NoPacket \/ SendDiff \/ UNCHANGED vars
  BY <1>1, <1>5 DEF Run, NoPacket, SendDiff, vars, entityVars, systemVars
<1>6. ASSUME NEW s \in Queued, DrainUpdate(s) PROVE PressesQueued'
  BY <1>1, <1>3, <1>6 DEF DrainUpdate, entityVars
<1>7. CASE HashGridUpdate
  BY <1>1, <1>3, <1>7 DEF HashGridUpdate, entityVars
<1>8. CASE InputUpdate
  BY <1>8, InputServesAll DEF PressesQueued
<1>9. ASSUME NEW moved \in SUBSET members["MOVE"], MoveUpdate(moved) PROVE PressesQueued'
  BY <1>1, <1>3, <1>9 DEF MoveUpdate, entityVars
<1>10. ASSUME NEW kind \in WorldKinds, BuildWorld(kind) PROVE PressesQueued'
  BY <1>4, <1>10 DEF BuildWorld
<1>11. ASSUME NEW ip \in Ips, OnConnect(ip) PROVE PressesQueued'
  BY <1>4, <1>11, FatManIsAPlayer DEF OnConnect
<1>12. ASSUME NEW ip \in Ips, OnDisconnect(ip) PROVE PressesQueued'
  <2>1. clients[ip] \in Ids /\ RemoveEntity(clients[ip])
    BY <1>12 DEF OnDisconnect, IInv, TypeOK, PlayersAlive
  <2> QED BY <1>2, <2>1 DEF RemoveEntity
<1>13. ASSUME NEW ip \in Ips, NEW keys \in SUBSET Keys, OnInput(ip, keys) PROVE PressesQueued'
  <2> DEFINE q == activeIds[I]
             me == clients[ip]
  <2>1. /\ me \in Ids /\ me \in members[I]
        /\ presses' = [presses EXCEPT ![me] = keys]
        /\ activeIds' = [activeIds EXCEPT ![I] = Append(@, me)]
    BY <1>13 DEF OnInput, IInv, TypeOK, PlayersAlive
  <2>2. activeIds'[I] = Append(q, me) /\ q \in Seq(Ids)
    BY <1>3, <2>1
  <2>3. /\ Len(Append(q, me)) = Len(q) + 1 /\ Len(q) \in Nat
        /\ Append(q, me)[Len(q) + 1] = me
        /\ \A n \in 1 .. Len(q) : Append(q, me)[n] = q[n]
    BY <2>1, <2>2, AppendProperties
  <2>4. \A id \in Ids : presses'[id] # {} => id = me \/ presses[id] # {}
    BY <2>1 DEF IInv, TypeOK
  <2> QED BY <2>2, <2>3, <2>4 DEF PressesQueued
<1> QED BY <1>5, <1>6, <1>7, <1>8, <1>9, <1>10, <1>11, <1>12, <1>13 DEF Next, Update, Poll

(* The press of a packet is acted on by the next update, and by nothing that  *)
(* comes in between is it held up or lost.                                    *)
THEOREM PressesActAtOnce == Spec => []NoPressWaits
<1>1. Init => PressesQueued
  BY DEF Init, PressesQueued
<1>2. IInv /\ PressesQueued => NoPressWaits
  BY DEF IInv, InputWaits, PressesQueued, NoPressWaits
<1>3. IInv /\ PressesQueued /\ [Next]_vars => PressesQueued'
  BY PressesStayQueued
<1> QED BY <1>1, <1>2, <1>3, Invariance, PTL DEF Spec

(* A client steers a living entity of its own, whatever the order of packets. *)
THEOREM PlayersStayAlive == Spec => []PlayersAlive
<1>1. IInv => PlayersAlive
  BY DEF IInv
<1> QED BY <1>1, Invariance, PTL

(* The cells of the hash grid hold its members only, though update() may throw. *)
THEOREM GridHasNoGhosts == Spec => []GridMatches
<1>1. IInv => GridMatches
  BY DEF IInv, Static
<1> QED BY <1>1, Invariance, PTL

-----------------------------------------------------------------------------
(* The refinement of DiffServer.  An entity that any diff may ever tell of   *)
(* is in the initial transfer as long as it lives, and the diffs are empty   *)
(* when the server comes to its packets.                                     *)
DiffsInv == /\ \A id \in Ids : registered[id] \cap Shown # {} => id \in members["INITIAL_COMPONENTS"]
            /\ phase = "poll" => members["MOVEDIFF"] = {} /\ members["RENDERDIFF"] = {}

(* An entity is shown in all three ways, or initially only, or not at all. *)
LEMMA KindsShow ==
  \A kind \in WorldKinds : kind.systems \cap Shown \in {Shown, {"INITIAL_COMPONENTS"}, {}}
<1> DEFINE Ways(kind) == kind.systems \cap Shown \in {Shown, {"INITIAL_COMPONENTS"}, {}}
<1> USE DEF Shown
<1>1. Ways(FatMan) /\ Ways(Tree) /\ Ways(GrassTile)
  BY DEF FatMan, Tree, GrassTile
<1>2. Ways(Flower) /\ Ways(Stone) /\ Ways(BlueBird)
  BY DEF Flower, Stone, BlueBird
<1>3. Ways(SwarmPoint) /\ Ways(Skybox) /\ Ways(Terrain)
  BY DEF SwarmPoint, Skybox, Terrain
<1> QED BY <1>1, <1>2, <1>3 DEF WorldKinds

(* What create...() does to the three systems. *)
LEMMA CreateShows ==
  ASSUME IInv, DiffsInv, NEW kind \in WorldKinds, Create(kind)
  PROVE  /\ kind.systems \cap Shown = Shown => Diffs!Shows(Acquired)
         /\ kind.systems \cap Shown = {"INITIAL_COMPONENTS"} => Diffs!ShowsOnce(Acquired)
         /\ kind.systems \cap Shown = {} => \A s \in Shown : members'[s] = members[s]
         /\ phase' # "poll" => DiffsInv'
<1> DEFINE id == Acquired
           IC == "INITIAL_COMPONENTS"
<1>1. /\ id \in Ids /\ id \notin ids
      /\ \A s \in Systems : members'[s] = IF s \in kind.systems THEN members[s] \cup {id}
                                                               ELSE members[s]
      /\ registered' = [registered EXCEPT ![id] = kind.systems]
  <2>1. id \in Ids /\ id \notin ids
    BY CreateKeeps DEF IInv
  <2>2. Joins(kind) = kind.systems
    BY KindsAreSound DEF Sound
  <2> QED BY <2>1, <2>2 DEF Create
<1>2. Shown \subseteq Systems /\ Shown = {IC, "MOVEDIFF", "RENDERDIFF"}
  BY DEF Shown, Systems
<1>3. id \notin members[IC]
  BY <1>1, <1>2 DEF IInv, Static, MembershipRegistered, TypeOK
<1>4. \A s \in Shown : members'[s] = IF s \in kind.systems THEN members[s] \cup {id} ELSE members[s]
  BY <1>1, <1>2
<1>5. ASSUME kind.systems \cap Shown = Shown PROVE Diffs!Shows(id)
  <2>1. \A s \in Shown : members'[s] = members[s] \cup {id}
    BY <1>4, <1>5
  <2> QED BY <1>1, <1>2, <1>3, <2>1 DEF Diffs!Shows
<1>6. ASSUME kind.systems \cap Shown = {IC} PROVE Diffs!ShowsOnce(id)
  <2>1. /\ members'[IC] = members[IC] \cup {id}
        /\ members'["MOVEDIFF"] = members["MOVEDIFF"]
        /\ members'["RENDERDIFF"] = members["RENDERDIFF"]
    BY <1>2, <1>4, <1>6
  <2> QED BY <1>1, <1>3, <2>1 DEF Diffs!ShowsOnce, Diffs!diffs
<1>7. ASSUME kind.systems \cap Shown = {} PROVE \A s \in Shown : members'[s] = members[s]
  BY <1>4, <1>7
<1>8. ASSUME phase' # "poll" PROVE DiffsInv'
  <2>1. ASSUME NEW i \in Ids, registered'[i] \cap Shown # {} PROVE i \in members'[IC]
    <3>1. CASE i = id
      <4>1. IC \in kind.systems
        BY <1>1, <1>2, <2>1, <3>1, KindsShow DEF IInv, TypeOK
      <4> QED BY <1>2, <1>4, <3>1, <4>1
    <3>2. CASE i # id
      <4>1. i \in members[IC]
        BY <1>1, <2>1, <3>2 DEF IInv, TypeOK, DiffsInv
      <4> QED BY <1>2, <1>4, <4>1
    <3> QED BY <3>1, <3>2
  <2> QED BY <1>8, <2>1 DEF DiffsInv
<1> QED BY <1>2, <1>5, <1>6, <1>7, <1>8

(* The steps that leave the diffs alone. *)
LEMMA QuietStep ==
  ASSUME IInv, DiffsInv, UNCHANGED <<registered, clients>>,
         \A s \in Shown : members'[s] = members[s],
         phase' = phase \/ (phase = "poll" /\ phase' = "update")
                        \/ (phase = "construct" /\ phase' = "update")
  PROVE  DiffsInv' /\ [Diffs!Next]_Diffs!vars
<1>1. /\ members'["INITIAL_COMPONENTS"] = members["INITIAL_COMPONENTS"]
      /\ members'["MOVEDIFF"] = members["MOVEDIFF"]
      /\ members'["RENDERDIFF"] = members["RENDERDIFF"]
  BY DEF Shown
<1>2. DiffsInv'
  BY <1>1 DEF DiffsInv
<1>3. Players' = Players
  BY DEF Players
<1>4. CASE phase' = phase
  BY <1>1, <1>2, <1>3, <1>4 DEF Diffs!vars, Diffs!diffs
<1>5. CASE phase = "poll" /\ phase' = "update"
  BY <1>1, <1>2, <1>3, <1>5 DEF Diffs!Next, Diffs!Idles, Diffs!PollEnds, Diffs!diffs
<1>6. CASE phase = "construct" /\ phase' = "update"
  BY <1>1, <1>2, <1>3, <1>6 DEF Diffs!Next, Diffs!Starts, Diffs!diffs
<1> QED BY <1>2, <1>4, <1>5, <1>6

LEMMA BuildShows ==
  ASSUME IInv, DiffsInv, NEW kind \in WorldKinds, BuildWorld(kind)
  PROVE  DiffsInv' /\ [Diffs!Next]_Diffs!vars
<1>1. Create(kind) /\ phase = "construct" /\ UNCHANGED <<clients, phase>>
  BY DEF BuildWorld
<1>2. DiffsInv' /\ Acquired \in Ids
  BY <1>1, CreateShows, CreateKeeps DEF IInv
<1>3. Players' = Players
  BY <1>1 DEF Players
<1>4. CASE Diffs!Shows(Acquired) \/ Diffs!ShowsOnce(Acquired)
  <2>1. Diffs!Builds(Acquired)
    BY <1>1, <1>3, <1>4 DEF Diffs!Builds
  <2> QED BY <1>2, <2>1 DEF Diffs!Next
<1>5. CASE \A s \in Shown : members'[s] = members[s]
  <2>1. UNCHANGED Diffs!vars
    BY <1>1, <1>3, <1>5 DEF Shown, Diffs!vars, Diffs!diffs
  <2> QED BY <1>2, <2>1
<1> QED BY <1>1, <1>2, <1>4, <1>5, KindsShow, CreateShows

LEMMA ConnectShows ==
  ASSUME IInv, DiffsInv, NEW ip \in Ips, OnConnect(ip)
  PROVE  DiffsInv' /\ [Diffs!Next]_Diffs!vars
<1>1. /\ Create(FatMan) /\ phase = "poll" /\ phase' = "update"
      /\ clients' = IF clients[ip] = NoId THEN [clients EXCEPT ![ip] = Acquired] ELSE clients
  BY DEF OnConnect, StepBegins
<1>2. FatMan \in WorldKinds /\ FatMan.systems \cap Shown = Shown
  BY FatManIsAPlayer DEF FatMan
<1>3. DiffsInv' /\ Acquired \in Ids /\ Diffs!Shows(Acquired)
  BY <1>1, <1>2, CreateShows, CreateKeeps DEF IInv
<1>4. Players' \in {Players, Players \cup {Acquired}}
  <2>1. CASE clients[ip] # NoId
    BY <1>1, <2>1 DEF Players
  <2>2. CASE clients[ip] = NoId
    <3>1. /\ clients'[ip] = Acquired /\ Acquired # NoId
          /\ \A o \in Ips \ {ip} : clients'[o] = clients[o]
      BY <1>1, <1>3, <2>2 DEF IInv, TypeOK, Ids, NoId
    <3>2. ASSUME NEW o \in Ips PROVE clients'[o] \in Players \cup {Acquired, NoId}
      BY <3>1 DEF Players
    <3>3. ASSUME NEW x \in Players PROVE x \in Players'
      BY <2>2, <3>1 DEF Players
    <3>4. Acquired \in Players'
      BY <3>1 DEF Players
    <3> QED BY <3>2, <3>3, <3>4 DEF Players
  <2> QED BY <2>1, <2>2
<1>5. Diffs!Joins(Acquired)
  BY <1>1, <1>3, <1>4 DEF Diffs!Joins, Diffs!PollEnds
<1> QED BY <1>3, <1>5 DEF Diffs!Next

LEMMA DisconnectHides ==
  ASSUME IInv, DiffsInv, NEW ip \in Ips, OnDisconnect(ip)
  PROVE  DiffsInv' /\ [Diffs!Next]_Diffs!vars
<1> DEFINE id == clients[ip]
<1>1. /\ phase = "poll" /\ phase' = "update"
      /\ id # NoId /\ id \in ids /\ id \in Ids /\ RemoveEntity(id)
      /\ clients' = [clients EXCEPT ![ip] = NoId]
  BY DEF OnDisconnect, StepBegins, IInv, TypeOK, PlayersAlive
<1>2. /\ \A s \in Shown : members'[s] = members[s] \ {id}
      /\ registered' = [registered EXCEPT ![id] = {}]
  <2>1. \A s \in Systems : members'[s] = members[s] \ {id}
    BY <1>1, RemoveKeeps DEF IInv
  <2>2. Shown \subseteq Systems
    BY DEF Shown, Systems
  <2> QED BY <1>1, <2>1, <2>2 DEF RemoveEntity
<1>3. /\ members'["INITIAL_COMPONENTS"] = members["INITIAL_COMPONENTS"] \ {id}
      /\ members'["MOVEDIFF"] = members["MOVEDIFF"]
      /\ members'["RENDERDIFF"] = members["RENDERDIFF"]
  BY <1>1, <1>2 DEF Shown, DiffsInv
<1>4. DiffsInv'
  BY <1>1, <1>2, <1>3 DEF IInv, TypeOK, DiffsInv
<1>5. id \in Players /\ Players' = Players \ {id}
  <2>1. \A o \in Ips \ {ip} : clients[o] # id /\ clients'[o] = clients[o]
    BY <1>1 DEF IInv, TypeOK, PlayersAlive
  <2>2. clients'[ip] = NoId
    BY <1>1 DEF IInv, TypeOK
  <2> QED BY <1>1, <2>1, <2>2 DEF Players
<1>6. Diffs!Leaves(id)
  BY <1>1, <1>3, <1>5 DEF Diffs!Leaves, Diffs!PollEnds, Diffs!diffs
<1> QED BY <1>1, <1>4, <1>6 DEF Diffs!Next

(* MoveSystem tells of entities that are shown. *)
LEMMA MoveShows ==
  ASSUME IInv, DiffsInv, NEW moved \in SUBSET members["MOVE"], MoveUpdate(moved)
  PROVE  DiffsInv' /\ [Diffs!Next]_Diffs!vars
<1> DEFINE movers == {id \in moved \cap comps["command"] : "MOVEDIFF" \in onMove[id].add}
<1>1. /\ UNCHANGED <<registered, clients, phase>> /\ phase = "update"
      /\ \A s \in Systems : members'[s] =
            members[s] \cup {id \in moved \cap comps["command"] : s \in onMove[id].add}
      /\ moved \subseteq Ids
  BY DEF MoveUpdate, Updates, idVars, IInv, TypeOK, Systems
<1>2. \A id \in moved : onMove[id].add \subseteq registered[id] \cap {"MOVE", "MOVEDIFF"}
  BY <1>1 DEF IInv, Static, CommandsRegistered
<1>3. /\ members'["INITIAL_COMPONENTS"] = members["INITIAL_COMPONENTS"]
      /\ members'["RENDERDIFF"] = members["RENDERDIFF"]
      /\ members'["MOVEDIFF"] = members["MOVEDIFF"] \cup movers
  <2>1. \A id \in moved : "INITIAL_COMPONENTS" \notin onMove[id].add /\ "RENDERDIFF" \notin onMove[id].add
    BY <1>2
  <2>2. Shown \subseteq Systems /\ Shown = {"INITIAL_COMPONENTS", "MOVEDIFF", "RENDERDIFF"}
    BY DEF Shown, Systems
  <2>3. \A s \in Shown : members'[s] =
            members[s] \cup {id \in moved \cap comps["command"] : s \in onMove[id].add}
    BY <1>1, <2>2
  <2> QED BY <2>1, <2>2, <2>3
<1>4. DiffsInv'
  BY <1>1, <1>3 DEF DiffsInv
<1>5. movers \subseteq members["INITIAL_COMPONENTS"]
  BY <1>1, <1>2 DEF DiffsInv, Shown
<1>6. Players' = Players
  BY <1>1 DEF Players
<1>7. Diffs!Moves(movers)
  BY <1>1, <1>3, <1>5, <1>6 DEF Diffs!Moves
<1> QED BY <1>4, <1>5, <1>7 DEF Diffs!Next

LEMMA SendDiffClears ==
  ASSUME IInv, DiffsInv, SendDiff
  PROVE  DiffsInv' /\ [Diffs!Next]_Diffs!vars
<1>1. /\ UNCHANGED <<registered, clients>> /\ phase = "update" /\ phase' = "poll"
      /\ members'["INITIAL_COMPONENTS"] = members["INITIAL_COMPONENTS"]
      /\ members'["MOVEDIFF"] = {} /\ members'["RENDERDIFF"] = {}
  BY DEF SendDiff, idVars, IInv, TypeOK, Systems
<1>2. DiffsInv'
  BY <1>1 DEF DiffsInv
<1>3. Diffs!Sends
  BY <1>1 DEF Diffs!Sends, Players
<1> QED BY <1>2, <1>3 DEF Diffs!Next

LEMMA NextServes ==
  ASSUME IInv, DiffsInv, [Next]_vars
  PROVE  DiffsInv' /\ [Diffs!Next]_Diffs!vars
<1> USE DEF idVars, systemVars
<1>1. ASSUME NEW kind \in WorldKinds, BuildWorld(kind)
      PROVE  DiffsInv' /\ [Diffs!Next]_Diffs!vars
  BY <1>1, BuildShows
<1>2. CASE Run \/ NoPacket \/ UNCHANGED vars
  BY <1>2, QuietStep DEF Run, NoPacket, StepBegins, vars
<1>3. ASSUME NEW s \in Queued, DrainUpdate(s)
      PROVE  DiffsInv' /\ [Diffs!Next]_Diffs!vars
  BY <1>3, QuietStep DEF DrainUpdate, Updates
<1>4. CASE HashGridUpdate
  BY <1>4, QuietStep DEF HashGridUpdate, Updates
<1>5. CASE InputUpdate
  <2>1. \A s \in Shown : members'[s] = members[s]
    BY <1>5 DEF InputUpdate, Shown, IInv, TypeOK, Systems
  <2> QED BY <1>5, <2>1, QuietStep DEF InputUpdate, Updates
<1>6. ASSUME NEW moved \in SUBSET members["MOVE"], MoveUpdate(moved)
      PROVE  DiffsInv' /\ [Diffs!Next]_Diffs!vars
  BY <1>6, MoveShows
<1>7. CASE SendDiff
  BY <1>7, SendDiffClears
<1>8. ASSUME NEW ip \in Ips, OnConnect(ip) PROVE DiffsInv' /\ [Diffs!Next]_Diffs!vars
  BY <1>8, ConnectShows
<1>9. ASSUME NEW ip \in Ips, OnDisconnect(ip) PROVE DiffsInv' /\ [Diffs!Next]_Diffs!vars
  BY <1>9, DisconnectHides
<1>10. ASSUME NEW ip \in Ips, NEW keys \in SUBSET Keys, OnInput(ip, keys)
       PROVE  DiffsInv' /\ [Diffs!Next]_Diffs!vars
  BY <1>10, QuietStep DEF OnInput, StepBegins
<1> QED BY <1>1, <1>2, <1>3, <1>4, <1>5, <1>6, <1>7, <1>8, <1>9, <1>10 DEF Next, Update, Poll

(* The server's ECS serves its world as DiffServer promises: it implements it. *)
THEOREM ServesAsPromised == Spec => ServesDiffs
<1>1. Init => Diffs!Init
  BY DEF Init, Diffs!Init, Players, Systems
<1>2. Init => DiffsInv
  BY DEF Init, DiffsInv
<1>3. IInv /\ DiffsInv /\ [Next]_vars => DiffsInv' /\ [Diffs!Next]_Diffs!vars
  BY NextServes
<1> QED BY <1>1, <1>2, <1>3, Invariance, PTL DEF Spec, ServesDiffs, Diffs!Spec
=============================================================================
