------------------------------- MODULE WorldCopy -------------------------------
(***************************************************************************)
(* What a copy of the world that is kept up to date over a network promises *)
(* at every moment, not only when it has caught up, and without a word of   *)
(* packets: it may lag behind, by any amount and for each entity by another, *)
(* but it only ever learns, it forgets no entity that is there, and it never *)
(* joins the place that an entity has in one life with the look it had in   *)
(* another.  ClientWorld implements it: the copy is the client's two maps of *)
(* components, the world the server's.                                      *)
(***************************************************************************)
EXTENDS Naturals

CONSTANTS Ids,  \* the ids of the entities, used again when one has left
          None  \* no entity, no component

VARIABLES clock,      \* when the world last changed
          life,       \* when each entity came into it
          place,      \* when each entity last moved
          copyLife,   \* the life and the place that the copy has of each
          copyPlace,
          trusted     \* whether the network has carried everything, in order

world == <<clock, life, place>>
copy == <<copyLife, copyPlace>>
vars == <<world, copy, trusted>>

Init == /\ clock = 1
        /\ life \in [Ids -> {None, clock}]
        /\ place = life
        /\ copyLife = [id \in Ids |-> None]
        /\ copyPlace = copyLife
        /\ trusted = TRUE

-----------------------------------------------------------------------------
(* The world, of which the copy learns later. *)
Ticks == clock' = clock + 1 /\ UNCHANGED copy

Enters(id) == /\ life[id] = None
              /\ Ticks
              /\ life' = [life EXCEPT ![id] = clock']
              /\ place' = [place EXCEPT ![id] = clock']

(* Any number of entities move at once. *)
Moves(movers) == /\ \A id \in movers : life[id] # None
                 /\ Ticks
                 /\ place' = [id \in Ids |-> IF id \in movers THEN clock' ELSE place[id]]
                 /\ UNCHANGED life

Leaves(id) == /\ life[id] # None
              /\ life' = [life EXCEPT ![id] = None]
              /\ place' = [place EXCEPT ![id] = None]
              /\ UNCHANGED <<clock, copy>>

-----------------------------------------------------------------------------
(* The copy.  Its place is of the life that its look is of, and if that life *)
(* is over, of a moment before the next.                                     *)
OfOneLife(id) ==
    copyLife[id] # None /\ copyPlace[id] # None =>
        /\ copyLife[id] <= copyPlace[id]
        /\ life[id] # None /\ life[id] <= copyPlace[id] => copyLife[id] = life[id]

(* It learns what is newer, or what it had forgotten, of any entities. *)
Goes(old, new) == /\ new \in [Ids -> Nat]
                  /\ \A id \in Ids : old[id] <= new[id] /\ new[id] <= clock

Learns == /\ Goes(copyLife, copyLife')
          /\ Goes(copyPlace, copyPlace')
          /\ \A id \in Ids : OfOneLife(id)'
          /\ UNCHANGED world

(* It forgets, place and look at once, an entity whose life is over. *)
Forgets(id) == /\ copyLife[id] # life[id]
               /\ copyLife' = [copyLife EXCEPT ![id] = None]
               /\ copyPlace' = [copyPlace EXCEPT ![id] = None]
               /\ UNCHANGED world

(* Of a network that loses, repeats or reorders nothing is promised. *)
Fails == trusted' = FALSE

Next == \/ /\ \/ \E id \in Ids : Enters(id) \/ Leaves(id) \/ Forgets(id)
              \/ \E movers \in SUBSET Ids : Moves(movers)
              \/ Learns
           /\ UNCHANGED trusted
        \/ Fails

Spec == Init /\ [][Next]_vars
=============================================================================
