------------------------------- MODULE DiffServer -------------------------------
(***************************************************************************)
(* What the server's ECS promises to whoever sends its world over the       *)
(* network, and so to the clients: which entities the initial transfer and  *)
(* the diffs speak of, and when.  ServerWorld keeps the promise with its    *)
(* systems, archetypes and recycled ids; ServedClient shows that the server *)
(* of ClientWorld, which is made of a few sets, allows all of it.           *)
(***************************************************************************)
CONSTANT Ids

VARIABLES shown,    \* the entities that the initial transfer holds
          moved,    \* those that MOVEDIFF will tell of at the end of the step
          appeared, \* those that RENDERDIFF will
          players,  \* those that some client steers
          phase     \* where Server::step() is

diffs == <<moved, appeared>>
vars == <<shown, diffs, players, phase>>

(* The world is still to be built, or has been built and told to nobody. *)
Init == /\ \/ phase = "construct" /\ shown = {}
           \/ phase = "update" /\ shown \subseteq Ids
        /\ moved = {}
        /\ appeared = {}
        /\ players = {}

-----------------------------------------------------------------------------
(* Mutant of Shows: the new entity is not registered with MOVEDIFF. *)
ShowsUnmoved(id) == /\ id \in Ids \ shown
                    /\ shown' = shown \cup {id}
                    /\ appeared' = appeared \cup {id}
                    /\ UNCHANGED moved

(* Whatever appears moves as well: no client gets a look without a place.    *)
Shows(id) == /\ id \in Ids \ shown
             /\ shown' = shown \cup {id}
             /\ moved' = moved \cup {id}
             /\ appeared' = appeared \cup {id}

(* The sky and the terrain are in the initial transfer only. *)
ShowsOnce(id) == /\ id \in Ids \ shown
                 /\ shown' = shown \cup {id}
                 /\ UNCHANGED diffs

Builds(id) == /\ phase = "construct"
              /\ Shows(id) \/ ShowsOnce(id)
              /\ UNCHANGED <<players, phase>>

Starts == /\ phase = "construct"
          /\ phase' = "update"
          /\ UNCHANGED <<shown, diffs, players>>

(* Diffs tell only of entities that the initial transfer would tell of.      *)
Moves(movers) == /\ phase = "update"
                 /\ movers \subseteq shown
                 /\ moved' = moved \cup movers
                 /\ UNCHANGED <<shown, appeared, players, phase>>

(* The diffs are sent and cleared before the packet of the step is handled,  *)
(* so what a client joins to, or is told has left, is in none of them.       *)
Sends == /\ phase = "update"
         /\ phase' = "poll"
         /\ moved' = {}
         /\ appeared' = {}
         /\ UNCHANGED <<shown, players>>

PollEnds == phase = "poll" /\ phase' = "update"

(* A second entity for a client that has one already is steered by nobody.   *)
Joins(id) == /\ PollEnds
             /\ Shows(id)
             /\ players' \in {players, players \cup {id}}

(* Only players leave, and an id that has left is free for another entity.   *)
Leaves(id) == /\ PollEnds
              /\ id \in players
              /\ shown' = shown \ {id}
              /\ players' = players \ {id}
              /\ UNCHANGED diffs

Idles == PollEnds /\ UNCHANGED <<shown, diffs, players>>

Next == \/ \E id \in Ids : Builds(id) \/ Joins(id) \/ Leaves(id)
        \/ \E movers \in SUBSET shown : Moves(movers)
        \/ Starts \/ Sends \/ Idles

Spec == Init /\ [][Next]_vars
=============================================================================
