------------------------------ MODULE Archetypes ------------------------------
(***************************************************************************)
(* The kinds of entity that EntityManager::create... builds: the component *)
(* maps of ComponentManager it fills, the systems it registers the id with *)
(* and what its commandComponent does on ON_MOVE.  Transforms, sizes, names*)
(* and animation frames are left out: nothing below depends on them.       *)
(***************************************************************************)

(* The component maps of ComponentManager. *)
Components == {"move", "render", "input", "tile", "size", "name", "sound", "animation",
               "health", "attack", "command", "acceleration", "bird", "camera"}

(* The systems the server adds to its SystemManager. *)
Systems == {"MOVEDIFF", "RENDERDIFF", "INPUT", "ACCELERATION", "MOVE", "BIRD", "ANIMATION",
            "HASHGRID_SIZE", "COLLISION", "ATTACK", "HEALTH", "REMOVE", "INITIAL_COMPONENTS"}

(* The components a system fetches with at(): add() of INITIAL_COMPONENTS    *)
(* and HASHGRID_SIZE, sendDiff() for the two diff systems, update() for the  *)
(* others.  at() throws out_of_range for an id that has none.                *)
Needs == [MOVEDIFF           |-> {"move"},
          RENDERDIFF         |-> {"render"},
          INPUT              |-> {"input", "command"},
          ACCELERATION       |-> {"move", "acceleration"},
          MOVE               |-> {"move"},
          BIRD               |-> {"bird", "move", "acceleration"},
          ANIMATION          |-> {"animation", "move"},
          HASHGRID_SIZE      |-> {"move", "size"},
          COLLISION          |-> {},
          ATTACK             |-> {"attack", "move"},
          HEALTH             |-> {"health"},
          REMOVE             |-> {"command"},
          INITIAL_COMPONENTS |-> {"move", "render"}]

(* The three diff and initial systems every visible entity is registered with. *)
Shown == {"INITIAL_COMPONENTS", "MOVEDIFF", "RENDERDIFF"}

(* Mutant of FatMan: not registered with the system its ON_MOVE adds it to. *)
FatManUnregistered ==
       [comps    |-> {"move", "input", "size", "render", "name", "sound", "animation",
                      "health", "attack", "command", "camera"},
        systems  |-> {"MOVE", "COLLISION", "HASHGRID_SIZE", "HEALTH", "REMOVE", "ATTACK",
                      "INPUT", "ANIMATION"} \cup (Shown \ {"MOVEDIFF"}),
        activate |-> {"COLLISION", "HASHGRID_SIZE"},
        add      |-> {"MOVEDIFF"}]

FatMan == [comps    |-> {"move", "input", "size", "render", "name", "sound", "animation",
                         "health", "attack", "command", "camera"},
           systems  |-> {"MOVE", "COLLISION", "HASHGRID_SIZE", "HEALTH", "REMOVE", "ATTACK",
                         "INPUT", "ANIMATION"} \cup Shown,
           activate |-> {"COLLISION", "HASHGRID_SIZE"},
           add      |-> {"MOVEDIFF"}]

Tree == [comps    |-> {"move", "input", "size", "render", "name"},
         systems  |-> {"COLLISION", "HASHGRID_SIZE"} \cup Shown,
         activate |-> {}, add |-> {}]

GrassTile == [comps    |-> {"move", "tile", "size", "render", "name"},
              systems  |-> Shown,
              activate |-> {}, add |-> {}]

WaterTile == [comps    |-> {"move", "tile", "size", "render", "name"},
              systems  |-> Shown,
              activate |-> {}, add |-> {}]

BloodSplatter == [comps    |-> {"move", "render", "name", "animation"},
                  systems  |-> {"ANIMATION"} \cup Shown,
                  activate |-> {}, add |-> {}]

Flower == [comps    |-> {"move", "render", "name"},
           systems  |-> Shown,
           activate |-> {}, add |-> {}]

DummySquare == [comps    |-> {"move", "render", "input", "name", "command", "animation"},
                systems  |-> {"MOVE", "INPUT"} \cup Shown,
                activate |-> {}, add |-> {"MOVE"}]

Stone == [comps    |-> {"move", "render", "size", "name"},
          systems  |-> {"COLLISION", "HASHGRID_SIZE"} \cup Shown,
          activate |-> {}, add |-> {}]

BlueBird == [comps    |-> {"move", "render", "name", "animation", "acceleration", "bird",
                           "command"},
             systems  |-> {"MOVE", "ANIMATION", "BIRD", "ACCELERATION"} \cup Shown,
             activate |-> {}, add |-> {"MOVEDIFF"}]

SwarmPoint == [comps    |-> {"move", "acceleration", "name"},
               systems  |-> {"ACCELERATION", "MOVE"},
               activate |-> {}, add |-> {}]

Skybox == [comps    |-> {"move", "name", "render"},
           systems  |-> {"INITIAL_COMPONENTS"},
           activate |-> {}, add |-> {}]

Terrain == [comps    |-> {"move", "name", "render"},
            systems  |-> {"INITIAL_COMPONENTS"},
            activate |-> {}, add |-> {}]

Kinds == {FatMan, Tree, GrassTile, WaterTile, BloodSplatter, Flower, DummySquare, Stone,
          BlueBird, SwarmPoint, Skybox, Terrain}

(* What World::createWorld and World::createDebugWorld build. *)
WorldKinds == {FatMan, Tree, GrassTile, Flower, Stone, BlueBird, SwarmPoint, Skybox, Terrain}
=============================================================================
