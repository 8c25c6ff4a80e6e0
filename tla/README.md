# Verification of swordbow-magic

swordbow-magic is a multiplayer game in C++14: one server and any number of
clients that exchange UDP packets, each built around an entity-component-system
(ECS). This directory holds TLA+ models of its core logic, the TLC runs that
check them and the TLAPS proofs about them. `PROJECT.json` maps every
definition to the lines it models.

## The system

| Part | State | Operations | Talks to |
|---|---|---|---|
| `Queue`, `Semaphore` (`include/queue.hpp`, `semaphore.hpp`) | ring `arr[start..end)`, two counters with a condition variable | `add`, `front`, `pop`, `take`, `empty` | receive thread writes, polling thread reads |
| `PacketManager`, `Socket` | the queue, connections, the non-blocking UDP socket | `receive`, `poll`, `send` | hands packets to a `PacketHandler` (server, or the client's current state) |
| `Server` (`src/server.cpp`) | `clients`, the ECS | `step`: update all systems, send and clear diffs, keep-alives, at most one packet (`onConnect`, `onDisconnect`, input) | all clients |
| `EntityManager`, `IdManager`, `ComponentManager` | ids, registrations, free ids, 14 component maps | `create...` (12 kinds), `remove`, `acquireId`, `releaseId`, `clearComponents` | systems (through `registerIdToSystem`), clients (`REMOVE_ID`) |
| `SystemManager` and the 13 server systems | member ids, queues of active ids, hash-grid cells | `add`, `remove`, `activateId`, `update` | each other, through commands (`ActivateId`, `AddIdToSystem`) |
| `Client` and its three states | receive thread and its flag, current state, containers counted, keep-alive timer | `connect`, `disconnect`, `run`, packet handlers, timeouts | window thread, receive thread, client thread; server |
| Client ECS | component maps, render list, texture hash grid, camera | `MOVECOMPONENTSDIFF`, `RENDERCOMPONENTSDIFF`, `REMOVE_ID`, ... | server's packets |
| World generation, adaptors for window and sound, overlays, logging | | | |

The server is one thread. A client has three: `main()` (blocked in the window),
the receive thread (`Client::receive`, producer of the queue) and the client
thread (`Client::run`, its consumer).

### What is hard

* Two threads share the queue with no mutex in common; only the semaphores
  order them.
* `SystemManager::update` walks an `unordered_map`, systems queue ids that a
  packet may remove before they are served, ids are recycled last in first
  out, and an exception ends one system's update half way.
* UDP loses, duplicates and reorders; the code numbers packets but neither
  acknowledges, orders nor repeats them, and counts the containers of the
  initial transmission instead of identifying them.
* `disconnect()` is reached from two threads and joins a third; the state a
  packet is handled by can change in the middle of `poll()`, while the rest of
  `step()` is still that of the old state.

`PROJECT.json` lists these hazards line by line with the properties that watch
them.

## The modules

| Module | What it is |
|---|---|
| `BoundedFifo` | abstract: what the queue promises, add blocks when full, take when empty, first in first out |
| `ConcurrentQueue` | `Queue` and `Semaphore`, one step per access, acquire, release and notification; implements `BoundedFifo` |
| `Archetypes` | tables: the kinds of entity, with components, systems and commands |
| `ServerWorld` | `Server::step`, the entity manager, ids, systems and the hash grid's membership; implements `DiffServer` |
| `DiffServer` | abstract: which entities the server's initial transfer and diffs tell of, and when |
| `WorldCopy` | abstract: what a copy of the world that lags behind promises at every moment, in any network |
| `ClientLifecycle` | the client's threads, states and initial transmission over an unreliable network |
| `Datagrams` | the packets from one socket to another, with a bounded number of losses, overtakings and repetitions |
| `ClientWorld` | one client's copy of the server's world: transmission, diffs, removals, the client's systems; extends `Datagrams`, implements `WorldCopy` |
| `ServedClient` | `DiffServer` with a history of the changes and of what one client is sent; implements `ClientWorld`'s server |
| `KeyInput` | keys from the window's thread to the server's `InputComponent`; extends `Datagrams` |
| `...Proofs` | the theorems about a module; `StreamOrderProofs` about `ClientWorld` too |
| `MC...` | instances for TLC |

Names follow the source. Operators whose comment begins with "Mutant of" are
deliberate bugs: none is part of a specification; each shows that a property
depends on the definition it would replace.

### ConcurrentQueue

`pc[t]` is where each thread is in its call. `acquire()` is one critical section
(`Acquire`) or goes to sleep (`Sleep`); `release()` is the increment under the
mutex (`Release`) and, after the unlock, `notify_one` (`Notify`). The slot access
is a step of its own, so `NoDataRace` can be asked. A sleeper may wake spuriously.
`ReaderOps` says which calls the reader makes: the class allows all, `poll()`
only takes. Mutexes `readmtx`/`writemtx` are never contended with one writer and
one reader, which is what the class comment demands.

### ServerWorld

The ECS is represented by which ids are where: `comps[c]` (component maps),
`members[s]` (systems), `activeIds[s]` (queues), `cells` (the ids the grid's cells
hold), `registered[id]` (`entityServerSystemMap`), `freeIds`/`lastId`, `clients`.
The data in a component is left out, except the presses of an `inputComponent`
that wait to be acted on. A step of the server is: each system with an effect in any order
(`Update`), `SendDiff`, then one packet or none (`Poll`). `BuildWorld` creates
entities of any kind a world uses, in any number up to the bound, before the
first step.

`at()` on a missing component throws; inside `update()` the exception ends that
system's update after the id was popped (`Served`, `Rest`), elsewhere it ends
the server, and `MembersEquipped` is the reason it does not happen.
`Create` and `RemoveEntity` are whole functions, calls included: registration
runs each system's `add`, and `AnimationSystem::add` also joins `RENDERDIFF`.
`DiffServer` is the side of the ECS that the network sees: the members of `INITIAL_COMPONENTS`,
`MOVEDIFF` and `RENDERDIFF`, and the ids that clients steer. `ServesDiffs` says that `ServerWorld`, with its
tables of kinds, commands, recycled ids and updates in any order, shows nothing else to it.

`SizeBoundingBox` answers a box at the origin whatever the position, so the cells
an id occupies never change and `cells` can be a set of ids.

### ServedClient

What is checked and proved of the client of `ClientWorld` is worth as much as the server that feeds it,
which there is a few sets. That server must leave out nothing that the ECS can do, and this takes two steps.
`ServesDiffs`: whatever `ServerWorld` does, `DiffServer` does. `ServesClient`: whatever `DiffServer` does,
`ClientWorld`'s server does. The second needs what `DiffServer` does not keep, the stamps of the components and the
packets of one client, so `ServedClient` adds them as history variables: `Appears` and `Moved` stamp, `ThisJoins`,
`OtherLeaves` and `Sent` send. Under the mapping, `ClientWorld`'s client has received nothing yet; what it then
does with the packets is `ClientWorld`'s own business and does not act back on this server.

The other way round it is not so, and need not be: `ClientWorld`'s server takes any free id for a new entity, the
`IdManager` the one freed last, so the client is checked against more than the ECS does. What the history does leave out of `DiffServer` is named in the module: the followed
client's own leaving, and a second CONNECT of it (`ClientWorld` says nothing of either); the building of
the world, whose diffs the first step clears before any client can have joined; and changes beyond `MaxStamp`, which the
theorem has for every value.

### ClientLifecycle

`receiver` is the receive thread, `pc["main"]` and `pc["client"]` the other two.
The queue is a sequence of at most `QueueSize` packets: what `ConcurrentQueue`
is proved to implement. `stepOf` is the state whose `step()` the client thread
is in, `clientState` the current one: they differ when a packet changed the
state during `poll()`. `expired` is the truth of `elapsed() > 10`. The network is a
set of packets received in any order; `Losses` and `MaxDuplicates` say what else
it does. The server is seen from outside: it answers `CONNECT` with the whole
transmission, then sends `KEEP_ALIVE`s, and may vanish. `DISCONNECT` never comes (the
server has no code that sends it). The packets of the game, which change neither
state nor timer, are left out.

`disconnect()` is three steps (test of the flag, clearing, join) for either
thread; to join a joined thread throws and ends the program (`Crashed`).

The number of containers in `BEGIN` goes through the `bool` parameter of its
constructor (`ThroughBool`), so the client always expects one.

The branch of `ClientReceiveInitialState::handle(InitialComponentsData)` for a
container later than END is modelled but never taken: END either runs the game
or disconnects, and both reset `endPacketReceived`.

### Datagrams

The channel that `ClientWorld` and `KeyInput` share. `net` is in the order of
sending; `Delivers(i)` hands packet `i` to the receiver. Packet 1 that leaves is the
ordinary case; any other, one that stays for another time, and a loss are
faults, of which there are at most `MaxFaults`. `faults` lets a property say
"unless the network has failed", which is the form of most of them: the code
repeats nothing, so what is lost stays lost. `ClientLifecycle` has a network of its
own, a set, because there only presence matters.

### ClientWorld

A server whose entities join, move and leave, one client, and the packets from the one
to the other. A component is the *stamp* of its last change, which tells older from
newer and nothing else. On the server `moves` is the map of move components and
`born` both the render components and the copies that `InitialComponentsSystem` takes
when an entity is created and never brings up to date; `moveDiff` and `renderDiff` are
the members of the two diff systems. `Join` is the whole of `onConnect`: the new FatMan,
`BEGIN`, the containers of `Components::split` in any filling that the hash table may
give, `END`, and the reply. `SendDiff` clears the diffs whether or not anybody is there to
be sent them.

The client has its two maps, the members of `RenderSystem` and of the texture hash grid,
`activeIds`, the camera's source, and `scene`, what `render()` last handed over. `at()` on a
missing component throws: in `render()` inside `SystemManager::update`, which
ends the drawing (`Drawable`), in `HashGridSystem::remove` inside a packet handler,
where nothing catches it and the client ends (`RemoveIdThrows`).

`WorldCopy` is what all this is for, said without packets. `clock`, `life` and `place` are the world's stamps
(`stamp`, `born`, `moves`), and the copy is the client's two maps. The copy may *learn* (entries only
get newer), *forget* an entity whose life is over, place and look in one step, and is always
`OfOneLife`: a place and a look that the copy has of one id belong to the same life of it. With the first
mistake of the network `trusted` falls and nothing is promised any more. `MirrorsWorld` says where the copy
arrives when all is quiet, `CopiesFaithfully` what it is on the way there.

### KeyInput

`keyEvents` is a vector used by two threads without a lock, so `push_back` is two
steps around whatever the client does (`OnKey`, `Pushed`), reading and clearing are two,
and an event can be cleared unread (`overrun`) or come back. `pollEvents` gives the events
to the current state; only the running state keeps them, and sends at most one
`INPUTDATA` per step with a list of presses and one of releases. The server handles
at most one packet between two updates. `hidden` records the presses the client cannot tell
(pressed and released in one step, or read in another state), so that `KeysFollow` can name
them as its exception.

## The runs

| Run | Shows | Bounds |
|---|---|---|
| `Queue` | type, accounting, no data race, no lost wakeup, `poll()` never sleeps, refinement of `BoundedFifo`; `add` returns, packets are delivered | ring of 3, 2 packets, all reader calls |
| `ServerSafety` | ids, memberships, components, input queue, players, grid; a press is acted on by the next update; refinement of `DiffServer` | 2 addresses (symmetric), 3 ids, queues of 3 |
| `ServerLiveness` | stale ids leave the queues, presses are consumed | 1 address, 2 ids, queues of 3 |
| `ClientSafety` | nobody runs in an empty world; until a packet comes twice, a connected client receives; always: `main()` joins no thread that nobody drains, nothing left at the end, no second join while the window is open | 2 containers, queue of 1, losses, one duplicate |
| `ClientLiveness` | timeouts, end of the transmission, shutdown | 1 container, queue of 1, no losses, no duplicates |
| `WorldSafety` | the client's systems agree; without a fault its copy is faithful at every moment (refinement of `WorldCopy`), comes to mirror the world, never crashes; moves are drawn | 3 ids, one of them scenery, containers of 2, 4 stamps, 1 fault |
| `ServedClient` | the server of `ClientWorld` covers everything `DiffServer` does (refinement) | 4 ids, one of them scenery, containers of 2, 5 stamps |
| `InputSafety` | the server's keys follow the keyboard; presses are acted on, releases arrive | 2 keys, 4 key events, 1 fault |

The remaining four runs find what the code does against its own comments (below).

Why the bounds are enough: a ring of small size wraps, fills and empties within
a few calls, and a single reader and writer are all there are. Three ids let
two players and a world entity coexist and every id be recycled, with a stale
queue entry pointing at the recycled one; two addresses are what sharing an id
takes. Two containers are what it takes for one to be lost while the other is
there; a queue of one or two fills with one packet more in hand. Three ids of which one is
scenery give this client's player and another one, whose id can come back after
it has left; containers of two split a world of three; four stamps, of which the scenery has
the first, are two creations and a move, or a removal and a creation under
the same id; one fault is the least that breaks each premise, and after it the rest of the
run is faultless. `ServedClient` has an id and a stamp more, so that three players are there at once,
one joins before the followed client and one after it, and an entity that has moved leaves. Four key events are a press and a release of both keys, or two of each
of one, more than a step of the client reads at once in most interleavings.

`Settles` and `TimesOut` are not asked of a network that repeats packets: there a forced
disconnect can wait for a receive thread that waits for room in the queue, which
only the disconnecting thread would make. With the real queue of 1024 it takes
that many packets within one step; the hazard list names it.

Fairness. Queue: a thread inside a call is scheduled and the client keeps
polling (strong, since the run lets the reader make other calls in between; a reader that only polls is one of its cases); nothing obliges the socket to deliver. Server: the loop keeps stepping
(`WF_vars(Next)`, where a step with no packet is a step). Client: `Scheduling`,
the three threads run and time passes; `Delivery` (strong), only in
`ClientLiveness`, says that an END that stays under way while
the receive thread keeps asking is received, and asks nothing of other packets. The window
need never be closed. `ClientWorld`: the server sends its diffs and goes on from a step
without a packet, the client draws, and the first packet under way is received; nobody need join, move
or leave. `KeyInput`: both loops go on, and a packet that is there whenever the server asks its
socket is received (strong, since the server asks only once per step); no key need
be pressed. `CHECK_DEADLOCK FALSE` appears for the client's lifecycle only, whose program ends.

## What the checks found

Each is a run that violates one property; `PROJECT.json` has the quotations.

* `ServerReconnect`: a second CONNECT of an address is answered with an id the
  address does not steer, and leaves an orphan.
* `ClientPartialWorld`: the number of containers in BEGIN passes through a `bool`, so
  a client runs as soon as it has one container of several.
* `ClientJoin`: closing the window during a forced disconnect may join the
  receive thread twice.
* `WorldRemoval`: `RenderSystem::remove` leaves the id in `activeIds`; when a player leaves, the
  scene of every other client stops changing.

More facts met on the way have no run of their own.

* A removed entity stays in the queues of active ids until the next update serves it
  (`StaleDrained` says that it does not stay there for ever).
* `clearComponents` forgets the bird and camera maps.
* A repeated BEGIN can revive a client that is being disconnected, without a receive thread,
  which is why `ReceivesUnlessRepeated` has its premise.
* An END that overtakes BEGIN is ignored, and the client stays in the receiving state for as long
  as `KEEP_ALIVE`s come.
* END and the timeout in one step of the receiving state leave the running state
  past the code that stops the music.
* The birds of the scenery move like players do (`createBlueBird` has the same `ON_MOVE`), so the ids in a diff need
  not be those of players: `Move` moves any set of entities at once.
* A diff that a client gets after it joined is newer than the copies it was sent, but an entity that
  has not moved since stands where it was created, not where it is: the last disjunct of `MirrorsWorld`.

## The proofs

`ConcurrentQueueProofs` proves for every size and every set of packets what
`Queue` checks, refinement included. `Accounting` alone is not inductive:
the invariant adds what each location of a thread implies about the permissions
(a thread in `access` holds one) and, for `NoLostWakeup`, who is about to notify.
From `Count + Free = Size` and `end = start + Count (mod Size)` the absence of a
race follows by arithmetic; the contents of the queue, read off the ring, map
each step to one of `BoundedFifo` or to a stutter. `NeverBothAsleep`
follows from accounting and the wakeups, which the run checks, so the run does not repeat it: if both
slept, every permission would be available, one side would have one at least, and the sleeper
of that side would have a notification coming from a thread that is awake.

`ServerWorldProofs` proves for every set of addresses and every bound on ids
what `ServerSafety` checks. The inductive invariant `IInv` is the conjunction of
the type invariant; `Static` (ids are partitioned, memberships are registered,
*registered* ids are equipped, commands only name registered systems, cells are the
grid's members); `InputWaits` (the input queue is empty while packets are
handled and after `INPUT` ran); `PlayersAlive`; and `GridQueue`. `MembersEquipped`
is not inductive without the registrations, since it is by them that `remove()` finds the
systems; `InputFresh` is not without knowing that at most one packet is handled
between two updates. The tables of `Archetypes` are unfolded kind by kind.

`NoPressWaits` is what the liveness property `PressesConsumed` is too weak to say: a press waits for no second
update. It needs that a press which waits is queued (`PressesQueued`) and that none of the queue's ids makes the
update throw, which `IInv` has. For `ServesDiffs` the invariant (`DiffsInv`) adds that an
id registered with any of the three systems is a member of `INITIAL_COMPONENTS`, so that no command
can put an entity into a diff that the initial transfer lacks, and that the diffs are empty while a packet is handled;
each step of the server is then a step of `DiffServer` or a stutter.

`ClientLifecycleProofs` proves for every number of containers, every queue size and
every network the invariants of `ClientSafety`. For `NothingLeft` the invariant
(`Joining`) follows the duty to join: who clears `receiveThreadRunning` is on its way to
`join()` until the receive thread is joined, and `main()` gets past `disconnect()` only
when the flag is cleared; so when the client's thread has returned, the receive thread
has been joined. For `ReceivesUnlessRepeated` it follows the packets (`Unrepeated`):
until one comes twice, each packet of the transmission is in one place at most (network,
receive thread, queue), and a `BEGIN` that was handled is nowhere under way. For
`NeverEmptyWorld` it is enough that a counted container is a synced one and that END
lets the client run only with one counted, whatever the network does.
`JoinIsDrained` and `CrashTakesBoth` need `Joining` and what the threads do meanwhile (`Waiting`): the client's
thread is inside `disconnect()` only by force, it runs until `main()` has stopped it, the flag is
cleared once the receive thread is joined, and while the window is open nobody is then on the way to join it again.

`DatagramsProofs` has the two lemmas about the channel that the others cite: removing a packet keeps
the type, and so does every step of the channel.

`ClientWorldProofs` proves `TypeOK` and `SystemsAgree` for every set of ids, every size of container
and any number of faults. The invariant strengthens the type of the packets: a container of the
initial transmission has both components of an id or neither (`PairedPackets`), without which
`HandleInitial`, that only looks at `mcs`, would show an id that cannot be drawn.

`StreamOrderProofs` proves the other safety properties of `ClientWorld`, for every set of ids and
every size of container. All of them say "while the network makes no mistake" (`faults = 0`), and their invariants relate
every packet under way to both sides.

* `CrashNeedsFault`: the stream has an order (`BEGIN`, containers, `END`, then the game), so the
  packet that comes is always one the client's state handles; every `REMOVE_ID` under way finds
  both components of its id, there already or in the packets before it (`HasMove`, `HasRender`). To
  show this of a `REMOVE_ID` just sent, every entity must have been told by then: a client that
  joined was sent them all, and the diffs of a step are sent before its packet is handled (`DiffsGone`).
* `NeverBackwards`, the part of `CopiesFaithfully` about transforms (no run checks it apart): for each id the stamps grow from the client over the packets to the
  server (`NetAges`, `ClientAges`). The copies of the initial transmission are older than the moves, but
  they go to a client that has nothing (`Unconnected`).
* `MirrorsWorld`: an entry, of the client or of a packet, *lasts* if no `REMOVE_ID` is behind it. What lasts is
  of an entity that is alive, a `renderComponent` that lasts is the server's, and each transform of the server
  is in the next diff, or lasts somewhere, or has not changed since the client joined (`MovesTrue`). That a
  packet does not overwrite the newest transform follows from the order of the stamps. The client
  plays because a container comes before `END` (`Plays`).
* `CopiesFaithfully`: the refinement of `WorldCopy`. Its invariant `LifeInv` adds the *looks* to the order of the
  transforms (`Lives`): from the client over the packets to the server the looks of an id only get newer
  (`LooksInOrder`), no look is younger than the clock, what a
  `REMOVE_ID` is going to erase is older than the entity that has the id by now (`RemovedOld`), and every look comes behind
  a transform that is no older and stays until then (`LooksFollow`). That is the order in which `sendDiff` sends
  the two diffs; the mutant that does not tell of a removal breaks it two lives later. `LifeIsOne` derives `OfOneLife`, and each step of the client is a step
  `Learns` or `Forgets`.

`ServedClientProofs` proves `ServesClient` for every set of ids, scenery and size of container. The invariant says
that the two maps of stamps hold exactly the entities that are shown, that the scenery is shown and nobody's player,
and that the diffs are empty while a packet is handled, without which the `REMOVE_ID` of `ClientWorld`, that takes the
id out of the diffs, would not be the `Leaves` of `DiffServer`. Each of the six steps is then one of `ClientWorld`'s.
With `ServesAsPromised` it closes the gap between the ECS and the theorems about the client.

`KeyInputProofs` proves for every set of keys and every number of events and faults `TypeOK`,
`PressesActedOn` (no press waits while packets are handled, since there is one packet at most between two updates)
and `NeverStuck`. The invariant of the last follows the keys along the whole way, vector, lists
and packets: every press on the way is of a key that is held or has a release behind it.
`SettleInv` is the mirror image for `KeysFollow`: every release on the way is of a key that is up, or has
a press behind it, or is of a key whose press the client could not tell. Both say of the vector that
the last event of each key settles how the key is, and quantify over positions where
the definition would recur over the vector.

The assumptions are the named `ASSUME`s of the modules: sizes are positive,
bounds are naturals, the default element is no packet, `None` is no id.

Only model-checked: the liveness properties (the provers do not reach fairness
and `ENABLED`). Every invariant, every refinement and every safety action property that a passing run checks is a theorem.
No module uses RECURSIVE operators or induction over data.

## Not modelled

Component data (transforms, velocities, animation), collision response, world
noise, serialisation, the send side's `rawPackets` (which nothing reads), logging, overlays, rendering
and sound back ends. `RemoveSystem` and `HealthSystem` have nothing to do in this
version: no code lowers a health, so their queues stay empty. The hash grid's `query()` and
`overlaps()` have callers only in commented-out code, and both bounding boxes are constant, so the
arithmetic of the cells decides nothing. No server sends `REGISTER_ID_TO_SYSTEM`, `ACTIVATE_ID`,
`REMOVE_ID_FROM_SYSTEM(S)` or `PLAY_SOUND`, no client `CONGESTED_CLIENT`; their handlers are left out.
`createWaterTile`, `createBloodSplatter`, `createDummySquare` and `dissolveSwarm` have
no caller; the first three are in the tables, none in a world. The reallocation of `keyEvents` while
`pollEvents` walks it is undefined behaviour with any outcome, and is left out.

## Plan

1. (done) queue, server world, client lifecycle; their proofs.
2. (done) `Datagrams`, `ClientWorld`, `KeyInput`; the proofs of all their safety properties.
3. (done) The contracts between the parts, `DiffServer` and `WorldCopy`, the coverage of the ECS by
   `ClientWorld`'s server (`ServedClient`), and the refinement proofs.
4. Two clients at once, and a client that reconnects, over `ClientWorld` and `DiffServer`.
