------------------------------- MODULE KeyInput -------------------------------
(***************************************************************************)
(* The way of a key from the keyboard to the player's InputComponent: the  *)
(* window's thread pushes events into LowpolyAdaptor::keyEvents, the       *)
(* client's thread reads and clears them in every step and sends what was  *)
(* pressed and released, the server keeps which keys are down.             *)
(*                                                                         *)
(* keyEvents is a vector that the two threads use without a lock.  It is   *)
(* modelled as its memory and its end: push_back() reads the end, writes   *)
(* the element and stores the end, the client's loop reads the end once,   *)
(* clear() stores it.  (What a reallocation in the middle of the loop      *)
(* would do to it is left out: the vector never gives memory back, so it   *)
(* stops growing.)  The mouse goes the same way; its position is absolute, *)
(* so the next one makes up for any that is lost.                          *)
(*                                                                         *)
(* The client enters its running state and stays in it: the ways out are   *)
(* ClientLifecycle's, and the player they leave behind ServerWorld's.      *)
(***************************************************************************)
EXTENDS Datagrams

CONSTANTS Keys,
          MaxEvents \* bound: events of the keyboard

ASSUME MaxEventsAssumption == MaxEvents \in Nat

VARIABLES held,       \* the keys that are down on the keyboard
          occurred,   \* how many events it has had
          memory,     \* what keyEvents' memory holds
          end,        \* its size
          pushing,    \* the onKey() under way: its event and the end it has read
          overrun,    \* whether clear() has removed an event that was not read
          pc,         \* where the client's thread is in its step
          read,       \* how many events the loop has read
          running,    \* whether the client is in ClientRunningState
          presses,    \* ClientRunningState::presses
          releases,   \* ClientRunningState::releases
          hidden,     \* the keys whose last press the client did not tell apart
          phase,      \* what comes next in Server::step()
          down,       \* InputComponent::w, a, s, d, e, q, space
          icPresses   \* InputComponent::presses

windowVars == <<held, occurred, pushing>>
eventVars == <<memory, end, overrun>>
clientVars == <<pc, read, running, presses, releases, hidden>>
serverVars == <<phase, down, icPresses>>
vars == <<windowVars, eventVars, clientVars, netVars, serverVars>>

Events == [key : Keys, press : BOOLEAN]
InputData == [presses : SUBSET Keys, releases : SUBSET Keys]
NotPushing == <<>>

Init == /\ held = {}
        /\ occurred = 0
        /\ memory = <<>>
        /\ end = 0
        /\ pushing = NotPushing
        /\ overrun = FALSE
        /\ pc = "events"
        /\ read = 0
        /\ running = FALSE
        /\ presses = {}
        /\ releases = {}
        /\ hidden = {}
        /\ NetInit
        /\ phase = "update"
        /\ down = {}
        /\ icPresses = {}

-----------------------------------------------------------------------------
(* The window's thread. *)

(* A key goes down or up; GLFW calls onKey(), and push_back() reads the end. *)
OnKey(k) == /\ pushing = NotPushing
            /\ occurred < MaxEvents
            /\ occurred' = occurred + 1
            /\ held' = IF k \in held THEN held \ {k} ELSE held \cup {k}
            /\ pushing' = <<[key |-> k, press |-> k \notin held], end>>
            /\ UNCHANGED <<eventVars, clientVars, netVars, serverVars>>

(* push_back() writes the element and stores the end it makes.  If clear()   *)
(* came in between, the elements it removed are there again.                 *)
Pushed == /\ pushing # NotPushing
          /\ memory' = Append(SubSeq(memory, 1, pushing[2]), pushing[1])
          /\ end' = pushing[2] + 1
          /\ pushing' = NotPushing
          /\ UNCHANGED <<held, occurred, overrun, clientVars, netVars, serverVars>>

-----------------------------------------------------------------------------
(* The client's thread: pollEvents() and the rest of the step. *)
At(here, there) == pc = here /\ pc' = there

Unread == SubSeq(memory, 1, end)
KeysOf(events, press) == {e.key : e \in {events[i] : i \in {j \in DOMAIN events :
                                                              events[j].press = press}}}

(* The keys whose last event of these is a press that is not told: the state *)
(* ignores it, or sends it together with a release of the same key.          *)
LastPressed(events) ==
    {k \in Keys : \E i \in DOMAIN events :
        events[i] = [key |-> k, press |-> TRUE]
          /\ \A j \in DOMAIN events : j > i => events[j].key # k}
Untold(events) == LastPressed(events) \cap (IF running THEN KeysOf(events, FALSE) ELSE Keys)

(* Mutant of LoopEnd: the loop goes on to keyEvents.size(). *)
LoopEndInclusive == end + 1

(* The end of a range-based for is evaluated once. *)
LoopEnd == end

(* for(evt : keyEvents) clientState->onEvent(evt) *)
ReadEvents == /\ At("events", "clear")
              /\ read' = LoopEnd
              /\ presses' = IF running THEN presses \cup KeysOf(Unread, TRUE) ELSE presses
              /\ releases' = IF running THEN releases \cup KeysOf(Unread, FALSE) ELSE releases
              /\ hidden' = (hidden \ (KeysOf(Unread, TRUE) \cup KeysOf(Unread, FALSE)))
                             \cup Untold(Unread)
              /\ UNCHANGED <<running, windowVars, eventVars, netVars, serverVars>>

(* keyEvents.clear() *)
ClearEvents == /\ At("clear", "send")
               /\ end' = 0
               /\ overrun' = (overrun \/ end # read)
               /\ UNCHANGED <<memory, read, running, presses, releases, hidden, windowVars,
                              netVars, serverVars>>

(* Mutants of Told: only presses, or only releases, are worth a packet. *)
ToldPresses == presses # {}
ToldReleases == releases # {}

Told == presses \cup releases # {}

InputOf == [presses |-> presses, releases |-> releases]

(* ClientRunningState::step() sends the lists if there is anything in them.  *)
SendInput == /\ running
             /\ At("send", "events")
             /\ net' = IF Told THEN Append(net, InputOf) ELSE net
             /\ presses' = {}
             /\ releases' = {}
             /\ UNCHANGED <<faults, read, running, hidden, windowVars, eventVars, serverVars>>

(* The step of another state sends nothing; poll() may change the state.     *)
OtherStep == /\ ~running
             /\ At("send", "events")
             /\ running' \in BOOLEAN
             /\ UNCHANGED <<read, presses, releases, hidden, windowVars, eventVars, netVars,
                            serverVars>>

ClientStep == ReadEvents \/ ClearEvents \/ SendInput \/ OtherStep

-----------------------------------------------------------------------------
(* The server: the systems are updated, then one packet is handled. *)
Lose(i) == Loses(i) /\ UNCHANGED <<windowVars, eventVars, clientVars, serverVars>>

(* InputSystem::update() executes the commands of the presses; MoveSystem    *)
(* moves by the keys that are down.                                          *)
Update == /\ phase = "update"
          /\ phase' = "poll"
          /\ icPresses' = {}
          /\ UNCHANGED <<down, windowVars, eventVars, clientVars, netVars>>

(* Mutant of InputDataToInputComponent: the releases come first. *)
ReleasesFirst(data) == /\ icPresses' = data.presses
                       /\ down' = (down \ data.releases) \cup data.presses

(* Server::inputDataToInputComponent() *)
InputDataToInputComponent(data) == /\ icPresses' = data.presses
                                   /\ down' = (down \cup data.presses) \ data.releases

(* Mutant of HandleInput: poll() goes on with the packets that have come. *)
HandleInputOn(i) == /\ phase = "poll"
                    /\ phase' \in {"poll", "update"}
                    /\ Delivers(i)
                    /\ InputDataToInputComponent(net[i])
                    /\ UNCHANGED <<windowVars, eventVars, clientVars>>

(* receive() takes at most one packet from the socket and poll() handles it. *)
HandleInput(i) == /\ phase = "poll"
                  /\ phase' = "update"
                  /\ Delivers(i)
                  /\ InputDataToInputComponent(net[i])
                  /\ UNCHANGED <<windowVars, eventVars, clientVars>>

NoPacket == /\ phase = "poll"
            /\ phase' = "update"
            /\ UNCHANGED <<down, icPresses, windowVars, eventVars, clientVars, netVars>>

Next == \/ \E k \in Keys : OnKey(k)
        \/ Pushed
        \/ ClientStep
        \/ \E i \in UnderWay : Lose(i) \/ HandleInput(i)
        \/ Update
        \/ NoPacket

Spec == Init /\ [][Next]_vars

(* Both loops go on, and a packet that is under way whenever the server asks *)
(* the socket is received.                                                   *)
Fairness == /\ WF_vars(ClientStep)
            /\ WF_vars(Update)
            /\ WF_vars(NoPacket)
            /\ SF_vars(net # <<>> /\ HandleInput(1))

FairSpec == Spec /\ Fairness

-----------------------------------------------------------------------------
(* Properties. *)

(* The state of both threads, the vector between them, the packets and the   *)
(* server's component; what the loop has read lies within the vector's       *)
(* memory.                                                                   *)
TypeOK == /\ held \subseteq Keys
          /\ occurred \in 0 .. MaxEvents
          /\ memory \in Seq(Events)
          /\ end \in 0 .. Len(memory)
          /\ read \in Nat /\ (pc = "clear" => read <= Len(memory))
          /\ pushing = NotPushing \/ pushing \in Events \X (0 .. Len(memory))
          /\ {overrun, running} \subseteq BOOLEAN
          /\ pc \in {"events", "clear", "send"}
          /\ {presses, releases, hidden, down, icPresses} \subseteq SUBSET Keys
          /\ net \in Seq(InputData)
          /\ faults \in 0 .. MaxFaults
          /\ phase \in {"update", "poll"}

(* On its way to the server: in onKey(), among the events, in the client's   *)
(* lists or in a packet.                                                     *)
Pending(k, press) ==
    \/ pushing # NotPushing /\ pushing[1] = [key |-> k, press |-> press]
    \/ k \in KeysOf(Unread, press)
    \/ k \in (IF press THEN presses ELSE releases)
    \/ \E i \in UnderWay : k \in (IF press THEN net[i].presses ELSE net[i].releases)

Undisturbed == faults = 0 /\ ~overrun

(* A key that is up on the keyboard is down on the server only as long as    *)
(* its release is on its way: the player does not walk on by itself, unless  *)
(* a packet was lost, repeated or reordered, or clear() raced with onKey().  *)
NeverStuck == Undisturbed => \A k \in down \ held : Pending(k, FALSE)

(* A key that is held is down on the server as soon as its press has         *)
(* arrived.  The exceptions are presses the client has no way to tell: those *)
(* read by another state, and those of a key released in the same step.      *)
KeysFollow == Undisturbed => \A k \in held \ down : Pending(k, TRUE) \/ k \in hidden

(* The presses of a packet are acted on before those of the next overwrite   *)
(* them.                                                                     *)
PressesActedOn == [][phase = "poll" => icPresses \subseteq icPresses']_vars

(* Whatever went wrong before, a release that the client has read brings the *)
(* key up, unless something goes wrong again or the key is pressed again.    *)
ReleaseArrives ==
    \A k \in Keys, n \in 0 .. MaxFaults :
        k \in releases /\ faults = n ~> k \notin down \/ k \in held \/ faults > n
=============================================================================
