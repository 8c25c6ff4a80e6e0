---------------------------- MODULE ClientLifecycle ----------------------------
(***************************************************************************)
(* A client from connect() to the end of main(): the three threads of the  *)
(* program (the window's, the receive thread, the one that runs            *)
(* Client::step()), the three client states and the packets that move the  *)
(* client between them.                                                    *)
(*                                                                         *)
(* PacketManager's queue is the FIFO that ConcurrentQueue implements: its  *)
(* add() blocks while it is full.  The keepAlive timer is reduced to the   *)
(* answer of the one test made of it, elapsed() > secondsUntilTimeout.     *)
(* The network delivers in any order; what else it does is a constant.     *)
(* The server is seen from outside: it answers CONNECT as                  *)
(* Server::onConnect() does, sends KEEP_ALIVEs, and may go away.           *)
(***************************************************************************)
EXTENDS Integers, Sequences, FiniteSets

CONSTANTS NumContainers,  \* how many INITIAL_COMPONENTS packets the world takes
          QueueSize,      \* PacketManager::QUEUE_SIZE
          Losses,         \* whether the network loses packets
          MaxDuplicates   \* bound: packets the network delivers once more

ASSUME NumContainersAssumption == NumContainers \in Nat \ {0}
ASSUME QueueSizeAssumption == QueueSize \in Nat \ {0}
ASSUME LossesAssumption == Losses \in BOOLEAN
ASSUME MaxDuplicatesAssumption == MaxDuplicates \in Nat

VARIABLES net,                  \* the packets under way
          server,               \* as the client may see it: up, connected or gone
          duplicates,           \* packets delivered once more so far
          receiveThreadRunning, \* Client::receiveThreadRunning
          receiver, inHand,     \* the receive thread, and the packet it holds
          q,                    \* PacketManager::q
          running,              \* Client::running
          pc,                   \* where the threads of main() and of run() are
          stepOf,               \* the state whose step() run() is in
          clientState,          \* Client::clientState
          expected,             \* numberOfInitialSmallContainers
          received,             \* ClientReceiveInitialState::receivedSmallContainers
          endReceived,          \* ClientReceiveInitialState::endPacketReceived
          synced,               \* the containers the component maps were synced with
          expired,              \* keepAlive.elapsed() > secondsUntilTimeout
          force,                \* ClientDisconnectedState::forceDisconnectBool
          music                 \* whether the SoundEngine plays NATURE_SOUNDS

netVars == <<net, server, duplicates>>
receiveVars == <<receiver, inHand>>
stateVars == <<clientState, expected, received, endReceived, synced, force, music>>
vars == <<netVars, receiveThreadRunning, receiveVars, q, running, pc, stepOf,
          stateVars, expired>>

Containers == 1 .. NumContainers
Initial(n) == [type |-> "INITIAL_COMPONENTS", container |-> n]
Other(type) == [type |-> type, container |-> 0]
Transmission == {Other("BEGIN"), Other("END")} \cup {Initial(n) : n \in Containers}
Packets == Transmission \cup {Other("CONNECT"), Other("KEEP_ALIVE")}
NoPacket == Other("NONE")
States == {"Disconnected", "ReceiveInitial", "Running"}

(* connect() has sent CONNECT and started the receive thread, and main() has *)
(* started the client's thread.                                              *)
Init == /\ net = {Other("CONNECT")}
        /\ server = "up"
        /\ duplicates = 0
        /\ receiveThreadRunning = TRUE
        /\ receiver = "loop"
        /\ inHand = NoPacket
        /\ q = <<>>
        /\ running = TRUE
        /\ pc = [main |-> "window", client |-> "loop"]
        /\ stepOf = "Disconnected"
        /\ clientState = "Disconnected"
        /\ expected = 0
        /\ received = 0
        /\ endReceived = FALSE
        /\ synced = {}
        /\ expired = FALSE
        /\ force = FALSE
        /\ music = FALSE

-----------------------------------------------------------------------------
(* The network and the server. *)
Leaves(p) == \/ net' = net \ {p} /\ UNCHANGED duplicates
             \/ duplicates < MaxDuplicates /\ duplicates' = duplicates + 1 /\ UNCHANGED net

Lose(p) == /\ Losses
           /\ p \in net
           /\ net' = net \ {p}
           /\ UNCHANGED <<server, duplicates, receiveThreadRunning, receiveVars, q, running,
                          pc, stepOf, stateVars, expired>>

(* Server::onConnect(): the whole world, in one go. *)
ServerConnects == /\ server # "gone"
                  /\ Other("CONNECT") \in net
                  /\ \E rest \in {net, net \ {Other("CONNECT")}} :
                       /\ rest = net => duplicates < MaxDuplicates
                       /\ duplicates' = IF rest = net THEN duplicates + 1 ELSE duplicates
                       /\ net' = rest \cup Transmission
                  /\ server' = "connected"
                  /\ UNCHANGED <<receiveThreadRunning, receiveVars, q, running, pc, stepOf,
                                 stateVars, expired>>

ServerKeepsAlive == /\ server = "connected"
                    /\ net' = net \cup {Other("KEEP_ALIVE")}
                    /\ UNCHANGED <<server, duplicates, receiveThreadRunning, receiveVars, q,
                                   running, pc, stepOf, stateVars, expired>>

ServerGoes == /\ server' = "gone"
              /\ UNCHANGED <<net, duplicates, receiveThreadRunning, receiveVars, q, running,
                             pc, stepOf, stateVars, expired>>

(* Ten seconds pass since keepAlive was started. *)
Expire == /\ expired' = TRUE
          /\ UNCHANGED <<netVars, receiveThreadRunning, receiveVars, q, running, pc, stepOf,
                         stateVars>>

-----------------------------------------------------------------------------
(* The receive thread: while(receiveThreadRunning) packetManager.receive(). *)
ReceiverIs(here, there) == receiver = here /\ receiver' = there

ReceiverUnchanged == UNCHANGED <<server, receiveThreadRunning, running, pc, stepOf,
                                 stateVars, expired>>

(* Mutant of TestRunning: the loop looks at Client::running. *)
TestOtherFlag == /\ ReceiverIs("loop", IF running THEN "socket" ELSE "returned")
                 /\ UNCHANGED <<net, duplicates, inHand, q>>
                 /\ ReceiverUnchanged

TestRunning == /\ ReceiverIs("loop", IF receiveThreadRunning THEN "socket" ELSE "returned")
               /\ UNCHANGED <<net, duplicates, inHand, q>>
               /\ ReceiverUnchanged

NoDatagram == /\ ReceiverIs("socket", "loop")
              /\ UNCHANGED <<net, duplicates, inHand, q>>
              /\ ReceiverUnchanged

Datagram(p) == /\ p \in net \ {Other("CONNECT")}
               /\ ReceiverIs("socket", "add")
               /\ inHand' = p
               /\ Leaves(p)
               /\ UNCHANGED q
               /\ ReceiverUnchanged

(* Mutant of AddToQueue: add() does not wait for room. *)
AddRegardless == /\ ReceiverIs("add", "loop")
                 /\ q' = Append(q, inHand)
                 /\ inHand' = NoPacket
                 /\ UNCHANGED <<net, duplicates>>
                 /\ ReceiverUnchanged

AddToQueue == /\ Len(q) < QueueSize
              /\ ReceiverIs("add", "loop")
              /\ q' = Append(q, inHand)
              /\ inHand' = NoPacket
              /\ UNCHANGED <<net, duplicates>>
              /\ ReceiverUnchanged

Receiver == TestRunning \/ NoDatagram \/ AddToQueue \/ \E p \in net : Datagram(p)

-----------------------------------------------------------------------------
(* disconnect() as the thread of main() or of run() calls it.  The flag is  *)
(* no atomic and no mutex covers it; to join a thread that was joined ends   *)
(* the program with an uncaught system_error.  run() calls it out of         *)
(* pollForceDisconnect(), which clears forceDisconnectBool afterwards.       *)
LeaveDisconnect(t) ==
    \/ t = "main" /\ pc' = [pc EXCEPT ![t] = "stop"] /\ UNCHANGED force
    \/ t = "client" /\ pc' = [pc EXCEPT ![t] = "loop"] /\ force' = FALSE

StayIn(t, there) == pc' = [pc EXCEPT ![t] = there] /\ UNCHANGED force

DisconnectUnchanged == UNCHANGED <<netVars, inHand, q, running, stepOf, clientState, expected,
                                   received, endReceived, synced, music, expired>>

(* Mutant of CheckReceiving: disconnect() does not look whether it was called before. *)
CheckNothing(t) == /\ pc[t] = "check"
                   /\ StayIn(t, "clear")
                   /\ UNCHANGED <<receiveThreadRunning, receiver>>
                   /\ DisconnectUnchanged

CheckReceiving(t) == /\ pc[t] = "check"
                     /\ IF receiveThreadRunning THEN StayIn(t, "clear") ELSE LeaveDisconnect(t)
                     /\ UNCHANGED <<receiveThreadRunning, receiver>>
                     /\ DisconnectUnchanged

ClearReceiving(t) == /\ pc[t] = "clear"
                     /\ receiveThreadRunning' = FALSE
                     /\ StayIn(t, "join")
                     /\ UNCHANGED receiver
                     /\ DisconnectUnchanged

JoinReceiver(t) == /\ pc[t] = "join"
                   /\ receiver = "returned"
                   /\ receiver' = "joined"
                   /\ LeaveDisconnect(t)
                   /\ UNCHANGED receiveThreadRunning
                   /\ DisconnectUnchanged

JoinAgain(t) == /\ pc[t] = "join"
                /\ receiver = "joined"
                /\ StayIn(t, "crashed")
                /\ UNCHANGED <<receiveThreadRunning, receiver>>
                /\ DisconnectUnchanged

Disconnect(t) == CheckReceiving(t) \/ ClearReceiving(t) \/ JoinReceiver(t) \/ JoinAgain(t)

-----------------------------------------------------------------------------
(* main(): the window is closed, disconnect(), stop(), clientThread.join(). *)
MainUnchanged == UNCHANGED <<netVars, receiveThreadRunning, receiveVars, q, stepOf, stateVars,
                             expired>>

(* Mutant of CloseWindow: stop() comes before disconnect(). *)
CloseWindowStopping == /\ pc["main"] = "window"
                       /\ pc' = [pc EXCEPT !["main"] = "check"]
                       /\ running' = FALSE
                       /\ MainUnchanged

CloseWindow == /\ pc["main"] = "window"
               /\ pc' = [pc EXCEPT !["main"] = "check"]
               /\ UNCHANGED running
               /\ MainUnchanged

Stop == /\ pc["main"] = "stop"
        /\ pc' = [pc EXCEPT !["main"] = "joinClient"]
        /\ running' = FALSE
        /\ MainUnchanged

(* Mutant of JoinClient: main() returns without joining clientThread. *)
JoinNobody == /\ pc["main"] = "joinClient"
              /\ pc' = [pc EXCEPT !["main"] = "returned"]
              /\ UNCHANGED running
              /\ MainUnchanged

JoinClient == /\ pc["main"] = "joinClient"
              /\ pc["client"] = "returned"
              /\ pc' = [pc EXCEPT !["main"] = "returned"]
              /\ UNCHANGED running
              /\ MainUnchanged

Main == Stop \/ JoinClient \/ Disconnect("main")

-----------------------------------------------------------------------------
(* run(): while(running) clientState->step(). *)
ClientAt(here, there) == pc["client"] = here /\ pc' = [pc EXCEPT !["client"] = there]

ClientUnchanged == UNCHANGED <<netVars, receiveThreadRunning, receiveVars, running>>

Step == /\ ClientAt("loop", IF running THEN "poll" ELSE "returned")
        /\ stepOf' = clientState
        /\ UNCHANGED <<q, stateVars, expired>>
        /\ ClientUnchanged

(* poll() finds the queue empty and goes back to the step. *)
Polled == /\ q = <<>>
          /\ ClientAt("poll", "polled")
          /\ UNCHANGED <<q, stepOf, stateVars, expired>>
          /\ ClientUnchanged

(* poll() takes a packet and gives it to the state the client is in by now.  *)
Handle(p) == /\ pc["client"] = "poll"
             /\ q # <<>>
             /\ p = Head(q)
             /\ q' = Tail(q)
             /\ UNCHANGED <<pc, stepOf>>
             /\ ClientUnchanged

(* ClientReceiveInitialState::changeState() and the onChange() it calls. *)
ResetReceived == received' = 0 /\ endReceived' = FALSE

ToRunning == /\ clientState' = "Running"
             /\ music' = TRUE
             /\ UNCHANGED force

ToDisconnected == /\ clientState' = "Disconnected"
                  /\ force' = TRUE

(* The number of containers passes through the bool parameter of             *)
(* BeginTransmittingInitialComponentsData's constructor into an int member.  *)
ThroughBool(n) == IF n = 0 THEN 0 ELSE 1

HandleBegin == /\ Handle(Other("BEGIN"))
               /\ clientState = "Disconnected"
               /\ expected' = ThroughBool(NumContainers)
               /\ clientState' = "ReceiveInitial"
               /\ UNCHANGED <<received, endReceived, synced, force, music, expired>>

HandleInitial(n) ==
    /\ Handle(Initial(n))
    /\ clientState = "ReceiveInitial"
    /\ synced' = synced \cup {n}
    /\ IF endReceived /\ received + 1 = expected
       THEN ResetReceived /\ ToRunning
       ELSE /\ received' = received + 1
            /\ UNCHANGED <<endReceived, clientState, force, music>>
    /\ UNCHANGED <<expected, expired>>

(* Mutant of HandleEnd: the containers are not counted. *)
HandleEndUncounted == /\ Handle(Other("END"))
                      /\ clientState = "ReceiveInitial"
                      /\ ResetReceived
                      /\ ToRunning
                      /\ UNCHANGED <<expected, synced, expired>>

(* Mutant of HandleEnd: it waits for the containers that are missing. *)
HandleEndWaiting == /\ Handle(Other("END"))
                    /\ clientState = "ReceiveInitial"
                    /\ \/ received < expected /\ endReceived' = TRUE
                          /\ UNCHANGED <<received, clientState, force, music>>
                       \/ received >= expected /\ ResetReceived /\ ToRunning
                    /\ UNCHANGED <<expected, synced, expired>>

HandleEnd == /\ Handle(Other("END"))
             /\ clientState = "ReceiveInitial"
             /\ ResetReceived
             /\ \/ received < expected /\ ToDisconnected /\ UNCHANGED music
                \/ received >= expected /\ ToRunning
             /\ UNCHANGED <<expected, synced, expired>>

(* Every state starts keepAlive again. *)
HandleKeepAlive == /\ Handle(Other("KEEP_ALIVE"))
                   /\ expired' = FALSE
                   /\ UNCHANGED stateVars

(* PacketHandler's own handle() for what a state does not handle. *)
Ignored == \E p \in Transmission : /\ Handle(p)
                                   /\ clientState # (IF p.type = "BEGIN" THEN "Disconnected"
                                                                        ELSE "ReceiveInitial")
                                   /\ UNCHANGED <<stateVars, expired>>

-----------------------------------------------------------------------------
(* The end of the step, by the state whose step it is. *)
AfterPoll(state, there) == /\ stepOf = state
                           /\ ClientAt("polled", there)
                           /\ UNCHANGED <<q, stepOf, expired>>
                           /\ ClientUnchanged

(* Mutant of PollForce: forceDisconnectBool is not looked at. *)
PollUnforced == /\ AfterPoll("Disconnected", "check")
                /\ UNCHANGED stateVars

(* ClientDisconnectedState::pollForceDisconnect() calls disconnect() ... *)
PollForce == /\ force
             /\ AfterPoll("Disconnected", "check")
             /\ UNCHANGED stateVars

(* ... or does not. *)
NotForced == /\ ~force
             /\ AfterPoll("Disconnected", "loop")
             /\ UNCHANGED stateVars

NotExpired == /\ ~expired
              /\ \E state \in {"ReceiveInitial", "Running"} : AfterPoll(state, "loop")
              /\ UNCHANGED stateVars

(* Mutant of ReceivingTimesOut: no timeout before the game runs. *)
ReceivingWaits == /\ expired
                  /\ AfterPoll("ReceiveInitial", "loop")
                  /\ UNCHANGED stateVars

ReceivingTimesOut == /\ expired
                     /\ AfterPoll("ReceiveInitial", "loop")
                     /\ ResetReceived
                     /\ ToDisconnected
                     /\ UNCHANGED <<expected, synced, music>>

RunningTimesOut == /\ expired
                   /\ AfterPoll("Running", "loop")
                   /\ ToDisconnected
                   /\ music' = FALSE
                   /\ UNCHANGED <<expected, received, endReceived, synced>>

Client == \/ Step \/ Polled
          \/ HandleBegin \/ HandleEnd \/ HandleKeepAlive \/ Ignored
          \/ \E n \in Containers : HandleInitial(n)
          \/ PollForce \/ NotForced \/ NotExpired \/ ReceivingTimesOut \/ RunningTimesOut
          \/ Disconnect("client")

Crashed == \E t \in {"main", "client"} : pc[t] = "crashed"

Next == /\ ~Crashed
        /\ \/ \E p \in net : Lose(p)
           \/ ServerConnects \/ ServerKeepsAlive \/ ServerGoes
           \/ Expire
           \/ Receiver
           \/ CloseWindow
           \/ Main
           \/ Client

Spec == Init /\ [][Next]_vars

(* The operating system schedules the threads and ten seconds pass.  The     *)
(* window need never be closed and the server owes nothing.                  *)
Scheduling == /\ WF_vars(~Crashed /\ Receiver)
              /\ WF_vars(~Crashed /\ Client)
              /\ WF_vars(~Crashed /\ Main)
              /\ WF_vars(~Crashed /\ Expire)

(* An END that stays under way while the receive thread asks again and again *)
(* is received; of other packets nothing is asked.                           *)
Delivery == SF_vars(~Crashed /\ Datagram(Other("END")))

Fairness == Scheduling /\ Delivery

FairSpec == Spec /\ Fairness

-----------------------------------------------------------------------------
(* Properties. *)

(* The state of the client and of its threads; PacketManager's queue never   *)
(* holds more than QUEUE_SIZE packets.                                       *)
TypeOK == /\ net \subseteq Packets
          /\ server \in {"up", "connected", "gone"}
          /\ duplicates \in 0 .. MaxDuplicates
          /\ receiveThreadRunning \in BOOLEAN
          /\ receiver \in {"loop", "socket", "add", "returned", "joined"}
          /\ inHand \in IF receiver = "add" THEN Packets ELSE {NoPacket}
          /\ q \in Seq(Packets) /\ Len(q) <= QueueSize
          /\ running \in BOOLEAN
          /\ pc \in [main : {"window", "check", "clear", "join", "stop", "joinClient",
                             "returned", "crashed"},
                    client : {"loop", "poll", "polled", "check", "clear", "join",
                              "returned", "crashed"}]
          /\ {stepOf, clientState} \subseteq States
          /\ expected \in Nat /\ received \in Nat
          /\ endReceived \in BOOLEAN
          /\ synced \subseteq Containers
          /\ {expired, force, music} \subseteq BOOLEAN

(* The client plays, and updates its ECS, only when it has every container   *)
(* of the initial transmission: clientdisconnectedstate.cpp says it may not  *)
(* update the ECS before.                                                    *)
CompleteWorld == clientState = "Running" => synced = Containers

(* What the count in BEGIN does guarantee, whatever is lost, repeated or      *)
(* reordered: an END that comes alone is not enough, a client that plays has *)
(* some container of the world.                                              *)
NeverEmptyWorld == clientState = "Running" => synced # {}

(* Until a packet comes twice, and while the window is open, a client in a   *)
(* connected state has a receive thread that runs: receiveThreadRunning can  *)
(* be seen as "isConnected".  (A second BEGIN can be handled in the step of  *)
(* the disconnected state that goes on to honour forceDisconnectBool.)       *)
ReceivesUnlessRepeated ==
    duplicates = 0 /\ clientState # "Disconnected" /\ pc["main"] = "window"
        => receiveThreadRunning

(* When main() returns no thread is left that uses the client it destroys,   *)
(* whichever of the two threads has joined the receive thread.               *)
NothingLeft == pc["main"] = "returned" => receiver = "joined" /\ pc["client"] = "returned"

(* No circle of waiting threads at the end: while main() joins the receive   *)
(* thread, which may be waiting for room in the queue, the client's thread   *)
(* goes on polling, unless it has been told to disconnect by force: that is  *)
(* why main() calls stop() after disconnect().                               *)
JoinIsDrained == pc["main"] = "join" =>
    (running /\ pc["client"] \in {"loop", "poll", "polled"}) \/ force

(* The program ends by an exception only if main() and a forced disconnect   *)
(* meet: as long as the window is open no order of packets, timeouts and     *)
(* forced disconnects makes the client's thread join a joined thread.        *)
CrashTakesBoth == Crashed => pc["main"] # "window" /\ (pc["client"] = "crashed" => force)

(* disconnect() does nothing when the client is disconnected already: the    *)
(* receive thread is not joined a second time.                               *)
NeverJoinedTwice == ~Crashed

(* A client whose server is gone notices: the timeout of its state takes it  *)
(* to the disconnected state (unless the program is ended first).            *)
TimesOut == server = "gone" /\ clientState # "Disconnected"
                ~> clientState = "Disconnected" \/ ~running \/ Crashed

LeavesInitial == clientState # "ReceiveInitial" \/ ~running \/ Crashed

(* The initial transmission ends one way or the other: a client does not     *)
(* stay in ReceiveInitial when END is still to come (the network loses       *)
(* nothing).                                                                 *)
Settles == clientState = "ReceiveInitial" /\ Other("END") \in net ~> LeavesInitial

(* Closing the window ends the program, also when the receive thread is      *)
(* blocked in add() on a full queue, as long as no forced disconnect has     *)
(* come between.                                                             *)
Shutdown == []~force => (pc["main"] = "check" ~> pc["main"] = "returned")
=============================================================================
