------------------------- MODULE ClientLifecycleProofs -------------------------
(***************************************************************************)
(* Proofs about ClientLifecycle, for every number of containers, every     *)
(* size of the queue and every network.                                    *)
(***************************************************************************)
EXTENDS ClientLifecycle, FiniteSetTheorems, TLAPS

Threads == {"main", "client"}

(* A thread goes from the test of disconnect() to its join() through the      *)
(* clearing of the flag ...                                                   *)
JoinersCleared == \A t \in Threads : pc[t] = "join" => ~receiveThreadRunning

(* ... and main() only gets past disconnect() when the flag is cleared.       *)
StopsCleared == pc["main"] \in {"stop", "joinClient", "returned"} => ~receiveThreadRunning

(* Whoever clears the flag goes on to join the receive thread.                *)
ClearedIsJoined == ~receiveThreadRunning =>
                       \/ receiver = "joined"
                       \/ \E t \in Threads : pc[t] = "join"

(* main() has waited for the client's thread, which does not come back.       *)
ClientJoined == pc["main"] = "returned" => pc["client"] = "returned"

(* With TypeOK, these are inductive. *)
Joining == JoinersCleared /\ StopsCleared /\ ClearedIsJoined /\ ClientJoined

-----------------------------------------------------------------------------
LEMMA PacketsAre ==
    /\ Transmission \subseteq Packets
    /\ {Other("CONNECT"), Other("KEEP_ALIVE"), Other("BEGIN"), Other("END")} \subseteq Packets
    /\ \A n \in Containers : Initial(n) \in Packets
<1>1. \A n \in Containers : Initial(n) \in {Initial(m) : m \in Containers}
  OBVIOUS
<1> HIDE DEF Initial, Other
<1>2. Transmission \subseteq Packets
  BY DEF Packets
<1>3. {Other("BEGIN"), Other("END")} \subseteq Transmission
  BY DEF Transmission
<1>4. \A n \in Containers : Initial(n) \in Transmission
  BY <1>1 DEF Transmission
<1>5. {Other("CONNECT"), Other("KEEP_ALIVE")} \subseteq Packets
  BY DEF Packets
<1> QED BY <1>2, <1>3, <1>4, <1>5

LEMMA InitTyped == Init => TypeOK
<1> SUFFICES ASSUME Init PROVE TypeOK
  OBVIOUS
<1>1. net \subseteq Packets
  BY PacketsAre DEF Init
<1>2. duplicates \in 0 .. MaxDuplicates
  BY MaxDuplicatesAssumption DEF Init
<1>3. q \in Seq(Packets) /\ Len(q) <= QueueSize
  BY QueueSizeAssumption DEF Init
<1>4. inHand \in IF receiver = "add" THEN Packets ELSE {NoPacket}
  BY DEF Init
<1> QED BY <1>1, <1>2, <1>3, <1>4 DEF Init, TypeOK, States

(* The network, the server and the clock touch no thread. *)
LEMMA OutsideTyped ==
    ASSUME TypeOK,
           \/ \E p \in net : Lose(p)
           \/ ServerConnects \/ ServerKeepsAlive \/ ServerGoes
           \/ Expire
    PROVE  TypeOK' /\ UNCHANGED <<receiveThreadRunning, receiver, pc>>
<1>1. CASE \E p \in net : Lose(p)
  BY <1>1 DEF TypeOK, Lose, receiveVars, stateVars
<1>2. CASE ServerConnects
  <2>1. net' \subseteq Packets
    BY <1>2, PacketsAre DEF TypeOK, ServerConnects
  <2>2. duplicates' \in 0 .. MaxDuplicates
    BY <1>2, MaxDuplicatesAssumption DEF TypeOK, ServerConnects
  <2> QED BY <1>2, <2>1, <2>2 DEF TypeOK, ServerConnects, receiveVars, stateVars
<1>3. CASE ServerKeepsAlive
  BY <1>3, PacketsAre DEF TypeOK, ServerKeepsAlive, receiveVars, stateVars
<1>4. CASE ServerGoes
  BY <1>4 DEF TypeOK, ServerGoes, receiveVars, stateVars
<1>5. CASE Expire
  BY <1>5 DEF TypeOK, Expire, netVars, receiveVars, stateVars
<1> QED BY <1>1, <1>2, <1>3, <1>4, <1>5

(* The receive thread never gets back from "joined", and nobody else's place *)
(* is its to change.                                                         *)
LEMMA ReceiverTyped ==
    ASSUME TypeOK, Receiver
    PROVE  /\ TypeOK'
           /\ receiver # "joined"
           /\ UNCHANGED <<receiveThreadRunning, pc>>
<1> USE DEF ReceiverIs, ReceiverUnchanged, stateVars
<1>1. CASE TestRunning
  BY <1>1 DEF TypeOK, TestRunning
<1>2. CASE NoDatagram
  BY <1>2 DEF TypeOK, NoDatagram
<1>3. CASE AddToQueue
  BY <1>3, QueueSizeAssumption DEF TypeOK, AddToQueue
<1>4. ASSUME NEW p \in net, Datagram(p)
      PROVE  /\ TypeOK'
             /\ receiver # "joined"
             /\ UNCHANGED <<receiveThreadRunning, pc>>
  <2>1. net' \subseteq Packets /\ duplicates' \in 0 .. MaxDuplicates
    BY <1>4, MaxDuplicatesAssumption DEF TypeOK, Datagram, Leaves
  <2> QED BY <1>4, <2>1 DEF TypeOK, Datagram
<1> QED BY <1>1, <1>2, <1>3, <1>4 DEF Receiver

-----------------------------------------------------------------------------
(* disconnect(), by either thread. *)
LEMMA DisconnectTyped ==
    ASSUME TypeOK, NEW t \in Threads, Disconnect(t)
    PROVE  TypeOK'
<1> USE DEF Threads, StayIn, LeaveDisconnect, DisconnectUnchanged, netVars
<1>1. CASE CheckReceiving(t)
  BY <1>1 DEF TypeOK, CheckReceiving
<1>2. CASE ClearReceiving(t)
  BY <1>2 DEF TypeOK, ClearReceiving
<1>3. CASE JoinReceiver(t)
  BY <1>3 DEF TypeOK, JoinReceiver
<1>4. CASE JoinAgain(t)
  BY <1>4 DEF TypeOK, JoinAgain
<1> QED BY <1>1, <1>2, <1>3, <1>4 DEF Disconnect

LEMMA MainTyped ==
    ASSUME TypeOK, CloseWindow \/ Stop \/ JoinClient
    PROVE  TypeOK' /\ UNCHANGED <<receiveThreadRunning, receiver>> /\ pc'["client"] = pc["client"]
<1> USE DEF MainUnchanged, netVars, receiveVars, stateVars
<1>1. CASE CloseWindow
  BY <1>1 DEF TypeOK, CloseWindow
<1>2. CASE Stop
  BY <1>2 DEF TypeOK, Stop
<1>3. CASE JoinClient
  BY <1>3 DEF TypeOK, JoinClient
<1> QED BY <1>1, <1>2, <1>3

(* What a handler of a packet has in common with the others. *)
LEMMA HandleTyped ==
    ASSUME TypeOK, NEW p, Handle(p)
    PROVE  /\ q' \in Seq(Packets) /\ Len(q') <= QueueSize
           /\ pc["client"] = "poll"
           /\ UNCHANGED <<netVars, receiveThreadRunning, receiveVars, running, pc, stepOf>>
<1>1. q # <<>> /\ q \in Seq(Packets) /\ Len(q) <= QueueSize /\ q' = Tail(q)
  BY DEF TypeOK, Handle
<1>2. Tail(q) \in Seq(Packets) /\ Len(Tail(q)) = Len(q) - 1 /\ Len(q) \in Nat
  BY <1>1
<1> QED BY <1>1, <1>2, QueueSizeAssumption DEF Handle, ClientUnchanged

Handler == \/ HandleBegin \/ HandleEnd \/ HandleKeepAlive \/ Ignored
           \/ \E n \in Containers : HandleInitial(n)

LEMMA HandlerTyped ==
    ASSUME TypeOK, Handler
    PROVE  /\ TypeOK'
           /\ UNCHANGED <<receiveThreadRunning, receiver, pc>>
<1> USE DEF netVars, receiveVars, stateVars, ResetReceived, ToRunning, ToDisconnected, States
<1>1. CASE HandleBegin
  <2>1. ThroughBool(NumContainers) \in Nat
    BY DEF ThroughBool
  <2>2. Handle(Other("BEGIN"))
    BY <1>1 DEF HandleBegin
  <2> QED BY <1>1, <2>1, <2>2, HandleTyped DEF TypeOK, HandleBegin
<1>2. CASE HandleEnd
  <2>1. Handle(Other("END"))
    BY <1>2 DEF HandleEnd
  <2> QED BY <1>2, <2>1, HandleTyped DEF TypeOK, HandleEnd
<1>3. CASE HandleKeepAlive
  <2>1. Handle(Other("KEEP_ALIVE"))
    BY <1>3 DEF HandleKeepAlive
  <2> QED BY <1>3, <2>1, HandleTyped DEF TypeOK, HandleKeepAlive
<1>4. CASE Ignored
  <2>1. PICK p \in Transmission : Handle(p) /\ UNCHANGED <<stateVars, expired>>
    BY <1>4 DEF Ignored
  <2> QED BY <2>1, HandleTyped DEF TypeOK
<1>5. ASSUME NEW n \in Containers, HandleInitial(n)
      PROVE  TypeOK' /\ UNCHANGED <<receiveThreadRunning, receiver, pc>>
  <2>1. Handle(Initial(n))
    BY <1>5 DEF HandleInitial
  <2>2. synced' \subseteq Containers
    BY <1>5 DEF TypeOK, HandleInitial
  <2>3. /\ {stepOf, clientState'} \subseteq States
        /\ expected' \in Nat /\ received' \in Nat
        /\ endReceived' \in BOOLEAN
        /\ {expired', force', music'} \subseteq BOOLEAN
    <3>1. UNCHANGED <<expected, expired, stepOf>>
      BY <1>5, <2>1, HandleTyped DEF HandleInitial
    <3>2. CASE endReceived /\ received + 1 = expected
      <4>1. /\ received' = 0 /\ endReceived' = FALSE
            /\ clientState' = "Running" /\ music' = TRUE /\ UNCHANGED force
        BY <1>5, <3>2 DEF HandleInitial
      <4> QED BY <3>1, <4>1 DEF TypeOK
    <3>3. CASE ~(endReceived /\ received + 1 = expected)
      <4>1. received' = received + 1 /\ UNCHANGED <<endReceived, clientState, force, music>>
        BY <1>5, <3>3 DEF HandleInitial
      <4> QED BY <3>1, <4>1 DEF TypeOK
    <3> QED BY <3>2, <3>3
  <2>4. /\ q' \in Seq(Packets) /\ Len(q') <= QueueSize
        /\ UNCHANGED <<netVars, receiveThreadRunning, receiveVars, running, pc, stepOf>>
    BY <2>1, HandleTyped
  <2> QED BY <2>2, <2>3, <2>4 DEF TypeOK
<1> QED BY <1>1, <1>2, <1>3, <1>4, <1>5 DEF Handler

EndOfStep == PollForce \/ NotForced \/ NotExpired \/ ReceivingTimesOut \/ RunningTimesOut

(* The other steps of run(): none of them is a thread's arrival at join(),   *)
(* nor the return of a thread that has returned.                             *)
LEMMA StepTyped ==
    ASSUME TypeOK, Step \/ Polled \/ EndOfStep
    PROVE  /\ TypeOK'
           /\ UNCHANGED <<receiveThreadRunning, receiver>>
           /\ pc'["main"] = pc["main"]
           /\ pc["client"] \in {"loop", "poll", "polled"}
           /\ pc'["client"] # "join"
<1> USE DEF ClientAt, AfterPoll, ClientUnchanged, netVars, receiveVars, stateVars, States
<1>1. CASE Step
  BY <1>1 DEF TypeOK, Step
<1>2. CASE Polled
  BY <1>2 DEF TypeOK, Polled
<1>3. CASE PollForce
  BY <1>3 DEF TypeOK, PollForce
<1>4. CASE NotForced
  BY <1>4 DEF TypeOK, NotForced
<1>5. CASE NotExpired
  BY <1>5 DEF TypeOK, NotExpired
<1>6. CASE ReceivingTimesOut
  BY <1>6 DEF TypeOK, ReceivingTimesOut, ResetReceived, ToDisconnected
<1>7. CASE RunningTimesOut
  BY <1>7 DEF TypeOK, RunningTimesOut, ToDisconnected
<1> QED BY <1>1, <1>2, <1>3, <1>4, <1>5, <1>6, <1>7 DEF EndOfStep

-----------------------------------------------------------------------------
(* The state of the client and of its threads is well typed; PacketManager's  *)
(* queue keeps to its size.                                                   *)
THEOREM TypeCorrect == Spec => []TypeOK
<1>1. Init => TypeOK
  BY InitTyped
<1>2. TypeOK /\ [Next]_vars => TypeOK'
  <2> SUFFICES ASSUME TypeOK, [Next]_vars
               PROVE  TypeOK'
    OBVIOUS
  <2>1. CASE \/ \E p \in net : Lose(p)
             \/ ServerConnects \/ ServerKeepsAlive \/ ServerGoes \/ Expire
    BY <2>1, OutsideTyped
  <2>2. CASE Receiver
    BY <2>2, ReceiverTyped
  <2>3. CASE CloseWindow \/ Stop \/ JoinClient
    BY <2>3, MainTyped
  <2>4. CASE Disconnect("main") \/ Disconnect("client")
    BY <2>4, DisconnectTyped DEF Threads
  <2>5. CASE Handler
    BY <2>5, HandlerTyped
  <2>6. CASE Step \/ Polled \/ EndOfStep
    BY <2>6, StepTyped
  <2>7. CASE UNCHANGED vars
    BY <2>7 DEF vars, netVars, receiveVars, stateVars, TypeOK
  <2> QED BY <2>1, <2>2, <2>3, <2>4, <2>5, <2>6, <2>7
          DEF Next, Main, Client, Handler, EndOfStep
<1> QED BY <1>1, <1>2, PTL DEF Spec

-----------------------------------------------------------------------------
LEMMA InitJoining == Init => Joining
BY DEF Init, Joining, JoinersCleared, StopsCleared, ClearedIsJoined, ClientJoined, Threads

(* A step that moves neither main() nor the flag nor the receive thread, and  *)
(* neither takes run() to its join() nor moves it from there.                 *)
LEMMA JoiningKept ==
    ASSUME Joining,
           UNCHANGED <<receiveThreadRunning, pc["main"]>>,
           receiver = "joined" => receiver' = "joined",
           (pc["client"] = "join") <=> (pc'["client"] = "join"),
           pc["client"] = "returned" => pc'["client"] = "returned"
    PROVE  Joining'
BY DEF Joining, JoinersCleared, StopsCleared, ClearedIsJoined, ClientJoined, Threads

LEMMA MainJoining ==
    ASSUME TypeOK, Joining, CloseWindow \/ Stop \/ JoinClient
    PROVE  Joining'
<1>1. UNCHANGED <<receiveThreadRunning, receiver>> /\ pc'["client"] = pc["client"]
  BY MainTyped
<1>2. pc["main"] \in {"window", "stop", "joinClient"}
  BY DEF CloseWindow, Stop, JoinClient
<1>3. /\ pc'["main"] \in {"check", "joinClient", "returned"}
      /\ pc'["main"] \in {"joinClient", "returned"} => pc["main"] \in {"stop", "joinClient"}
      /\ pc'["main"] = "returned" => pc["client"] = "returned"
  BY DEF CloseWindow, Stop, JoinClient, TypeOK
<1> QED BY <1>1, <1>2, <1>3
        DEF Joining, JoinersCleared, StopsCleared, ClearedIsJoined, ClientJoined, Threads

LEMMA DisconnectJoining ==
    ASSUME TypeOK, Joining, NEW t \in Threads, Disconnect(t)
    PROVE  Joining'
<1> USE DEF Threads, StayIn, LeaveDisconnect, Joining, JoinersCleared, StopsCleared,
            ClearedIsJoined, ClientJoined
<1>1. CASE CheckReceiving(t)
  BY <1>1 DEF TypeOK, CheckReceiving
<1>2. CASE ClearReceiving(t)
  BY <1>2 DEF TypeOK, ClearReceiving
<1>3. CASE JoinReceiver(t)
  BY <1>3 DEF TypeOK, JoinReceiver
<1>4. CASE JoinAgain(t)
  BY <1>4 DEF TypeOK, JoinAgain
<1> QED BY <1>1, <1>2, <1>3, <1>4 DEF Disconnect

LEMMA NextJoining == TypeOK /\ Joining /\ [Next]_vars => Joining'
<1> SUFFICES ASSUME TypeOK, Joining, [Next]_vars
             PROVE  Joining'
  OBVIOUS
<1>1. CASE \/ \E p \in net : Lose(p)
           \/ ServerConnects \/ ServerKeepsAlive \/ ServerGoes \/ Expire
  BY <1>1, OutsideTyped, JoiningKept
<1>2. CASE Receiver
  BY <1>2, ReceiverTyped, JoiningKept
<1>3. CASE CloseWindow \/ Stop \/ JoinClient
  BY <1>3, MainJoining
<1>4. CASE Disconnect("main") \/ Disconnect("client")
  BY <1>4, DisconnectJoining DEF Threads
<1>5. CASE Handler
  BY <1>5, HandlerTyped, JoiningKept
<1>6. CASE Step \/ Polled \/ EndOfStep
  BY <1>6, StepTyped, JoiningKept
<1>7. CASE UNCHANGED vars
  BY <1>7, JoiningKept DEF vars, receiveVars
<1> QED BY <1>1, <1>2, <1>3, <1>4, <1>5, <1>6, <1>7
        DEF Next, Main, Client, Handler, EndOfStep

(* main() leaves no thread behind, whichever thread joined which, for every   *)
(* size of the world and of the queue: the receive thread has been joined     *)
(* when the client's thread has returned.                                     *)
THEOREM NoThreadLeft == Spec => []NothingLeft
<1>1. Init => Joining
  BY InitJoining
<1>2. TypeOK /\ Joining /\ [Next]_vars => Joining'
  BY NextJoining
<1>3. TypeOK /\ Joining => NothingLeft
  BY DEF Joining, StopsCleared, ClearedIsJoined, ClientJoined, NothingLeft, Threads
<1> QED BY <1>1, <1>2, <1>3, TypeCorrect, PTL DEF Spec

-----------------------------------------------------------------------------
(* Who waits for whom.  The client's thread runs until stop(), is in          *)
(* disconnect() only by force, and while the window is open nobody else joins *)
(* the receive thread.                                                        *)
ForcedInside == pc["client"] \in {"check", "clear", "join", "crashed"} => force
RunsUntilStop == /\ ~running => pc["main"] \in {"joinClient", "returned"}
                 /\ pc["client"] = "returned" => ~running
JoinedIsCleared == receiver = "joined" => ~receiveThreadRunning
JoinedAlone == pc["main"] = "window" =>
                   /\ receiver = "joined" => pc["client"] \notin {"clear", "join"}
                   /\ pc["client"] # "crashed"

Waiting == ForcedInside /\ RunsUntilStop /\ JoinedIsCleared /\ JoinedAlone

LEMMA InitWaiting == Init => Waiting
BY DEF Init, Waiting, ForcedInside, RunsUntilStop, JoinedIsCleared, JoinedAlone

LEMMA MainWaiting ==
    ASSUME TypeOK, Waiting, CloseWindow \/ Stop \/ JoinClient
    PROVE  Waiting'
<1> USE DEF MainUnchanged, receiveVars, stateVars, Waiting, ForcedInside, RunsUntilStop,
            JoinedIsCleared, JoinedAlone
<1>1. CASE CloseWindow
  BY <1>1 DEF TypeOK, CloseWindow
<1>2. CASE Stop
  BY <1>2 DEF TypeOK, Stop
<1>3. CASE JoinClient
  BY <1>3 DEF TypeOK, JoinClient
<1> QED BY <1>1, <1>2, <1>3

LEMMA DisconnectWaiting ==
    ASSUME TypeOK, Joining, Waiting, ~Crashed, NEW t \in Threads, Disconnect(t)
    PROVE  Waiting'
<1> USE DEF Threads, StayIn, LeaveDisconnect, DisconnectUnchanged, Waiting, ForcedInside,
            RunsUntilStop, JoinedIsCleared, JoinedAlone, Joining, JoinersCleared
<1>1. CASE CheckReceiving(t)
  BY <1>1 DEF TypeOK, CheckReceiving
<1>2. CASE ClearReceiving(t)
  BY <1>2 DEF TypeOK, ClearReceiving
<1>3. CASE JoinReceiver(t)
  BY <1>3 DEF TypeOK, JoinReceiver
<1>4. CASE JoinAgain(t)
  BY <1>4 DEF TypeOK, JoinAgain
<1> QED BY <1>1, <1>2, <1>3, <1>4 DEF Disconnect

(* The handlers and the ends of a step force a disconnect and never revoke it. *)
LEMMA ClientWaiting ==
    ASSUME TypeOK, Waiting, Handler \/ Step \/ Polled \/ EndOfStep
    PROVE  Waiting'
<1> USE DEF Waiting, ForcedInside, RunsUntilStop, JoinedIsCleared, JoinedAlone
<1>1. CASE Handler
  <2>1. UNCHANGED <<receiveThreadRunning, receiver, pc>>
    BY <1>1, HandlerTyped
  <2>2. UNCHANGED running /\ pc["client"] = "poll"
    BY <1>1 DEF Handler, HandleBegin, HandleEnd, HandleKeepAlive, Ignored, HandleInitial,
                Handle, ClientUnchanged
  <2> QED BY <2>1, <2>2
<1>2. CASE Step
  BY <1>2 DEF TypeOK, Step, ClientAt, ClientUnchanged, receiveVars
<1>3. CASE Polled
  BY <1>3 DEF TypeOK, Polled, ClientAt, ClientUnchanged, receiveVars
<1>4. CASE EndOfStep
  <2>1. /\ UNCHANGED <<receiveThreadRunning, receiver, running>> /\ pc'["main"] = pc["main"]
        /\ pc["client"] = "polled"
        /\ pc'["client"] = "loop" \/ (pc'["client"] = "check" /\ force')
    BY <1>4 DEF EndOfStep, PollForce, NotForced, NotExpired, ReceivingTimesOut, RunningTimesOut,
                AfterPoll, ClientAt, ClientUnchanged, receiveVars, stateVars, TypeOK
  <2> QED BY <2>1
<1> QED BY <1>1, <1>2, <1>3, <1>4

LEMMA NextWaiting == TypeOK /\ Joining /\ Waiting /\ [Next]_vars => Waiting'
<1> SUFFICES ASSUME TypeOK, Joining, Waiting, [Next]_vars
             PROVE  Waiting'
  OBVIOUS
<1>1. CASE \/ \E p \in net : Lose(p)
           \/ ServerConnects \/ ServerKeepsAlive \/ ServerGoes \/ Expire
  BY <1>1 DEF Lose, ServerConnects, ServerKeepsAlive, ServerGoes, Expire, receiveVars, stateVars,
              Waiting, ForcedInside, RunsUntilStop, JoinedIsCleared, JoinedAlone
<1>2. CASE Receiver
  <2>1. /\ receiver # "joined" /\ receiver' # "joined"
        /\ UNCHANGED <<receiveThreadRunning, running, pc, force>>
    BY <1>2, ReceiverTyped
       DEF Receiver, TestRunning, NoDatagram, AddToQueue, Datagram, ReceiverIs,
           ReceiverUnchanged, stateVars
  <2> QED BY <2>1 DEF Waiting, ForcedInside, RunsUntilStop, JoinedIsCleared, JoinedAlone
<1>3. CASE CloseWindow \/ Stop \/ JoinClient
  BY <1>3, MainWaiting
<1>4. CASE ~Crashed /\ (Disconnect("main") \/ Disconnect("client"))
  BY <1>4, DisconnectWaiting DEF Threads
<1>5. CASE Handler \/ Step \/ Polled \/ EndOfStep
  BY <1>5, ClientWaiting
<1>6. CASE UNCHANGED vars
  BY <1>6 DEF vars, receiveVars, stateVars, Waiting, ForcedInside, RunsUntilStop,
              JoinedIsCleared, JoinedAlone
<1> QED BY <1>1, <1>2, <1>3, <1>4, <1>5, <1>6
        DEF Next, Main, Client, Handler, EndOfStep

LEMMA WaitingHolds == Spec => [](TypeOK /\ Waiting)
<1>1. Init => Joining /\ Waiting
  BY InitJoining, InitWaiting
<1>2. TypeOK /\ Joining /\ [Next]_vars => Joining'
  BY NextJoining
<1>3. TypeOK /\ Joining /\ Waiting /\ [Next]_vars => Waiting'
  BY NextWaiting
<1> QED BY <1>1, <1>2, <1>3, TypeCorrect, PTL DEF Spec

(* Closing the window cannot block on a receive thread that waits for room,   *)
(* for every size of the queue, unless the client is disconnected by force.   *)
THEOREM ShutdownIsDrained == Spec => []JoinIsDrained
<1>1. TypeOK /\ Waiting => JoinIsDrained
  BY DEF TypeOK, Waiting, ForcedInside, RunsUntilStop, JoinIsDrained
<1> QED BY <1>1, WaitingHolds, PTL

(* A client whose window is open never crashes, whatever the network does and *)
(* however often it is disconnected by force.                                 *)
THEOREM OpenNeverCrashes == Spec => []CrashTakesBoth
<1>1. TypeOK /\ Waiting => CrashTakesBoth
  BY DEF Waiting, ForcedInside, JoinedAlone, CrashTakesBoth, Crashed
<1> QED BY <1>1, WaitingHolds, PTL

-----------------------------------------------------------------------------
(* Until a packet comes twice.  Where a packet is on its way to the handler:  *)
Queued(p) == \E i \in 1 .. Len(q) : q[i] = p

UnderWay(p) == p \in net \/ inHand = p \/ Queued(p)

(* ... in one place at most. *)
AtMostOnce == \A p \in Transmission : /\ p \in net => inHand # p /\ ~Queued(p)
                                      /\ inHand = p => ~Queued(p)
                                      /\ \A i, j \in 1 .. Len(q) : q[i] = p /\ q[j] = p => i = j

(* BEGIN has been handled, and its transmission may have failed since. *)
Begun == \/ clientState # "Disconnected"
         \/ force
         \/ pc["main"] = "window" /\ ~receiveThreadRunning

(* What the server sends, it sends after the only CONNECT. *)
ConnectFirst == Other("CONNECT") \in net =>
                    /\ ~Begun
                    /\ \A p \in Transmission : ~UnderWay(p)

BegunCame == Begun => ~UnderWay(Other("BEGIN"))

(* So a forced disconnect finds the client in the disconnected state, having *)
(* got there from the state whose step it may still be in.                   *)
ForcedApart == /\ force => clientState = "Disconnected"
               /\ pc["client"] \in {"check", "clear", "join"} => force
               /\ pc["client"] \in {"poll", "polled"} /\ stepOf # "Disconnected"
                      => clientState # "Disconnected" \/ force

Receives == clientState # "Disconnected" /\ pc["main"] = "window" => receiveThreadRunning

Unrepeated == /\ AtMostOnce /\ ConnectFirst /\ BegunCame
              /\ ForcedApart /\ Receives

OnceInv == duplicates = 0 => Unrepeated

(* The packets differ from each other. *)
LEMMA PacketsDiffer ==
    /\ \A m, n : Initial(m) = Initial(n) => m = n
    /\ \A n : Initial(n) \notin {Other("BEGIN"), Other("END"), Other("CONNECT"),
                                 Other("KEEP_ALIVE"), NoPacket}
    /\ Other("BEGIN") \notin {Other("END"), Other("CONNECT"), Other("KEEP_ALIVE"), NoPacket}
    /\ Other("END") \notin {Other("CONNECT"), Other("KEEP_ALIVE"), NoPacket}
    /\ Other("CONNECT") # Other("KEEP_ALIVE")
BY DEF Initial, Other, NoPacket

LEMMA TransmissionIs ==
    /\ \A p \in Transmission : p \notin {Other("CONNECT"), Other("KEEP_ALIVE"), NoPacket}
    /\ \A n \in Containers : Initial(n) \in Transmission
    /\ Other("BEGIN") \in Transmission
<1>1. \A p \in Transmission : \/ p = Other("BEGIN") \/ p = Other("END")
                              \/ \E n \in Containers : p = Initial(n)
  BY DEF Transmission
<1> HIDE DEF Initial, Other, NoPacket
<1>2. \A n \in Containers : Initial(n) \in Transmission
  <2>1. \A n \in Containers : Initial(n) \in {Initial(m) : m \in Containers}
    OBVIOUS
  <2> QED BY <2>1 DEF Transmission
<1> QED BY <1>1, <1>2, PacketsDiffer DEF Transmission

-----------------------------------------------------------------------------
(* What is left as it is when a packet only goes on its way. *)
ClientStill == UNCHANGED <<receiveThreadRunning, pc, stepOf, clientState, force>>

(* A step of the network or of the receive thread that brings no packet up    *)
(* that was not under way, and no packet to a second place.                   *)
LEMMA PacketsMove ==
    ASSUME TypeOK, Unrepeated, ClientStill, AtMostOnce',
           Other("CONNECT") \in net' => Other("CONNECT") \in net,
           \A p \in Transmission : UnderWay(p)' => UnderWay(p)
    PROVE  Unrepeated'
<1>1. Begun' = Begun
  BY DEF ClientStill, Begun
<1>2. ConnectFirst' /\ BegunCame'
  BY <1>1, TransmissionIs DEF Unrepeated, ConnectFirst, BegunCame, ClientStill
<1>3. ForcedApart' /\ Receives'
  BY DEF Unrepeated, ForcedApart, Receives, ClientStill
<1> QED BY <1>2, <1>3 DEF Unrepeated

LEMMA OutsideOnce ==
    ASSUME TypeOK, Unrepeated, duplicates' = 0,
           \/ \E p \in net : Lose(p)
           \/ ServerConnects \/ ServerKeepsAlive \/ ServerGoes
           \/ Expire
    PROVE  Unrepeated'
<1> HIDE DEF Initial, Other
<1> USE DEF receiveVars, stateVars
<1>1. ClientStill /\ UNCHANGED <<inHand, q>>
  BY DEF Lose, ServerConnects, ServerKeepsAlive, ServerGoes, Expire, ClientStill
<1>2. CASE \A p \in Transmission \cup {Other("CONNECT")} : p \in net' => p \in net
  <2>1. \A p \in Transmission : UnderWay(p)' => UnderWay(p)
    BY <1>1, <1>2 DEF UnderWay, Queued
  <2>2. AtMostOnce'
    BY <1>1, <1>2 DEF Unrepeated, AtMostOnce, Queued
  <2> QED BY <1>1, <1>2, <2>1, <2>2, PacketsMove
<1>3. CASE ServerConnects
  <2>1. /\ Other("CONNECT") \in net
        /\ net' = (net \ {Other("CONNECT")}) \cup Transmission
    BY <1>3 DEF TypeOK, ServerConnects
  <2>2. /\ ~Begun
        /\ \A p \in Transmission : ~UnderWay(p)
    BY <2>1 DEF Unrepeated, ConnectFirst
  <2>3. Begun' = Begun
    BY <1>1 DEF Begun, ClientStill
  <2>4. AtMostOnce'
    <3>1. \A p \in Transmission : inHand' # p /\ ~Queued(p)'
      BY <1>1, <2>2 DEF UnderWay, Queued
    <3> QED BY <3>1 DEF AtMostOnce, Queued
  <2>5. ConnectFirst'
    BY <2>1, TransmissionIs DEF ConnectFirst
  <2>6. BegunCame'
    BY <1>1, <2>2, <2>3 DEF BegunCame, ClientStill
  <2>7. ForcedApart' /\ Receives'
    BY <1>1 DEF Unrepeated, ForcedApart, Receives, ClientStill
  <2> QED BY <2>4, <2>5, <2>6, <2>7 DEF Unrepeated
<1>4. (\E p \in net : Lose(p)) \/ ServerKeepsAlive \/ ServerGoes \/ Expire
          => \A p \in Transmission \cup {Other("CONNECT")} : p \in net' => p \in net
  BY TransmissionIs, PacketsDiffer DEF Lose, ServerKeepsAlive, ServerGoes, Expire, netVars
<1> QED BY <1>2, <1>3, <1>4

LEMMA ReceiverOnce ==
    ASSUME TypeOK, Unrepeated, duplicates' = 0, Receiver
    PROVE  Unrepeated'
<1> HIDE DEF Initial, Other, NoPacket
<1> USE DEF ReceiverIs, ReceiverUnchanged, stateVars
<1>1. ClientStill
  BY DEF Receiver, TestRunning, NoDatagram, AddToQueue, Datagram, ClientStill
<1>2. CASE TestRunning \/ NoDatagram
  <2>1. UNCHANGED <<net, inHand, q>>
    BY <1>2 DEF TestRunning, NoDatagram
  <2>2. AtMostOnce' /\ \A p \in Transmission : UnderWay(p)' => UnderWay(p)
    BY <2>1 DEF Unrepeated, AtMostOnce, UnderWay, Queued
  <2> QED BY <1>1, <2>1, <2>2, PacketsMove
<1>3. CASE AddToQueue
  <2>1. /\ UNCHANGED net /\ inHand' = NoPacket
        /\ q \in Seq(Packets) /\ q' = Append(q, inHand)
    BY <1>3 DEF TypeOK, AddToQueue
  <2>2. /\ Len(q) \in Nat /\ Len(q') = Len(q) + 1 /\ q'[Len(q) + 1] = inHand
        /\ \A i \in 1 .. Len(q) : q'[i] = q[i]
    BY <2>1
  <2>3. \A p : Queued(p)' => Queued(p) \/ inHand = p
    BY <2>2 DEF Queued
  <2>4. \A p \in Transmission : UnderWay(p)' => UnderWay(p)
    BY <2>1, <2>3, TransmissionIs DEF UnderWay
  <2>5. AtMostOnce'
    <3> SUFFICES ASSUME NEW p \in Transmission
                 PROVE  /\ p \in net' => inHand' # p /\ ~Queued(p)'
                        /\ inHand' = p => ~Queued(p)'
                        /\ \A i, j \in 1 .. Len(q') : q'[i] = p /\ q'[j] = p => i = j
      BY DEF AtMostOnce
    <3>1. /\ p \in net => inHand # p /\ ~Queued(p)
          /\ inHand = p => ~Queued(p)
          /\ \A i, j \in 1 .. Len(q) : q[i] = p /\ q[j] = p => i = j
      BY DEF Unrepeated, AtMostOnce
    <3>2. inHand' # p /\ (p \in net' => ~Queued(p)')
      BY <2>1, <2>3, <3>1, TransmissionIs
    <3>3. \A i, j \in 1 .. Len(q') : q'[i] = p /\ q'[j] = p => i = j
      BY <2>2, <3>1 DEF Queued
    <3> QED BY <3>2, <3>3
  <2> QED BY <1>1, <2>1, <2>4, <2>5, PacketsMove
<1>4. ASSUME NEW d \in net, Datagram(d)
      PROVE  Unrepeated'
  <2>1. /\ d # Other("CONNECT") /\ inHand = NoPacket /\ inHand' = d
        /\ UNCHANGED q /\ net' = net \ {d}
    BY <1>4 DEF TypeOK, Datagram, Leaves
  <2>2. \A p : Queued(p)' <=> Queued(p)
    BY <2>1 DEF Queued
  <2>3. \A p \in Transmission : UnderWay(p)' => UnderWay(p)
    BY <2>1, <2>2 DEF UnderWay
  <2>4. AtMostOnce'
    BY <2>1, <2>2, TransmissionIs DEF Unrepeated, AtMostOnce
  <2> QED BY <1>1, <2>1, <2>3, <2>4, PacketsMove
<1> QED BY <1>2, <1>3, <1>4 DEF Receiver

(* A step that leaves the packets where they are. *)
LEMMA PacketsStay ==
    ASSUME Unrepeated, UNCHANGED <<net, inHand, q>>,
           Begun' => Begun, ForcedApart', Receives'
    PROVE  Unrepeated'
BY DEF Unrepeated, AtMostOnce, ConnectFirst, BegunCame, UnderWay, Queued

LEMMA MainOnce ==
    ASSUME TypeOK, Unrepeated, CloseWindow \/ Stop \/ JoinClient
    PROVE  Unrepeated'
<1>1. /\ UNCHANGED <<net, inHand, q, receiveThreadRunning>>
      /\ UNCHANGED <<stepOf, clientState, force>>
      /\ pc'["client"] = pc["client"] /\ pc'["main"] # "window"
  BY DEF TypeOK, CloseWindow, Stop, JoinClient, MainUnchanged, netVars, receiveVars, stateVars
<1>2. Begun' => Begun
  BY <1>1 DEF Begun
<1>3. ForcedApart' /\ Receives'
  BY <1>1 DEF Unrepeated, ForcedApart, Receives
<1> QED BY <1>1, <1>2, <1>3, PacketsStay

LEMMA DisconnectOnce ==
    ASSUME TypeOK, Unrepeated, NEW t \in Threads, Disconnect(t)
    PROVE  Unrepeated'
<1>1. UNCHANGED <<net, inHand, q, stepOf, clientState>>
  BY DEF Disconnect, CheckReceiving, ClearReceiving, JoinReceiver, JoinAgain,
         DisconnectUnchanged, netVars
<1>3. CASE t = "main"
  <2>1. /\ pc["main"] # "window" /\ pc'["main"] # "window"
        /\ pc'["client"] = pc["client"] /\ UNCHANGED force
    BY <1>3 DEF TypeOK, Disconnect, CheckReceiving, ClearReceiving, JoinReceiver, JoinAgain,
                LeaveDisconnect, StayIn
  <2>2. (Begun' => Begun) /\ ForcedApart' /\ Receives'
    BY <1>1, <2>1 DEF Unrepeated, ForcedApart, Begun, Receives
  <2> QED BY <1>1, <2>2, PacketsStay
<1>4. CASE t = "client"
  <2>1. pc["client"] \in {"check", "clear", "join"} /\ pc'["main"] = pc["main"]
    BY <1>4 DEF TypeOK, Disconnect, CheckReceiving, ClearReceiving, JoinReceiver, JoinAgain,
                LeaveDisconnect, StayIn
  <2>2. force /\ clientState = "Disconnected"
    BY <2>1 DEF Unrepeated, ForcedApart
  <2>3. Begun /\ Receives'
    BY <1>1, <2>2 DEF Begun, Receives
  <2>4. force' \/ pc'["client"] = "loop"
    BY <1>4, <2>2 DEF TypeOK, Disconnect, CheckReceiving, ClearReceiving, JoinReceiver,
                      JoinAgain, LeaveDisconnect, StayIn
  <2>5. ForcedApart'
    BY <1>1, <2>2, <2>4 DEF ForcedApart
  <2> QED BY <1>1, <2>3, <2>5, PacketsStay
<1> QED BY <1>3, <1>4 DEF Threads

LEMMA StepOnce ==
    ASSUME TypeOK, Unrepeated, Step \/ Polled \/ EndOfStep
    PROVE  Unrepeated'
<1> USE DEF ClientAt, AfterPoll, ClientUnchanged, netVars, receiveVars, stateVars
<1>1. /\ UNCHANGED <<net, inHand, q, receiveThreadRunning>>
      /\ pc'["main"] = pc["main"] /\ pc["client"] \in {"loop", "poll", "polled"}
  BY DEF TypeOK, Step, Polled, EndOfStep, PollForce, NotForced, NotExpired, ReceivingTimesOut,
         RunningTimesOut
<1>2. CASE ReceivingTimesOut \/ RunningTimesOut
  <2>1. clientState' = "Disconnected" /\ force' /\ pc'["client"] = "loop"
    BY <1>2 DEF TypeOK, ReceivingTimesOut, RunningTimesOut, ToDisconnected
  <2>2. ForcedApart' /\ Receives'
    BY <2>1 DEF ForcedApart, Receives
  <2>3. Begun
    BY <1>2 DEF Unrepeated, ForcedApart, Begun, ReceivingTimesOut, RunningTimesOut
  <2> QED BY <1>1, <2>2, <2>3, PacketsStay
<1>3. CASE Step \/ Polled \/ PollForce \/ NotForced \/ NotExpired
  <2>1. /\ UNCHANGED <<clientState, force>>
        /\ pc'["client"] \in {"check", "clear", "join"} => force
        /\ pc'["client"] = "poll" => stepOf' = clientState
        /\ pc'["client"] = "polled" => UNCHANGED stepOf /\ pc["client"] = "poll"
    BY <1>3 DEF TypeOK, Step, Polled, PollForce, NotForced, NotExpired
  <2>2. (Begun' => Begun) /\ ForcedApart' /\ Receives'
    BY <1>1, <2>1 DEF Unrepeated, Begun, ForcedApart, Receives
  <2> QED BY <1>1, <2>2, PacketsStay
<1> QED BY <1>2, <1>3 DEF EndOfStep

-----------------------------------------------------------------------------
(* The head of the queue is handled: nothing that came once is still under way *)
(* afterwards, and nothing else moves.                                         *)
LEMMA HandledOnce ==
    ASSUME TypeOK, Unrepeated, NEW d, Handle(d)
    PROVE  /\ UNCHANGED <<net, inHand, receiveThreadRunning, pc, stepOf>>
           /\ pc["client"] = "poll"
           /\ UnderWay(d)
           /\ \A p \in Transmission : UnderWay(p)' => UnderWay(p)
           /\ d \in Transmission => ~UnderWay(d)'
           /\ AtMostOnce'
<1>1. /\ q \in Seq(Packets) /\ q # <<>> /\ d = q[1] /\ q' = Tail(q)
      /\ UNCHANGED <<net, inHand, receiveThreadRunning, pc, stepOf>> /\ pc["client"] = "poll"
  BY DEF TypeOK, Handle, ClientUnchanged, netVars, receiveVars
<1>2. /\ Len(q) \in Nat /\ Len(q) >= 1 /\ Len(q') = Len(q) - 1
      /\ \A i \in 1 .. Len(q') : q'[i] = q[i + 1]
  BY <1>1
<1>3. \A p : Queued(p)' => Queued(p)
  BY <1>2 DEF Queued
<1>4. Queued(d)
  BY <1>1, <1>2 DEF Queued
<1>5. ASSUME d \in Transmission
      PROVE  ~UnderWay(d)'
  <2>1. /\ d \notin net /\ inHand # d
        /\ \A i, j \in 1 .. Len(q) : q[i] = d /\ q[j] = d => i = j
    BY <1>4, <1>5 DEF Unrepeated, AtMostOnce
  <2>2. ~Queued(d)'
    BY <1>1, <1>2, <2>1 DEF Queued
  <2> QED BY <1>1, <2>1, <2>2 DEF UnderWay
<1>6. ASSUME NEW p \in Transmission
      PROVE  \A i, j \in 1 .. Len(q') : q'[i] = p /\ q'[j] = p => i = j
  BY <1>2 DEF Unrepeated, AtMostOnce
<1>7. AtMostOnce'
  BY <1>1, <1>3, <1>6 DEF Unrepeated, AtMostOnce
<1>8. \A p \in Transmission : UnderWay(p)' => UnderWay(p)
  BY <1>1, <1>3 DEF UnderWay
<1> QED BY <1>1, <1>4, <1>5, <1>7, <1>8 DEF UnderWay

(* What a handler has then to care about. *)
LEMMA HandlersKeep ==
    ASSUME TypeOK, Unrepeated, NEW d \in Packets, Handle(d),
           Begun' => Begun \/ d = Other("BEGIN"), ForcedApart', Receives'
    PROVE  Unrepeated'
<1> HIDE DEF Initial, Other
<1>1. /\ UNCHANGED net /\ UnderWay(d) /\ AtMostOnce'
      /\ \A p \in Transmission : UnderWay(p)' => UnderWay(p)
      /\ d \in Transmission => ~UnderWay(d)'
  BY HandledOnce
<1>2. ConnectFirst'
  <2> SUFFICES ASSUME Other("CONNECT") \in net
               PROVE  ~Begun' /\ \A p \in Transmission : ~UnderWay(p)'
    BY <1>1 DEF ConnectFirst
  <2>1. ~Begun /\ \A p \in Transmission : ~UnderWay(p)
    BY DEF Unrepeated, ConnectFirst
  <2>2. d \notin Transmission
    BY <1>1, <2>1
  <2> QED BY <1>1, <2>1, <2>2, TransmissionIs
<1>3. BegunCame'
  BY <1>1, TransmissionIs DEF Unrepeated, BegunCame
<1> QED BY <1>1, <1>2, <1>3 DEF Unrepeated

LEMMA HandlerOnce ==
    ASSUME TypeOK, Unrepeated, Handler
    PROVE  Unrepeated'
<1> USE DEF stateVars
<1>1. CASE HandleBegin
  <2>1. /\ Handle(Other("BEGIN")) /\ UNCHANGED force /\ clientState' = "ReceiveInitial"
    BY <1>1 DEF HandleBegin
  <2>2. /\ UNCHANGED <<receiveThreadRunning, pc, stepOf>> /\ pc["client"] = "poll"
        /\ UnderWay(Other("BEGIN"))
    BY <2>1, HandledOnce
  <2>3. ~Begun
    BY <2>2 DEF Unrepeated, BegunCame
  <2>4. Receives' /\ ForcedApart'
    BY <2>1, <2>2, <2>3 DEF Begun, Receives, ForcedApart, TypeOK
  <2>5. Other("BEGIN") \in Packets
    BY PacketsAre
  <2> QED BY ONLY TypeOK, Unrepeated, <2>1, <2>4, <2>5, HandlersKeep
<1>2. CASE HandleEnd
  <2>1. /\ Handle(Other("END")) /\ clientState = "ReceiveInitial"
        /\ \/ clientState' = "Disconnected" /\ force' = TRUE
           \/ clientState' = "Running" /\ UNCHANGED force
    BY <1>2 DEF HandleEnd, ToRunning, ToDisconnected
  <2>2. /\ UNCHANGED <<receiveThreadRunning, pc, stepOf>> /\ pc["client"] = "poll"
    BY <2>1, HandledOnce
  <2>3. Begun /\ ForcedApart' /\ Receives'
    BY <2>1, <2>2 DEF Unrepeated, Begun, ForcedApart, Receives
  <2>4. Other("END") \in Packets
    BY PacketsAre
  <2> QED BY ONLY TypeOK, Unrepeated, <2>1, <2>3, <2>4, HandlersKeep
<1>3. CASE HandleKeepAlive \/ Ignored
  <2>1. PICK d \in Packets : Handle(d) /\ UNCHANGED stateVars
    BY <1>3, PacketsAre DEF HandleKeepAlive, Ignored
  <2>2. UNCHANGED <<receiveThreadRunning, pc, stepOf>>
    BY <2>1, HandledOnce
  <2>3. Begun' = Begun /\ ForcedApart' /\ Receives'
    BY <2>1, <2>2 DEF Unrepeated, Begun, ForcedApart, Receives
  <2> QED BY ONLY TypeOK, Unrepeated, <2>1, <2>3, HandlersKeep
<1>4. ASSUME NEW n \in Containers, HandleInitial(n)
      PROVE  Unrepeated'
  <2>1. /\ Handle(Initial(n)) /\ clientState = "ReceiveInitial"
        /\ clientState' # "Disconnected" /\ UNCHANGED force
    BY <1>4 DEF HandleInitial, ToRunning
  <2>2. UNCHANGED <<receiveThreadRunning, pc, stepOf>>
    BY <2>1, HandledOnce
  <2>3. Begun /\ ForcedApart' /\ Receives'
    BY <2>1, <2>2 DEF Unrepeated, Begun, ForcedApart, Receives
  <2>4. Initial(n) \in Packets
    BY PacketsAre
  <2> QED BY ONLY TypeOK, Unrepeated, <2>1, <2>3, <2>4, HandlersKeep
<1> QED BY <1>1, <1>2, <1>3, <1>4 DEF Handler

-----------------------------------------------------------------------------
LEMMA InitOnce == Init => OnceInv
<1> SUFFICES ASSUME Init PROVE Unrepeated
  BY DEF OnceInv
<1>1. /\ q = <<>> /\ inHand = NoPacket /\ net = {Other("CONNECT")}
      /\ clientState = "Disconnected" /\ ~force /\ receiveThreadRunning
  BY DEF Init
<1> HIDE DEF Initial, Other, NoPacket
<1>2. \A p : ~Queued(p)
  <2>1. Len(q) = 0
    BY <1>1
  <2> QED BY <2>1 DEF Queued
<1>3. AtMostOnce
  <2>1. \A p \in Transmission : p \notin net /\ inHand # p
    BY <1>1, TransmissionIs
  <2> QED BY <1>2, <2>1 DEF AtMostOnce, Queued
<1>4. \A p \in Transmission : ~UnderWay(p)
  BY <1>1, <1>2, TransmissionIs DEF UnderWay
<1>5. ~Begun
  BY <1>1 DEF Begun
<1>6. ForcedApart /\ Receives
  BY DEF Init, ForcedApart, Receives
<1> QED BY <1>3, <1>4, <1>5, <1>6 DEF Unrepeated, ConnectFirst, BegunCame

LEMMA NextOnce == TypeOK /\ OnceInv /\ [Next]_vars => OnceInv'
<1> SUFFICES ASSUME TypeOK, OnceInv, [Next]_vars, duplicates' = 0
             PROVE  Unrepeated'
  BY DEF OnceInv
<1>1. duplicates = 0
  <2>1. duplicates' \in {duplicates, duplicates + 1}
    BY DEF Next, Lose, ServerConnects, ServerKeepsAlive, ServerGoes, Expire, Receiver, TestRunning,
           NoDatagram, AddToQueue, Datagram, Leaves, ReceiverUnchanged, CloseWindow, Main, Stop,
           JoinClient, MainUnchanged, Disconnect, CheckReceiving, ClearReceiving, JoinReceiver,
           JoinAgain, DisconnectUnchanged, Client, Step, Polled, HandleBegin, HandleEnd,
           HandleKeepAlive, Ignored, HandleInitial, Handle, PollForce, NotForced, NotExpired,
           ReceivingTimesOut, RunningTimesOut, AfterPoll, ClientUnchanged, netVars, vars
  <2> QED BY <2>1 DEF TypeOK
<1>2. Unrepeated
  BY <1>1 DEF OnceInv
<1>3. CASE \/ \E p \in net : Lose(p)
           \/ ServerConnects \/ ServerKeepsAlive \/ ServerGoes \/ Expire
  BY <1>2, <1>3, OutsideOnce
<1>4. CASE Receiver
  BY <1>2, <1>4, ReceiverOnce
<1>5. CASE CloseWindow \/ Stop \/ JoinClient
  BY <1>2, <1>5, MainOnce
<1>6. CASE Disconnect("main") \/ Disconnect("client")
  BY <1>2, <1>6, DisconnectOnce DEF Threads
<1>7. CASE Handler
  BY <1>2, <1>7, HandlerOnce
<1>8. CASE Step \/ Polled \/ EndOfStep
  BY <1>2, <1>8, StepOnce
<1>9. CASE UNCHANGED vars
  <2>1. UNCHANGED <<net, inHand, q, receiveThreadRunning, pc, stepOf, clientState, force>>
    BY <1>9 DEF vars, netVars, receiveVars, stateVars
  <2>2. (Begun' => Begun) /\ ForcedApart' /\ Receives'
    BY <1>2, <2>1 DEF Unrepeated, Begun, ForcedApart, Receives
  <2> QED BY <1>2, <2>1, <2>2, PacketsStay
<1> QED BY <1>3, <1>4, <1>5, <1>6, <1>7, <1>8, <1>9
        DEF Next, Main, Client, Handler, EndOfStep

LEMMA OnceHolds == Spec => []OnceInv
BY InitOnce, NextOnce, TypeCorrect, PTL DEF Spec

(* Until then, a client in a connected state has its receive thread: the      *)
(* disconnect that pollForceDisconnect() makes meets no client that has been  *)
(* taken out of the disconnected state.                                       *)
THEOREM ConnectedReceives == Spec => []ReceivesUnlessRepeated
<1>1. OnceInv => ReceivesUnlessRepeated
  BY DEF OnceInv, Unrepeated, Receives, ReceivesUnlessRepeated
<1> QED BY <1>1, OnceHolds, PTL

-----------------------------------------------------------------------------
(* END leaves ReceiveInitial for the game only when a container was counted,  *)
(* because BEGIN announced one at least.                                      *)
SomeCame == /\ received # 0 => synced # {}
            /\ ~endReceived
            /\ clientState = "ReceiveInitial" => expected = 1
            /\ NeverEmptyWorld

LEMMA InitSomeCame == Init => SomeCame
BY DEF Init, SomeCame, NeverEmptyWorld

LEMMA NextSomeCame ==
    ASSUME TypeOK, SomeCame, [Next]_vars
    PROVE  SomeCame'
<1> DEFINE Counting == <<clientState, expected, received, endReceived, synced>>
<1>1. ASSUME UNCHANGED Counting
      PROVE  SomeCame'
  BY <1>1 DEF SomeCame, NeverEmptyWorld
<1>2. CASE HandleBegin
  <2>1. /\ clientState' = "ReceiveInitial" /\ expected' = 1
        /\ UNCHANGED <<received, endReceived, synced>>
    BY <1>2, NumContainersAssumption DEF HandleBegin, ThroughBool
  <2> QED BY <2>1 DEF SomeCame, NeverEmptyWorld
<1>3. CASE HandleEnd
  <2>1. /\ clientState = "ReceiveInitial" /\ received' = 0 /\ endReceived' = FALSE
        /\ UNCHANGED <<expected, synced>>
        /\ \/ clientState' = "Disconnected"
           \/ clientState' = "Running" /\ received >= expected
    BY <1>3 DEF HandleEnd, ResetReceived, ToRunning, ToDisconnected
  <2>2. received >= 1 => synced # {}
    BY DEF SomeCame
  <2> QED BY <2>1, <2>2 DEF SomeCame, NeverEmptyWorld
<1>4. ASSUME NEW n \in Containers, HandleInitial(n)
      PROVE  SomeCame'
  BY <1>4 DEF SomeCame, HandleInitial, NeverEmptyWorld
<1>5. CASE ReceivingTimesOut \/ RunningTimesOut
  BY <1>5 DEF SomeCame, NeverEmptyWorld, ReceivingTimesOut, RunningTimesOut, ResetReceived,
              ToDisconnected
<1>6. CASE HandleKeepAlive \/ Ignored
  BY <1>1, <1>6 DEF HandleKeepAlive, Ignored, stateVars
<1>7. CASE \/ \E p \in net : Lose(p)
           \/ ServerConnects \/ ServerKeepsAlive \/ ServerGoes \/ Expire
  BY <1>1, <1>7 DEF Lose, ServerConnects, ServerKeepsAlive, ServerGoes, Expire, stateVars
<1>8. CASE Receiver
  BY <1>1, <1>8 DEF Receiver, TestRunning, NoDatagram, AddToQueue, Datagram, ReceiverUnchanged,
                    stateVars
<1>9. CASE CloseWindow \/ Stop \/ JoinClient
  BY <1>1, <1>9 DEF CloseWindow, Stop, JoinClient, MainUnchanged, stateVars
<1>10. CASE Disconnect("main") \/ Disconnect("client")
  BY <1>1, <1>10 DEF Disconnect, CheckReceiving, ClearReceiving, JoinReceiver, JoinAgain,
                     DisconnectUnchanged
<1>11. CASE Step \/ Polled \/ PollForce \/ NotForced \/ NotExpired
  BY <1>1, <1>11 DEF Step, Polled, PollForce, NotForced, NotExpired, AfterPoll, stateVars
<1>12. CASE UNCHANGED vars
  BY <1>1, <1>12 DEF vars, stateVars
<1> QED BY <1>2, <1>3, <1>4, <1>5, <1>6, <1>7, <1>8, <1>9, <1>10, <1>11, <1>12
        DEF Next, Main, Client

(* A client that plays has received a container of the world, whatever was    *)
(* lost, repeated or reordered, and however many transmissions have failed.   *)
THEOREM NeverEmpty == Spec => []NeverEmptyWorld
<1>1. SomeCame => NeverEmptyWorld
  BY DEF SomeCame
<1> QED BY <1>1, InitSomeCame, NextSomeCame, TypeCorrect, PTL DEF Spec
=============================================================================
