----------------------------- MODULE KeyInputProofs -----------------------------
(* Theorems about KeyInput, for every set of keys and number of events and    *)
(* faults. *)
EXTENDS KeyInput, DatagramsProofs

Release(k) == [key |-> k, press |-> FALSE]

(* TypeOK for what each thread and the network own. *)
WindowTypeOK == /\ held \subseteq Keys
                /\ occurred \in 0 .. MaxEvents
                /\ pushing = NotPushing \/ pushing \in Events \X (0 .. Len(memory))

EventsTypeOK == /\ memory \in Seq(Events)
                /\ end \in 0 .. Len(memory)
                /\ overrun \in BOOLEAN

ClientTypeOK == /\ pc \in {"events", "clear", "send"}
                /\ read \in Nat /\ (pc = "clear" => read <= Len(memory))
                /\ running \in BOOLEAN
                /\ presses \subseteq Keys /\ releases \subseteq Keys /\ hidden \subseteq Keys

NetTypeOK == net \in Seq(InputData) /\ faults \in 0 .. MaxFaults

ServerTypeOK == /\ phase \in {"update", "poll"}
                /\ down \subseteq Keys /\ icPresses \subseteq Keys

(* What onKey() has read of the end is still so, or clear() came after it. *)
PushesAtEnd == pushing # NotPushing => pushing[2] = end \/ end = 0

(* What the loop has read is still in the vector. *)
ReadWithin == pc = "clear" => read <= end

TypeInv == /\ WindowTypeOK /\ EventsTypeOK /\ ClientTypeOK /\ NetTypeOK /\ ServerTypeOK
           /\ PushesAtEnd /\ ReadWithin

LEMMA TypeInvImpliesTypeOK == TypeInv => TypeOK
BY DEF TypeInv, TypeOK, WindowTypeOK, EventsTypeOK, ClientTypeOK, NetTypeOK, ServerTypeOK

LEMMA InitTypeInv == Init => TypeInv
<1> SUFFICES ASSUME Init PROVE TypeInv
  OBVIOUS
<1> USE DEF Init
<1>1. WindowTypeOK
  BY MaxEventsAssumption DEF WindowTypeOK
<1>5. EventsTypeOK
  <2>1. memory = <<>> /\ Len(memory) = 0 /\ memory \in Seq(Events)
    OBVIOUS
  <2>2. overrun \in BOOLEAN
    BY Zenon
  <2> QED
    BY <2>1, <2>2 DEF EventsTypeOK
<1>2. ClientTypeOK /\ ServerTypeOK
  BY DEF ClientTypeOK, ServerTypeOK
<1>3. NetTypeOK
  BY MaxFaultsAssumption DEF NetTypeOK, NetInit
<1>4. PushesAtEnd /\ ReadWithin
  BY DEF PushesAtEnd, ReadWithin
<1> QED
  BY <1>1, <1>2, <1>3, <1>4, <1>5 DEF TypeInv

-----------------------------------------------------------------------------
LEMMA EventKey ==
    ASSUME NEW e \in Events
    PROVE  e.key \in Keys
BY DEF Events

(* Type correctness, by the actions of each thread. *)
LEMMA OnKeyType ==
    ASSUME TypeInv, NEW k \in Keys, OnKey(k)
    PROVE  TypeInv'
<1> USE DEF TypeInv, OnKey
<1>1. /\ UNCHANGED <<memory, end, overrun>>
      /\ UNCHANGED <<pc, read, running, presses, releases, hidden>>
      /\ UNCHANGED <<net, faults>> /\ UNCHANGED <<phase, down, icPresses>>
  BY DEF eventVars, clientVars, netVars, serverVars
<1>2. [key |-> k, press |-> k \notin held] \in Events
  BY Zenon DEF Events
<1>3. pushing' \in Events \X (0 .. Len(memory))
  BY <1>2 DEF EventsTypeOK
<1>4. WindowTypeOK'
  BY <1>1, <1>3, MaxEventsAssumption DEF WindowTypeOK
<1>5. EventsTypeOK' /\ ClientTypeOK' /\ NetTypeOK' /\ ServerTypeOK'
  BY <1>1 DEF EventsTypeOK, ClientTypeOK, NetTypeOK, ServerTypeOK
<1>6. PushesAtEnd' /\ ReadWithin'
  BY <1>1 DEF PushesAtEnd, ReadWithin
<1> QED
  BY <1>4, <1>5, <1>6

(* What push_back() leaves in the vector. *)
LEMMA PushedMemory ==
    ASSUME TypeInv, Pushed
    PROVE  /\ pushing[1] \in Events /\ pushing[2] \in 0 .. Len(memory)
           /\ memory' \in Seq(Events) /\ end' = pushing[2] + 1 /\ Len(memory') = end'
           /\ \A i \in 1 .. pushing[2] : memory'[i] = memory[i]
           /\ memory'[end'] = pushing[1]
<1> USE DEF TypeInv, EventsTypeOK
<1>1. pushing[1] \in Events /\ pushing[2] \in 0 .. Len(memory)
  BY DEF Pushed, WindowTypeOK
<1> DEFINE front == SubSeq(memory, 1, pushing[2])
<1>2. front \in Seq(Events) /\ Len(front) = pushing[2]
      /\ \A i \in 1 .. pushing[2] : front[i] = memory[i]
  BY <1>1
<1>3. memory' = Append(front, pushing[1]) /\ end' = pushing[2] + 1
  BY DEF Pushed
<1> HIDE DEF front
<1> QED
  BY <1>1, <1>2, <1>3

LEMMA PushedType ==
    ASSUME TypeInv, Pushed
    PROVE  TypeInv'
<1>1. /\ UNCHANGED <<held, occurred, overrun>>
      /\ UNCHANGED <<pc, read, running, presses, releases, hidden>>
      /\ UNCHANGED <<net, faults>> /\ UNCHANGED <<phase, down, icPresses>>
      /\ pushing' = NotPushing
  BY DEF Pushed, clientVars, netVars, serverVars
<1>2. /\ memory' \in Seq(Events) /\ Len(memory') = end'
      /\ end' = pushing[2] + 1 /\ pushing[2] \in 0 .. Len(memory)
  BY PushedMemory
<1>3. WindowTypeOK' /\ PushesAtEnd'
  BY <1>1 DEF TypeInv, WindowTypeOK, PushesAtEnd
<1>4. EventsTypeOK'
  BY <1>1, <1>2 DEF TypeInv, EventsTypeOK
<1>5. NetTypeOK' /\ ServerTypeOK'
  BY <1>1 DEF TypeInv, NetTypeOK, ServerTypeOK
<1>6. ReadWithin'
  BY <1>1, <1>2 DEF Pushed, TypeInv, ReadWithin, PushesAtEnd, ClientTypeOK
<1>7. ClientTypeOK'
  BY <1>1, <1>2, <1>6 DEF TypeInv, ClientTypeOK, ReadWithin
<1> QED
  BY <1>3, <1>4, <1>5, <1>6, <1>7 DEF TypeInv

(* The client's steps leave the window's thread, the memory and the server   *)
(* as they are. *)
LEMMA ReadEventsType ==
    ASSUME TypeInv, ReadEvents
    PROVE  TypeInv'
<1> USE DEF TypeInv, ReadEvents, At
<1>1. /\ UNCHANGED <<held, occurred, pushing>> /\ UNCHANGED <<memory, end, overrun>>
      /\ UNCHANGED <<net, faults>> /\ UNCHANGED <<phase, down, icPresses>>
      /\ running' = running /\ read' = end /\ pc' = "clear"
  BY DEF windowVars, eventVars, netVars, serverVars, LoopEnd
<1>2. WindowTypeOK' /\ EventsTypeOK' /\ NetTypeOK' /\ ServerTypeOK' /\ PushesAtEnd'
  BY <1>1 DEF WindowTypeOK, EventsTypeOK, NetTypeOK, ServerTypeOK, PushesAtEnd
<1>3. \A press \in BOOLEAN : KeysOf(Unread, press) \subseteq Keys
  <2>1. Unread \in Seq(Events)
    BY DEF Unread, EventsTypeOK
  <2>2. \A i \in DOMAIN Unread : Unread[i].key \in Keys
    BY <2>1, EventKey
  <2> QED
    BY <2>2 DEF KeysOf
<1>4. presses' \subseteq Keys /\ releases' \subseteq Keys
  BY <1>3 DEF ClientTypeOK
<1>5. hidden' \subseteq Keys
  <2>1. Untold(Unread) \subseteq Keys
    BY DEF Untold, LastPressed
  <2> QED
    BY <2>1 DEF ClientTypeOK
<1>6. end \in Nat /\ end <= Len(memory)
  BY DEF EventsTypeOK
<1>7. running' \in BOOLEAN
  BY <1>1 DEF ClientTypeOK
<1>8. ClientTypeOK' /\ ReadWithin'
  <2>1. /\ pc' = "clear" /\ read' = end
        /\ end \in Nat /\ end <= Len(memory)
        /\ end' = end /\ memory' = memory
    BY <1>1, <1>6
  <2>2. ReadWithin'
    BY ONLY <2>1 DEF ReadWithin
  <2> QED
    BY ONLY <1>4, <1>5, <1>7, <2>1, <2>2 DEF ClientTypeOK
<1> QED
  BY <1>2, <1>8

LEMMA ClearEventsType ==
    ASSUME TypeInv, ClearEvents
    PROVE  TypeInv'
<1> USE DEF TypeInv, ClearEvents, At
<1>1. /\ UNCHANGED <<held, occurred, pushing>> /\ UNCHANGED <<net, faults>>
      /\ UNCHANGED <<phase, down, icPresses>> /\ UNCHANGED memory
      /\ UNCHANGED <<read, running, presses, releases, hidden>>
      /\ end' = 0 /\ pc' = "send"
  BY DEF windowVars, netVars, serverVars
<1>2. WindowTypeOK' /\ NetTypeOK' /\ ServerTypeOK' /\ PushesAtEnd'
  BY <1>1 DEF WindowTypeOK, NetTypeOK, ServerTypeOK, PushesAtEnd
<1>3. overrun' \in BOOLEAN
  OBVIOUS
<1>4. EventsTypeOK'
  BY <1>1, <1>3 DEF EventsTypeOK
<1>5. ClientTypeOK' /\ ReadWithin'
  BY <1>1 DEF ClientTypeOK, ReadWithin
<1> QED
  BY <1>2, <1>4, <1>5

LEMMA SendInputType ==
    ASSUME TypeInv, SendInput
    PROVE  TypeInv'
<1> USE DEF TypeInv, SendInput, At
<1>1. /\ UNCHANGED <<held, occurred, pushing>> /\ UNCHANGED <<memory, end, overrun>>
      /\ UNCHANGED <<phase, down, icPresses>> /\ UNCHANGED <<read, running, hidden, faults>>
      /\ pc' = "events" /\ presses' = {} /\ releases' = {}
  BY DEF windowVars, eventVars, serverVars
<1>2. /\ WindowTypeOK' /\ EventsTypeOK' /\ ClientTypeOK' /\ ServerTypeOK'
      /\ PushesAtEnd' /\ ReadWithin'
  BY <1>1 DEF WindowTypeOK, EventsTypeOK, ClientTypeOK, ServerTypeOK, PushesAtEnd, ReadWithin
<1>3. InputOf \in InputData
  BY DEF InputOf, InputData, ClientTypeOK
<1>4. NetTypeOK'
  BY <1>1, <1>3 DEF NetTypeOK
<1> QED
  BY <1>2, <1>4

LEMMA OtherStepType ==
    ASSUME TypeInv, OtherStep
    PROVE  TypeInv'
<1> USE DEF TypeInv, OtherStep, At
<1>1. /\ UNCHANGED <<held, occurred, pushing>> /\ UNCHANGED <<memory, end, overrun>>
      /\ UNCHANGED <<net, faults>> /\ UNCHANGED <<phase, down, icPresses>>
      /\ UNCHANGED <<read, presses, releases, hidden>>
      /\ pc' = "events" /\ running' \in BOOLEAN
  BY DEF windowVars, eventVars, netVars, serverVars
<1>2. WindowTypeOK' /\ EventsTypeOK' /\ NetTypeOK' /\ ServerTypeOK' /\ PushesAtEnd'
  BY <1>1 DEF WindowTypeOK, EventsTypeOK, NetTypeOK, ServerTypeOK, PushesAtEnd
<1>3. ClientTypeOK' /\ ReadWithin'
  BY <1>1 DEF ClientTypeOK, ReadWithin
<1> QED
  BY <1>2, <1>3

(* The server and the network leave both threads of the client alone. *)
LEMMA ClientKept ==
    ASSUME TypeInv, UNCHANGED <<windowVars, eventVars, clientVars>>
    PROVE  WindowTypeOK' /\ EventsTypeOK' /\ ClientTypeOK' /\ PushesAtEnd' /\ ReadWithin'
BY DEF TypeInv, windowVars, eventVars, clientVars, WindowTypeOK, EventsTypeOK, ClientTypeOK,
       PushesAtEnd, ReadWithin

LEMMA HandleInputType ==
    ASSUME TypeInv, NEW i \in UnderWay, HandleInput(i)
    PROVE  TypeInv'
<1> USE DEF TypeInv, HandleInput
<1>1. NetTypeOK' /\ net[i] \in InputData
  BY NetStep DEF NetTypeOK
<1>2. ServerTypeOK'
  BY <1>1 DEF ServerTypeOK, InputDataToInputComponent, InputData
<1> QED
  BY <1>1, <1>2, ClientKept

LEMMA LoseType ==
    ASSUME TypeInv, NEW i \in UnderWay, Lose(i)
    PROVE  TypeInv'
<1> USE DEF TypeInv, Lose
<1>1. NetTypeOK'
  BY NetStep DEF NetTypeOK
<1>2. ServerTypeOK'
  BY DEF serverVars, ServerTypeOK
<1> QED
  BY <1>1, <1>2, ClientKept

LEMMA NextTypeInv ==
    ASSUME TypeInv, [Next]_vars
    PROVE  TypeInv'
<1>1. CASE \E k \in Keys : OnKey(k)
  BY <1>1, OnKeyType
<1>2. CASE Pushed
  BY <1>2, PushedType
<1>3. CASE ClientStep
  BY <1>3, ReadEventsType, ClearEventsType, SendInputType, OtherStepType DEF ClientStep
<1>4. CASE \E i \in UnderWay : Lose(i) \/ HandleInput(i)
  BY <1>4, LoseType, HandleInputType
<1>5. CASE Update \/ NoPacket
  <2>1. UNCHANGED <<windowVars, eventVars, clientVars>> /\ UNCHANGED <<net, faults>>
    BY <1>5 DEF Update, NoPacket, netVars
  <2>2. NetTypeOK'
    BY <2>1 DEF TypeInv, NetTypeOK
  <2>3. ServerTypeOK'
    BY <1>5 DEF Update, NoPacket, TypeInv, ServerTypeOK
  <2> QED
    BY <2>1, <2>2, <2>3, ClientKept DEF TypeInv
<1>6. CASE UNCHANGED vars
  <2>1. UNCHANGED <<windowVars, eventVars, clientVars>> /\ UNCHANGED <<net, faults>>
        /\ UNCHANGED <<phase, down, icPresses>>
    BY <1>6 DEF vars, netVars, serverVars
  <2>2. NetTypeOK' /\ ServerTypeOK'
    BY <2>1 DEF TypeInv, NetTypeOK, ServerTypeOK
  <2> QED
    BY <2>1, <2>2, ClientKept DEF TypeInv
<1> QED
  BY <1>1, <1>2, <1>3, <1>4, <1>5, <1>6 DEF Next

(* The threads, the vector between them, the packets and the server's        *)
(* component are well typed, and the loop reads within the vector's memory.  *)
THEOREM TypeCorrect == Spec => []TypeOK
<1>1. Init => TypeInv
  BY InitTypeInv
<1>2. TypeInv /\ [Next]_vars => TypeInv'
  BY NextTypeInv
<1>3. TypeInv => TypeOK
  BY TypeInvImpliesTypeOK
<1> QED
  BY <1>1, <1>2, <1>3, PTL DEF Spec

NoneWait == phase = "poll" => icPresses = {}

(* While packets are handled no press waits to be acted on, so none is       *)
(* overwritten: Server::step() updates the systems between two packets.      *)
THEOREM PressesKept == Spec => PressesActedOn
<1>1. Init => NoneWait
  BY DEF Init, NoneWait
<1>2. NoneWait /\ [Next]_vars => NoneWait'
  BY DEF NoneWait, Next, OnKey, Pushed, ClientStep, ReadEvents, ClearEvents, SendInput, OtherStep,
         Lose, HandleInput, Update, NoPacket, serverVars, vars
<1>3. NoneWait /\ [Next]_vars => [phase = "poll" => icPresses \subseteq icPresses']_vars
  BY DEF NoneWait
<1> QED
  BY <1>1, <1>2, <1>3, PTL DEF Spec, PressesActedOn

-----------------------------------------------------------------------------
(* NeverStuck.  Along the whole way, from the server's component back to      *)
(* onKey(), every press is of a key that is held or has a release behind it.  *)

(* The release is in onKey(), or the key is not up at all. *)
Releasing(k) == pushing # NotPushing /\ pushing[1] = Release(k)
Coming(k) == k \in held \/ Releasing(k)

(* It is among the events the client's loop has still to read. *)
Start == IF pc = "clear" THEN read ELSE 0
Fresh(k) == \E j \in Start + 1 .. end : memory[j] = Release(k)

(* It is in a packet behind packet i. *)
Sent(k, i) == \E j \in UnderWay : j > i /\ k \in net[j].releases

(* Each press in the first n events of the memory. *)
EventsFollowed(n) ==
    \A i \in 1 .. n : memory[i].press =>
        \/ Coming(memory[i].key)
        \/ \E j \in i + 1 .. n : memory[j] = Release(memory[i].key)

PushFollowed == pushing # NotPushing =>
                  /\ EventsFollowed(pushing[2])
                  /\ pushing[1].press => pushing[1].key \in held
ListsFollowed == \A k \in presses \ releases : Coming(k) \/ Fresh(k)
NetFollowed == \A i \in UnderWay : \A k \in net[i].presses \ net[i].releases :
                  Coming(k) \/ Fresh(k) \/ k \in releases \/ Sent(k, i)
DownFollowed == \A k \in down : Coming(k) \/ Fresh(k) \/ k \in releases \/ Sent(k, 0)

(* A client that has not joined has sent nothing. *)
QuietBefore == ~running => presses = {} /\ net = <<>> /\ down = {}

VectorFollowed == EventsFollowed(end) /\ PushFollowed
WayFollowed == ListsFollowed /\ NetFollowed /\ DownFollowed

FollowInv == /\ TypeInv
             /\ QuietBefore
             /\ VectorFollowed
             /\ Undisturbed => WayFollowed

LEMMA FollowImpliesNeverStuck == FollowInv => NeverStuck
<1> SUFFICES ASSUME FollowInv, Undisturbed, NEW k \in down \ held
             PROVE  Pending(k, FALSE)
  BY DEF NeverStuck
<1>1. \/ Releasing(k) \/ Fresh(k) \/ k \in releases \/ Sent(k, 0)
  BY DEF FollowInv, WayFollowed, DownFollowed, Coming
<1>2. CASE Fresh(k)
  <2>1. Start \in Nat /\ end \in 0 .. Len(memory) /\ memory \in Seq(Events)
    BY DEF FollowInv, TypeInv, ClientTypeOK, EventsTypeOK, Start
  <2>2. PICK j \in Start + 1 .. end : memory[j] = Release(k)
    BY <1>2 DEF Fresh
  <2>3. j \in DOMAIN Unread /\ Unread[j] = Release(k)
    BY <2>1, <2>2 DEF Unread
  <2>4. Unread[j].press = FALSE /\ Unread[j].key = k
    BY <2>3 DEF Release
  <2>5. k \in KeysOf(Unread, FALSE)
    BY <2>3, <2>4 DEF KeysOf
  <2> QED
    BY <2>5 DEF Pending
<1>3. CASE Releasing(k) \/ k \in releases \/ Sent(k, 0)
  BY <1>3 DEF Releasing, Release, Sent, Pending
<1> QED
  BY <1>1, <1>2, <1>3

LEMMA InitFollow == Init => FollowInv
<1> SUFFICES ASSUME Init PROVE FollowInv
  OBVIOUS
<1>1. TypeInv
  BY InitTypeInv
<1>2. QuietBefore /\ VectorFollowed
  BY DEF Init, NetInit, QuietBefore, VectorFollowed, EventsFollowed, PushFollowed
<1>3. WayFollowed
  BY DEF Init, NetInit, UnderWay, WayFollowed, ListsFollowed, NetFollowed, DownFollowed
<1> QED
  BY <1>1, <1>2, <1>3 DEF FollowInv

(* A key goes down or up: if it was held, its release is in onKey(). *)
LEMMA OnKeyFollow ==
    ASSUME FollowInv, NEW k \in Keys, OnKey(k)
    PROVE  FollowInv'
<1> USE DEF FollowInv
<1>1. TypeInv'
  BY OnKeyType
<1>2. /\ UNCHANGED <<memory, end, overrun>>
      /\ UNCHANGED <<pc, read, running, presses, releases, hidden>>
      /\ UNCHANGED <<net, faults>> /\ UNCHANGED <<phase, down, icPresses>>
  BY DEF OnKey, eventVars, clientVars, netVars, serverVars
<1>3. /\ pushing = NotPushing /\ pushing' # NotPushing
      /\ pushing'[1] = [key |-> k, press |-> k \notin held] /\ pushing'[2] = end
  BY DEF OnKey, NotPushing
<1>4. ASSUME NEW l, Coming(l)
      PROVE  Coming(l)'
  <2>1. l \in held
    BY <1>3, <1>4 DEF Coming, Releasing
  <2>2. CASE l = k
    <3>1. pushing'[1] = Release(l)
      BY <1>3, <2>1, <2>2 DEF Release
    <3> QED
      BY <1>3, <3>1 DEF Coming, Releasing, Release
  <2>3. CASE l # k
    BY <2>1, <2>3 DEF OnKey, Coming
  <2> QED
    BY <2>2, <2>3
<1>5. EventsFollowed(end)'
  BY <1>2, <1>4 DEF VectorFollowed, EventsFollowed, Release
<1>6. PushFollowed'
  <2>1. EventsFollowed(pushing[2])'
    BY <1>2, <1>3, <1>5 DEF EventsFollowed
  <2>2. pushing'[1].press => pushing'[1].key \in held'
    BY <1>3 DEF OnKey
  <2> QED
    BY <2>1, <2>2 DEF PushFollowed
<1>7. Undisturbed' => WayFollowed'
  BY <1>2, <1>4 DEF Undisturbed, WayFollowed, ListsFollowed, NetFollowed, DownFollowed, Fresh, Start,
                    Sent, UnderWay, Release
<1>8. QuietBefore'
  BY <1>2 DEF QuietBefore
<1> QED
  BY <1>1, <1>5, <1>6, <1>7, <1>8 DEF VectorFollowed

(* The event of onKey() goes behind those that clear() has left, or has      *)
(* brought back. *)
LEMMA PushedFollow ==
    ASSUME FollowInv, Pushed
    PROVE  FollowInv'
<1> USE DEF FollowInv
<1>1. TypeInv'
  BY PushedType
<1>2. /\ UNCHANGED <<held, occurred, overrun>>
      /\ UNCHANGED <<pc, read, running, presses, releases, hidden>>
      /\ UNCHANGED <<net, faults>> /\ UNCHANGED <<phase, down, icPresses>>
      /\ pushing # NotPushing /\ pushing' = NotPushing
  BY DEF Pushed, clientVars, netVars, serverVars
<1>3. /\ pushing[1] \in Events /\ pushing[2] \in 0 .. Len(memory)
      /\ memory' \in Seq(Events) /\ end' = pushing[2] + 1 /\ Len(memory') = end'
      /\ \A i \in 1 .. pushing[2] : memory'[i] = memory[i]
      /\ memory'[end'] = pushing[1]
  BY PushedMemory
<1>4. /\ end \in Nat /\ read \in Nat /\ (pushing[2] = end \/ end = 0)
      /\ (pc = "clear" => read <= end)
  BY <1>2 DEF TypeInv, EventsTypeOK, ClientTypeOK, PushesAtEnd, ReadWithin
<1>5. Start' = Start /\ Start \in Nat /\ Start <= end
  BY <1>2, <1>4 DEF Start
<1>6. ASSUME NEW k, Coming(k)
      PROVE  k \in held' \/ memory'[end'] = Release(k)
  BY <1>2, <1>3, <1>6 DEF Coming, Releasing
<1>7. ASSUME NEW k, Coming(k) \/ Fresh(k)
      PROVE  Coming(k)' \/ Fresh(k)'
  <2>1. CASE k \in held
    BY <1>2, <2>1 DEF Coming
  <2>2. CASE memory'[end'] = Release(k)
    <3>1. end' \in Start' + 1 .. end'
      BY <1>3, <1>4, <1>5
    <3> QED
      BY <2>2, <3>1 DEF Fresh, Release
  <2>3. CASE Fresh(k)
    <3>1. PICK j \in Start + 1 .. end : memory[j] = Release(k)
      BY <2>3 DEF Fresh
    <3>2. j \in Start' + 1 .. end' /\ memory'[j] = memory[j]
      BY <1>3, <1>4, <1>5, <3>1
    <3> QED
      BY <3>1, <3>2 DEF Fresh, Release
  <2> QED
    BY <1>2, <1>6, <1>7, <2>1, <2>2, <2>3
<1>8. EventsFollowed(end)'
  <2>1. ASSUME NEW i \in 1 .. end', memory'[i].press
        PROVE  \/ memory'[i].key \in held'
               \/ \E j \in i + 1 .. end' : memory'[j] = Release(memory'[i].key)
    <3>1. CASE i = end'
      BY <1>2, <1>3, <2>1, <3>1 DEF VectorFollowed, PushFollowed
    <3>2. CASE i # end'
      <4>1. i \in 1 .. pushing[2] /\ memory'[i] = memory[i]
        BY <1>3, <3>2
      <4>2. \/ Coming(memory[i].key)
            \/ \E j \in i + 1 .. pushing[2] : memory[j] = Release(memory[i].key)
        BY <1>2, <2>1, <4>1 DEF VectorFollowed, PushFollowed, EventsFollowed
      <4>3. CASE Coming(memory[i].key)
        <5>1. memory[i].key \in held' \/ memory'[end'] = Release(memory[i].key)
          BY <1>6, <4>3
        <5>2. end' \in i + 1 .. end'
          BY <1>3, <4>1
        <5> QED
          BY <4>1, <5>1, <5>2
      <4>4. CASE \E j \in i + 1 .. pushing[2] : memory[j] = Release(memory[i].key)
        <5>1. PICK j \in i + 1 .. pushing[2] : memory[j] = Release(memory[i].key)
          BY <4>4
        <5>2. j \in i + 1 .. end' /\ memory'[j] = memory[j]
          BY <1>3, <4>1
        <5> QED
          BY <4>1, <5>1, <5>2
      <4> QED
        BY <4>2, <4>3, <4>4
    <3> QED
      BY <3>1, <3>2
  <2> QED
    BY <2>1 DEF EventsFollowed, Coming, Release
<1>9. PushFollowed' /\ QuietBefore'
  BY <1>2 DEF PushFollowed, QuietBefore
<1>10. Undisturbed' => WayFollowed'
  <2> SUFFICES ASSUME Undisturbed' PROVE WayFollowed'
    OBVIOUS
  <2>1. WayFollowed
    BY <1>2 DEF Undisturbed
  <2>2. \A k, i : Sent(k, i)' <=> Sent(k, i)
    BY <1>2 DEF Sent, UnderWay
  <2>3. ListsFollowed'
    BY <1>2, <1>7, <2>1 DEF WayFollowed, ListsFollowed
  <2>4. NetFollowed'
    BY <1>2, <1>7, <2>1, <2>2 DEF WayFollowed, NetFollowed, UnderWay
  <2>5. DownFollowed'
    BY <1>2, <1>7, <2>1, <2>2 DEF WayFollowed, DownFollowed
  <2> QED
    BY <2>3, <2>4, <2>5 DEF WayFollowed
<1> QED
  BY <1>1, <1>8, <1>9, <1>10 DEF VectorFollowed

(* The events that the loop reads in the running state go into the lists; in *)
(* another state nothing waits for them. *)
LEMMA ReadEventsFollow ==
    ASSUME FollowInv, ReadEvents
    PROVE  FollowInv'
<1> USE DEF FollowInv
<1>1. TypeInv'
  BY ReadEventsType
<1>2. /\ UNCHANGED <<held, occurred, pushing>> /\ UNCHANGED <<memory, end, overrun>>
      /\ UNCHANGED <<net, faults>> /\ UNCHANGED <<phase, down, icPresses>>
      /\ running' = running /\ read' = end /\ pc = "events" /\ pc' = "clear"
  BY DEF ReadEvents, At, windowVars, eventVars, netVars, serverVars, LoopEnd
<1>3. /\ \A k : Coming(k)' <=> Coming(k)
      /\ \A k, i : Sent(k, i)' <=> Sent(k, i)
  BY <1>2 DEF Coming, Releasing, Release, Sent, UnderWay
<1>4. VectorFollowed'
  BY <1>2, <1>3 DEF VectorFollowed, EventsFollowed, PushFollowed, Release
<1>5. QuietBefore'
  BY <1>2 DEF QuietBefore, ReadEvents
<1>6. CASE ~running
  <2>1. WayFollowed'
    BY <1>2, <1>5, <1>6 DEF WayFollowed, ListsFollowed, NetFollowed, DownFollowed, QuietBefore,
                            UnderWay
  <2> QED
    BY <1>1, <1>4, <1>5, <2>1
<1>7. CASE running
  <2> DEFINE ups == KeysOf(Unread, FALSE)
             downs == KeysOf(Unread, TRUE)
  <2>1. presses' = presses \cup downs /\ releases' = releases \cup ups
    BY <1>7 DEF ReadEvents
  <2>2. /\ end \in Nat /\ DOMAIN Unread = 1 .. end
        /\ \A i \in 1 .. end : Unread[i] = memory[i]
    BY DEF TypeInv, EventsTypeOK, Unread
  <2>3. ASSUME NEW k, NEW j \in 1 .. end, memory[j] = Release(k)
        PROVE  k \in ups
    <3>1. Unread[j].press = FALSE /\ Unread[j].key = k
      BY <2>2, <2>3 DEF Release
    <3> QED
      BY <2>2, <3>1 DEF KeysOf
  <2>4. ASSUME NEW k, Fresh(k)
        PROVE  k \in ups
    <3>1. Start = 0
      BY <1>2 DEF Start
    <3>2. PICK j \in Start + 1 .. end : memory[j] = Release(k)
      BY <2>4 DEF Fresh
    <3>3. j \in 1 .. end
      BY <2>2, <3>1, <3>2
    <3> QED
      BY <2>3, <3>2, <3>3
  <2>5. ASSUME NEW k \in downs
        PROVE  Coming(k) \/ k \in ups
    <3>1. PICK i \in 1 .. end : memory[i].press = TRUE /\ memory[i].key = k
      BY <2>2 DEF KeysOf
    <3>2. \/ Coming(k) \/ \E j \in i + 1 .. end : memory[j] = Release(k)
      BY <3>1 DEF VectorFollowed, EventsFollowed
    <3>3. ASSUME NEW j \in i + 1 .. end
          PROVE  j \in 1 .. end
      BY <2>2
    <3> QED
      BY <2>3, <3>2, <3>3
  <2> HIDE DEF ups, downs
  <2>6. ASSUME Undisturbed'
        PROVE  WayFollowed'
    <3>1. WayFollowed
      BY <1>2, <2>6 DEF Undisturbed
    <3>2. ListsFollowed'
      BY <1>3, <2>1, <2>4, <2>5, <3>1 DEF WayFollowed, ListsFollowed
    <3>3. NetFollowed'
      BY <1>2, <1>3, <2>1, <2>4, <3>1 DEF WayFollowed, NetFollowed, UnderWay
    <3>4. DownFollowed'
      BY <1>2, <1>3, <2>1, <2>4, <3>1 DEF WayFollowed, DownFollowed
    <3> QED
      BY <3>2, <3>3, <3>4 DEF WayFollowed
  <2> QED
    BY <1>1, <1>4, <1>5, <2>6
<1> QED
  BY <1>6, <1>7

(* clear() removes what the loop has read, and nothing else unless it raced  *)
(* with onKey(). *)
LEMMA ClearEventsFollow ==
    ASSUME FollowInv, ClearEvents
    PROVE  FollowInv'
<1> USE DEF FollowInv
<1>1. TypeInv'
  BY ClearEventsType
<1>2. /\ UNCHANGED <<held, occurred, pushing>> /\ UNCHANGED <<net, faults>>
      /\ UNCHANGED <<phase, down, icPresses>> /\ UNCHANGED memory
      /\ UNCHANGED <<read, running, presses, releases, hidden>>
      /\ end' = 0 /\ pc = "clear" /\ pc' = "send" /\ overrun' = (overrun \/ end # read)
  BY DEF ClearEvents, At, windowVars, netVars, serverVars
<1>3. /\ \A k : Coming(k)' <=> Coming(k)
      /\ \A k, i : Sent(k, i)' <=> Sent(k, i)
  BY <1>2 DEF Coming, Releasing, Release, Sent, UnderWay
<1>4. QuietBefore'
  BY <1>2 DEF QuietBefore
<1>5. VectorFollowed'
  <2>1. EventsFollowed(end)'
    BY <1>2 DEF EventsFollowed
  <2>2. PushFollowed'
    BY <1>2, <1>3 DEF VectorFollowed, PushFollowed, EventsFollowed, Release
  <2> QED
    BY <2>1, <2>2 DEF VectorFollowed
<1>6. ASSUME Undisturbed'
      PROVE  WayFollowed'
  <2>1. faults = 0 /\ ~overrun /\ end = read
    BY <1>2, <1>6 DEF Undisturbed
  <2>2. WayFollowed
    BY <2>1 DEF Undisturbed
  <2>3. end \in Nat
    BY DEF TypeInv, EventsTypeOK
  <2>4. ASSUME NEW k
        PROVE  ~Fresh(k)
    <3>1. Start = end
      BY <1>2, <2>1 DEF Start
    <3>2. Start + 1 .. end = {}
      BY <2>3, <3>1
    <3> QED
      BY <3>2 DEF Fresh
  <2>5. ListsFollowed'
    BY <1>2, <1>3, <2>2, <2>4 DEF WayFollowed, ListsFollowed
  <2>6. NetFollowed'
    BY <1>2, <1>3, <2>2, <2>4 DEF WayFollowed, NetFollowed, UnderWay
  <2>7. DownFollowed'
    BY <1>2, <1>3, <2>2, <2>4 DEF WayFollowed, DownFollowed
  <2> QED
    BY <2>5, <2>6, <2>7 DEF WayFollowed
<1> QED
  BY <1>1, <1>4, <1>5, <1>6

(* A step that leaves the window's thread and the vector alone, and does not *)
(* clear what the loop has read. *)
LEMMA VectorKept ==
    ASSUME FollowInv, UNCHANGED <<windowVars, eventVars>>, read' = read,
           pc' = pc \/ (pc = "send" /\ pc' = "events")
    PROVE  /\ VectorFollowed'
           /\ \A k : Coming(k)' <=> Coming(k)
           /\ \A k : Fresh(k)' <=> Fresh(k)
<1>1. /\ UNCHANGED <<held, occurred, pushing>> /\ UNCHANGED <<memory, end, overrun>>
  BY DEF windowVars, eventVars
<1>2. Start' = Start
  BY DEF Start
<1>3. /\ \A k : Coming(k)' <=> Coming(k)
      /\ \A k : Fresh(k)' <=> Fresh(k)
  BY <1>1, <1>2 DEF Coming, Releasing, Release, Fresh
<1> QED
  BY <1>1, <1>3 DEF FollowInv, VectorFollowed, PushFollowed, EventsFollowed, Release

(* The packet holds the lists, and comes behind those that were sent. *)
LEMMA SendInputFollow ==
    ASSUME FollowInv, SendInput
    PROVE  FollowInv'
<1> USE DEF FollowInv
<1>1. TypeInv'
  BY SendInputType
<1>2. /\ UNCHANGED <<windowVars, eventVars>> /\ UNCHANGED <<phase, down, icPresses>>
      /\ UNCHANGED <<read, running, hidden, faults, overrun>>
      /\ pc = "send" /\ pc' = "events" /\ running /\ presses' = {} /\ releases' = {}
      /\ net' = IF Told THEN Append(net, InputOf) ELSE net
  BY DEF SendInput, At, windowVars, eventVars, serverVars
<1>3. /\ VectorFollowed' /\ \A k : Coming(k)' <=> Coming(k)
      /\ \A k : Fresh(k)' <=> Fresh(k)
  BY <1>2, VectorKept
<1>4. QuietBefore'
  BY <1>2 DEF QuietBefore
<1>5. net \in Seq(InputData) /\ Len(net) \in Nat
  BY DEF TypeInv, NetTypeOK
<1>6. ASSUME NEW i \in UnderWay
      PROVE  i \in UnderWay' /\ net'[i] = net[i]
  BY <1>2, <1>5 DEF UnderWay
<1>7. ASSUME NEW k, NEW i \in 0 .. Len(net), k \in releases \/ Sent(k, i)
      PROVE  Sent(k, i)'
  <2>1. CASE k \in releases
    <3>1. net' = Append(net, InputOf)
      BY <1>2, <2>1 DEF Told
    <3>2. /\ Len(net) + 1 \in UnderWay' /\ Len(net) + 1 > i
          /\ k \in net'[Len(net) + 1].releases
      BY <1>5, <2>1, <3>1 DEF UnderWay, InputOf
    <3> QED
      BY <3>2 DEF Sent
  <2>2. CASE Sent(k, i)
    BY <1>6, <2>2 DEF Sent
  <2> QED
    BY <1>7, <2>1, <2>2
<1>8. ASSUME Undisturbed'
      PROVE  WayFollowed'
  <2>1. WayFollowed
    BY <1>2, <1>8 DEF Undisturbed
  <2>2. ListsFollowed'
    BY <1>2 DEF ListsFollowed
  <2>3. ASSUME NEW i \in UnderWay', NEW k \in net'[i].presses \ net'[i].releases
        PROVE  Coming(k)' \/ Fresh(k)' \/ Sent(k, i)'
    <3>1. CASE i \in UnderWay
      <4>1. i \in 0 .. Len(net)
        BY <1>5, <3>1 DEF UnderWay
      <4>2. Coming(k) \/ Fresh(k) \/ k \in releases \/ Sent(k, i)
        BY <1>6, <2>1, <2>3, <3>1 DEF WayFollowed, NetFollowed
      <4> QED
        BY <1>3, <1>7, <4>1, <4>2
    <3>2. CASE i \notin UnderWay
      <4>1. net' = Append(net, InputOf) /\ i = Len(net) + 1
        BY <1>2, <1>5, <3>2 DEF UnderWay
      <4>2. net'[i] = InputOf
        BY <1>5, <4>1
      <4>3. k \in presses \ releases
        BY <2>3, <4>2 DEF InputOf
      <4> QED
        BY <1>3, <2>1, <4>3 DEF WayFollowed, ListsFollowed
    <3> QED
      BY <3>1, <3>2
  <2>4. NetFollowed'
    BY <2>3 DEF NetFollowed
  <2>5. DownFollowed'
    BY <1>2, <1>3, <1>5, <1>7, <2>1 DEF WayFollowed, DownFollowed
  <2> QED
    BY <2>2, <2>4, <2>5 DEF WayFollowed
<1> QED
  BY <1>1, <1>3, <1>4, <1>8

(* A state that sends nothing has nothing to follow. *)
LEMMA OtherStepFollow ==
    ASSUME FollowInv, OtherStep
    PROVE  FollowInv'
<1> USE DEF FollowInv
<1>1. TypeInv'
  BY OtherStepType
<1>2. /\ UNCHANGED <<windowVars, eventVars>> /\ UNCHANGED <<net, down, presses, read>>
      /\ pc = "send" /\ pc' = "events"
      /\ presses = {} /\ net = <<>> /\ down = {}
  BY DEF OtherStep, At, netVars, serverVars, QuietBefore
<1>3. VectorFollowed'
  BY <1>2, VectorKept
<1>4. QuietBefore' /\ WayFollowed'
  BY <1>2 DEF QuietBefore, WayFollowed, ListsFollowed, NetFollowed, DownFollowed, UnderWay
<1> QED
  BY <1>1, <1>3, <1>4

(* A packet overwrites what the server knows of its keys; what it says last  *)
(* of a key that is up, those behind it say. *)
LEMMA HandleInputFollow ==
    ASSUME FollowInv, NEW i \in UnderWay, HandleInput(i)
    PROVE  FollowInv'
<1> USE DEF FollowInv
<1>1. TypeInv'
  BY HandleInputType
<1>2. /\ UNCHANGED <<windowVars, eventVars>> /\ UNCHANGED <<pc, read, running>>
      /\ UNCHANGED <<presses, releases, overrun>>
      /\ down' = (down \cup net[i].presses) \ net[i].releases
  BY DEF HandleInput, InputDataToInputComponent, clientVars, eventVars
<1>3. /\ VectorFollowed' /\ \A k : Coming(k)' <=> Coming(k)
      /\ \A k : Fresh(k)' <=> Fresh(k)
  BY <1>2, VectorKept
<1>4. /\ net \in Seq(InputData) /\ Len(net) \in Nat /\ faults \in Nat
      /\ i \in 1 .. Len(net) /\ net # <<>>
  BY DEF TypeInv, NetTypeOK, UnderWay
<1>5. QuietBefore'
  BY <1>2, <1>4 DEF QuietBefore
<1>6. ASSUME Undisturbed'
      PROVE  WayFollowed'
  <2>1. faults' = 0 /\ ~overrun
    BY <1>2, <1>6 DEF Undisturbed
  <2>2. ~Fault
    BY <1>4, <2>1 DEF Fault
  <2>3. i = 1 /\ net' = Tail(net) /\ faults = 0
    BY <2>1, <2>2 DEF HandleInput, Delivers, InOrder, Overtaking, Repeated
  <2>4. WayFollowed
    BY <2>1, <2>3 DEF Undisturbed
  <2>5. /\ Len(net') = Len(net) - 1
        /\ \A j \in 1 .. Len(net) - 1 : net'[j] = net[j + 1]
    BY <1>4, <2>3
  <2>6. ASSUME NEW k, NEW j \in 0 .. Len(net) - 1, Sent(k, j + 1)
        PROVE  Sent(k, j)'
    <3>1. PICK m \in 1 .. Len(net) : m > j + 1 /\ k \in net[m].releases
      BY <2>6 DEF Sent, UnderWay
    <3>2. m - 1 \in 1 .. Len(net') /\ m - 1 > j /\ net'[m - 1] = net[m]
      BY <1>4, <2>5, <3>1
    <3> QED
      BY <3>1, <3>2 DEF Sent, UnderWay
  <2>7. ListsFollowed'
    BY <1>2, <1>3, <2>4 DEF WayFollowed, ListsFollowed
  <2>8. ASSUME NEW j \in UnderWay', NEW k \in net'[j].presses \ net'[j].releases
        PROVE  Coming(k)' \/ Fresh(k)' \/ k \in releases' \/ Sent(k, j)'
    <3>1. j \in 0 .. Len(net) - 1 /\ j + 1 \in UnderWay /\ net'[j] = net[j + 1]
      BY <1>4, <2>5 DEF UnderWay
    <3>2. Coming(k) \/ Fresh(k) \/ k \in releases \/ Sent(k, j + 1)
      BY <2>4, <2>8, <3>1 DEF WayFollowed, NetFollowed
    <3> QED
      BY <1>2, <1>3, <2>6, <3>1, <3>2
  <2>9. NetFollowed'
    BY <2>8 DEF NetFollowed
  <2>10. ASSUME NEW k \in down'
         PROVE  Coming(k)' \/ Fresh(k)' \/ k \in releases' \/ Sent(k, 0)'
    <3>1. k \notin net[1].releases
      BY <1>2, <2>3, <2>10
    <3>2. 0 \in 0 .. Len(net) - 1
      BY <1>4
    <3>3. Coming(k) \/ Fresh(k) \/ k \in releases \/ Sent(k, 1)
      <4>1. CASE k \in down
        <5>1. Sent(k, 0) => Sent(k, 1)
          <6> SUFFICES ASSUME Sent(k, 0) PROVE Sent(k, 1)
            OBVIOUS
          <6>1. PICK m \in 1 .. Len(net) : k \in net[m].releases
            BY DEF Sent, UnderWay
          <6>2. m > 1
            BY <1>4, <3>1, <6>1
          <6> QED
            BY <6>1, <6>2 DEF Sent, UnderWay
        <5> QED
          BY <2>4, <4>1, <5>1 DEF WayFollowed, DownFollowed
      <4>2. CASE k \in net[1].presses
        BY <1>4, <2>4, <3>1, <4>2 DEF WayFollowed, NetFollowed, UnderWay
      <4> QED
        BY <1>2, <2>3, <2>10, <4>1, <4>2
    <3>4. Sent(k, 1) => Sent(k, 0)'
      BY <2>6, <3>2
    <3> QED
      BY <1>2, <1>3, <3>3, <3>4
  <2>11. DownFollowed'
    BY <2>10 DEF DownFollowed
  <2> QED
    BY <2>7, <2>9, <2>11 DEF WayFollowed
<1> QED
  BY <1>1, <1>3, <1>5, <1>6

(* After a fault nothing is promised. *)
LEMMA LoseFollow ==
    ASSUME FollowInv, NEW i \in UnderWay, Lose(i)
    PROVE  FollowInv'
<1> USE DEF FollowInv
<1>1. TypeInv'
  BY LoseType
<1>2. /\ UNCHANGED <<windowVars, eventVars>> /\ UNCHANGED <<pc, read, running>>
  BY DEF Lose, clientVars
<1>3. VectorFollowed'
  BY <1>2, VectorKept
<1>4. net # <<>> /\ faults \in Nat
  BY DEF TypeInv, NetTypeOK, UnderWay
<1>5. QuietBefore'
  BY <1>2, <1>4 DEF QuietBefore
<1>6. ~Undisturbed'
  BY <1>4 DEF Lose, Loses, Fault, Undisturbed
<1> QED
  BY <1>1, <1>3, <1>5, <1>6

(* The server's other steps, and no step at all. *)
LEMMA OthersFollow ==
    ASSUME FollowInv, Update \/ NoPacket \/ UNCHANGED vars
    PROVE  FollowInv'
<1> USE DEF FollowInv
<1>1. TypeInv'
  BY NextTypeInv DEF Next
<1>2. /\ UNCHANGED <<windowVars, eventVars>> /\ UNCHANGED <<pc, read, running>>
      /\ UNCHANGED <<presses, releases, net, faults, overrun, down>>
  BY DEF Update, NoPacket, vars, clientVars, netVars, serverVars, eventVars
<1>3. /\ VectorFollowed' /\ \A k : Coming(k)' <=> Coming(k)
      /\ \A k : Fresh(k)' <=> Fresh(k)
  BY <1>2, VectorKept
<1>4. QuietBefore'
  BY <1>2 DEF QuietBefore
<1>5. Undisturbed' => WayFollowed'
  BY <1>2, <1>3 DEF Undisturbed, WayFollowed, ListsFollowed, NetFollowed, DownFollowed, Sent, UnderWay
<1> QED
  BY <1>1, <1>3, <1>4, <1>5

LEMMA NextFollow ==
    ASSUME FollowInv, [Next]_vars
    PROVE  FollowInv'
<1>1. CASE \E k \in Keys : OnKey(k)
  BY <1>1, OnKeyFollow
<1>2. CASE Pushed
  BY <1>2, PushedFollow
<1>3. CASE ClientStep
  BY <1>3, ReadEventsFollow, ClearEventsFollow, SendInputFollow, OtherStepFollow DEF ClientStep
<1>4. CASE \E i \in UnderWay : Lose(i) \/ HandleInput(i)
  BY <1>4, LoseFollow, HandleInputFollow
<1>5. CASE Update \/ NoPacket \/ UNCHANGED vars
  BY <1>5, OthersFollow
<1> QED
  BY <1>1, <1>2, <1>3, <1>4, <1>5 DEF Next

(* The player does not walk on by itself: a key that is up on the keyboard   *)
(* is down on the server only as long as its release is on its way, unless a *)
(* packet was lost, repeated or reordered or clear() raced with onKey().     *)
THEOREM PlayersStop == Spec => []NeverStuck
<1>1. Init => FollowInv
  BY InitFollow
<1>2. FollowInv /\ [Next]_vars => FollowInv'
  BY NextFollow
<1>3. FollowInv => NeverStuck
  BY FollowImpliesNeverStuck
<1> QED
  BY <1>1, <1>2, <1>3, PTL DEF Spec

-----------------------------------------------------------------------------
(* KeysFollow of KeyInput, for every set of keys and number of events and     *)
(* faults: what is shown above of the keys that are up, here of those that   *)
(* are held.  Along the way every release is of a key that is up, has a press *)
(* behind it, or is of a key whose press the client did not tell.             *)

Press(k) == [key |-> k, press |-> TRUE]

(* The press is in onKey(), among the events still to read, or in a packet    *)
(* behind packet i. *)
Pressing(k) == pushing # NotPushing /\ pushing[1] = Press(k)
FreshPress(k) == \E j \in Start + 1 .. end : memory[j] = Press(k)
SentPress(k, i) == \E j \in UnderWay : j > i /\ k \in net[j].presses

Up(k) == k \notin held \/ Pressing(k)

(* Event j is the last of its key in the first n, and says how the key is. *)
Settles(j, n) == /\ \A m \in j + 1 .. n : memory[m].key # memory[j].key
                 /\ memory[j].press \/ Up(memory[j].key)

EventsSettle(n) ==
    \A i \in 1 .. n : \E j \in i .. n : memory[j].key = memory[i].key /\ Settles(j, n)

PushSettles == pushing # NotPushing =>
                 /\ EventsSettle(pushing[2])
                 /\ pushing[1].press \/ pushing[1].key \notin held

VectorSettles == EventsSettle(end) /\ PushSettles

(* The lists are those of one step, and of the running state. *)
ListsOfStep == pc = "events" \/ ~running => presses = {} /\ releases = {}

Behind(k) == Pressing(k) \/ FreshPress(k) \/ k \in hidden

ReleasesSettle == \A k \in releases \cap held : Behind(k)
NetSettles == \A i \in UnderWay : \A k \in net[i].releases \cap held :
                 Behind(k) \/ k \in presses \/ SentPress(k, i)
HeldSettles == \A k \in held \ down : Behind(k) \/ k \in presses \/ SentPress(k, 0)

WaySettles == ReleasesSettle /\ NetSettles /\ HeldSettles

SettleInv == /\ TypeInv
             /\ ListsOfStep
             /\ VectorSettles
             /\ Undisturbed => WaySettles

LEMMA SettleImpliesKeysFollow == SettleInv => KeysFollow
<1> SUFFICES ASSUME SettleInv, Undisturbed, NEW k \in held \ down
             PROVE  Pending(k, TRUE) \/ k \in hidden
  BY DEF KeysFollow
<1>1. Behind(k) \/ k \in presses \/ SentPress(k, 0)
  BY DEF SettleInv, WaySettles, HeldSettles
<1>2. CASE FreshPress(k)
  <2>1. Start \in Nat /\ end \in 0 .. Len(memory) /\ memory \in Seq(Events)
    BY DEF SettleInv, TypeInv, ClientTypeOK, EventsTypeOK, Start
  <2>2. PICK j \in Start + 1 .. end : memory[j] = Press(k)
    BY <1>2 DEF FreshPress
  <2>3. j \in DOMAIN Unread /\ Unread[j] = Press(k)
    BY <2>1, <2>2 DEF Unread
  <2>4. Unread[j].press = TRUE /\ Unread[j].key = k
    BY <2>3 DEF Press
  <2>5. k \in KeysOf(Unread, TRUE)
    BY <2>3, <2>4 DEF KeysOf
  <2> QED
    BY <2>5 DEF Pending
<1>3. CASE Pressing(k) \/ k \in hidden \/ k \in presses \/ SentPress(k, 0)
  BY <1>3 DEF Pressing, Press, SentPress, Pending
<1> QED
  BY <1>1, <1>2, <1>3 DEF Behind

LEMMA InitSettle == Init => SettleInv
<1> SUFFICES ASSUME Init PROVE SettleInv
  OBVIOUS
<1>1. TypeInv
  BY InitTypeInv
<1>2. ListsOfStep /\ VectorSettles
  BY DEF Init, ListsOfStep, VectorSettles, EventsSettle, PushSettles
<1>3. WaySettles
  BY DEF Init, NetInit, UnderWay, WaySettles, ReleasesSettle, NetSettles, HeldSettles
<1> QED
  BY <1>1, <1>2, <1>3 DEF SettleInv

(* A key goes down or up: if it is held now, its press is in onKey(). *)
LEMMA OnKeySettle ==
    ASSUME SettleInv, NEW k \in Keys, OnKey(k)
    PROVE  SettleInv'
<1> USE DEF SettleInv
<1>1. TypeInv'
  BY OnKeyType
<1>2. /\ UNCHANGED <<memory, end, overrun>>
      /\ UNCHANGED <<pc, read, running, presses, releases, hidden>>
      /\ UNCHANGED <<net, faults>> /\ UNCHANGED <<phase, down, icPresses>>
  BY DEF OnKey, eventVars, clientVars, netVars, serverVars
<1>3. /\ pushing = NotPushing /\ pushing' # NotPushing
      /\ pushing'[1] = [key |-> k, press |-> k \notin held] /\ pushing'[2] = end
  BY DEF OnKey, NotPushing
<1>4. ASSUME NEW l, l \in held'
      PROVE  (l \in held /\ l # k) \/ Pressing(l)'
  <2>1. CASE l = k
    <3>1. k \notin held
      BY <1>4, <2>1 DEF OnKey
    <3>2. pushing'[1] = Press(l)
      BY <1>3, <2>1, <3>1 DEF Press
    <3> QED
      BY <1>3, <3>2 DEF Pressing, Press
  <2>2. CASE l # k
    BY <1>4, <2>2 DEF OnKey
  <2> QED
    BY <2>1, <2>2
<1>5. \A l : Up(l) => Up(l)'
  BY <1>3, <1>4 DEF Up, Pressing
<1>6. \A l : Behind(l) => Behind(l)'
  BY <1>2, <1>3 DEF Behind, Pressing, FreshPress, Press, Start
<1>7. EventsSettle(end)'
  BY <1>2, <1>5 DEF VectorSettles, EventsSettle, Settles
<1>8. PushSettles'
  <2>1. EventsSettle(pushing[2])'
    BY <1>2, <1>3, <1>7 DEF EventsSettle, Settles
  <2>2. pushing'[1].press \/ pushing'[1].key \notin held'
    BY <1>3 DEF OnKey
  <2> QED
    BY <2>1, <2>2 DEF PushSettles
<1>9. ASSUME Undisturbed'
      PROVE  WaySettles'
  <2>1. WaySettles
    BY <1>2, <1>9 DEF Undisturbed
  <2>2. \A l, i : SentPress(l, i)' <=> SentPress(l, i)
    BY <1>2 DEF SentPress, UnderWay
  <2>3. \A l : Pressing(l)' => Behind(l)'
    BY DEF Behind
  <2>4. ReleasesSettle'
    BY <1>2, <1>4, <1>6, <2>1, <2>3 DEF WaySettles, ReleasesSettle
  <2>5. NetSettles'
    BY <1>2, <1>4, <1>6, <2>1, <2>2, <2>3 DEF WaySettles, NetSettles, UnderWay
  <2>6. HeldSettles'
    BY <1>2, <1>4, <1>6, <2>1, <2>2, <2>3 DEF WaySettles, HeldSettles
  <2> QED
    BY <2>4, <2>5, <2>6 DEF WaySettles
<1>10. ListsOfStep'
  BY <1>2 DEF ListsOfStep
<1> QED
  BY <1>1, <1>7, <1>8, <1>9, <1>10 DEF VectorSettles

(* The event of onKey() becomes the last of its key. *)
LEMMA PushedSettle ==
    ASSUME SettleInv, Pushed
    PROVE  SettleInv'
<1> USE DEF SettleInv
<1>1. TypeInv'
  BY PushedType
<1>2. /\ UNCHANGED <<held, occurred, overrun>>
      /\ UNCHANGED <<pc, read, running, presses, releases, hidden>>
      /\ UNCHANGED <<net, faults>> /\ UNCHANGED <<phase, down, icPresses>>
      /\ pushing # NotPushing /\ pushing' = NotPushing
  BY DEF Pushed, clientVars, netVars, serverVars
<1>3. /\ pushing[1] \in Events /\ pushing[2] \in 0 .. Len(memory)
      /\ memory' \in Seq(Events) /\ end' = pushing[2] + 1 /\ Len(memory') = end'
      /\ \A i \in 1 .. pushing[2] : memory'[i] = memory[i]
      /\ memory'[end'] = pushing[1]
  BY PushedMemory
<1>4. /\ end \in Nat /\ read \in Nat /\ (pushing[2] = end \/ end = 0)
      /\ (pc = "clear" => read <= end)
  BY <1>2 DEF TypeInv, EventsTypeOK, ClientTypeOK, PushesAtEnd, ReadWithin
<1>5. Start' = Start /\ Start \in Nat /\ Start <= end
  BY <1>2, <1>4 DEF Start
<1>6. ASSUME NEW k, Behind(k)
      PROVE  Behind(k)'
  <2>1. CASE Pressing(k)
    <3>1. end' \in Start' + 1 .. end' /\ memory'[end'] = Press(k)
      BY <1>3, <1>4, <1>5, <2>1 DEF Pressing
    <3> QED
      BY <3>1 DEF Behind, FreshPress, Press
  <2>2. CASE FreshPress(k)
    <3>1. PICK j \in Start + 1 .. end : memory[j] = Press(k)
      BY <2>2 DEF FreshPress
    <3>2. j \in Start' + 1 .. end' /\ memory'[j] = memory[j]
      BY <1>3, <1>4, <1>5, <3>1
    <3> QED
      BY <3>1, <3>2 DEF Behind, FreshPress, Press
  <2>3. CASE k \in hidden
    BY <1>2, <2>3 DEF Behind
  <2> QED
    BY <1>6, <2>1, <2>2, <2>3 DEF Behind
<1>7. ASSUME NEW i \in 1 .. end'
      PROVE  \E j \in i .. end' :
                /\ memory'[j].key = memory'[i].key
                /\ \A m \in j + 1 .. end' : memory'[m].key # memory'[j].key
                /\ memory'[j].press \/ memory'[j].key \notin held'
  <2>1. memory'[end'].press \/ memory'[end'].key \notin held'
    BY <1>2, <1>3 DEF VectorSettles, PushSettles
  <2>2. CASE memory'[i].key = memory'[end'].key
    <3>1. end' \in i .. end' /\ end' + 1 .. end' = {}
      BY <1>3
    <3> QED
      BY <2>1, <2>2, <3>1
  <2>3. CASE memory'[i].key # memory'[end'].key
    <3>1. i \in 1 .. pushing[2] /\ memory'[i] = memory[i]
      BY <1>3, <2>3
    <3>2. PICK j \in i .. pushing[2] :
             /\ memory[j].key = memory[i].key
             /\ \A m \in j + 1 .. pushing[2] : memory[m].key # memory[j].key
             /\ memory[j].press \/ Up(memory[j].key)
      BY <1>2, <3>1 DEF VectorSettles, PushSettles, EventsSettle, Settles
    <3>3. /\ j \in i .. end' /\ memory'[j] = memory[j]
          /\ \A m \in j + 1 .. end' : m = end' \/ (m \in j + 1 .. pushing[2]
                                                    /\ memory'[m] = memory[m])
      BY <1>3, <3>1
    <3>4. \A m \in j + 1 .. end' : memory'[m].key # memory'[j].key
      BY <2>3, <3>1, <3>2, <3>3
    <3>5. Up(memory[j].key) => memory[j].key \notin held'
      <4>1. pushing[1] # Press(memory[j].key)
        BY <1>3, <2>3, <3>1, <3>2 DEF Press
      <4> QED
        BY <1>2, <4>1 DEF Up, Pressing
    <3> QED
      BY <3>1, <3>2, <3>3, <3>4, <3>5
  <2> QED
    BY <2>2, <2>3
<1>8. VectorSettles'
  BY <1>2, <1>7 DEF VectorSettles, EventsSettle, Settles, PushSettles, Up
<1>9. ListsOfStep'
  BY <1>2 DEF ListsOfStep
<1>10. ASSUME Undisturbed'
       PROVE  WaySettles'
  <2>1. WaySettles
    BY <1>2, <1>10 DEF Undisturbed
  <2>2. \A k, i : SentPress(k, i)' <=> SentPress(k, i)
    BY <1>2 DEF SentPress, UnderWay
  <2>3. ReleasesSettle'
    BY <1>2, <1>6, <2>1 DEF WaySettles, ReleasesSettle
  <2>4. NetSettles'
    BY <1>2, <1>6, <2>1, <2>2 DEF WaySettles, NetSettles, UnderWay
  <2>5. HeldSettles'
    BY <1>2, <1>6, <2>1, <2>2 DEF WaySettles, HeldSettles
  <2> QED
    BY <2>3, <2>4, <2>5 DEF WaySettles
<1> QED
  BY <1>1, <1>8, <1>9, <1>10

(* What the loop reads of a key that is held ends with its press, unless that *)
(* is still in onKey(): the running state tells it if no release comes with   *)
(* it. *)
LEMMA ReadSettles ==
    ASSUME SettleInv, ReadEvents,
           NEW k \in held, k \in KeysOf(Unread, TRUE) \cup KeysOf(Unread, FALSE)
    PROVE  \/ Pressing(k)
           \/ k \in hidden'
           \/ running /\ k \in KeysOf(Unread, TRUE) /\ k \notin KeysOf(Unread, FALSE)
<1>1. /\ end \in Nat /\ DOMAIN Unread = 1 .. end /\ k \in Keys
      /\ \A i \in 1 .. end : Unread[i] = memory[i] /\ memory[i] \in Events
  BY DEF SettleInv, TypeInv, EventsTypeOK, WindowTypeOK, Unread
<1>2. PICK i \in 1 .. end : memory[i].key = k
  BY <1>1 DEF KeysOf
<1>3. PICK j \in i .. end : memory[j].key = k /\ Settles(j, end)
  BY <1>2 DEF SettleInv, VectorSettles, EventsSettle
<1>4. j \in 1 .. end
  BY <1>1, <1>2
<1>5. CASE ~memory[j].press
  BY <1>3, <1>5 DEF Settles, Up
<1>6. CASE memory[j].press
  <2>1. Unread[j] = [key |-> k, press |-> TRUE]
    <3>1. memory[j] \in Events /\ memory[j].key = k /\ memory[j].press = TRUE
      BY <1>1, <1>3, <1>4, <1>6 DEF Events
    <3> QED
      BY <1>1, <1>4, <3>1 DEF Events
  <2>2. \A m \in DOMAIN Unread : m > j => Unread[m].key # k
    <3>1. ASSUME NEW m \in 1 .. end, m > j
          PROVE  m \in j + 1 .. end
      BY <1>1, <1>4, <3>1
    <3> QED
      BY <1>1, <1>3, <3>1 DEF Settles
  <2>3. k \in LastPressed(Unread)
    BY <1>1, <1>4, <2>1, <2>2 DEF LastPressed
  <2>4. k \in KeysOf(Unread, TRUE)
    <3>1. j \in DOMAIN Unread /\ Unread[j].press = TRUE /\ Unread[j].key = k
      BY <1>1, <1>4, <2>1
    <3> QED
      BY <3>1 DEF KeysOf
  <2>5. Untold(Unread) \subseteq hidden'
    BY DEF ReadEvents
  <2> QED
    BY <1>1, <2>3, <2>4, <2>5 DEF Untold
<1> QED
  BY <1>5, <1>6

LEMMA ReadEventsSettle ==
    ASSUME SettleInv, ReadEvents
    PROVE  SettleInv'
<1> USE DEF SettleInv
<1>1. TypeInv'
  BY ReadEventsType
<1>2. /\ UNCHANGED <<held, occurred, pushing>> /\ UNCHANGED <<memory, end, overrun>>
      /\ UNCHANGED <<net, faults>> /\ UNCHANGED <<phase, down, icPresses>>
      /\ running' = running /\ read' = end /\ pc = "events" /\ pc' = "clear"
      /\ presses = {} /\ releases = {}
  BY DEF ReadEvents, At, windowVars, eventVars, netVars, serverVars, LoopEnd, ListsOfStep
<1> DEFINE ups == KeysOf(Unread, FALSE)
           downs == KeysOf(Unread, TRUE)
<1>3. /\ presses' = IF running THEN downs ELSE {}
      /\ releases' = IF running THEN ups ELSE {}
      /\ hidden \ (downs \cup ups) \subseteq hidden'
  BY <1>2 DEF ReadEvents
<1>4. ASSUME NEW k, FreshPress(k)
      PROVE  k \in downs
  <2>1. /\ end \in Nat /\ DOMAIN Unread = 1 .. end
        /\ \A i \in 1 .. end : Unread[i] = memory[i]
    BY DEF TypeInv, EventsTypeOK, Unread
  <2>2. Start = 0
    BY <1>2 DEF Start
  <2>3. PICK j \in Start + 1 .. end : memory[j] = Press(k)
    BY <1>4 DEF FreshPress
  <2>4. j \in DOMAIN Unread /\ Unread[j].press = TRUE /\ Unread[j].key = k
    BY <2>1, <2>2, <2>3 DEF Press
  <2> QED
    BY <2>4 DEF KeysOf
<1>5. ASSUME NEW k \in held, k \in downs \cup ups
      PROVE  Pressing(k) \/ k \in hidden' \/ (running /\ k \in downs /\ k \notin ups)
  BY <1>5, ReadSettles
<1> HIDE DEF ups, downs
<1>6. /\ \A k : Pressing(k)' <=> Pressing(k)
      /\ \A k, i : SentPress(k, i)' <=> SentPress(k, i)
  BY <1>2 DEF Pressing, Press, SentPress, UnderWay
<1>7. VectorSettles'
  BY <1>2, <1>6 DEF VectorSettles, EventsSettle, PushSettles, Settles, Up
<1>8. ListsOfStep'
  BY <1>2, <1>3 DEF ListsOfStep
<1>9. ASSUME NEW k \in held, Behind(k)
      PROVE  Behind(k)' \/ k \in presses'
  BY <1>3, <1>4, <1>5, <1>6, <1>9 DEF Behind
<1>10. ASSUME Undisturbed'
       PROVE  WaySettles'
  <2>1. WaySettles
    BY <1>2, <1>10 DEF Undisturbed
  <2>2. ReleasesSettle'
    BY <1>2, <1>3, <1>5, <1>6 DEF ReleasesSettle, Behind
  <2>3. NetSettles'
    BY <1>2, <1>6, <1>9, <2>1 DEF WaySettles, NetSettles, UnderWay
  <2>4. HeldSettles'
    BY <1>2, <1>6, <1>9, <2>1 DEF WaySettles, HeldSettles
  <2> QED
    BY <2>2, <2>3, <2>4 DEF WaySettles
<1> QED
  BY <1>1, <1>7, <1>8, <1>10

LEMMA ClearEventsSettle ==
    ASSUME SettleInv, ClearEvents
    PROVE  SettleInv'
<1> USE DEF SettleInv
<1>1. TypeInv'
  BY ClearEventsType
<1>2. /\ UNCHANGED <<held, occurred, pushing>> /\ UNCHANGED <<net, faults>>
      /\ UNCHANGED <<phase, down, icPresses>> /\ UNCHANGED memory
      /\ UNCHANGED <<read, running, presses, releases, hidden>>
      /\ end' = 0 /\ pc = "clear" /\ pc' = "send" /\ overrun' = (overrun \/ end # read)
  BY DEF ClearEvents, At, windowVars, netVars, serverVars
<1>3. /\ \A k : Pressing(k)' <=> Pressing(k)
      /\ \A k, i : SentPress(k, i)' <=> SentPress(k, i)
  BY <1>2 DEF Pressing, Press, SentPress, UnderWay
<1>4. ListsOfStep'
  BY <1>2 DEF ListsOfStep
<1>5. VectorSettles'
  <2>1. EventsSettle(end)'
    BY <1>2 DEF EventsSettle
  <2>2. PushSettles'
    BY <1>2, <1>3 DEF VectorSettles, PushSettles, EventsSettle, Settles, Up
  <2> QED
    BY <2>1, <2>2 DEF VectorSettles
<1>6. ASSUME Undisturbed'
      PROVE  WaySettles'
  <2>1. faults = 0 /\ ~overrun /\ end = read
    BY <1>2, <1>6 DEF Undisturbed
  <2>2. WaySettles
    BY <2>1 DEF Undisturbed
  <2>3. end \in Nat
    BY DEF TypeInv, EventsTypeOK
  <2>4. ASSUME NEW k
        PROVE  ~FreshPress(k)
    <3>1. Start = end
      BY <1>2, <2>1 DEF Start
    <3>2. Start + 1 .. end = {}
      BY <2>3, <3>1
    <3> QED
      BY <3>2 DEF FreshPress
  <2>5. \A k : Behind(k) => Behind(k)'
    BY <1>2, <1>3, <2>4 DEF Behind
  <2>6. ReleasesSettle'
    BY <1>2, <2>2, <2>5 DEF WaySettles, ReleasesSettle
  <2>7. NetSettles'
    BY <1>2, <1>3, <2>2, <2>5 DEF WaySettles, NetSettles, UnderWay
  <2>8. HeldSettles'
    BY <1>2, <1>3, <2>2, <2>5 DEF WaySettles, HeldSettles
  <2> QED
    BY <2>6, <2>7, <2>8 DEF WaySettles
<1> QED
  BY <1>1, <1>4, <1>5, <1>6

(* A step that leaves the window's thread and the vector alone, and does not *)
(* clear what the loop has read. *)
LEMMA VectorStays ==
    ASSUME SettleInv, UNCHANGED <<windowVars, eventVars>>, UNCHANGED <<read, hidden>>,
           pc' = pc \/ (pc = "send" /\ pc' = "events")
    PROVE  VectorSettles' /\ \A k : Behind(k)' <=> Behind(k)
<1>1. /\ UNCHANGED <<held, occurred, pushing>> /\ UNCHANGED <<memory, end, overrun>>
  BY DEF windowVars, eventVars
<1>2. Start' = Start
  BY DEF Start
<1>3. /\ \A k : Pressing(k)' <=> Pressing(k)
      /\ \A k : FreshPress(k)' <=> FreshPress(k)
  BY <1>1, <1>2 DEF Pressing, Press, FreshPress
<1> QED
  BY <1>1, <1>3 DEF SettleInv, VectorSettles, PushSettles, EventsSettle, Settles, Up, Behind

LEMMA SendInputSettle ==
    ASSUME SettleInv, SendInput
    PROVE  SettleInv'
<1> USE DEF SettleInv
<1>1. TypeInv'
  BY SendInputType
<1>2. /\ UNCHANGED <<windowVars, eventVars>> /\ UNCHANGED <<phase, down, icPresses>>
      /\ UNCHANGED <<held, read, running, hidden, faults, overrun>>
      /\ pc = "send" /\ pc' = "events" /\ running /\ presses' = {} /\ releases' = {}
      /\ net' = IF Told THEN Append(net, InputOf) ELSE net
  BY DEF SendInput, At, windowVars, eventVars, serverVars
<1>3. VectorSettles' /\ \A k : Behind(k)' <=> Behind(k)
  BY <1>2, VectorStays
<1>4. ListsOfStep'
  BY <1>2 DEF ListsOfStep
<1>5. net \in Seq(InputData) /\ Len(net) \in Nat
  BY DEF TypeInv, NetTypeOK
<1>6. ASSUME NEW i \in UnderWay
      PROVE  i \in UnderWay' /\ net'[i] = net[i]
  BY <1>2, <1>5 DEF UnderWay
<1>7. ASSUME NEW k, NEW i \in 0 .. Len(net), k \in presses \/ SentPress(k, i)
      PROVE  SentPress(k, i)'
  <2>1. CASE k \in presses
    <3>1. net' = Append(net, InputOf)
      BY <1>2, <2>1 DEF Told
    <3>2. /\ Len(net) + 1 \in UnderWay' /\ Len(net) + 1 > i
          /\ k \in net'[Len(net) + 1].presses
      BY <1>5, <2>1, <3>1 DEF UnderWay, InputOf
    <3> QED
      BY <3>2 DEF SentPress
  <2>2. CASE SentPress(k, i)
    BY <1>6, <2>2 DEF SentPress
  <2> QED
    BY <1>7, <2>1, <2>2
<1>8. ASSUME Undisturbed'
      PROVE  WaySettles'
  <2>1. WaySettles
    BY <1>2, <1>8 DEF Undisturbed
  <2>2. ReleasesSettle'
    BY <1>2 DEF ReleasesSettle
  <2>3. ASSUME NEW i \in UnderWay', NEW k \in net'[i].releases \cap held
        PROVE  Behind(k)' \/ SentPress(k, i)'
    <3>1. CASE i \in UnderWay
      <4>1. i \in 0 .. Len(net)
        BY <1>5, <3>1 DEF UnderWay
      <4>2. Behind(k) \/ k \in presses \/ SentPress(k, i)
        BY <1>6, <2>1, <2>3, <3>1 DEF WaySettles, NetSettles
      <4> QED
        BY <1>3, <1>7, <4>1, <4>2
    <3>2. CASE i \notin UnderWay
      <4>1. net' = Append(net, InputOf) /\ i = Len(net) + 1
        BY <1>2, <1>5, <3>2 DEF UnderWay
      <4>2. net'[i] = InputOf
        BY <1>5, <4>1
      <4>3. k \in releases \cap held
        BY <2>3, <4>2 DEF InputOf
      <4> QED
        BY <1>3, <2>1, <4>3 DEF WaySettles, ReleasesSettle
    <3> QED
      BY <3>1, <3>2
  <2>4. NetSettles'
    BY <1>2, <2>3 DEF NetSettles
  <2>5. HeldSettles'
    BY <1>2, <1>3, <1>5, <1>7, <2>1 DEF WaySettles, HeldSettles
  <2> QED
    BY <2>2, <2>4, <2>5 DEF WaySettles
<1> QED
  BY <1>1, <1>3, <1>4, <1>8

(* A packet overwrites what the server knows of its keys; what it says last  *)
(* of a key that is held, those behind it say. *)
LEMMA HandleInputSettle ==
    ASSUME SettleInv, NEW i \in UnderWay, HandleInput(i)
    PROVE  SettleInv'
<1> USE DEF SettleInv
<1>1. TypeInv'
  BY HandleInputType
<1>2. /\ UNCHANGED <<windowVars, eventVars>> /\ UNCHANGED <<pc, read, running, hidden>>
      /\ UNCHANGED <<presses, releases, overrun, held>>
      /\ down' = (down \cup net[i].presses) \ net[i].releases
  BY DEF HandleInput, InputDataToInputComponent, windowVars, clientVars, eventVars
<1>3. VectorSettles' /\ \A k : Behind(k)' <=> Behind(k)
  BY <1>2, VectorStays
<1>4. /\ net \in Seq(InputData) /\ Len(net) \in Nat /\ faults \in Nat
      /\ i \in 1 .. Len(net) /\ net # <<>>
  BY DEF TypeInv, NetTypeOK, UnderWay
<1>5. ListsOfStep'
  BY <1>2 DEF ListsOfStep
<1>6. ASSUME Undisturbed'
      PROVE  WaySettles'
  <2>1. faults' = 0 /\ ~overrun
    BY <1>2, <1>6 DEF Undisturbed
  <2>2. ~Fault
    BY <1>4, <2>1 DEF Fault
  <2>3. i = 1 /\ net' = Tail(net) /\ faults = 0
    BY <2>1, <2>2 DEF HandleInput, Delivers, InOrder, Overtaking, Repeated
  <2>4. WaySettles
    BY <2>1, <2>3 DEF Undisturbed
  <2>5. /\ Len(net') = Len(net) - 1
        /\ \A j \in 1 .. Len(net) - 1 : net'[j] = net[j + 1]
    BY <1>4, <2>3
  <2>6. ASSUME NEW k, NEW j \in 0 .. Len(net) - 1, SentPress(k, j + 1)
        PROVE  SentPress(k, j)'
    <3>1. PICK m \in 1 .. Len(net) : m > j + 1 /\ k \in net[m].presses
      BY <2>6 DEF SentPress, UnderWay
    <3>2. m - 1 \in 1 .. Len(net') /\ m - 1 > j /\ net'[m - 1] = net[m]
      BY <1>4, <2>5, <3>1
    <3> QED
      BY <3>1, <3>2 DEF SentPress, UnderWay
  <2>7. ReleasesSettle'
    BY <1>2, <1>3, <2>4 DEF WaySettles, ReleasesSettle
  <2>8. ASSUME NEW j \in UnderWay', NEW k \in net'[j].releases \cap held
        PROVE  Behind(k)' \/ k \in presses' \/ SentPress(k, j)'
    <3>1. j \in 0 .. Len(net) - 1 /\ j + 1 \in UnderWay /\ net'[j] = net[j + 1]
      BY <1>4, <2>5 DEF UnderWay
    <3>2. Behind(k) \/ k \in presses \/ SentPress(k, j + 1)
      BY <2>4, <2>8, <3>1 DEF WaySettles, NetSettles
    <3> QED
      BY <1>2, <1>3, <2>6, <3>1, <3>2
  <2>9. NetSettles'
    BY <1>2, <2>8 DEF NetSettles
  <2>10. ASSUME NEW k \in held \ down'
         PROVE  Behind(k)' \/ k \in presses' \/ SentPress(k, 0)'
    <3>1. 0 \in 0 .. Len(net) - 1 /\ 1 \in UnderWay
      BY <1>4 DEF UnderWay
    <3>2. Behind(k) \/ k \in presses \/ SentPress(k, 1)
      <4>1. CASE k \in net[1].releases
        BY <2>4, <3>1, <4>1 DEF WaySettles, NetSettles
      <4>2. CASE k \notin net[1].releases
        <5>1. k \notin down /\ k \notin net[1].presses
          BY <1>2, <2>3, <2>10, <4>2
        <5>2. SentPress(k, 0) => SentPress(k, 1)
          <6> SUFFICES ASSUME SentPress(k, 0) PROVE SentPress(k, 1)
            OBVIOUS
          <6>1. PICK m \in 1 .. Len(net) : k \in net[m].presses
            BY DEF SentPress, UnderWay
          <6>2. m > 1
            BY <1>4, <5>1, <6>1
          <6> QED
            BY <6>1, <6>2 DEF SentPress, UnderWay
        <5> QED
          BY <2>4, <5>1, <5>2 DEF WaySettles, HeldSettles
      <4> QED
        BY <4>1, <4>2
    <3>3. SentPress(k, 1) => SentPress(k, 0)'
      BY <2>6, <3>1
    <3> QED
      BY <1>2, <1>3, <3>2, <3>3
  <2>11. HeldSettles'
    BY <1>2, <2>10 DEF HeldSettles
  <2> QED
    BY <2>7, <2>9, <2>11 DEF WaySettles
<1> QED
  BY <1>1, <1>3, <1>5, <1>6

(* After a fault nothing is promised. *)
LEMMA LoseSettle ==
    ASSUME SettleInv, NEW i \in UnderWay, Lose(i)
    PROVE  SettleInv'
<1> USE DEF SettleInv
<1>1. TypeInv'
  BY LoseType
<1>2. /\ UNCHANGED <<windowVars, eventVars>>
      /\ UNCHANGED <<pc, read, running, hidden, presses, releases>>
  BY DEF Lose, clientVars
<1>3. VectorSettles' /\ ListsOfStep'
  BY <1>2, VectorStays DEF ListsOfStep
<1>4. ~Undisturbed'
  BY DEF Lose, Loses, Fault, Undisturbed, TypeInv, NetTypeOK
<1> QED
  BY <1>1, <1>3, <1>4

(* The steps that neither send nor handle anything, and no step at all. *)
LEMMA OthersSettle ==
    ASSUME SettleInv, OtherStep \/ Update \/ NoPacket \/ UNCHANGED vars
    PROVE  SettleInv'
<1> USE DEF SettleInv
<1>1. TypeInv'
  BY NextTypeInv DEF Next, ClientStep
<1>2. /\ UNCHANGED <<windowVars, eventVars>> /\ UNCHANGED <<read, hidden>>
      /\ UNCHANGED <<presses, releases, net, faults, overrun, down, held>>
  BY DEF OtherStep, Update, NoPacket, vars, windowVars, clientVars, netVars, serverVars, eventVars
<1>3. /\ pc' = pc \/ (pc = "send" /\ pc' = "events")
      /\ (pc' = pc /\ running' = running) \/ ~running
  BY DEF OtherStep, At, Update, NoPacket, vars, clientVars
<1>4. VectorSettles' /\ \A k : Behind(k)' <=> Behind(k)
  BY <1>2, <1>3, VectorStays
<1>5. ListsOfStep'
  BY <1>2, <1>3 DEF ListsOfStep
<1>6. Undisturbed' => WaySettles'
  BY <1>2, <1>4 DEF Undisturbed, WaySettles, ReleasesSettle, NetSettles, HeldSettles, SentPress,
                    UnderWay
<1> QED
  BY <1>1, <1>4, <1>5, <1>6

LEMMA NextSettle ==
    ASSUME SettleInv, [Next]_vars
    PROVE  SettleInv'
<1>1. CASE \E k \in Keys : OnKey(k)
  BY <1>1, OnKeySettle
<1>2. CASE Pushed
  BY <1>2, PushedSettle
<1>3. CASE ReadEvents \/ ClearEvents \/ SendInput
  BY <1>3, ReadEventsSettle, ClearEventsSettle, SendInputSettle
<1>4. CASE \E i \in UnderWay : Lose(i) \/ HandleInput(i)
  BY <1>4, LoseSettle, HandleInputSettle
<1>5. CASE OtherStep \/ Update \/ NoPacket \/ UNCHANGED vars
  BY <1>5, OthersSettle
<1> QED
  BY <1>1, <1>2, <1>3, <1>4, <1>5 DEF Next, ClientStep

(* A key that is held is down on the server once its press has arrived, but  *)
(* for the presses the client cannot tell, unless a packet was lost, repeated *)
(* or reordered or clear() raced with onKey().                               *)
THEOREM HeldKeysAct == Spec => []KeysFollow
<1>1. Init => SettleInv
  BY InitSettle
<1>2. SettleInv /\ [Next]_vars => SettleInv'
  BY NextSettle
<1>3. SettleInv => KeysFollow
  BY SettleImpliesKeysFollow
<1> QED
  BY <1>1, <1>2, <1>3, PTL DEF Spec
=============================================================================
